------------------------------- MODULE Memory -------------------------------
(***************************************************************************)
(* Physical pages and address spaces: kernel/kalloc.c, the user half of    *)
(* kernel/vm.c, kernel/exec.c, and what allocproc(), freeproc(), kfork(),  *)
(* growproc(), sys_exec() and sys_sbrk() do with them.                     *)
(*                                                                         *)
(* A page is as good as any other: the free list is a number, and a page   *)
(* table is the set of its page-table pages with, for each user address,   *)
(* the permissions of the page mapped there.  A function of the code is an *)
(* operator from a memory M to the memory it leaves: M.pt is the page      *)
(* table it works on, M.ret its result, 0 or FALSE for failure, and M.left *)
(* how many more kalloc() calls of this system call find a page.           *)
(* Processes on other harts take and free pages at any time, so any call   *)
(* may be the one that finds the list empty; with that a system call is    *)
(* one step.                                                               *)
(*                                                                         *)
(* Addresses count in units of which PGSIZE make a page; a page table has  *)
(* LEVELS levels of NPTE entries.                                          *)
(***************************************************************************)
EXTENDS Integers, Sequences, FiniteSets, FiniteSetsExt, Functions

CONSTANTS
  NPAGE,      \* pages of physical memory
  NPROC,      \* process table entries
  PGSIZE,     \* units in a page
  LEVELS,     \* levels of a page table
  NPTE,       \* entries of a page-table page
  U64,        \* range of a uint64
  USERSTACK,  \* pages of user stack
  Programs,   \* executables: sequences of segments
  MAXARG,     \* entries of argv
  Argvs,      \* argument vectors: where the entries and the strings are, and how many
              \* units of stack they will take
  Grows,      \* arguments of sbrk()
  Accesses    \* addresses a process or a system call uses

ASSUME MemoryAssumption ==
  /\ {NPAGE, NPROC, PGSIZE, LEVELS, NPTE, U64, USERSTACK} \subseteq Nat \ {0}
  /\ U64 > PGSIZE * NPTE^LEVELS

VARIABLES
  free,       \* length of kmem.freelist
  wrong,      \* a panic() was reached
  proc        \* [Procs]: state, parent, pagetable, trapframe, sz

Procs == 1..NPROC
init == 1

vars == <<free, wrong, proc>>

MAXVA == PGSIZE * NPTE^LEVELS
TRAMPOLINE == MAXVA - PGSIZE
TRAPFRAME == TRAMPOLINE - PGSIZE

PGROUNDUP(a) == ((a + PGSIZE - 1) \div PGSIZE) * PGSIZE
PGROUNDDOWN(a) == (a \div PGSIZE) * PGSIZE
PageStarts == {a \in 0..(MAXVA - 1) : a % PGSIZE = 0}

\* No page table, and one with a root alone.  A page-table page is its level and
\* its place there; an address without permissions has no page.
NoTable == [tables |-> {}, perm |-> [a \in PageStarts |-> {}]]
Empty == [NoTable EXCEPT !.tables = {<<LEVELS - 1, 0>>}]

\* The page-table pages that translate va.
Path(va) == {<<level, va \div (PGSIZE * NPTE^(level + 1))>> : level \in 0..(LEVELS - 1)}

\* The rest of a function, after a call that leaves the memory M.
Then(M, Rest(_)) == Rest(M)

-----------------------------------------------------------------------------
(* kalloc.c                                                                *)

kalloc(M) ==
  IF M.left = 0 THEN [M EXCEPT !.ret = FALSE]
                ELSE [M EXCEPT !.free = @ - 1, !.left = @ - 1, !.ret = TRUE]

\* kfree() of n pages.
kfree(M, n) == [M EXCEPT !.free = @ + n]

-----------------------------------------------------------------------------
(* vm.c                                                                    *)

\* walk(): whether va has a last-level entry.  Missing page-table pages are
\* allocated from the top down.
walk(M, va, alloc) ==
  LET missing == Path(va) \ M.pt.tables
      got == {t \in missing : Cardinality({u \in missing : u[1] > t[1]}) < M.left}
      n == Cardinality(got) IN
  IF va >= MAXVA THEN [M EXCEPT !.wrong = TRUE, !.ret = FALSE]
  ELSE IF ~alloc THEN [M EXCEPT !.ret = missing = {}]
  ELSE [M EXCEPT !.pt.tables = @ \cup got, !.free = @ - n, !.left = @ - n, !.ret = got = missing]

\* The permissions that walk() finds for va.
Perm(pt, va) == IF va >= MAXVA THEN {} ELSE pt.perm[PGROUNDDOWN(va)]

\* walkaddr(): whether the user may use va.
walkaddr(pt, va) == "U" \in Perm(pt, va)

\* mappages() of one page, as every caller here has it.
mappages(M, va, perm) ==
  Then(walk(M, va, TRUE), LAMBDA W :
    IF ~W.ret THEN W
    ELSE [W EXCEPT !.wrong = @ \/ Perm(W.pt, va) # {}, !.pt.perm[va] = perm])

uvmcreate(M) == LET K == kalloc(M) IN [K EXCEPT !.pt = IF K.ret THEN Empty ELSE NoTable]

\* uvmunmap() of the pages from va up to end.
uvmunmap(M, va, end, do_free) ==
  LET gone == {a \in PageStarts : va <= a /\ a < end /\ M.pt.perm[a] # {}}
      U == [M EXCEPT !.pt.perm = [a \in PageStarts |-> IF a \in gone THEN {} ELSE @[a]],
                     !.wrong = @ \/ end > MAXVA] IN
  IF do_free THEN kfree(U, Cardinality(gone)) ELSE U

\* Mutant: the page that newsz ends in goes too.
Above_Whole(newsz) == PGROUNDDOWN(newsz)

\* The first page that uvmdealloc() frees.
Above(newsz) == PGROUNDUP(newsz)

uvmdealloc(M, oldsz, newsz) ==
  IF newsz >= oldsz
    THEN [M EXCEPT !.ret = oldsz]
    ELSE [uvmunmap(M, Above(newsz), PGROUNDUP(oldsz), TRUE) EXCEPT !.ret = newsz]

\* The loop of uvmalloc(), from a on; a failure takes back what it did.
RECURSIVE Grow(_, _, _, _, _)
Grow(M, a, oldsz, newsz, xperm) ==
  LET Undo(N) == [uvmdealloc(N, a, oldsz) EXCEPT !.ret = 0] IN
  IF a >= newsz THEN [M EXCEPT !.ret = newsz]
  ELSE Then(kalloc(M), LAMBDA K :
    IF ~K.ret THEN Undo(M)
    ELSE Then(mappages(K, a, {"R", "U"} \cup xperm), LAMBDA P :
      IF ~P.ret THEN Undo(kfree(P, 1)) ELSE Grow(P, a + PGSIZE, oldsz, newsz, xperm)))

uvmalloc(M, oldsz, newsz, xperm) ==
  IF newsz < oldsz
    THEN [M EXCEPT !.ret = oldsz]
    ELSE Grow(M, PGROUNDUP(oldsz), PGROUNDUP(oldsz), newsz, xperm)

\* freewalk(): the pages must be unmapped by now.
freewalk(M) ==
  [kfree(M, Cardinality(M.pt.tables)) EXCEPT
     !.wrong = @ \/ \E a \in PageStarts : M.pt.perm[a] # {}, !.pt = NoTable]

uvmfree(M, sz) == freewalk(uvmunmap(M, 0, PGROUNDUP(sz), TRUE))

\* Mutant: what was copied before the failure stays mapped.
Uncopy_None(M, i) == M

\* The err: part of uvmcopy(), which fails at address i.
Uncopy(M, i) == uvmunmap(M, 0, i, TRUE)

\* Mutant: every page of the child is an ordinary one.
Flags_Plain(perm) == {"R", "W", "U"}

\* PTE_FLAGS()
Flags(perm) == perm

\* uvmcopy() from the page table old, from address i on.
RECURSIVE uvmcopy(_, _, _, _)
uvmcopy(M, old, i, sz) ==
  LET Err(N) == [Uncopy(N, i) EXCEPT !.ret = FALSE] IN
  IF i >= sz THEN [M EXCEPT !.ret = TRUE]
  ELSE IF Perm(old, i) = {} THEN uvmcopy(M, old, i + PGSIZE, sz)
  ELSE Then(kalloc(M), LAMBDA K :
    IF ~K.ret THEN Err(M)
    ELSE Then(mappages(K, i, Flags(Perm(old, i))), LAMBDA P :
      IF ~P.ret THEN Err(kfree(P, 1)) ELSE uvmcopy(P, old, i + PGSIZE, sz)))

uvmclear(M, va) ==
  [M EXCEPT !.wrong = @ \/ ~walk(M, va, FALSE).ret, !.pt.perm[va] = @ \ {"U"}]

\* Mutant: an address is valid up to the end of the page that sz is in.
Valid_Round(va, sz) == va < PGROUNDUP(sz + 1)

\* The test of vmfault() on the address.
Valid(va, sz) == va < sz

\* vmfault(): a page for an address that sbrk() only promised.
vmfault(M, va, sz) ==
  LET a == PGROUNDDOWN(va)
      Fail(N) == [N EXCEPT !.ret = FALSE] IN
  IF ~Valid(va, sz) \/ Perm(M.pt, a) # {} THEN Fail(M)
  ELSE Then(kalloc(M), LAMBDA K :
    IF ~K.ret THEN Fail(M)
    ELSE Then(mappages(K, a, {"R", "W", "U"}), LAMBDA P :
      IF ~P.ret THEN Fail(kfree(P, 1)) ELSE P))

\* copyout() and copyin(), of the bytes from va up to end: a page at a time, each
\* faulted in if need be.  Only copyout() looks for PTE_W.
RECURSIVE copy(_, _, _, _, _)
copy(M, va, end, sz, out) ==
  LET va0 == PGROUNDDOWN(va)
      V == IF walkaddr(M.pt, va0) THEN [M EXCEPT !.ret = TRUE] ELSE vmfault(M, va0, sz) IN
  IF va >= end THEN [M EXCEPT !.ret = TRUE]
  ELSE Then(V, LAMBDA N :
    IF ~N.ret \/ (out /\ "W" \notin Perm(N.pt, va0)) THEN [N EXCEPT !.ret = FALSE]
    ELSE copy(N, va0 + PGSIZE, end, sz, out))

copyout(M, va, end, sz) == copy(M, va, end, sz, TRUE)
copyin(M, va, end, sz) == copy(M, va, end, sz, FALSE)

\* copyinstr(), which does not fault pages in: whether the string can be read.
copyinstr(pt, str) == \A a \in str.va..(str.va + str.len - 1) : walkaddr(pt, a)

-----------------------------------------------------------------------------
(* proc.c and exec.c                                                       *)

proc_pagetable(M) ==
  LET Fail(N) == [uvmfree(N, 0) EXCEPT !.ret = FALSE] IN
  Then(uvmcreate(M), LAMBDA C :
    IF ~C.ret THEN C
    ELSE Then(mappages(C, TRAMPOLINE, {"R", "X"}), LAMBDA T :
      IF ~T.ret THEN Fail(T)
      ELSE Then(mappages(T, TRAPFRAME, {"R", "W"}), LAMBDA F :
        IF ~F.ret THEN Fail(uvmunmap(F, TRAMPOLINE, MAXVA, FALSE)) ELSE F)))

proc_freepagetable(M, sz) ==
  uvmfree(uvmunmap(uvmunmap(M, TRAMPOLINE, MAXVA, FALSE), TRAPFRAME, TRAMPOLINE, FALSE), sz)

\* The same for a page table of its own.
Free(M, pagetable, sz) == proc_freepagetable([M EXCEPT !.pt = pagetable], sz)

Unused == [state |-> "UNUSED", parent |-> 0, pagetable |-> NoTable, trapframe |-> FALSE, sz |-> 0]

\* freeproc() of a process, which is Unused then.
freeproc(M, p) ==
  LET T == IF p.trapframe THEN kfree(M, 1) ELSE M IN
  IF p.pagetable # NoTable THEN Free(T, p.pagetable, p.sz) ELSE T

\* allocproc() of a free slot: the process in M.ret, or Unused if it fails.
allocproc(M) ==
  Then(kalloc(M), LAMBDA K :
    LET new == [Unused EXCEPT !.state = "USED", !.trapframe = K.ret]
        Fail(N) == [freeproc(N, new) EXCEPT !.ret = Unused] IN
    IF ~K.ret THEN Fail(K)
    ELSE Then(proc_pagetable(K), LAMBDA P :
      IF ~P.ret THEN Fail(P) ELSE [P EXCEPT !.ret = [new EXCEPT !.pagetable = P.pt]]))

\* growproc(): the result is the new size, or -1.
growproc(M, sz, n) ==
  LET to == (sz + n) % U64 IN
  CASE n > 0 /\ sz + n > TRAPFRAME -> [M EXCEPT !.ret = -1]
    [] n > 0 /\ sz + n <= TRAPFRAME ->
         Then(uvmalloc(M, sz, to, {"W"}), LAMBDA A : IF A.ret = 0 THEN [A EXCEPT !.ret = -1] ELSE A)
    [] n < 0 -> uvmdealloc(M, sz, to)
    [] n = 0 -> [M EXCEPT !.ret = sz]

\* loadseg() panics unless the pages of the segment are there.
loadseg(M, seg) ==
  [M EXCEPT !.wrong = @ \/ \E i \in 0..(seg.filesz - 1) : ~walkaddr(M.pt, seg.vaddr + i)]

\* ph.vaddr + ph.memsz < ph.vaddr
Overflows(seg) == (seg.vaddr + seg.memsz) % U64 < seg.vaddr

\* The load loop of kexec(), from segment i on, with sz so far.  The result is the
\* size and whether all went well; unread is the segment whose readi() fails.
RECURSIVE Load(_, _, _, _, _)
Load(M, prog, i, sz, unread) ==
  LET seg == prog[i]
      End(N, size, ok) == [N EXCEPT !.ret = [sz |-> size, ok |-> ok]] IN
  IF i > Len(prog) THEN End(M, sz, TRUE)
  ELSE IF seg.memsz < seg.filesz \/ Overflows(seg) \/ seg.vaddr % PGSIZE # 0 THEN End(M, sz, FALSE)
  ELSE Then(uvmalloc(M, sz, (seg.vaddr + seg.memsz) % U64, seg.perm), LAMBDA A :
    IF A.ret = 0 THEN End(A, sz, FALSE)
    ELSE IF unread = i THEN End(loadseg(A, seg), A.ret, FALSE)
    ELSE Load(loadseg(A, seg), prog, i + 1, A.ret, unread))

\* kexec() once the ELF header is read: whether it succeeds, and the process it
\* leaves, which is the old one if it fails.  The arguments take stack units.
kexec(M, p, prog, stack, unread) ==
  LET Bad(X, sz) == [proc_freepagetable(X, sz) EXCEPT !.ret = [ok |-> FALSE, proc |-> p]] IN
  Then(proc_pagetable(M), LAMBDA N :
    IF ~N.ret THEN [N EXCEPT !.ret = [ok |-> FALSE, proc |-> p]]
    ELSE Then(Load(N, prog, 1, 0, unread), LAMBDA L :
      LET base == PGROUNDUP(L.ret.sz)
          top == base + (USERSTACK + 1) * PGSIZE IN
      IF ~L.ret.ok THEN Bad(L, L.ret.sz)
      ELSE Then(uvmalloc(L, base, top, {"W"}), LAMBDA S :
        IF S.ret = 0 THEN Bad(S, base)
        ELSE Then(uvmclear(S, top - (USERSTACK + 1) * PGSIZE), LAMBDA G :
          IF stack > USERSTACK * PGSIZE THEN Bad(G, top)
          ELSE Then(copyout(G, top - stack, top, p.sz), LAMBDA C :
            IF ~C.ret THEN Bad(C, top)
            ELSE [Free(C, p.pagetable, p.sz) EXCEPT
                    !.ret = [ok |-> TRUE, proc |-> [p EXCEPT !.pagetable = C.pt, !.sz = top]]])))))

\* fetchaddr()
fetchaddr(M, va, sz) == IF va >= sz THEN [M EXCEPT !.ret = FALSE] ELSE copyin(M, va, va + 1, sz)

\* The loop of sys_exec() from entry i of the vector on, which puts every string in a
\* page of its own: whether it succeeds, and how many pages there are.
RECURSIVE Fetch(_, _, _, _)
Fetch(M, argv, i, sz) ==
  LET End(N, n, ok) == [N EXCEPT !.ret = [ok |-> ok, pages |-> n]] IN
  IF i > MAXARG THEN End(M, i - 1, FALSE)
  ELSE Then(fetchaddr(M, argv.ptrs[i], sz), LAMBDA A :
    IF ~A.ret THEN End(A, i - 1, FALSE)
    ELSE IF i > Len(argv.strs) THEN End(A, i - 1, TRUE)
    ELSE Then(kalloc(A), LAMBDA K :
      IF ~K.ret THEN End(K, i - 1, FALSE)
      ELSE IF ~copyinstr(K.pt, argv.strs[i]) THEN End(K, i, FALSE)
      ELSE Fetch(K, argv, i + 1, sz)))

\* exec() by p: fetch the arguments, which may fault pages of p in, exec, and give the
\* pages of the arguments back either way.
Exec(M, p, prog, argv, unread) ==
  Then(Fetch(M, argv, 1, p.sz), LAMBDA F :
    LET q == [p EXCEPT !.pagetable = F.pt]
        K == IF F.ret.ok THEN kexec([F EXCEPT !.pt = NoTable], q, prog, argv.stack, unread)
                         ELSE [F EXCEPT !.ret = [ok |-> FALSE, proc |-> q]] IN
    kfree(K, F.ret.pages))

\* kfork() by p with a free slot: the child, or Unused if it fails.
kfork(M, p) ==
  Then(allocproc(M), LAMBDA A :
    IF A.ret = Unused THEN A
    ELSE Then(uvmcopy(A, p.pagetable, 0, p.sz), LAMBDA C :
      IF ~C.ret THEN [freeproc(C, [A.ret EXCEPT !.pagetable = C.pt]) EXCEPT !.ret = Unused]
      ELSE [C EXCEPT !.ret = [A.ret EXCEPT !.pagetable = C.pt, !.sz = p.sz, !.state = "RUNNABLE"]]))

-----------------------------------------------------------------------------
(* The system                                                              *)

\* The memories a system call that works on pagetable may leave, by the kalloc()
\* that finds no page.
Outcomes(pagetable, Call(_)) ==
  {[Call([free |-> free, wrong |-> wrong, pt |-> pagetable, left |-> left, ret |-> 0])
      EXCEPT !.left = 0] : left \in 0..free}

Becomes(M) == free' = M.free /\ wrong' = M.wrong

\* kinit(), userinit() and the exec of init in forkret(), which has the memory for
\* itself: all pages are free but those of the first process.
Init ==
  LET A == allocproc([free |-> NPAGE, wrong |-> FALSE, pt |-> NoTable, left |-> NPAGE, ret |-> 0]) IN
  \E prog \in Programs :
    LET M == kexec([A EXCEPT !.pt = NoTable], [A.ret EXCEPT !.state = "RUNNABLE"], prog, 1, 0) IN
    /\ M.ret.ok
    /\ free = M.free /\ wrong = M.wrong
    /\ proc = [p \in Procs |-> IF p = init THEN M.ret.proc ELSE Unused]

Runs(p) == proc[p].state = "RUNNABLE"

sys_fork(p) ==
  LET slots == {q \in Procs : proc[q].state = "UNUSED"} IN
  /\ Runs(p) /\ slots # {}
  /\ \E M \in Outcomes(NoTable, LAMBDA N : kfork(N, proc[p])) :
       /\ Becomes(M)
       /\ proc' = IF M.ret = Unused THEN proc
                  ELSE [proc EXCEPT ![Min(slots)] = [M.ret EXCEPT !.parent = p]]

\* What an exec() by p may leave.  One whose path can not be read or names no program
\* does nothing.
Execs(p) ==
  UNION {Outcomes(proc[p].pagetable, LAMBDA N : Exec(N, proc[p], prog, argv, unread)) :
           prog \in Programs, argv \in Argvs, unread \in {0, 1}}

Leaves(p, M) == Becomes(M) /\ proc' = [proc EXCEPT ![p] = M.ret.proc]

sys_exec(p) == Runs(p) /\ \E M \in Execs(p) : Leaves(p, M)

\* sbrk(n) with memory at once, or when it shrinks.
sys_sbrk_eager(p, n) ==
  /\ Runs(p)
  /\ \E M \in Outcomes(proc[p].pagetable, LAMBDA N : growproc(N, proc[p].sz, n)) :
       /\ Becomes(M)
       /\ proc' = [proc EXCEPT ![p].sz = IF M.ret = -1 THEN @ ELSE M.ret, ![p].pagetable = M.pt]

Promise(sz, n) == sz + n <= TRAPFRAME

sys_sbrk_lazy(p, n) ==
  /\ Runs(p) /\ n >= 0
  /\ Promise(proc[p].sz, n)
  /\ proc' = [proc EXCEPT ![p].sz = @ + n]
  /\ UNCHANGED <<free, wrong>>

\* kexit(): the children go to init; the parent will free the memory.
Exited(p) ==
  [q \in Procs |-> CASE q = p -> [proc[q] EXCEPT !.state = "ZOMBIE"]
                     [] q # p /\ proc[q].parent = p -> [proc[q] EXCEPT !.parent = init]
                     [] OTHER -> proc[q]]

kexit(p) ==
  /\ Runs(p) /\ p # init
  /\ proc' = Exited(p)
  /\ UNCHANGED <<free, wrong>>

\* A page fault in user code: vmfault(), or the process is killed and exits, which
\* init does not.
usertrap_fault(p, va) ==
  /\ Runs(p) /\ ~walkaddr(proc[p].pagetable, va)
  /\ \E M \in Outcomes(proc[p].pagetable, LAMBDA N : vmfault(N, va, proc[p].sz)) :
       /\ p # init \/ M.ret
       /\ Becomes(M)
       /\ proc' = IF M.ret THEN [proc EXCEPT ![p].pagetable = M.pt]
                  ELSE [Exited(p) EXCEPT ![p].pagetable = M.pt]

\* kwait(): the status is copied out, to address 0 not at all, before the child
\* is freed.
kwait(p, va) ==
  \E q \in Procs :
    /\ Runs(p) /\ proc[q].parent = p /\ proc[q].state = "ZOMBIE"
    /\ \E C \in Outcomes(proc[p].pagetable, LAMBDA N :
             IF va = 0 THEN [N EXCEPT !.ret = TRUE] ELSE copyout(N, va, va + 1, proc[p].sz)) :
         IF C.ret
           THEN /\ Becomes(freeproc(C, proc[q]))
                /\ proc' = [proc EXCEPT ![q] = Unused, ![p].pagetable = C.pt]
           ELSE Becomes(C) /\ proc' = [proc EXCEPT ![p].pagetable = C.pt]

\* Any system call that copies to or from user memory.
syscall_copyout(p, va) ==
  /\ Runs(p)
  /\ \E M \in Outcomes(proc[p].pagetable, LAMBDA N : copyout(N, va, va + PGSIZE, proc[p].sz)) :
       Becomes(M) /\ proc' = [proc EXCEPT ![p].pagetable = M.pt]

syscall_copyin(p, va) ==
  /\ Runs(p)
  /\ \E M \in Outcomes(proc[p].pagetable, LAMBDA N : copyin(N, va, va + PGSIZE, proc[p].sz)) :
       Becomes(M) /\ proc' = [proc EXCEPT ![p].pagetable = M.pt]

Next ==
  \E p \in Procs :
    \/ sys_fork(p) \/ sys_exec(p) \/ kexit(p)
    \/ \E n \in Grows : sys_sbrk_eager(p, n) \/ sys_sbrk_lazy(p, n)
    \/ \E va \in Accesses :
         \/ usertrap_fault(p, va) \/ kwait(p, va)
         \/ syscall_copyout(p, va) \/ syscall_copyin(p, va)

Spec == Init /\ [][Next]_vars

-----------------------------------------------------------------------------
(* Properties                                                              *)

TypeOK ==
  /\ free \in Nat /\ wrong \in BOOLEAN
  /\ \A p \in Procs :
       /\ proc[p].state \in {"UNUSED", "RUNNABLE", "ZOMBIE"}
       /\ proc[p].parent \in 0..NPROC /\ proc[p].trapframe \in BOOLEAN
       /\ proc[p].sz \in 0..TRAPFRAME
       /\ proc[p].pagetable.tables \subseteq UNION {Path(va) : va \in PageStarts}
       /\ proc[p].pagetable.perm \in [PageStarts -> SUBSET {"R", "W", "X", "U"}]

Live == {p \in Procs : proc[p].state # "UNUSED"}

\* The pages of user memory a process has.
Mapped(pt) == {va \in PageStarts : va < TRAPFRAME /\ pt.perm[va] # {}}

\* Every page is free or is one process's trapframe, page table or memory, whichever
\* calls fail for want of memory and wherever in their work: none leaks and none is
\* freed twice.
PagesAccounted ==
  free + SumFunction([p \in Live |-> 1 + Cardinality(proc[p].pagetable.tables)
                                        + Cardinality(Mapped(proc[p].pagetable))]) = NPAGE

\* No page is mapped over another, none is left behind in a page table that is
\* freed, and no address is looked up beyond MAXVA: the panics of walk(), mappages(),
\* freewalk(), uvmclear() and loadseg() are not reached.
NoPanic == ~wrong

\* A process has no memory beyond its size, the page table pages that translate
\* what it has, and the trampoline and the trapframe out of the user's reach.
ImageWithinSize ==
  \A p \in Live :
    LET pt == proc[p].pagetable IN
    /\ \A va \in Mapped(pt) : va < proc[p].sz /\ Path(va) \subseteq pt.tables
    /\ pt.perm[TRAMPOLINE] = {"R", "X"} /\ pt.perm[TRAPFRAME] = {"R", "W"}

\* Memory below the size stays, through sbrk() up and down and through calls that
\* fail, exec() included, which has built a new image and fetched its arguments by
\* then.  Only an exec() that succeeds replaces it.
MemoryKept ==
  [][\A p \in Live :
       LET old == proc[p].pagetable
           new == proc'[p].pagetable IN
       \/ p \notin Live'
       \/ \A va \in Mapped(old) : va < proc'[p].sz => new.perm[va] = old.perm[va]
       \/ \E M \in Execs(p) : M.ret.ok /\ Leaves(p, M)]_vars

\* fork() gives the child what the parent has: the same pages with the same
\* permissions, the guard page and the pages not yet touched included.
ForkCopies ==
  [][\A q \in Procs : (q \notin Live /\ q \in Live') =>
       LET p == proc'[q].parent IN
       /\ proc'[q].sz = proc[p].sz
       /\ proc'[q].pagetable.perm = proc[p].pagetable.perm]_vars

\* Every address space is in order after every call, failed ones included, and no
\* call found one that was not.
SpacesSound == TypeOK /\ NoPanic /\ ImageWithinSize
=============================================================================
