----------------------------- MODULE FileSystem -----------------------------
(***************************************************************************)
(* Inodes, directories and paths (kernel/fs.c), and the system calls that  *)
(* name, make and remove files (kernel/sysfile.c, file.c).  The log is     *)
(* what AtomicDisk says it is: the operations between two moments without  *)
(* an operation under way become durable together.                         *)
(*                                                                         *)
(* A step of a process goes from one point where it waits for a sleep-lock *)
(* or takes itable.lock to the next.  What it does in between is an        *)
(* operator from a file system F to the one it leaves, with its result in  *)
(* F.ret.  A block is as good as any other, so the bitmap is a number, and *)
(* of a file's contents only the size is kept.  A directory is its entries,*)
(* an entry one unit of size.  Inode i has its own place in the inode      *)
(* table, which is therefore never full.                                   *)
(***************************************************************************)
EXTENDS Integers, Sequences, FiniteSets, FiniteSetsExt, Functions, SequencesExt

CONSTANTS
  NINODES,    \* sb.ninodes - 1: inodes on the disk
  NBLOCKS,    \* data blocks
  BSIZE,      \* units in a block
  NDIRECT,    \* direct blocks of an inode
  NINDIRECT,  \* entries of an indirect block
  Procs,      \* processes
  NoProc,     \* nobody
  GROUP,      \* operations that fit in the log
  Calls,      \* [Procs]: the system calls with a path that a process makes
  Writes      \* sizes of a write()

ASSUME FileSystemAssumption ==
  /\ {NINODES, NBLOCKS, BSIZE, GROUP} \subseteq Nat \ {0} /\ {NDIRECT, NINDIRECT} \subseteq Nat
  /\ IsFiniteSet(Procs) /\ NoProc \notin Procs
  /\ BSIZE >= 2 /\ NDIRECT >= 1 /\ Writes \subseteq Nat

VARIABLES
  disk,       \* [Inums]: the dinode: type, nlink, size, and its blocks
  dirs,       \* [Inums]: the entries of a directory
  nfree,      \* free blocks
  itab,       \* [Inums]: itable: ref, valid, lock, and the copy of the dinode
  proc,       \* [Procs]: where a process is, its locals, cwd and open file
  outstanding,  \* log.outstanding
  begun,      \* operations since the last commit
  durable,    \* what a crash goes back to
  booting,    \* the inode that ireclaim() is at, 0 once fsinit() is done
  panicked,   \* who reached a panic(), or NoProc
  stray       \* history: inodes in use that nothing will free any more (see Properties)

Inums == 1..NINODES
ROOTINO == 1
MAXFILE == NDIRECT + NINDIRECT

vars == <<disk, dirs, nfree, itab, proc, outstanding, begun, durable, booting, panicked, stray>>

\* Blocks: n data blocks, and whether there is an indirect block.
NoInode == [type |-> "none", nlink |-> 0, size |-> 0, n |-> 0, ind |-> FALSE]
Uncached == [ref |-> 0, valid |-> FALSE, lock |-> NoProc, ino |-> NoInode]

Entry(name, inum) == [name |-> name, inum |-> inum]
NoEntry == Entry("", 0)

FS == [disk |-> disk, dirs |-> dirs, nfree |-> nfree, itab |-> itab,
       panicked |-> panicked, stray |-> stray, ret |-> 0]

Becomes(F) ==
  /\ disk' = F.disk /\ dirs' = F.dirs /\ nfree' = F.nfree /\ itab' = F.itab
  /\ panicked' = F.panicked /\ stray' = F.stray

\* The rest of a function, after a call that leaves F.
Then(F, Rest(_)) == Rest(F)

-----------------------------------------------------------------------------
(* Blocks and inodes (fs.c)                                                *)

\* balloc(): whether there is a block.
balloc(F) == IF F.nfree = 0 THEN [F EXCEPT !.ret = FALSE]
                            ELSE [F EXCEPT !.nfree = @ - 1, !.ret = TRUE]

\* bmap(): block bn of inode i, which is at most its next one, allocated if need be.
bmap(F, i, bn) ==
  LET Indirect == IF bn < NDIRECT \/ F.itab[i].ino.ind THEN [F EXCEPT !.ret = TRUE]
                  ELSE LET A == balloc(F) IN [A EXCEPT !.itab[i].ino.ind = A.ret] IN
  IF bn < F.itab[i].ino.n THEN [F EXCEPT !.ret = TRUE]
  ELSE Then(Indirect, LAMBDA X :
    Then(balloc(X), LAMBDA B :
      IF ~X.ret \/ ~B.ret THEN [X EXCEPT !.ret = FALSE]
      ELSE [B EXCEPT !.itab[i].ino.n = @ + 1]))

iupdate(F, i) == [F EXCEPT !.disk[i] = F.itab[i].ino]

Blocks(ino) == ino.n + (IF ino.ind THEN 1 ELSE 0)

\* The blocks that itrunc() gives to bfree().
Freed(ino) == Blocks(ino)

itrunc(F, i) ==
  iupdate([F EXCEPT !.nfree = @ + Freed(F.itab[i].ino), !.dirs[i] = <<>>,
                    !.itab[i].ino.size = 0, !.itab[i].ino.n = 0, !.itab[i].ino.ind = FALSE], i)

\* The loop of writei(): a block at a time, until there is no block or the source can
\* not be copied from, which is at lim.
RECURSIVE WriteBlocks(_, _, _, _, _)
WriteBlocks(F, i, off, end, lim) ==
  LET m == Min({end - off, BSIZE - (off % BSIZE)}) IN
  IF off = end THEN [F EXCEPT !.ret = off]
  ELSE Then(bmap(F, i, off \div BSIZE), LAMBDA B :
    IF ~B.ret \/ off + m > lim THEN [B EXCEPT !.ret = off] ELSE WriteBlocks(B, i, off + m, end, lim))

\* writei() from a source of which good units are readable: the result is how much was
\* written, or -1.
writei(F, i, off, n, good) ==
  IF off > F.itab[i].ino.size \/ off + n > MAXFILE * BSIZE
    THEN [F EXCEPT !.ret = -1]
    ELSE Then(WriteBlocks(F, i, off, off + n, off + good), LAMBDA W :
      [iupdate([W EXCEPT !.itab[i].ino.size = Max({@, W.ret})], i) EXCEPT !.ret = W.ret - off])

\* ialloc(): the first free inode on the disk, with a reference, or 0.
iget(F, i) == [F EXCEPT !.itab[i].ref = @ + 1, !.ret = i]

ialloc(F, type) ==
  LET unused == {i \in Inums : F.disk[i].type = "none"} IN
  IF unused = {} THEN [F EXCEPT !.ret = 0]
  ELSE iget([F EXCEPT !.disk[Min(unused)] = [NoInode EXCEPT !.type = type]], Min(unused))

\* ilock(), when the lock is to be had: the inode is read in if it has to be.
ilock(F, i, p) ==
  IF F.itab[i].valid
    THEN [F EXCEPT !.itab[i].lock = p]
    ELSE [F EXCEPT !.itab[i].lock = p, !.itab[i].valid = TRUE, !.itab[i].ino = F.disk[i],
                   !.panicked = IF F.disk[i].type = "none" THEN p ELSE @]

iunlock(F, i) == [F EXCEPT !.itab[i].lock = NoProc]

Unlocked(i) == itab[i].lock = NoProc

\* ip->ref--; an entry of the table without references is as good as new.
Unref(F, i) == IF F.itab[i].ref = 1 THEN [F EXCEPT !.itab[i] = Uncached]
                                    ELSE [F EXCEPT !.itab[i].ref = @ - 1]

-----------------------------------------------------------------------------
(* Directories (fs.c)                                                      *)

Named(F, d, name) == {k \in DOMAIN F.dirs[d] : F.dirs[d][k].inum # 0 /\ F.dirs[d][k].name = name}

\* dirlookup(): the inode with a reference, or 0.
dirlookup(F, d, name) ==
  IF Named(F, d, name) = {} THEN [F EXCEPT !.ret = 0]
  ELSE iget(F, F.dirs[d][Min(Named(F, d, name))].inum)

\* dirlink(): write the entry in the first empty place; whether it succeeds.
dirlink(F, d, name, inum) ==
  LET empty == {k \in DOMAIN F.dirs[d] : F.dirs[d][k].inum = 0}
      k == IF empty = {} THEN Len(F.dirs[d]) + 1 ELSE Min(empty) IN
  IF Named(F, d, name) # {} THEN [F EXCEPT !.ret = FALSE]
  ELSE Then(writei(F, d, k - 1, 1, 1), LAMBDA W :
    IF W.ret # 1 THEN [W EXCEPT !.ret = FALSE]
    ELSE [W EXCEPT !.ret = TRUE,
            !.dirs[d] = IF empty = {} THEN Append(@, Entry(name, inum))
                                      ELSE [@ EXCEPT ![k] = Entry(name, inum)]])

isdirempty(F, d) == \A k \in DOMAIN F.dirs[d] : k > 2 => F.dirs[d][k].inum = 0

-----------------------------------------------------------------------------
(* Processes                                                               *)

NoCall == [op |-> ""]

Idle == [at |-> "idle", call |-> NoCall, rest |-> <<>>, goal |-> "", cur |-> 0, dp |-> 0, ip |-> 0,
         puts |-> <<>>, then |-> "", misled |-> FALSE, cwd |-> ROOTINO, ofile |-> 0, off |-> 0, writable |-> FALSE]

\* Process p moves the file system to F and itself to the record r.
Moves(p, F, r) ==
  Becomes(F) /\ proc' = [proc EXCEPT ![p] = r] /\ UNCHANGED <<outstanding, begun, durable, booting>>

\* r drops the references s, the first of them first, and goes on at place at.
Putting(r, s, at) == [r EXCEPT !.at = "iput", !.puts = s, !.then = at]

\* Mutant: other references do not matter.
Unused_Shared(ip) == ip.valid /\ ip.ino.nlink = 0

\* Whether the last reference to an inode without links goes.
Unused(ip) == ip.ref = 1 /\ ip.valid /\ ip.ino.nlink = 0

\* iput(): under itable.lock, drop the reference, or go and free the inode.
iput(p) ==
  LET r == proc[p] i == Head(r.puts) IN
  /\ r.at = "iput"
  /\ IF Unused(itab[i])
       THEN Moves(p, [FS EXCEPT !.itab[i].lock = p], [r EXCEPT !.at = "iput_free"])
       ELSE Moves(p, Unref(FS, i), [r EXCEPT !.puts = Tail(@), !.at = IF Len(r.puts) = 1 THEN r.then ELSE @])

\* The entry of the table once its inode is free.
Released(ip) == [ip EXCEPT !.lock = NoProc, !.valid = FALSE, !.ino = NoInode]

\* Truncate and free it; what it still names goes astray.
Reclaim(F, i) ==
  LET T == itrunc(F, i) IN
  [iupdate([T EXCEPT !.itab[i].ino.type = "none"], i) EXCEPT
     !.itab[i] = Released(@),
     !.stray = (@ \ {i}) \cup ({F.dirs[i][k].inum : k \in DOMAIN F.dirs[i] \ {1, 2}} \ {0})]

iput_free(p) ==
  LET r == proc[p] i == Head(r.puts) IN
  /\ r.at = "iput_free"
  /\ Moves(p, Reclaim(FS, i), [r EXCEPT !.at = "iput_drop"])

\* The lock was released: somebody may have made a new inode of it and dropped that.
iput_drop(p) ==
  LET r == proc[p]
      i == Head(r.puts)
      lost == itab[i].ref = 1 /\ disk[i].type # "none" /\ disk[i].nlink = 0 IN
  /\ r.at = "iput_drop"
  /\ Moves(p, [Unref(FS, i) EXCEPT !.stray = IF lost THEN @ \cup {i} ELSE @],
           [r EXCEPT !.puts = Tail(@), !.at = IF Len(r.puts) = 1 THEN r.then ELSE "iput"])

\* Where namex() starts, with a reference: the root, or the working directory.
Start(r, path) == IF path.abs THEN ROOTINO ELSE r.cwd

Lookup(F, r, path, goal) ==
  [F |-> iget(F, Start(r, path)),
   r |-> [r EXCEPT !.at = "namex", !.cur = Start(r, path), !.rest = path.elems, !.goal = goal]]

\* Whether namex() is to stop at the parent, and what follows when it fails.
nameiparent(goal) == goal \in {"create", "unlink", "link_dp"}
Failed(goal) == IF goal = "link_dp" THEN "link_bad" ELSE "end_op"

\* One path element, or the end of the path.
namex_found(p) ==
  LET r == proc[p] IN
  /\ r.at = "namex" /\ r.rest = <<>>
  /\ Moves(p, FS, IF nameiparent(r.goal) THEN Putting(r, <<r.cur>>, Failed(r.goal))
                                        ELSE [r EXCEPT !.at = r.goal, !.ip = r.cur, !.cur = 0])

namex(p) ==
  LET r == proc[p]
      d == r.cur
      L == ilock(FS, d, p)
      N == dirlookup(L, d, Head(r.rest))
      removed == Head(r.rest) = ".." /\ L.itab[d].ino.nlink = 0
      fail == Putting(r, <<d>>, Failed(r.goal)) IN
  /\ r.at = "namex" /\ r.rest # <<>> /\ Unlocked(d)
  /\ IF L.itab[d].ino.type # "dir" THEN Moves(p, iunlock(L, d), fail)
     ELSE IF nameiparent(r.goal) /\ Len(r.rest) = 1
       THEN Moves(p, iunlock(L, d), [r EXCEPT !.at = r.goal, !.dp = d, !.cur = 0])
     ELSE IF N.ret = 0 THEN Moves(p, iunlock(L, d), fail)
     ELSE Moves(p, iunlock(N, d),
                Putting([r EXCEPT !.cur = N.ret, !.rest = Tail(@), !.misled = @ \/ removed],
                        <<d>>, "namex"))

-----------------------------------------------------------------------------
(* System calls (sysfile.c)                                                *)

Goal(op) == IF op \in {"mkdir", "mknod"} THEN "create" ELSE op

\* begin_op(), which waits while the log has no room.
begin_op ==
  /\ begun < GROUP
  /\ outstanding' = outstanding + 1 /\ begun' = begun + 1
  /\ UNCHANGED <<durable, booting>>

\* A system call with a path, up to the first lookup.
syscall(p, c) ==
  LET L == Lookup(FS, [proc[p] EXCEPT !.call = c], c.path, Goal(c.op)) IN
  /\ proc[p].at = "idle"
  /\ begin_op
  /\ Becomes(L.F) /\ proc' = [proc EXCEPT ![p] = L.r]

Image(F) == [disk |-> F.disk, dirs |-> F.dirs, nfree |-> F.nfree, stray |-> F.stray]

\* end_op(): the last operation under way commits for all of them.
end_op(p) ==
  /\ proc[p].at = "end_op"
  /\ outstanding' = outstanding - 1
  /\ IF outstanding = 1 THEN durable' = Image(FS) /\ begun' = 0 ELSE UNCHANGED <<durable, begun>>
  /\ proc' = [proc EXCEPT ![p] = [Idle EXCEPT
                       !.cwd = proc[p].cwd, !.ofile = proc[p].ofile, !.off = proc[p].off,
                       !.writable = proc[p].writable]]
  /\ UNCHANGED <<disk, dirs, nfree, itab, booting, panicked, stray>>

\* The rest of sys_open(), the inode locked: the descriptor, which may be one too many.
Open(p, L, r) ==
  LET i == r.ip
      T == IF "O_TRUNC" \in r.call.mode /\ L.itab[i].ino.type = "file" THEN itrunc(L, i) ELSE L IN
  IF r.ofile # 0
    THEN Moves(p, iunlock(L, i), Putting(r, <<i>>, "end_op"))
    ELSE Moves(p, iunlock(T, i),
               [r EXCEPT !.ofile = i, !.off = 0, !.writable = "O_RDWR" \in r.call.mode, !.at = "end_op"])

sys_open(p) ==
  LET r == proc[p] L == ilock(FS, r.ip, p) IN
  /\ r.at = "open" /\ Unlocked(r.ip)
  /\ IF L.itab[r.ip].ino.type = "dir" /\ r.call.mode # {}
       THEN Moves(p, iunlock(L, r.ip), Putting(r, <<r.ip>>, "end_op"))
       ELSE Open(p, L, r)

sys_open_created(p) == proc[p].at = "created" /\ Open(p, FS, proc[p])

Type(op) == CASE op = "mkdir" -> "dir" [] op = "mknod" -> "dev" [] OTHER -> "file"

\* create(), the parent locked: an inode of that name, or a new one.
create(p) ==
  LET r == proc[p]
      d == r.dp
      L == ilock(FS, d, p)
      N == dirlookup(L, d, Last(r.call.path.elems))
      A == ialloc(L, Type(r.call.op)) IN
  /\ r.at = "create" /\ Unlocked(d)
  /\ IF N.ret # 0
       THEN Moves(p, iunlock(N, d), Putting([r EXCEPT !.ip = N.ret], <<d>>, "create_found"))
     ELSE IF A.ret = 0 THEN Moves(p, iunlock(L, d), Putting(r, <<d>>, "end_op"))
     ELSE Moves(p, A, [r EXCEPT !.ip = A.ret, !.at = "create_new"])

create_found(p) ==
  LET r == proc[p] L == ilock(FS, r.ip, p) IN
  /\ r.at = "create_found" /\ Unlocked(r.ip)
  /\ IF r.call.op = "create" /\ L.itab[r.ip].ino.type \in {"file", "dev"}
       THEN Moves(p, L, [r EXCEPT !.at = "created"])
       ELSE Moves(p, iunlock(L, r.ip), Putting(r, <<r.ip>>, "end_op"))

\* create()'s fail: de-allocate the inode.
Uncreate(F, i) == iupdate([F EXCEPT !.itab[i].ino.nlink = 0], i)

\* The entries of a new inode, and the link to the parent from its "..".
Filled(F, i, d, name, isdir) ==
  IF ~isdir THEN dirlink(F, d, name, i)
  ELSE Then(dirlink(F, i, ".", i), LAMBDA A :
    IF ~A.ret THEN A
    ELSE Then(dirlink(A, i, "..", d), LAMBDA B :
      IF ~B.ret THEN B
      ELSE Then(dirlink(B, d, name, i), LAMBDA C :
        IF ~C.ret THEN C ELSE iupdate([C EXCEPT !.itab[d].ino.nlink = @ + 1], d))))

\* Both locked: the inode gets its link, its entries and its name, or is given back.
create_new(p) ==
  LET r == proc[p]
      d == r.dp
      i == r.ip
      L == ilock(FS, i, p)
      made == Filled(iupdate([L EXCEPT !.itab[i].ino.nlink = 1], i), i, d,
                     Last(r.call.path.elems), r.call.op = "mkdir") IN
  /\ r.at = "create_new" /\ Unlocked(i)
  /\ \E C \in {made} :
       IF ~C.ret
         THEN Moves(p, iunlock(Uncreate(C, i), i), Putting(r, <<i>>, "create_fail"))
       ELSE IF r.call.op = "create"
         THEN Moves(p, iunlock(C, d), Putting(r, <<d>>, "created"))
       ELSE Moves(p, iunlock(C, d), Putting(r, <<d>>, "made"))

create_fail(p) ==
  LET r == proc[p] IN
  /\ r.at = "create_fail"
  /\ Moves(p, iunlock(FS, r.dp), Putting(r, <<r.dp>>, "end_op"))

\* sys_mkdir() and sys_mknod(): iunlockput() what create() returned.
sys_mkdir(p) ==
  LET r == proc[p] IN
  /\ r.at = "made"
  /\ Moves(p, iunlock(FS, r.ip), Putting(r, <<r.ip>>, "end_op"))

\* sys_unlink(), the parent locked, up to the child's lock.
sys_unlink(p) ==
  LET r == proc[p]
      d == r.dp
      L == ilock(FS, d, p)
      name == Last(r.call.path.elems)
      N == dirlookup(L, d, name) IN
  /\ r.at = "unlink" /\ Unlocked(d)
  /\ IF name \in {".", ".."} \/ N.ret = 0
       THEN Moves(p, iunlock(L, d), Putting(r, <<d>>, "end_op"))
       ELSE Moves(p, N, [r EXCEPT !.ip = N.ret, !.at = "unlink_ip"])

Removable(F, i) == F.itab[i].ino.type = "dir" => isdirempty(F, i)

\* The entry is overwritten, and a directory's ".." no longer counts.
Unentered(F, d, i, k) ==
  LET E == [F EXCEPT !.dirs[d][k] = NoEntry] IN
  IF F.itab[i].ino.type = "dir" THEN iupdate([E EXCEPT !.itab[d].ino.nlink = @ - 1], d) ELSE E

\* Both locked.  The reference to a child that stays is dropped with the parent locked.
sys_unlink_ip(p) ==
  LET r == proc[p]
      d == r.dp
      i == r.ip
      L == ilock(FS, i, p)
      k == Min(Named(FS, d, Last(r.call.path.elems)))
      P == [L EXCEPT !.panicked = IF L.itab[i].ino.nlink < 1 THEN p ELSE @] IN
  /\ r.at = "unlink_ip" /\ Unlocked(i)
  /\ IF Removable(L, i)
       THEN Moves(p, iunlock(Unentered(P, d, i, k), d), Putting(r, <<d>>, "unlink_done"))
       ELSE Moves(p, iunlock(Unref(iunlock(P, i), i), d), Putting(r, <<d>>, "end_op"))

sys_unlink_done(p) ==
  LET r == proc[p] i == r.ip IN
  /\ r.at = "unlink_done"
  /\ Moves(p, iunlock(iupdate([FS EXCEPT !.itab[i].ino.nlink = @ - 1], i), i),
           Putting(r, <<i>>, "end_op"))

Linked(F, i) == iupdate([F EXCEPT !.itab[i].ino.nlink = @ + 1], i)

\* sys_link(): count the link, and look for the directory it goes to.
sys_link(p) ==
  LET r == proc[p]
      i == r.ip
      L == ilock(FS, i, p)
      N == Lookup(iunlock(Linked(L, i), i), r, r.call.to, "link_dp") IN
  /\ r.at = "link" /\ Unlocked(i)
  /\ IF L.itab[i].ino.type = "dir"
       THEN Moves(p, iunlock(L, i), Putting(r, <<i>>, "end_op"))
       ELSE Moves(p, N.F, N.r)

sys_link_dp(p) ==
  LET r == proc[p]
      d == r.dp
      D == dirlink(ilock(FS, d, p), d, Last(r.call.to.elems), r.ip) IN
  /\ r.at = "link_dp" /\ Unlocked(d)
  /\ Moves(p, iunlock(D, d),
           IF D.ret THEN Putting(r, <<d, r.ip>>, "end_op") ELSE Putting(r, <<d>>, "link_bad"))

\* Mutant: the link that could not be made stays counted.
Unlinked_Not(F, i) == F

Unlinked(F, i) == iupdate([F EXCEPT !.itab[i].ino.nlink = @ - 1], i)

sys_link_bad(p) ==
  LET r == proc[p] i == r.ip IN
  /\ r.at = "link_bad" /\ Unlocked(i)
  /\ Moves(p, iunlock(Unlinked(ilock(FS, i, p), i), i), Putting(r, <<i>>, "end_op"))

\* sys_chdir(): the old directory's reference goes, and only then the operation ends.
sys_chdir(p) ==
  LET r == proc[p] i == r.ip L == ilock(FS, i, p) IN
  /\ r.at = "chdir" /\ Unlocked(i)
  /\ IF L.itab[i].ino.type # "dir"
       THEN Moves(p, iunlock(L, i), Putting(r, <<i>>, "end_op"))
       ELSE Moves(p, iunlock(L, i), Putting([r EXCEPT !.cwd = i], <<r.cwd>>, "end_op"))

\* fileclose() of an inode's last descriptor, in an operation of its own.
fileclose(p) ==
  LET r == proc[p] IN
  /\ r.at = "idle" /\ r.ofile # 0
  /\ proc' = [proc EXCEPT ![p] = Putting([r EXCEPT !.ofile = 0, !.off = 0, !.writable = FALSE],
                                        <<r.ofile>>, "end_op")]
  /\ begin_op
  /\ UNCHANGED <<disk, dirs, nfree, itab, panicked, stray>>

\* filewrite(): one round of its loop, from begin_op() to end_op().
filewrite(p) ==
  /\ proc[p].at = "idle" /\ proc[p].writable /\ itab[proc[p].ofile].ino.type = "file"
  /\ proc' = [proc EXCEPT ![p].at = "write"]
  /\ begin_op
  /\ UNCHANGED <<disk, dirs, nfree, itab, panicked, stray>>

filewrite_ip(p, n, good) ==
  LET r == proc[p]
      i == r.ofile
      W == writei(ilock(FS, i, p), i, r.off, n, good) IN
  /\ r.at = "write" /\ Unlocked(i)
  /\ Moves(p, iunlock(W, i), [r EXCEPT !.at = "end_op", !.off = @ + Max({W.ret, 0})])

-----------------------------------------------------------------------------
(* The machine                                                             *)

\* What mkfs leaves: a root directory with "." and ".." in its first block.
Root == [type |-> "dir", nlink |-> 1, size |-> 2, n |-> 1, ind |-> FALSE]
Empty == [disk |-> [i \in Inums |-> IF i = ROOTINO THEN Root ELSE NoInode],
          dirs |-> [i \in Inums |-> IF i = ROOTINO
                                     THEN <<Entry(".", ROOTINO), Entry("..", ROOTINO)>> ELSE <<>>],
          nfree |-> NBLOCKS - 1, stray |-> {}]

\* Every process has the root as its working directory.
Booted == [i \in Inums |-> IF i = ROOTINO THEN [Uncached EXCEPT !.ref = Cardinality(Procs)] ELSE Uncached]

Init ==
  /\ disk = Empty.disk /\ dirs = Empty.dirs /\ nfree = Empty.nfree /\ itab = Booted
  /\ proc = [p \in Procs |-> Idle] /\ outstanding = 0 /\ begun = 0 /\ durable = Empty
  /\ booting = 0 /\ panicked = NoProc /\ stray = {}

\* The power fails, or the machine is started again after a panic; recovery leaves what was durable.
Crash ==
  /\ disk' = durable.disk /\ dirs' = durable.dirs /\ nfree' = durable.nfree /\ stray' = durable.stray
  /\ itab' = [i \in Inums |-> Uncached] /\ proc' = [p \in Procs |-> Idle]
  /\ outstanding' = 0 /\ begun' = 0 /\ booting' = 1
  /\ panicked' = NoProc
  /\ UNCHANGED durable

\* Mutant: only orphaned files are looked for.
Orphaned_Files(ino) == ino.type = "file" /\ ino.nlink = 0

Orphaned(ino) == ino.type # "none" /\ ino.nlink = 0

\* ireclaim(): iget(), ilock(), iunlock() and iput() of an orphan in an operation of
\* its own.  After the last inode fsinit() is done and the processes start.
ireclaim ==
  LET i == booting
      R == Reclaim(ilock(FS, i, NoProc), i)
      F == IF Orphaned(disk[i]) THEN [R EXCEPT !.itab[i] = Uncached] ELSE FS IN
  /\ Becomes([F EXCEPT !.itab = IF i = NINODES THEN Booted ELSE @])
  /\ durable' = Image(F) /\ booting' = IF i = NINODES THEN 0 ELSE i + 1
  /\ UNCHANGED <<proc, outstanding, begun>>

ProcStep(p) ==
  \/ \E c \in Calls[p] : syscall(p, c)
  \/ fileclose(p) \/ filewrite(p) \/ \E n \in Writes : \E good \in 0..n : filewrite_ip(p, n, good)
  \/ namex(p) \/ namex_found(p) \/ iput(p) \/ iput_free(p) \/ iput_drop(p)
  \/ sys_open(p) \/ sys_open_created(p)
  \/ create(p) \/ create_found(p) \/ create_new(p) \/ create_fail(p) \/ sys_mkdir(p)
  \/ sys_unlink(p) \/ sys_unlink_ip(p) \/ sys_unlink_done(p)
  \/ sys_link(p) \/ sys_link_dp(p) \/ sys_link_bad(p) \/ sys_chdir(p)
  \/ end_op(p)

Next ==
  \/ panicked = NoProc /\ booting = 0 /\ \E p \in Procs : ProcStep(p)
  \/ booting = 0 /\ Crash
  \/ booting # 0 /\ ireclaim

Spec == Init /\ [][Next]_vars

-----------------------------------------------------------------------------
(* Properties                                                              *)

\* Every field of the disk, the inode table and the processes has its type, and link
\* counts, sizes, references and free blocks stay in their ranges.
TypeOK ==
  LET Inode == [type : {"none", "dir", "file", "dev"}, nlink : Nat, size : 0..(MAXFILE * BSIZE),
                n : 0..MAXFILE, ind : BOOLEAN] IN
  /\ \A i \in Inums :
       /\ disk[i] \in Inode /\ disk[i].size <= disk[i].n * BSIZE
       /\ disk[i].type = "dir" => disk[i].size = Len(dirs[i])
       /\ itab[i] \in [ref : Nat, valid : BOOLEAN, lock : Procs \cup {NoProc}, ino : Inode]
  /\ nfree \in 0..NBLOCKS /\ booting \in 0..NINODES /\ outstanding = Cardinality({p \in Procs : proc[p].at # "idle"}) /\ begun \in outstanding..GROUP
  /\ \A p \in Procs : proc[p].cwd \in Inums /\ proc[p].ofile \in 0..NINODES

Entries(img) == {e \in Inums \X (1..(MAXFILE * BSIZE)) :
                   /\ img.disk[e[1]].type = "dir" /\ e[2] \in DOMAIN img.dirs[e[1]]
                   /\ img.dirs[e[1]][e[2]].inum # 0}
At(img, e) == img.dirs[e[1]][e[2]]
Names(img) == {e \in Entries(img) : At(img, e).name \notin {".", ".."}}

\* The directories that are the root or have a name.
Attached(img) == {ROOTINO} \cup {At(img, e).inum : e \in Names(img)}

\* The entries that a link count counts: names, and the ".." of an attached directory.
Counted(img) == Names(img) \cup
  {e \in Entries(img) : At(img, e).name = ".." /\ e[1] \in Attached(img)}

\* On the disk that end_op() commits, every inode's link count is the number of names
\* and of ".." that lead to it, whatever calls ran side by side and whichever of them
\* failed half-way (sys_link's bad:, create's fail:).  The exception is an inode made
\* in a directory that was removed meanwhile: nothing looks at dp->nlink after ilock(dp).
LinksCounted == outstanding = 0 =>
  \A i \in Inums \ durable.stray : durable.disk[i].type # "none" =>
    durable.disk[i].nlink = Cardinality({e \in Counted(durable) : At(durable, e).inum = i})

\* On that disk no entry leads to a free inode: iput() frees one only when its last
\* name is gone.
EntriesLive == outstanding = 0 =>
  \A e \in Counted(durable) : durable.disk[At(durable, e).inum].type # "none"

\* Every block is free or in one inode, at every step: balloc(), bmap(), itrunc() and
\* a write or a new directory that runs out of blocks half-way lose none.
BlocksAccounted ==
  nfree + SumFunction([i \in Inums |-> Blocks(IF itab[i].valid THEN itab[i].ino ELSE disk[i])]) = NBLOCKS

\* "If that was the last reference and the inode has no links to it, free the inode
\* (and its content) on disk" (fs.c:333): while the system runs, an inode without links
\* is in somebody's hands.
OrphansFreed ==
  booting = 0 => \A i \in Inums : disk[i].type # "none" /\ disk[i].nlink = 0 => itab[i].ref > 0

\* The same but for the inodes that iput() itself lets go: after freeing an inode it
\* drops its reference without looking again, while ialloc() may have reused the inode
\* and its new owner have dropped it.  In particular ireclaim() has freed everything
\* that a crash orphaned, those inodes included, before the processes start.
OrphansHeld ==
  booting = 0 => \A i \in Inums \ stray :
                   disk[i].type # "none" /\ disk[i].nlink = 0 => itab[i].ref > 0

\* "ip->ref == 1 means no other process can have ip locked, so this acquiresleep()
\* won't block (or deadlock)" (fs.c:345): it is called with itable.lock held.
IputWontBlock ==
  \A p \in Procs : proc[p].at = "iput" =>
    LET i == Head(proc[p].puts) IN Unused(itab[i]) => itab[i].lock = NoProc

\* The inode whose lock a process needs for its next step, or 0.
Wants(r) ==
  CASE r.at = "namex" /\ r.rest # <<>> -> r.cur
    [] r.at \in {"create", "unlink", "link_dp"} -> r.dp
    [] r.at \in {"open", "chdir", "link", "link_bad", "create_found", "create_new", "unlink_ip"} -> r.ip
    [] r.at = "write" -> r.ofile
    [] OTHER -> 0

\* create() and sys_unlink() hold a directory while they wait for an inode in it, and
\* path walks lock up and down the tree: processes never wait for each other in a circle.
NoCircularWait ==
  outstanding > 0 /\ panicked = NoProc =>
    \E p \in Procs : /\ proc[p].at # "idle"
                      /\ Wants(proc[p]) # 0 => Unlocked(Wants(proc[p]))

\* What a call needs to go on it gets.
LocksGranted == IputWontBlock /\ NoCircularWait

\* A valid inode that nobody has locked is the one on the disk: every change was
\* followed by iupdate(), and a freed inode is read again when it is reused.
CopiesAgree == \A i \in Inums : itab[i].valid /\ itab[i].lock = NoProc => itab[i].ino = disk[i]

\* The assertions in ilock() (an inode in use has a type) and sys_unlink() (a named
\* inode has a link) hold, but for a process whose path took the ".." of a directory
\* that was removed: nothing keeps the parent, and ilock() may find its inode free.
NoPanic == panicked = NoProc \/ proc[panicked].misled

\* What a check of the file system looks at: links, entries, blocks, and the inode
\* table against the disk; and no call came across anything else.
Consistent ==
  TypeOK /\ LinksCounted /\ EntriesLive /\ BlocksAccounted /\ CopiesAgree /\ NoPanic
=============================================================================
