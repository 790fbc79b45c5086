------------------------------- MODULE Files --------------------------------
(***************************************************************************)
(* Open files and pipes: the file table and its reference counts           *)
(* (kernel/file.c), the descriptors of a process and the calls on them     *)
(* (kernel/sysfile.c), and the pipe (kernel/pipe.c), with the parts of     *)
(* kfork(), kexit() and kwait() (kernel/proc.c) that hand descriptors on   *)
(* and give them back.                                                     *)
(*                                                                         *)
(* A call is a series of steps of its process: one step for each critical  *)
(* section of ftable.lock or of a pipe's lock.  pipewrite() holds pi->lock *)
(* over many bytes and looks at p->killed before each, which kill() may    *)
(* set meanwhile, so it takes one step per byte.  A sleeping process has   *)
(* its own place; wakeup() moves it on.  What the user program asks for is *)
(* an argument of the call actions: see Shell for the programs.            *)
(***************************************************************************)
EXTENDS Integers, FiniteSets, SequencesExt

CONSTANTS
  NPROC,      \* processes
  NFILE,      \* open files per system
  NOFILE,     \* open files per process
  NPIPE,      \* pages kalloc() can give to pipes
  PIPESIZE,   \* bytes a pipe holds
  CountMod,   \* nread and nwrite are uint: they count modulo this
  Bytes,      \* what is written
  MaxKills    \* bound: kill() calls in a behaviour

\* The ring index nwrite % PIPESIZE runs on over the wrap of nwrite only if the
\* size of the ring divides the range of the counter.
ASSUME FilesAssumption ==
  /\ NPROC \in Nat /\ NFILE \in Nat /\ NOFILE \in Nat /\ NPIPE \in Nat
  /\ PIPESIZE \in Nat \ {0} /\ CountMod \in Nat
  /\ CountMod > PIPESIZE /\ CountMod % PIPESIZE = 0
  /\ Bytes \subseteq Nat
  /\ MaxKills \in Nat

Procs == 1..NPROC
NoProc == 0                \* no lock holder, and initproc as a parent
FileIds == 1..NFILE
NoFile == 0
Fds == 0..(NOFILE - 1)
Pipes == 1..NPIPE
NoPipe == 0

File == [type : {"NONE", "PIPE", "INODE", "DEVICE"}, ref : Nat,
         readable : BOOLEAN, writable : BOOLEAN, pipe : Pipes \cup {NoPipe}]
Pipe == [used : BOOLEAN, readopen : BOOLEAN, writeopen : BOOLEAN,
         nread : 0..(CountMod - 1), nwrite : 0..(CountMod - 1),
         data : [0..(PIPESIZE - 1) -> Bytes \cup {0}]]

VARIABLES
  file,       \* [FileIds]: ftable.file
  ofile,      \* [Procs]: p->ofile
  pipe,       \* [Pipes]: the page of a pipe; used: it is not on the free list
  plock,      \* [Pipes]: who holds pi->lock between two steps
  state,      \* [Procs]: UNUSED, LIVE or ZOMBIE
  parent,     \* [Procs]: p->parent
  killed,     \* [Procs]: p->killed
  pc,         \* [Procs]: "user", or where the process is in a call
  arg,        \* [Procs]: the pipe end in use and the bytes still to move
  new,        \* [Procs]: files allocated by a call that has not finished
  todo,       \* [Procs]: files still to be passed to fileclose()
  after,      \* [Procs]: where to go when todo is empty
  ret,        \* [Procs]: what the last call returned
  pfd,        \* [Procs]: the array of two descriptors pipe() fills
  kills,      \* history: kill() calls so far
  fifo,       \* history, [Pipes]: the bytes written and not yet read
  cut         \* history, [Pipes]: a killed writer left without its wakeup()

tables == <<file, pipe, plock, fifo, cut>>
life == <<state, parent, killed, kills>>
locals == <<arg, new, todo, after>>
filevars == <<tables, ofile, life, pc, locals, ret, pfd>>

-----------------------------------------------------------------------------
(* Helpers                                                                 *)

FreeFile == {f \in FileIds : file[f].ref = 0}
FreeFd(p) == {fd \in Fds : ofile[p][fd] = NoFile}
FreePage == {pi \in Pipes : ~pipe[pi].used}

NoArg == [pi |-> NoPipe, w |-> FALSE, buf |-> <<>>, n |-> 0]

At(p, place) == state[p] = "LIVE" /\ pc[p] = place
Goto(p, place) == pc' = [pc EXCEPT ![p] = place]
Return(p, r) == Goto(p, "user") /\ ret' = [ret EXCEPT ![p] = r]

\* wakeup(chan): the sleepers at that place of that pipe run on.  Sleepers on
\* &pi->nread retry piperead(), those on &pi->nwrite retry pipewrite().
Woken(pcs, pi, place, again) ==
  [q \in Procs |-> IF pcs[q] = place /\ arg[q].pi = pi THEN again ELSE pcs[q]]

WokenReaders(pcs, pi) == Woken(pcs, pi, "sleep_nread", "read")

\* Mutant: the writers sleep on.
WokenWriters_None(pcs, pi) == pcs

WokenWriters(pcs, pi) == Woken(pcs, pi, "sleep_nwrite", "write")

\* Bytes in the ring; the counters wrap.
Fill(pi) == (pipe[pi].nwrite - pipe[pi].nread) % CountMod

\* Mutant: the sum does not wrap around.
Full_Wide(pi) == pipe[pi].nwrite = pipe[pi].nread + PIPESIZE

Full(pi) == pipe[pi].nwrite = (pipe[pi].nread + PIPESIZE) % CountMod

\* The process is in a call made from user mode and has not been killed:
\* usertrap() sends a killed process to kexit() instead.
Calls(p) == At(p, "user") /\ ~killed[p]

-----------------------------------------------------------------------------
(* file.c                                                                  *)

filealloc(f) == file' = [file EXCEPT ![f].ref = 1]

\* filedup() of every file of the bag fs: f -> how often.
filedup(fs) == file' = [f \in FileIds |-> [file[f] EXCEPT !.ref = @ + fs[f]]]

Dropped(f) == [f EXCEPT !.ref = @ - 1, !.type = IF f.ref > 1 THEN @ ELSE "NONE"]

\* Where fileclose() returns to, with the files fs still to close.
Rest(p, fs) == IF fs = <<>> THEN after[p] ELSE "fileclose"

\* fileclose(): drop one reference; the last one closes the pipe end, outside
\* ftable.lock.  (The last reference to an inode is an iput(): see FileSystem.)
fileclose(p) ==
  LET f == Head(todo[p]) IN
  /\ At(p, "fileclose")
  /\ todo' = [todo EXCEPT ![p] = Tail(@)]
  /\ file' = [file EXCEPT ![f] = Dropped(@)]
  /\ IF file[f].ref = 1 /\ file[f].type = "PIPE"
       THEN /\ Goto(p, "pipeclose")
            /\ arg' = [arg EXCEPT ![p].pi = file[f].pipe, ![p].w = file[f].writable]
       ELSE Goto(p, Rest(p, Tail(todo[p]))) /\ UNCHANGED arg
  /\ UNCHANGED <<ofile, pipe, plock, fifo, cut, life, new, after, ret, pfd>>

\* Call fileclose() for each of fs, then go on at place.
Closing(p, fs, place) ==
  /\ todo' = [todo EXCEPT ![p] = fs]
  /\ after' = [after EXCEPT ![p] = place]
  /\ Goto(p, IF fs = <<>> THEN place ELSE "fileclose")

-----------------------------------------------------------------------------
(* pipe.c                                                                  *)

\* Mutant: the page is freed with the first end.
EndClosed_Early(pi, w) ==
  [pi EXCEPT !.writeopen = @ /\ ~w, !.readopen = @ /\ w, !.used = FALSE]

EndClosed(pi, w) ==
  [pi EXCEPT !.writeopen = @ /\ ~w, !.readopen = @ /\ w,
             !.used = IF w THEN pi.readopen ELSE pi.writeopen]

\* pipeclose(): close one end, wake the other, free the page with the second.
pipeclose(p) ==
  LET pi == arg[p].pi IN
  /\ At(p, "pipeclose") /\ plock[pi] = NoProc
  /\ pipe' = [pipe EXCEPT ![pi] = EndClosed(@, arg[p].w)]
  /\ pc' = [(IF arg[p].w THEN WokenReaders(pc, pi) ELSE WokenWriters(pc, pi))
              EXCEPT ![p] = Rest(p, todo[p])]
  /\ arg' = [arg EXCEPT ![p] = NoArg]
  /\ UNCHANGED <<file, plock, fifo, cut, ofile, life, new, todo, after, ret, pfd>>

\* pipewrite(): acquire(&pi->lock), on entry and when sleep() returns.
pipewrite_lock(p) ==
  /\ At(p, "write") /\ plock[arg[p].pi] = NoProc
  /\ plock' = [plock EXCEPT ![arg[p].pi] = p]
  /\ Goto(p, "writing")
  /\ UNCHANGED <<file, pipe, fifo, cut, ofile, life, locals, ret, pfd>>

Unlock(pi) == plock' = [plock EXCEPT ![pi] = NoProc]

\* The loop test fails, or copyin() does: wake the readers and return i.
pipewrite_done(p) ==
  LET pi == arg[p].pi IN
  /\ At(p, "writing")
  /\ \/ arg[p].buf = <<>>
     \/ pipe[pi].readopen /\ ~killed[p] /\ ~Full(pi)
  /\ Unlock(pi)
  /\ pc' = [WokenReaders(pc, pi) EXCEPT ![p] = "user"]
  /\ ret' = [ret EXCEPT ![p] = arg[p].n]
  /\ arg' = [arg EXCEPT ![p] = NoArg]
  /\ UNCHANGED <<file, pipe, fifo, cut, ofile, life, new, todo, after, pfd>>

\* No reader is left, or the caller was killed: return -1 at once.
pipewrite_fail(p) ==
  LET pi == arg[p].pi IN
  /\ At(p, "writing") /\ arg[p].buf # <<>>
  /\ ~pipe[pi].readopen \/ killed[p]
  /\ Unlock(pi)
  /\ Return(p, -1)
  /\ cut' = [cut EXCEPT ![pi] = @ \/ arg[p].n > 0]
  /\ arg' = [arg EXCEPT ![p] = NoArg]
  /\ UNCHANGED <<file, pipe, fifo, ofile, life, new, todo, after, pfd>>

\* The pipe is full: wake the readers and sleep.
pipewrite_full(p) ==
  LET pi == arg[p].pi IN
  /\ At(p, "writing") /\ arg[p].buf # <<>>
  /\ pipe[pi].readopen /\ ~killed[p]
  /\ Full(pi)
  /\ Unlock(pi)
  /\ pc' = [WokenReaders(pc, pi) EXCEPT ![p] = "sleep_nwrite"]
  /\ UNCHANGED <<file, pipe, fifo, cut, ofile, life, locals, ret, pfd>>

\* One byte moves into the ring.
pipewrite_byte(p) ==
  LET pi == arg[p].pi
      ch == Head(arg[p].buf) IN
  /\ At(p, "writing") /\ arg[p].buf # <<>>
  /\ pipe[pi].readopen /\ ~killed[p]
  /\ ~Full(pi)
  /\ pipe' = [pipe EXCEPT ![pi].data[pipe[pi].nwrite % PIPESIZE] = ch,
                          ![pi].nwrite = (@ + 1) % CountMod]
  /\ fifo' = [fifo EXCEPT ![pi] = Append(@, ch)]
  /\ arg' = [arg EXCEPT ![p].buf = Tail(@), ![p].n = @ + 1]
  /\ UNCHANGED <<file, plock, cut, ofile, life, pc, new, todo, after, ret, pfd>>

\* piperead() of an empty pipe that a writer may still fill: sleep, or give up
\* if killed.
piperead_wait(p) ==
  LET pi == arg[p].pi IN
  /\ At(p, "read") /\ plock[pi] = NoProc
  /\ Fill(pi) = 0 /\ pipe[pi].writeopen
  /\ IF killed[p]
       THEN Return(p, -1) /\ arg' = [arg EXCEPT ![p] = NoArg]
       ELSE Goto(p, "sleep_nread") /\ UNCHANGED <<ret, arg>>
  /\ UNCHANGED <<tables, ofile, life, new, todo, after, pfd>>

\* piperead(): copy what there is, up to n bytes.  copyout() may fail at the
\* byte after the k-th, which ends the copy.
piperead_copy(p) ==
  LET pi == arg[p].pi
      m == Min({arg[p].n, Fill(pi)}) IN
  /\ At(p, "read") /\ plock[pi] = NoProc
  /\ Fill(pi) # 0 \/ ~pipe[pi].writeopen
  /\ \E k \in 0..m :
       /\ pipe' = [pipe EXCEPT ![pi].nread = (@ + k) % CountMod]
       /\ fifo' = [fifo EXCEPT ![pi] = SubSeq(@, k + 1, Len(@))]
       /\ pc' = [WokenWriters(pc, pi) EXCEPT ![p] = "user"]
       /\ ret' = [ret EXCEPT ![p] = IF k = 0 /\ m > 0 THEN -1 ELSE k]
  /\ arg' = [arg EXCEPT ![p] = NoArg]
  /\ UNCHANGED <<file, plock, cut, ofile, life, new, todo, after, pfd>>

-----------------------------------------------------------------------------
(* sysfile.c: the calls of a process.                                      *)

\* argfd(): the call fails if fd is not open.
Opened(p, fd) == ofile[p][fd] # NoFile

badfd(p, fd) ==
  /\ Calls(p) /\ ~Opened(p, fd)
  /\ Return(p, -1)
  /\ UNCHANGED <<tables, ofile, life, locals, pfd>>

sys_dup(p, fd) ==
  /\ Calls(p) /\ Opened(p, fd)
  /\ IF FreeFd(p) = {}
       THEN Return(p, -1) /\ UNCHANGED <<ofile, file>>
       ELSE /\ ofile' = [ofile EXCEPT ![p][Min(FreeFd(p))] = ofile[p][fd]]
            /\ filedup([f \in FileIds |-> IF f = ofile[p][fd] THEN 1 ELSE 0])
            /\ Return(p, Min(FreeFd(p)))
  /\ UNCHANGED <<pipe, plock, fifo, cut, life, locals, pfd>>

sys_close(p, fd) ==
  /\ Calls(p) /\ Opened(p, fd)
  /\ ofile' = [ofile EXCEPT ![p][fd] = NoFile]
  /\ Closing(p, <<ofile[p][fd]>>, "user")
  /\ ret' = [ret EXCEPT ![p] = 0]
  /\ UNCHANGED <<tables, life, arg, new, pfd>>

\* sys_write() and filewrite(): only a pipe keeps the caller here.
sys_write(p, fd, buf) ==
  LET f == file[ofile[p][fd]] IN
  /\ Calls(p) /\ Opened(p, fd)
  /\ CASE ~f.writable -> Return(p, -1) /\ UNCHANGED arg
       [] f.writable /\ f.type = "PIPE" ->
            /\ Goto(p, "write")
            /\ arg' = [arg EXCEPT ![p] = [pi |-> f.pipe, w |-> TRUE, buf |-> buf, n |-> 0]]
            /\ UNCHANGED ret
       [] f.writable /\ f.type # "PIPE" -> Return(p, Len(buf)) /\ UNCHANGED arg
  /\ UNCHANGED <<tables, ofile, life, new, todo, after, pfd>>

\* sys_read() and fileread(): a file or the console is at its end.
sys_read(p, fd, n) ==
  LET f == file[ofile[p][fd]] IN
  /\ Calls(p) /\ Opened(p, fd)
  /\ CASE ~f.readable -> Return(p, -1) /\ UNCHANGED arg
       [] f.readable /\ f.type = "PIPE" ->
            /\ Goto(p, "read")
            /\ arg' = [arg EXCEPT ![p] = [pi |-> f.pipe, w |-> FALSE, buf |-> <<>>, n |-> n]]
            /\ UNCHANGED ret
       [] f.readable /\ f.type # "PIPE" -> Return(p, 0) /\ UNCHANGED arg
  /\ UNCHANGED <<tables, ofile, life, new, todo, after, pfd>>

\* sys_open() once the inode is found (or not): a file, then a descriptor.
sys_open(p, wr) ==
  /\ Calls(p)
  /\ \/ /\ Return(p, -1)
        /\ UNCHANGED <<file, ofile, todo, after>>
     \/ /\ FreeFile # {} /\ FreeFd(p) = {}
        /\ filealloc(Min(FreeFile))
        /\ Closing(p, <<Min(FreeFile)>>, "user")
        /\ ret' = [ret EXCEPT ![p] = -1]
        /\ UNCHANGED ofile
     \/ /\ FreeFile # {} /\ FreeFd(p) # {}
        /\ file' = [file EXCEPT ![Min(FreeFile)] =
             [type |-> "INODE", ref |-> 1, readable |-> ~wr, writable |-> wr,
              pipe |-> @.pipe]]
        /\ ofile' = [ofile EXCEPT ![p][Min(FreeFd(p))] = Min(FreeFile)]
        /\ Return(p, Min(FreeFd(p)))
        /\ UNCHANGED <<todo, after>>
  /\ UNCHANGED <<pipe, plock, fifo, cut, life, arg, new, pfd>>

\* sys_pipe() calls pipealloc(), which takes two files ...
sys_pipe(p) ==
  /\ Calls(p)
  /\ Goto(p, "filealloc")
  /\ UNCHANGED <<tables, ofile, life, locals, ret, pfd>>

\* pipealloc() and sys_pipe() give up: close what there is, return -1.
pipealloc_bad(p) ==
  /\ Closing(p, new[p], "user")
  /\ new' = [new EXCEPT ![p] = <<>>]
  /\ ret' = [ret EXCEPT ![p] = -1]

pipealloc_file(p) ==
  /\ At(p, "filealloc")
  /\ IF FreeFile = {}
       THEN pipealloc_bad(p) /\ UNCHANGED file
       ELSE /\ filealloc(Min(FreeFile))
            /\ new' = [new EXCEPT ![p] = Append(@, Min(FreeFile))]
            /\ Goto(p, IF new[p] = <<>> THEN "filealloc" ELSE "kalloc")
            /\ UNCHANGED <<todo, after, ret>>
  /\ UNCHANGED <<pipe, plock, fifo, cut, ofile, life, arg, pfd>>

\* ... and a page, and makes the files the two ends of the pipe in it.
pipealloc_page(p) ==
  /\ At(p, "kalloc")
  /\ \/ pipealloc_bad(p) /\ UNCHANGED <<file, pipe, fifo, cut>>
     \/ \E pi \in FreePage :
          /\ pipe' = [pipe EXCEPT ![pi] =
               [used |-> TRUE, readopen |-> TRUE, writeopen |-> TRUE, nread |-> 0,
                nwrite |-> 0, data |-> [i \in 0..(PIPESIZE - 1) |-> 0]]]
          /\ file' = [f \in FileIds |->
               IF f \in {new[p][1], new[p][2]}
                 THEN [type |-> "PIPE", ref |-> file[f].ref, readable |-> f = new[p][1],
                       writable |-> f = new[p][2], pipe |-> pi]
                 ELSE file[f]]
          /\ fifo' = [fifo EXCEPT ![pi] = <<>>]
          /\ cut' = [cut EXCEPT ![pi] = FALSE]
          /\ Goto(p, "fdalloc")
          /\ UNCHANGED <<new, todo, after, ret>>
  /\ UNCHANGED <<plock, ofile, life, arg, pfd>>

\* Two descriptors; either may be missing, and copyout() may fail.
sys_pipe_fds(p) ==
  /\ At(p, "fdalloc")
  /\ \/ pipealloc_bad(p) /\ UNCHANGED <<ofile, pfd>>
     \/ /\ Cardinality(FreeFd(p)) >= 2
        /\ LET fd0 == Min(FreeFd(p))
               fd1 == Min(FreeFd(p) \ {fd0}) IN
           /\ ofile' = [ofile EXCEPT ![p][fd0] = new[p][1], ![p][fd1] = new[p][2]]
           /\ pfd' = [pfd EXCEPT ![p] = <<fd0, fd1>>]
           /\ Return(p, 0)
        /\ new' = [new EXCEPT ![p] = <<>>]
        /\ UNCHANGED <<todo, after>>
  /\ UNCHANGED <<tables, life, arg>>

-----------------------------------------------------------------------------
(* proc.c: descriptors across fork() and exit().                           *)

\* kfork(): the child, in the first free slot, shares every open file of its
\* parent.  There may be no slot or no memory for it.
kfork(p, np) ==
  /\ Calls(p)
  /\ np = Min({q \in Procs : state[q] = "UNUSED"} \cup {NPROC + 1}) /\ np \in Procs
  /\ state' = [state EXCEPT ![np] = "LIVE"]
  /\ parent' = [parent EXCEPT ![np] = p]
  /\ ofile' = [ofile EXCEPT ![np] = ofile[p]]
  /\ filedup([f \in FileIds |-> Cardinality({fd \in Fds : ofile[p][fd] = f})])
  /\ pc' = [pc EXCEPT ![np] = "user"]
  /\ pfd' = [pfd EXCEPT ![np] = pfd[p]]
  /\ ret' = [ret EXCEPT ![p] = np, ![np] = 0]
  /\ UNCHANGED <<pipe, plock, fifo, cut, killed, kills, locals>>

kfork_fail(p) ==
  /\ Calls(p)
  /\ Return(p, -1)
  /\ UNCHANGED <<tables, ofile, life, locals, pfd>>

\* kexit(), by the process itself or because it was killed: close every file,
\* in the order of the descriptors ...
kexit(p) ==
  /\ At(p, "user")
  /\ Closing(p, SelectSeq([i \in 1..NOFILE |-> ofile[p][i - 1]],
                          LAMBDA f : f # NoFile), "zombie")
  /\ ofile' = [ofile EXCEPT ![p] = [fd \in Fds |-> NoFile]]
  /\ UNCHANGED <<tables, life, arg, new, ret, pfd>>

\* ... give the children to init, and wait to be reaped.
kexit_zombie(p) ==
  /\ At(p, "zombie")
  /\ state' = [state EXCEPT ![p] = "ZOMBIE"]
  /\ parent' = [q \in Procs |-> IF parent[q] = p THEN NoProc ELSE parent[q]]
  /\ Goto(p, "user")
  /\ UNCHANGED <<tables, ofile, killed, kills, locals, ret, pfd>>

Children(p) == {q \in Procs : parent[q] = p /\ state[q] # "UNUSED"}

\* freeproc().
Reap(q) ==
  /\ state[q] = "ZOMBIE"
  /\ state' = [state EXCEPT ![q] = "UNUSED"]
  /\ parent' = [parent EXCEPT ![q] = NoProc]
  /\ killed' = [killed EXCEPT ![q] = FALSE]

\* kwait() returns with a dead child, or with -1 when there is none to wait
\* for or the caller is killed.
kwait(p) ==
  /\ Calls(p)
  /\ \E q \in Children(p) : Reap(q) /\ Return(p, q)
  /\ UNCHANGED <<tables, ofile, kills, locals, pfd>>

kwait_none(p) ==
  /\ Calls(p) /\ Children(p) = {}
  /\ Return(p, -1)
  /\ UNCHANGED <<tables, ofile, life, locals, pfd>>

\* init waits for ever for its children.
init_wait ==
  /\ \E q \in Children(NoProc) : Reap(q)
  /\ UNCHANGED <<tables, ofile, kills, pc, locals, ret, pfd>>

\* kkill(): mark the process and wake it if it sleeps.
kkill(p) ==
  /\ state[p] = "LIVE" /\ ~killed[p] /\ kills < MaxKills
  /\ killed' = [killed EXCEPT ![p] = TRUE]
  /\ kills' = kills + 1
  /\ pc' = [pc EXCEPT ![p] = CASE @ = "sleep_nread" -> "read"
                               [] @ = "sleep_nwrite" -> "write"
                               [] OTHER -> @]
  /\ UNCHANGED <<tables, ofile, state, parent, locals, ret, pfd>>

\* A process inside a call goes on with it.
InCall(p) ==
  \/ fileclose(p) \/ pipeclose(p)
  \/ pipewrite_lock(p) \/ pipewrite_done(p) \/ pipewrite_fail(p)
  \/ pipewrite_full(p) \/ pipewrite_byte(p)
  \/ piperead_wait(p) \/ piperead_copy(p)
  \/ pipealloc_file(p) \/ pipealloc_page(p) \/ sys_pipe_fds(p)
  \/ kexit_zombie(p)

\* Process 1 runs, its first descriptors open on the console.
FilesInit(nopen) ==
  /\ file = [f \in FileIds |->
       [type |-> IF f = 1 THEN "DEVICE" ELSE "NONE", ref |-> IF f = 1 THEN nopen ELSE 0,
        readable |-> f = 1, writable |-> f = 1, pipe |-> NoPipe]]
  /\ ofile = [p \in Procs |-> [fd \in Fds |-> IF p = 1 /\ fd < nopen THEN 1 ELSE NoFile]]
  /\ pipe = [pi \in Pipes |->
       [used |-> FALSE, readopen |-> FALSE, writeopen |-> FALSE, nread |-> 0,
        nwrite |-> 0, data |-> [i \in 0..(PIPESIZE - 1) |-> 0]]]
  /\ plock = [pi \in Pipes |-> NoProc]
  /\ state = [p \in Procs |-> IF p = 1 THEN "LIVE" ELSE "UNUSED"]
  /\ parent = [p \in Procs |-> NoProc]
  /\ killed = [p \in Procs |-> FALSE]
  /\ pc = [p \in Procs |-> "user"]
  /\ arg = [p \in Procs |-> NoArg]
  /\ new = [p \in Procs |-> <<>>]
  /\ todo = [p \in Procs |-> <<>>]
  /\ after = [p \in Procs |-> "user"]
  /\ ret = [p \in Procs |-> 0]
  /\ pfd = [p \in Procs |-> <<0, 0>>]
  /\ kills = 0
  /\ fifo = [pi \in Pipes |-> <<>>]
  /\ cut = [pi \in Pipes |-> FALSE]

-----------------------------------------------------------------------------
(* Properties                                                              *)

FilesTypeOK ==
  /\ file \in [FileIds -> File]
  /\ ofile \in [Procs -> [Fds -> FileIds \cup {NoFile}]]
  /\ pipe \in [Pipes -> Pipe]
  /\ plock \in [Pipes -> Procs \cup {NoProc}]
  /\ state \in [Procs -> {"UNUSED", "LIVE", "ZOMBIE"}]
  /\ parent \in [Procs -> Procs \cup {NoProc}]
  /\ killed \in [Procs -> BOOLEAN]
  /\ kills \in 0..MaxKills
  /\ pc \in [Procs -> {"user", "fileclose", "pipeclose", "write", "writing",
                       "sleep_nwrite", "read", "sleep_nread", "filealloc",
                       "kalloc", "fdalloc", "zombie"}]
  /\ \A p \in Procs : /\ new[p] \in Seq(FileIds) /\ todo[p] \in Seq(FileIds)
                      /\ after[p] \in {"user", "zombie"}
                      /\ arg[p].pi \in Pipes \cup {NoPipe} /\ arg[p].buf \in Seq(Bytes)

Holds(s, f) == Cardinality({i \in 1..Len(s) : s[i] = f})

\* References to file f: descriptors, and what a call in progress still holds.
References(f) ==
  MapThenSumSet(LAMBDA p : Cardinality({fd \in Fds : ofile[p][fd] = f})
                             + Holds(new[p], f) + Holds(todo[p], f), Procs)

\* The count of a file is the number of descriptors of all processes for it, and
\* a file with a descriptor has a type: so fileclose() and filedup() never panic,
\* the last close() is the last, and fileread() knows what to read (file.c:51, 65,
\* 126), across fork(), dup(), exit(), kill() and a pipe() that fails half way.
RefsCounted ==
  /\ \A f \in FileIds : file[f].ref = References(f)
  /\ \A p \in Procs, fd \in Fds : Opened(p, fd) => file[ofile[p][fd]].type # "NONE"

\* The files open on one end of a pipe.
EndFiles(pi, w) ==
  {f \in FileIds : /\ file[f].ref > 0 /\ file[f].type = "PIPE"
                   /\ file[f].pipe = pi /\ file[f].writable = w}

\* Who is between fileclose() and pipeclose() of that end.
Closers(pi, w) == {p \in Procs : At(p, "pipeclose") /\ arg[p].pi = pi /\ arg[p].w = w}

\* An end of a pipe is marked open exactly as long as a file, or the process just
\* closing that file, stands for it; the page is freed with the second end and
\* not before, so neither a file nor a sleeper is left with a page that kfree()
\* took back (pipe.c:69).
PipeEndsTracked ==
  \A pi \in Pipes :
    /\ pipe[pi].used = (pipe[pi].readopen \/ pipe[pi].writeopen)
    /\ Cardinality(EndFiles(pi, TRUE)) + Cardinality(Closers(pi, TRUE))
         = IF pipe[pi].writeopen THEN 1 ELSE 0
    /\ Cardinality(EndFiles(pi, FALSE)) + Cardinality(Closers(pi, FALSE))
         = IF pipe[pi].readopen THEN 1 ELSE 0
    /\ \A p \in Procs : arg[p].pi = pi => pipe[pi].used

\* The ring holds the bytes written and not yet read, in the order of the writes,
\* whatever the counters have wrapped to (pipe.c:88, 95, 123).
RingIsFifo ==
  \A pi \in Pipes : pipe[pi].used =>
    /\ Fill(pi) = Len(fifo[pi]) /\ Fill(pi) <= PIPESIZE
    /\ \A i \in 1..Len(fifo[pi]) :
         pipe[pi].data[(pipe[pi].nread + i - 1) % PIPESIZE] = fifo[pi][i]

\* No sleeper is forgotten: a reader sleeps only on an empty pipe that someone may
\* still write to, a writer only on a full one that someone may still read, unless
\* the holder of the lock is about to wake it.  The one exception is a writer that
\* finds itself killed after some of its bytes: it returns past the wakeup()
\* (pipe.c:84-86) and a reader may sleep beside data until the next close or write.
SleepersHaveCause ==
  \A p \in Procs :
    LET pi == arg[p].pi IN
    /\ At(p, "sleep_nread") =>
         \/ Fill(pi) = 0 /\ pipe[pi].writeopen
         \/ plock[pi] # NoProc
         \/ cut[pi] /\ pipe[pi].writeopen
    /\ At(p, "sleep_nwrite") => Full(pi) /\ pipe[pi].readopen
=============================================================================
