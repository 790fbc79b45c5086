------------------------------- MODULE Shell --------------------------------
(***************************************************************************)
(* The shell (user/sh.c) on top of Files: what a line makes the processes  *)
(* do.  runcmd() is compiled into the calls each process makes, in order;  *)
(* a command that is started by exec() has a program of its own.  Every    *)
(* call runs in the steps of Files, so the processes of a pipeline         *)
(* interleave as they do in the kernel.                                    *)
(***************************************************************************)
EXTENDS Files, Parser

CONSTANTS
  Program,    \* [Words]: the calls a command makes once exec() has loaded it
  Lines,      \* the lines typed
  RunLines    \* bound: the lines that are also run

VARIABLES
  line,       \* buf of main(): the line read
  prog        \* [Procs]: what it still has to do

vars == <<filevars, line, prog>>

\* A call of a program, and its argument.  P0 and P1 stand for p[0] and p[1].
Call(op, a) == <<[op |-> op, a |-> a]>>
P0 == -1
P1 == -2

\* The caller exits if the call failed: panic() in fork1() and after pipe(), and
\* the failed open() of a redirection.
Checked(call) == call \o Call("check", 0)
Fork(child) == Checked(Call("fork", child))

\* while(call > 0): a reader goes on until the end of the file.
Repeat(call) == call \o Call("again", call)

\* Mutant: the left side keeps the reading end.
Left_Leak == Call("close", 1) \o Call("dup", P1) \o Call("close", P1)

Left == Call("close", 1) \o Call("dup", P1) \o Call("close", P0) \o Call("close", P1)
Right == Call("close", 0) \o Call("dup", P0) \o Call("close", P0) \o Call("close", P1)

RECURSIVE runcmd(_)
runcmd(cmd) ==
  CASE cmd.type = "PANIC" -> Call("exit", 1)
    [] cmd.type = "EXEC" /\ cmd.argv = <<>> -> Call("exit", 1)
    [] cmd.type = "EXEC" /\ cmd.argv # <<>> ->
         Call("exec", Head(cmd.argv)) \o Call("exit", 0)
    [] cmd.type = "REDIR" ->
         Call("close", cmd.fd) \o Checked(Call("open", cmd.fd = 1)) \o runcmd(cmd.cmd)
    [] cmd.type = "LIST" ->
         Fork(runcmd(cmd.left)) \o Call("wait", 0) \o runcmd(cmd.right)
    [] cmd.type = "PIPE" ->
         Checked(Call("pipe", 0)) \o Fork(Left \o runcmd(cmd.left))
           \o Fork(Right \o runcmd(cmd.right))
           \o Call("close", P0) \o Call("close", P1)
           \o Call("wait", 0) \o Call("wait", 0) \o Call("exit", 0)
    [] cmd.type = "BACK" -> Fork(runcmd(cmd.cmd)) \o Call("exit", 0)

\* main(): read a line, run it in a child and wait.
main ==
  /\ line = <<>> /\ Calls(1) /\ prog[1] = <<>>
  /\ \E l \in Lines :
       /\ line' = l
       /\ prog' = [prog EXCEPT ![1] =
            IF l \in RunLines THEN Fork(runcmd(parsecmd(l))) \o Call("wait", 0) ELSE <<>>]
  /\ UNCHANGED filevars

Fd(p, a) == IF a = P0 THEN pfd[p][1] ELSE IF a = P1 THEN pfd[p][2] ELSE a

\* The program, once it has looked at the result of the last call.
Now(p) ==
  IF prog[p] = <<>> THEN <<>>
  ELSE LET c == Head(prog[p]) IN
       CASE c.op = "check" -> IF ret[p] = -1 THEN Call("exit", 1) ELSE Tail(prog[p])
         [] c.op = "again" -> IF ret[p] > 0 THEN c.a \o prog[p] ELSE Tail(prog[p])
         [] OTHER -> prog[p]

Does(p, op) == Calls(p) /\ Now(p) # <<>> /\ Head(Now(p)).op = op
Operand(p) == Head(Now(p)).a
Then(p, next) == prog' = [prog EXCEPT ![p] = next] /\ UNCHANGED line
Advance(p) == Then(p, Tail(Now(p)))

\* A call on a descriptor.
do_fd(p) ==
  /\ \/ /\ Does(p, "close")
        /\ LET fd == Fd(p, Operand(p)) IN sys_close(p, fd) \/ badfd(p, fd)
     \/ /\ Does(p, "dup")
        /\ LET fd == Fd(p, Operand(p)) IN sys_dup(p, fd) \/ badfd(p, fd)
     \/ /\ Does(p, "read")
        /\ sys_read(p, 0, Operand(p)) \/ badfd(p, 0)
     \/ /\ Does(p, "write")
        /\ sys_write(p, 1, Operand(p)) \/ badfd(p, 1)
     \/ Does(p, "open") /\ sys_open(p, Operand(p))
     \/ Does(p, "pipe") /\ sys_pipe(p)
     \/ Does(p, "wait") /\ (kwait(p) \/ kwait_none(p))
  /\ Advance(p)

do_fork(p) ==
  /\ Does(p, "fork")
  /\ \/ \E np \in Procs :
          /\ kfork(p, np)
          /\ prog' = [prog EXCEPT ![p] = Tail(Now(p)), ![np] = Operand(p)]
          /\ UNCHANGED line
     \/ kfork_fail(p) /\ Advance(p)

\* exec() replaces the program, or fails and returns.
do_exec(p) ==
  /\ Does(p, "exec")
  /\ Then(p, Program[Operand(p)]) \/ Advance(p)
  /\ UNCHANGED filevars

\* exit(), called or forced by kill().
do_exit(p) ==
  /\ Does(p, "exit") \/ (At(p, "user") /\ killed[p])
  /\ kexit(p)
  /\ Then(p, <<>>)

User(p) == do_fd(p) \/ do_fork(p) \/ do_exec(p) \/ do_exit(p)

Step(p) ==
  /\ state[p] = "LIVE"
  /\ User(p) \/ (InCall(p) /\ UNCHANGED <<line, prog>>)

Kernel == (init_wait \/ \E p \in Procs \ {1} : kkill(p)) /\ UNCHANGED <<line, prog>>

Init ==
  /\ FilesInit(2)
  /\ line = <<>>
  /\ prog = [p \in Procs |-> <<>>]

Next == main \/ Kernel \/ \E p \in Procs : Step(p)

Spec == Init /\ [][Next]_vars

\* A runnable process runs on (see Sched), and init keeps waiting for children.
FairSpec ==
  /\ Spec
  /\ WF_vars(init_wait /\ UNCHANGED <<line, prog>>)
  /\ \A p \in Procs : WF_vars(Step(p))

-----------------------------------------------------------------------------
(* Properties                                                              *)

TypeOK ==
  /\ FilesTypeOK
  /\ line = <<>> \/ line \in Lines
  /\ \A p \in Procs : \A i \in 1..Len(prog[p]) :
       prog[p][i].op \in {"close", "dup", "read", "write", "open", "pipe", "wait",
                          "fork", "exec", "check", "again", "exit"}

\* The parser accepts the well-formed lines and no others; what it builds, written
\* out again, has the same arguments in the same order and parses to the same
\* command (sh.c:333-452).
ParserAgrees ==
  \/ state[2] # "UNUSED"
  \/ LET cmd == parsecmd(line) IN
     /\ (cmd.type # "PANIC") = WellFormed(line)
     /\ cmd.type # "PANIC" =>
          /\ Arguments(Unparse(cmd)) = Arguments(line)
          /\ parsecmd(Unparse(cmd)) = cmd

\* A command starts with the standard descriptors at most: an end of a pipe that
\* stayed open in a command would keep the reader from seeing the end of the input
\* (sh.c:106-117).
ExecInherits ==
  \A p \in Procs : Does(p, "exec") => \A fd \in Fds : fd > 1 => ~Opened(p, fd)

\* Whatever fails or is killed, the line comes to an end: in the end every process
\* it started has been reaped, every pipe is freed and every file closed but those
\* of the shell itself (sh.c:58, pipe.c:58, proc.c:385).
LineEnds ==
  <>[](/\ \A p \in Procs \ {1} : state[p] = "UNUSED"
       /\ \A pi \in Pipes : ~pipe[pi].used
       /\ \A f \in FileIds : file[f].ref > 0 => \E fd \in Fds : ofile[1][fd] = f)

\* Files, descriptors and pipes are counted exactly, in every step of every call,
\* and nobody sleeps at a pipe without a cause.
FilesAccounted == TypeOK /\ RefsCounted /\ PipeEndsTracked /\ SleepersHaveCause
=============================================================================
