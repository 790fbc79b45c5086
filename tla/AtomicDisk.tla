----------------------------- MODULE AtomicDisk -----------------------------
(***************************************************************************)
(* What the logging layer promises the file system, with no log in sight.  *)
(* The blocks have a view, which every running call reads and writes, and  *)
(* a durable content, which survives a crash.  The durable content only    *)
(* ever moves to the view of an instant at which no call is in progress:   *)
(* so a crash keeps all the writes of a call or none of them.              *)
(***************************************************************************)
CONSTANTS Procs, Blocks, Values, InitValue

VARIABLES
  durable,      \* [Blocks -> Values]: what a reboot would bring back
  view,         \* [Blocks -> Values]: what the file system code sees
  active        \* the processes between begin_op() and end_op()

vars == <<durable, view, active>>

TypeOK ==
  /\ durable \in [Blocks -> Values]
  /\ view \in [Blocks -> Values]
  /\ active \in SUBSET Procs

Init ==
  /\ durable = [b \in Blocks |-> InitValue]
  /\ view = durable
  /\ active = {}

Begin(p) ==
  /\ p \notin active
  /\ active' = active \cup {p}
  /\ UNCHANGED <<durable, view>>

Write(p, b, v) ==
  /\ p \in active
  /\ view' = [view EXCEPT ![b] = v]
  /\ UNCHANGED <<durable, active>>

End(p) ==
  /\ p \in active
  /\ active' = active \ {p}
  /\ UNCHANGED <<durable, view>>

Commit ==
  /\ active = {}
  /\ durable' = view
  /\ UNCHANGED <<view, active>>

Crash ==
  /\ view' = durable
  /\ active' = {}
  /\ UNCHANGED durable

Next ==
  \/ \E p \in Procs : Begin(p) \/ End(p)
  \/ \E p \in Procs, b \in Blocks, v \in Values : Write(p, b, v)
  \/ Commit
  \/ Crash

Spec == Init /\ [][Next]_vars
=============================================================================
