------------------------------ MODULE Terminal ------------------------------
(***************************************************************************)
(* What the console promises of its input (console.c): a line is edited    *)
(* until it is finished, then its characters are read in the order typed.  *)
(* At most Capacity characters are kept; a line that fills them counts as  *)
(* finished, and what is typed beyond that is dropped.                     *)
(***************************************************************************)
EXTENDS Integers, Sequences

CONSTANTS
  Capacity,   \* characters kept
  Chars,      \* characters that can be typed
  Ends        \* those that finish a line

VARIABLES
  line,       \* the line being edited
  ready       \* finished characters nobody has read

Init == line = <<>> /\ ready = <<>>

Room == Capacity - Len(line) - Len(ready)

Insert(c) ==
  /\ Room > 0
  /\ IF c \in Ends \/ Room = 1
       THEN ready' = ready \o Append(line, c) /\ line' = <<>>
       ELSE line' = Append(line, c) /\ UNCHANGED ready

Erase == line # <<>> /\ line' = SubSeq(line, 1, Len(line) - 1) /\ UNCHANGED ready

Kill == line # <<>> /\ line' = <<>> /\ UNCHANGED ready

Read ==
  /\ \E n \in 1..Len(ready) : ready' = SubSeq(ready, n + 1, Len(ready))
  /\ UNCHANGED line

Next == Erase \/ Kill \/ Read \/ \E c \in Chars : Insert(c)

Spec == Init /\ [][Next]_<<line, ready>>
=============================================================================
