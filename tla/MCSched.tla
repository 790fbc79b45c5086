------------------------------- MODULE MCSched ------------------------------
(* Sched on two harts, with fair scheduling and timers.                    *)
EXTENDS Sched
=============================================================================
