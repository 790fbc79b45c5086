---------------------------- MODULE MCSleepLock -----------------------------
(* SleepLock on a small machine.                                           *)
EXTENDS SleepLock
=============================================================================
