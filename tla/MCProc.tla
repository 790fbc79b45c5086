------------------------------- MODULE MCProc -------------------------------
(* Proc on a small process table.                                          *)
EXTENDS Proc
=============================================================================
