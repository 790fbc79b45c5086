----------------------------- MODULE MCConsole -----------------------------
(* Console with a ring of two entries whose indices wrap at four.          *)
EXTENDS Console
=============================================================================
