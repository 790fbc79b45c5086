------------------------------ MODULE MCBcache ------------------------------
(* Bcache with three buffers, so that the list has an inner one, four      *)
(* blocks to recycle them for, and descriptors for one request and one     *)
(* over, so that the second process has to give that one back and wait.    *)
(* Processes are alike, and so are blocks.                                 *)
EXTENDS Bcache, TLC

Symmetric == Permutations(Procs) \cup Permutations(Blocks)
=============================================================================
