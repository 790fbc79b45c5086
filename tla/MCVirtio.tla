------------------------------ MODULE MCVirtio ------------------------------
(* Virtio with the eight descriptors of the code and three processes, so   *)
(* that requests overlap, finish out of order, and run out of descriptors  *)
(* after having taken some.                                                *)
EXTENDS Virtio, TLC

Symmetric == Permutations(Procs)

\* All but the data, which nothing here depends on.
View == <<queue, dev_idx, busy, bdisk, rq, handler, irq>>
=============================================================================
