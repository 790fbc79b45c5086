------------------------------ MODULE MCMemory ------------------------------
(* Memory with nine pages of addresses, seven of them for the user, and    *)
(* too few pages for two processes that both have what they ask for.       *)
EXTENDS Memory

Segment(vaddr, filesz, memsz, perm) ==
  [vaddr |-> vaddr, filesz |-> filesz, memsz |-> memsz, perm |-> perm]

\* One segment; a second one after a gap, or out of line, or below the first, or with
\* an end beyond the last address.
MCPrograms == {
  <<Segment(0, 1, 1, {"X"})>>,
  <<Segment(0, 1, 1, {"X"}), Segment(4, 0, 1, {"W"})>>,
  <<Segment(0, 2, 2, {"X"}), Segment(3, 1, 1, {"W"})>>,
  <<Segment(2, 2, 2, {"X"}), Segment(0, 1, 1, {"W"})>>,
  <<Segment(0, 1, 1, {"X"}), Segment(62, 1, 4, {"W"})>> }

\* No arguments; one that fits, and one that does not; and a vector without an end that
\* goes on in the page where the string can not always be read.
MCArgvs == {
  [ptrs |-> <<0>>, strs |-> <<>>, stack |-> 1],
  [ptrs |-> <<0, 0>>, strs |-> <<[va |-> 0, len |-> 1]>>, stack |-> 2],
  [ptrs |-> <<0, 0>>, strs |-> <<[va |-> 0, len |-> 1]>>, stack |-> 3],
  [ptrs |-> <<0, 8>>, strs |-> <<[va |-> 0, len |-> 1], [va |-> 9, len |-> 2]>>, stack |-> 2] }

MCGrows == {-15, -3, 3}
=============================================================================
