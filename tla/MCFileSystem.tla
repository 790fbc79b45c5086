---------------------------- MODULE MCFileSystem ----------------------------
(***************************************************************************)
(* Two processes on a disk with few inodes and blocks.  The first works in *)
(* directories named a, one inside the other; the second removes them      *)
(* under it, or makes /a a file and links that.                            *)
(***************************************************************************)
EXTENDS FileSystem

Abs(s) == [abs |-> TRUE, elems |-> s]
Call(op, path, mode) == [op |-> op, path |-> path, mode |-> mode]

Rel(s) == [abs |-> FALSE, elems |-> s]

a == Abs(<<"a">>)
aa == Abs(<<"a", "a">>)
g == Abs(<<"g">>)
here == Rel(<<"a">>)
up == Rel(<<"..">>)

MCCalls == [p \in Procs |->
  IF p = "p1"
  THEN {Call("mkdir", here, {}), Call("chdir", here, {}), Call("chdir", up, {}),
        Call("create", here, {"O_RDWR"}), Call("open", here, {"O_TRUNC"})}
  ELSE {Call("unlink", a, {}), Call("unlink", aa, {}), [op |-> "link", path |-> a, to |-> g]}]

\* Both processes make and remove one file.
MCOrphanCalls == [p \in Procs |-> {Call("create", g, {"O_RDWR"}), Call("unlink", g, {})}]
=============================================================================
