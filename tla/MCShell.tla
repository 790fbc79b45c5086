------------------------------ MODULE MCShell -------------------------------
(* Shell on short lines: w writes to its output, r reads its input to the  *)
(* end, h reads once, p runs out of descriptors, b makes calls that fail.  *)
EXTENDS Shell

MCWords == {"w", "r", "h", "p", "b", "f"}

MCProgram ==
  [c \in MCWords |->
    (CASE c = "w" -> Call("write", <<1, 2, 1, 1, 2>>)
       [] c = "r" -> Repeat(Call("read", 2))
       [] c = "h" -> Call("read", 1)
       [] c = "p" -> Call("dup", 1) \o Call("pipe", 0) \o Call("dup", 1)
                       \o Call("open", TRUE)
       [] c = "b" -> Call("close", 3) \o Call("dup", 3) \o Call("wait", 0) \o Call("read", 1)
                       \o Call("dup", 1) \o Call("dup", 1) \o Call("dup", 1)
                       \o Call("close", 0) \o Call("read", 1) \o Call("open", TRUE) \o Call("read", 1)
                       \o Call("close", 1) \o Call("write", <<1>>) \o Call("open", FALSE)
                       \o Call("write", <<1>>)
       [] c = "f" -> <<>>) \o Call("exit", 0)]

\* A reader to the end, a reader behind a subshell of two commands, a writer into
\* a command that uses up its descriptors and never reads, a redirection, a
\* background command and one that uses descriptors wrongly.
MCRunLines ==
  {<<"w", "|", "r">>,
   <<"(", "f", ";", "f", ")", "|", "h">>,
   <<"w", "|", "p">>,
   <<"w", ">", "f">>,
   <<"w", "&">>,
   <<"b">>}

\* Every line of at most four tokens.
MCLines ==
  MCRunLines \cup BoundedSeq({"w", "f", "|", "&", ";", "(", ")", "<"}, 4)
=============================================================================
