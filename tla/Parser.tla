------------------------------- MODULE Parser -------------------------------
(***************************************************************************)
(* The shell's parser (user/sh.c) on lines of tokens: a word, or one of    *)
(* the symbols of gettoken().  Each function returns the command it built  *)
(* and the rest of the line; panic() ends the process, so a panic anywhere *)
(* is the result.                                                          *)
(***************************************************************************)
EXTENDS Integers, FiniteSets, SequencesExt

CONSTANTS
  Words,      \* the words a line is made of
  MAXARGS     \* argv[] of an execcmd

Redirs == {"<", ">", ">>"}
Symbols == Redirs \cup {"|", "&", ";", "(", ")"}

\* The commands: a type and, by type, argv, file and fd, left and right, or cmd.
execcmd(argv) == [type |-> "EXEC", argv |-> argv]
redircmd(cmd, tok) ==
  [type |-> "REDIR", cmd |-> cmd, fd |-> IF tok = "<" THEN 0 ELSE 1, mode |-> tok]
pipecmd(left, right) == [type |-> "PIPE", left |-> left, right |-> right]
listcmd(left, right) == [type |-> "LIST", left |-> left, right |-> right]
backcmd(cmd) == [type |-> "BACK", cmd |-> cmd]

Panic == [cmd |-> [type |-> "PANIC"], s |-> <<>>]
Failed(r) == r.cmd.type = "PANIC"
Parsed(cmd, s) == [cmd |-> cmd, s |-> s]

\* The rest of a function, after a call that returned r.
After(r, Rest(_)) == IF Failed(r) THEN Panic ELSE Rest(r)

\* peek(): the next token is one of toks.
peek(s, toks) == s # <<>> /\ Head(s) \in toks

\* parseredirs(): each redirection is wrapped around the command so far.
RECURSIVE parseredirs(_, _)
parseredirs(cmd, s) ==
  IF ~peek(s, Redirs) THEN Parsed(cmd, s)
  ELSE IF ~peek(Tail(s), Words) THEN Panic
  ELSE parseredirs(redircmd(cmd, Head(s)), SubSeq(s, 3, Len(s)))

\* The execcmd inside its redirections gets one more argument.
RECURSIVE WithArg(_, _)
WithArg(cmd, w) ==
  IF cmd.type = "EXEC" THEN [cmd EXCEPT !.argv = Append(@, w)]
  ELSE [cmd EXCEPT !.cmd = WithArg(@, w)]

\* The loop of parseexec().
RECURSIVE parseargs(_, _, _)
parseargs(ret, argc, s) ==
  IF s = <<>> \/ peek(s, {"|", ")", "&", ";"}) THEN Parsed(ret, s)
  ELSE IF Head(s) \notin Words \/ argc + 1 >= MAXARGS THEN Panic
  ELSE After(parseredirs(WithArg(ret, Head(s)), Tail(s)),
             LAMBDA r : parseargs(r.cmd, argc + 1, r.s))

RECURSIVE parseline(_)
RECURSIVE parsepipe(_)
RECURSIVE Background(_, _)

parseblock(s) ==
  After(parseline(Tail(s)), LAMBDA r :
    IF peek(r.s, {")"}) THEN parseredirs(r.cmd, Tail(r.s)) ELSE Panic)

parseexec(s) ==
  IF peek(s, {"("}) THEN parseblock(s)
  ELSE After(parseredirs(execcmd(<<>>), s), LAMBDA r : parseargs(r.cmd, 0, r.s))

\* Mutant: the rest of the pipeline is parsed as one command.
parsepipe_Once(s) ==
  After(parseexec(s), LAMBDA l :
    IF ~peek(l.s, {"|"}) THEN l
    ELSE After(parseexec(Tail(l.s)), LAMBDA r : Parsed(pipecmd(l.cmd, r.cmd), r.s)))

parsepipe(s) ==
  After(parseexec(s), LAMBDA l :
    IF ~peek(l.s, {"|"}) THEN l
    ELSE After(parsepipe(Tail(l.s)), LAMBDA r : Parsed(pipecmd(l.cmd, r.cmd), r.s)))

Background(cmd, s) ==
  IF peek(s, {"&"}) THEN Background(backcmd(cmd), Tail(s)) ELSE Parsed(cmd, s)

parseline(s) ==
  After(parsepipe(s), LAMBDA p :
    After(Background(p.cmd, p.s), LAMBDA l :
      IF ~peek(l.s, {";"}) THEN l
      ELSE After(parseline(Tail(l.s)), LAMBDA r : Parsed(listcmd(l.cmd, r.cmd), r.s))))

\* parsecmd(): the whole line is one command.
parsecmd(s) ==
  After(parseline(s), LAMBDA r : IF r.s = <<>> THEN r ELSE Panic).cmd

-----------------------------------------------------------------------------
(* The reference: the language of the grammar, and how a command is        *)
(* written.                                                                *)

\* A line back from its command; a command that a looser one would capture
\* stands in parentheses.
RECURSIVE Unparse(_)
Unparse(cmd) ==
  LET Paren(c) == <<"(">> \o Unparse(c) \o <<")">>
      Tight(c, types) == IF c.type \in types THEN Unparse(c) ELSE Paren(c) IN
  CASE cmd.type = "EXEC" -> cmd.argv
    [] cmd.type = "REDIR" -> Tight(cmd.cmd, {"EXEC", "REDIR"}) \o <<cmd.mode, "f">>
    [] cmd.type = "PIPE" -> Tight(cmd.left, {"EXEC", "REDIR"}) \o <<"|">>
                              \o Tight(cmd.right, {"EXEC", "REDIR", "PIPE"})
    [] cmd.type = "BACK" -> Tight(cmd.cmd, {"EXEC", "REDIR", "PIPE", "BACK"}) \o <<"&">>
    [] cmd.type = "LIST" ->
         Tight(cmd.left, {"EXEC", "REDIR", "PIPE", "BACK"}) \o <<";">> \o Unparse(cmd.right)

\* Positions of the redirections of a line and of the files they name.
InRedir(s) ==
  {i \in 1..Len(s) : s[i] \in Redirs \/ (i > 1 /\ s[i - 1] \in Redirs)}

\* The arguments of all commands, in order.
Arguments(s) ==
  SelectSeq([i \in 1..Len(s) |-> IF i \in InRedir(s) THEN "" ELSE s[i]],
            LAMBDA t : t \in Words)

Count(s, i, tok) == Len(SelectSeq(SubSeq(s, 1, i), LAMBDA t : t = tok))

\* The lines sh.c means to accept, told by what may stand beside what: a
\* redirection names a file; parentheses match; a word follows a word or a place
\* where a command may start; "(" stands only at such a place; nothing but
\* another "&", ";" or ")" follows "&"; a command has fewer than MAXARGS words.
WellFormed(s) ==
  LET P == (1..Len(s)) \ InRedir(s)
      Prev(i) == LET before == {j \in P : j < i} IN
                 IF before = {} THEN 0 ELSE Max(before)
      Before(i) == IF Prev(i) = 0 THEN ";" ELSE s[Prev(i)]
      Start(i) == Before(i) \in {";", "|", "("} IN
  /\ \A i \in 1..Len(s) : s[i] \in Redirs =>
       /\ i < Len(s) /\ s[i + 1] \in Words
       /\ Before(i) # "&"
  /\ \A i \in P :
       /\ Cardinality({j \in P : \A k \in P \cap (j..i) : s[k] \in Words} \cap (1..i)) < MAXARGS
       /\ s[i] \in Words => Start(i) \/ Before(i) \in Words
       /\ s[i] = "(" => Start(i) /\ Prev(i) = i - 1
       /\ s[i] = "|" => Before(i) # "&"
       /\ Count(s, i, ")") <= Count(s, i, "(")
  /\ Count(s, Len(s), ")") = Count(s, Len(s), "(")
=============================================================================
