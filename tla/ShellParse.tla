-------------------------------- MODULE ShellParse --------------------------------
(***************************************************************************)
(* user/sh.c, the parser: a command line is a sequence of characters, a       *)
(* command a tree.  A parser returns what it made of the input, what is left   *)
(* of it, and ok, which is FALSE once the shell's panic has been called.       *)
(***************************************************************************)
EXTENDS Naturals, Sequences, FiniteSets, SequencesExt, FiniteSetsExt

CONSTANT MAXARGS

Whitespace == {" "}
Symbols == {"<", "|", ">", "&", ";", "(", ")"}
Letter(c) == c \notin Whitespace \cup Symbols

\* Constructors
Exec(argv) == [type |-> "EXEC", argv |-> argv]
Redir(cmd, file, mode) == [type |-> "REDIR", cmd |-> cmd, file |-> file, mode |-> mode]
PipeCmd(left, right) == [type |-> "PIPE", left |-> left, right |-> right]
ListCmd(left, right) == [type |-> "LIST", left |-> left, right |-> right]
BackCmd(cmd) == [type |-> "BACK", cmd |-> cmd]

-------------------------------------------------------------------------------

\* s without the characters before the first that P does not hold of.
DropWhile(s, P(_)) ==
  SubSeq(s, Min({i \in 1..(Len(s) + 1) : i > Len(s) \/ ~P(s[i])}), Len(s))
Skip(s) == DropWhile(s, LAMBDA c : c \in Whitespace)
Word(s) == SubSeq(s, 1, Len(s) - Len(DropWhile(s, Letter)))

Peek(s, toks) == Skip(s) # << >> /\ Head(Skip(s)) \in toks

\* The token at the head of s, which is skipped: its kind, its text, the rest.
Token(tok, word, rest) == [tok |-> tok, word |-> word, rest |-> Skip(rest)]
GetToken(s) ==
  IF s = << >> THEN Token("end", << >>, s)
  ELSE IF Letter(Head(s)) THEN Token("a", Word(s), DropWhile(s, Letter))
  ELSE IF Len(s) > 1 /\ s[1] = ">" /\ s[2] = ">" THEN Token("+", << >>, Tail(Tail(s)))
  ELSE Token(Head(s), << >>, Tail(s))
After(s) == GetToken(Skip(s)).rest

Parsed(cmd, rest) == [cmd |-> cmd, rest |-> rest, ok |-> TRUE]
Panic(p) == [p EXCEPT !.ok = FALSE]
Join(Op(_, _), p, q) == [q EXCEPT !.cmd = Op(p.cmd, @)]

\* Redirections follow what they apply to, and the last of them is outermost.
RECURSIVE Parseredirs(_, _)
Taken(p, redirs) == [cmd |-> p.cmd, rest |-> p.rest, ok |-> p.ok, redirs |-> redirs]
Redirected(p, redirs, tok, file) ==
  IF file.tok # "a" THEN Panic(Taken(p, redirs))
  ELSE Parseredirs([p EXCEPT !.rest = file.rest], Append(redirs, <<file.word, tok>>))
Redirection(p, redirs, t) == Redirected(p, redirs, t.tok, GetToken(t.rest))
Parseredirs(p, redirs) ==
  IF p.ok /\ Peek(p.rest, {"<", ">"}) THEN Redirection(p, redirs, GetToken(Skip(p.rest)))
  ELSE Taken(p, redirs)
Wrapped(p) == [cmd |-> FoldLeft(LAMBDA c, r : Redir(c, r[1], r[2]), p.cmd, p.redirs),
               rest |-> p.rest, ok |-> p.ok]

RECURSIVE Parseline(_)

Closed(p) == IF ~p.ok \/ ~Peek(p.rest, {")"}) THEN Panic(p)
             ELSE Wrapped(Parseredirs([p EXCEPT !.rest = After(@)], << >>))
Parseblock(s) == Closed(Parseline(After(s)))

\* Words, and redirections between them, which apply to the command of all words.
RECURSIVE Args(_)
Arg(p, t) ==
  IF t.tok = "end" THEN p
  ELSE IF t.tok # "a" \/ Len(p.cmd.argv) + 1 >= MAXARGS THEN Panic(p)
  ELSE Args(Parseredirs([p EXCEPT !.cmd.argv = Append(@, t.word), !.rest = t.rest], p.redirs))
Args(p) == IF ~p.ok \/ Peek(p.rest, {"|", ")", "&", ";"}) THEN p
           ELSE Arg(p, GetToken(Skip(p.rest)))
Parseexec(s) == IF Peek(s, {"("}) THEN Parseblock(s)
                ELSE Wrapped(Args(Parseredirs(Parsed(Exec(<< >>), s), << >>)))

\* Mutant: a pipe takes but one command on its right.
RECURSIVE Parsepipe(_)
Piped_Once(p) == IF p.ok /\ Peek(p.rest, {"|"})
                 THEN Join(PipeCmd, p, Parseexec(After(p.rest))) ELSE p
Piped(p) == IF p.ok /\ Peek(p.rest, {"|"})
            THEN Join(PipeCmd, p, Parsepipe(After(p.rest))) ELSE p
Parsepipe(s) == Piped(Parseexec(s))

RECURSIVE Backs(_)
Backs(p) == IF p.ok /\ Peek(p.rest, {"&"})
            THEN Backs([p EXCEPT !.cmd = BackCmd(@), !.rest = After(@)]) ELSE p
Listed(p) == IF p.ok /\ Peek(p.rest, {";"})
             THEN Join(ListCmd, p, Parseline(After(p.rest))) ELSE p
Parseline(s) == Listed(Backs(Parsepipe(s)))

\* Anything left over is a syntax error.
Whole(p) == IF Skip(p.rest) # << >> THEN Panic(p) ELSE p
Parsecmd(s) == Whole(Parseline(s))

-------------------------------------------------------------------------------
(* What the grammar says: a command as one writes it, with parentheses where *)
(* they are needed, and sp wherever there may be space.                        *)

Chars(parts, sp) == FoldLeft(LAMBDA s, p : s \o sp \o p, << >>, parts)
Paren(s, sp) == Chars(<< <<"(">>, s, <<")">> >>, sp)
Mode(m) == IF m = "+" THEN <<">", ">">> ELSE <<m>>
RECURSIVE Show(_, _)
\* c as a part of a larger command, which only those of the given types need not be quoted in.
Part(c, types, sp) == IF c.type \in types THEN Show(c, sp) ELSE Paren(Show(c, sp), sp)
Show(c, sp) ==
  CASE c.type = "EXEC" -> Chars([i \in 1..Len(c.argv) |-> c.argv[i] \o <<" ">>], sp)
    [] c.type = "REDIR" -> Chars(<<Part(c.cmd, {"EXEC", "REDIR"}, sp), Mode(c.mode), c.file, <<" ">> >>, sp)
    [] c.type = "PIPE" -> Chars(<<Part(c.left, {"EXEC", "REDIR"}, sp), <<"|">>,
                                  Part(c.right, {"EXEC", "REDIR", "PIPE"}, sp)>>, sp)
    [] c.type = "BACK" -> Chars(<<Part(c.cmd, {"EXEC", "REDIR", "PIPE", "BACK"}, sp), <<"&">> >>, sp)
    [] c.type = "LIST" -> Chars(<<Part(c.left, {"EXEC", "REDIR", "PIPE", "BACK"}, sp), <<";">>,
                                  Show(c.right, sp)>>, sp)

\* A command that is written down is read as that command, however it is spaced.
ReadsBack(c, sp) == Parsecmd(Show(c, sp)) = Parsed(c, << >>)

\* Whatever is typed is refused, or becomes a command of the same words.
RECURSIVE Words(_)
Words(c) == CASE c.type = "EXEC" -> c.argv
              [] c.type = "REDIR" -> Append(Words(c.cmd), c.file)
              [] c.type = "BACK" -> Words(c.cmd)
              [] OTHER -> Words(c.left) \o Words(c.right)
RECURSIVE Typed(_)
Typed(s) == IF s = << >> THEN << >>
            ELSE IF Letter(Head(s)) THEN <<Word(s)>> \o Typed(DropWhile(s, Letter))
            ELSE Typed(Tail(s))
Times(w, s) == Cardinality({i \in DOMAIN s : s[i] = w})
KeepsWords(s) == Parsecmd(s).ok =>
                   \A w \in ToSet(Typed(s)) \cup ToSet(Words(Parsecmd(s).cmd)) :
                     Times(w, Typed(s)) = Times(w, Words(Parsecmd(s).cmd))
===============================================================================
