------------------------------ MODULE MCLogBuffer ------------------------------
(***************************************************************************)
(* Small instances of LogBuffer, of Shell and of Heap, and what the shell's    *)
(* parser and the printfs are given, which share no variable: "part" says     *)
(* which of them a behaviour is about.                                        *)
(***************************************************************************)
EXTENDS LogBuffer, TLC

CONSTANTS MAXARGS, Pid, PIPESIZE, MaxFails, MaxLine, MaxTree,
          IntBits, LongBits, BufSize, MaxFormat,
          Requests, HeaderSize, MinUnits, Base, Start, MaxBrk
VARIABLES part, proc, script, pipes, files, offs, tty, shell, fails, meant,
          typed, tree,      \* what is typed at the parser; a command, and its depth
          format,           \* what the printfs are called with
          ptr, size, freep, brk, obtained, held, want, grown

-------------------------------------------------------------------------------
(* e is echo and c is cat; the rest are arguments and files. *)

E == "e"
C == "c"
X == "x"
Y == "y"
F == "f"
G == "g"
sp == " "
bar == "|"
MCScripts == {
  << <<E, sp, X, sp, bar, C, sp, bar, sp, C>>, <<E, sp, X, sp, Y, sp, X, sp, ">", F>> >>,
  << <<"(", E, sp, X, ";", E, sp, Y, ")", ">", F>>, <<C, "<", F, bar, C>> >>,
  << <<E, sp, X, sp, "&", ";", E, sp, Y>> >>,
  << <<"(", E, sp, X, ";", E, sp, Y, ")", bar, C>>, << >>, <<C, "d", sp, F>>, <<E, "&", E>> >>,
  << <<E, sp, X, sp, Y, ">", F, ">", G>>, <<E, sp, Y, ">", ">", F>>, <<C, "<", F, sp, sp>> >>,
  << <<E, sp, X, sp, bar, E, sp, Y>>, <<C, "<", G, bar, G>> >>}
Sh == INSTANCE Shell WITH Scripts <- MCScripts
shells == <<proc, script, pipes, files, offs, tty, shell, fails, meant>>

Small == {Sh!Exec(<< >>), Sh!Exec(<< <<X>> >>), Sh!Exec(<< <<X, Y>>, <<X>> >>)}
Larger(t) == {Sh!Redir(t, <<F>>, m) : m \in {"<", ">", "+"}} \cup {Sh!BackCmd(t)}
             \cup UNION {{Sh!PipeCmd(t, s), Sh!PipeCmd(s, t), Sh!ListCmd(t, s), Sh!ListCmd(s, t)} : s \in Small}
Type == /\ Len(typed) < MaxLine
        /\ \E ch \in Sh!Whitespace \cup Sh!Symbols \cup {X} : typed' = Append(typed, ch)
Build == /\ tree.depth < MaxTree
         /\ \E t \in Larger(tree.cmd) : tree' = [cmd |-> t, depth |-> tree.depth + 1]

-------------------------------------------------------------------------------
(* Formats, behind the beginnings given; numbers at the bounds of their types. *)

Fmt == INSTANCE Format
Beginnings == {<< >>, <<"%", "d">>, <<X, "%", "s">>}
Lengthen == /\ Len(format) < MaxFormat
            /\ \E ch \in {"%", "l", "d", "u", "x", "p", "c", "s"} : format' = Append(format, ch)
Arg(n, s) == [num |-> n, char |-> Y, str |-> s, null |-> s = << >>]
ArgLists == {<<Arg(2^LongBits - 1, << >>), Arg(0, <<X, Y>>), Arg(2^(LongBits - 1), <<X>>), Arg(2^IntBits, << >>)>>,
             <<Arg(2^(IntBits - 1), <<X, Y, X>>), Arg(171, << >>), Arg(1, << >>), Arg(2^IntBits - 1, <<Y>>)>>}

Alloc == INSTANCE Heap
heap == <<ptr, size, freep, brk, obtained, held, want, grown>>

-------------------------------------------------------------------------------

texts == <<typed, tree, format>>
MCInit == /\ Init /\ Sh!Init /\ Alloc!Init
          /\ part \in {"log", "shell", "typed", "tree", "format", "heap"}
          /\ part # "shell" => script = Sh!Session(CHOOSE s \in MCScripts : TRUE)
          /\ typed = << >> /\ tree \in {[cmd |-> t, depth |-> 0] : t \in Small}
          /\ part # "tree" => tree.cmd = Sh!Exec(<< >>)
          /\ format \in Beginnings /\ (part # "format" => format = << >>)
MCNext == \/ part = "log" /\ Next /\ UNCHANGED <<part, shells, texts, heap>>
          \/ part = "shell" /\ Sh!Next /\ UNCHANGED <<part, vars, texts, heap>>
          \/ part = "typed" /\ Type /\ UNCHANGED <<part, vars, shells, tree, format, heap>>
          \/ part = "tree" /\ Build /\ UNCHANGED <<part, vars, shells, typed, format, heap>>
          \/ part = "format" /\ Lengthen /\ UNCHANGED <<part, vars, shells, typed, tree, heap>>
          \/ part = "heap" /\ Alloc!Next /\ UNCHANGED <<part, vars, shells, texts>>
          \/ part \in {"typed", "tree", "format", "heap"} /\ UNCHANGED <<part, vars, shells, texts, heap>>

MCSpec == /\ MCInit /\ [][MCNext]_<<part, vars, shells, texts, heap>>
          /\ \A q \in CPU : WF_vars(part = "log" /\ (AddStep(q) \/ FlushStep(q)))
          /\ WF_shells(part = "shell" /\ Sh!InitProc)
          /\ \A p \in Pid : WF_shells(part = "shell" /\ ~Sh!Panicked /\ Sh!Process(p))

\* Lines do what they mean, and descriptors are closed (ShellInv of Shell).
ShellInv == Sh!ShellInv

\* The prompt comes back, unless init cannot fork (PromptReturns of Shell).
PromptReturns == part = "shell" => Sh!PromptReturns

\* A command that is written down is read as that command, however it is spaced, and
\* whatever is typed is refused or becomes a command of the same words (parsecmd).
ParserInv == /\ part = "typed" => Sh!KeepsWords(typed)
             /\ part = "tree" => Sh!ReadsBack(tree.cmd, << >>) /\ Sh!ReadsBack(tree.cmd, <<sp>>)

\* printf, vprintf and vsnprintf agree on what a format means, but for upper case and
\* for what the log has no room for; and numbers have a text that fits (Format).
FormatInv == part = "format" => /\ format \in Beginnings => Fmt!NumeralsRight
                                /\ \A args \in ArgLists : Fmt!FormatsAgree(format, args, {1, 4})

\* Blocks of the heap are apart and none is lost (HeapInv of Heap).
HeapInv == Alloc!HeapInv
===============================================================================
