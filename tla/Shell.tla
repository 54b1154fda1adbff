---------------------------------- MODULE Shell ----------------------------------
(***************************************************************************)
(* user/init.c and user/sh.c at work, with echo and cat as the programs they *)
(* run: processes that fork, wait, exec and exit, and their descriptors of    *)
(* the console, of files and of the ends of pipes.                            *)
(***************************************************************************)
EXTENDS ShellParse, Functions, TLC

CONSTANTS Scripts,        \* what is typed, line by line, before the end of input
          Pid,            \* 1..n; 1 is init
          PIPESIZE,
          MaxFails        \* forks, execs, opens and pipes that fail

VARIABLES proc,           \* per process: state, parent, place, command, descriptors
          script,         \* the lines not yet typed
          pipes,          \* the bytes in each pipe
          files, offs,    \* contents by name; per open file, its offset
          tty,            \* what the console shows
          shell,          \* init's child
          fails,
          meant           \* what tty and files should be by the next prompt; whether
                          \* there was a background command

shellVars == <<proc, script, pipes, files, offs, tty, shell, fails, meant>>

Init1 == CHOOSE p \in Pid : \A q \in Pid : p <= q
Console == [kind |-> "tty", n |-> 0]
Ends == {"read", "write"}
Unused == [st |-> "unused", parent |-> 0, at |-> "", cmd |-> Exec(<< >>), fds |-> << >>]

Runs(p, at) == proc[p].st = "run" /\ proc[p].at = at
Cmd(p) == proc[p].cmd
Is(p, type) == Runs(p, "cmd") /\ Cmd(p).type = type
Kids(p) == {q \in Pid : proc[q].st # "unused" /\ proc[q].parent = p}
Open == UNION {Range(proc[p].fds) : p \in Pid}
Fd == 0..15
Lowest(fds) == Min(Fd \ DOMAIN fds)
Dup(fds, x) == (Lowest(fds) :> x) @@ fds
Close(fds, fd) == Restrict(fds, DOMAIN fds \ {fd})
CloseAll(fds, S) == Restrict(fds, DOMAIN fds \ S)
\* x in the place of fd. Mutant: it is opened before fd is closed.
Reopen_Before(fds, fd, x) == Close(Dup(fds, x), fd)
Reopen(fds, fd, x) == Dup(Close(fds, fd), x)

\* A line, without the space before it, and what parsecmd will make of it.
Line(s) == [text |-> s, parsed |-> Parsecmd(s)]
Session(lines) == [i \in DOMAIN lines |-> Line(Skip(lines[i]))]

Init == /\ proc = [p \in Pid |-> IF p = Init1 THEN [Unused EXCEPT !.st = "run", !.at = "boot"]
                                 ELSE Unused]
        /\ script \in {Session(s) : s \in Scripts}
        /\ pipes = << >> /\ files = << >> /\ offs = << >> /\ tty = << >>
        /\ shell = Init1 /\ fails = 0
        /\ meant = [tty |-> << >>, files |-> << >>, back |-> FALSE]

-------------------------------------------------------------------------------
(* What a line means: its output, and what is left of its input, for every     *)
(* order in which its processes run.                                           *)

Overwrite(old, new) == [i \in 1..Max({Len(old), Len(new)}) |-> IF i <= Len(new) THEN new[i] ELSE old[i]]
Opened(fs, f, mode) == IF mode = ">" \/ f \notin DOMAIN fs THEN (f :> << >>) @@ fs ELSE fs
Result(out, in, fs) == [out |-> out, in |-> in, files |-> fs]

RECURSIVE Means(_, _, _)
Then2(x, cmd) == LET y == Means(cmd, x.in, x.files) IN [y EXCEPT !.out = x.out \o @]
IntoFile(x, f) == [x EXCEPT !.out = << >>, !.files[f] = Overwrite(@, x.out)]
Means(cmd, in, fs) ==
  CASE cmd.type = "EXEC" ->
         IF cmd.argv = << >> THEN Result(<< >>, in, fs)
         ELSE IF cmd.argv[1] = <<"e">> THEN Result(Tail(cmd.argv), in, fs)
         ELSE IF cmd.argv[1] = <<"c">> THEN Result(in, << >>, fs)
         ELSE Result(<< >>, in, fs)
    [] cmd.type = "REDIR" ->
         IF cmd.mode # "<" THEN IntoFile(Means(cmd.cmd, in, Opened(fs, cmd.file, cmd.mode)), cmd.file)
         ELSE IF cmd.file \notin DOMAIN fs THEN Result(<< >>, in, fs)
         ELSE [Means(cmd.cmd, fs[cmd.file], fs) EXCEPT !.in = in]
    [] cmd.type = "LIST" -> Then2(Means(cmd.left, in, fs), cmd.right)
    [] cmd.type = "PIPE" -> LET x == Means(cmd.left, in, fs)
                            IN [Means(cmd.right, x.out, x.files) EXCEPT !.in = x.in]
    [] OTHER -> Means(cmd.cmd, in, fs)

-------------------------------------------------------------------------------
(* System calls of p *)

Keep == UNCHANGED <<script, meant, shell>>
Data == <<pipes, files, offs, tty>>

\* p goes on at a place, with these descriptors.
Go(p, at, fds) == proc' = [proc EXCEPT ![p].at = at, ![p].fds = fds]

\* fork: the child starts at a place with a command; p goes on at another.
Fork(p, at, childAt, cmd) ==
  \E c \in {q \in Pid : proc[q].st = "unused"} :
    /\ \A q \in Pid : proc[q].st = "unused" => c <= q
    /\ proc' = [proc EXCEPT ![p].at = at,
                            ![c] = [st |-> "run", parent |-> p, at |-> childAt, cmd |-> cmd,
                                    fds |-> proc[p].fds]]

Exited(p) == [q \in Pid |-> IF q = p THEN [proc[p] EXCEPT !.st = "zombie", !.fds = << >>]
                            ELSE IF proc[q].parent = p THEN [proc[q] EXCEPT !.parent = Init1]
                            ELSE proc[q]]
Exit(p) == proc' = Exited(p)

\* A call fails for want of memory, of a file or of a process: what follows is an exit.
Failure == fails < MaxFails /\ fails' = fails + 1
Fails(p) == Failure /\ Exit(p) /\ UNCHANGED Data

\* wait(0): reaps one child, or returns at once when there is none.
Waits(p, at) == \/ \E q \in Kids(p) : /\ proc[q].st = "zombie"
                                      /\ proc' = [proc EXCEPT ![q] = Unused, ![p].at = at]
                \/ Kids(p) = {} /\ proc' = [proc EXCEPT ![p].at = at]

-------------------------------------------------------------------------------
(* runcmd *)

Known(argv) == argv # << >> /\ argv[1] \in {<<"e">>, <<"c">>}
RunExec(p) ==
  /\ Is(p, "EXEC")
  /\ \/ /\ Known(Cmd(p).argv)
        /\ proc' = [proc EXCEPT ![p].at = IF Cmd(p).argv[1] = <<"e">> THEN "echo" ELSE "cat",
                                ![p].cmd.argv = Tail(@)]
        /\ UNCHANGED <<Data, fails>>
     \/ ~Known(Cmd(p).argv) /\ Exit(p) /\ UNCHANGED <<Data, fails>>
     \/ Known(Cmd(p).argv) /\ Fails(p)
  /\ Keep

NewNumber(f) == Cardinality(DOMAIN f) + 1
Missing(cmd) == cmd.mode = "<" /\ cmd.file \notin DOMAIN files
RunRedir(p) ==
  /\ Is(p, "REDIR")
  /\ LET f == Cmd(p).file
         in == Cmd(p).mode = "<"
         n == NewNumber(offs)
     IN \/ /\ ~Missing(Cmd(p))
           /\ files' = IF in THEN files ELSE Opened(files, f, Cmd(p).mode)
           /\ offs' = (n :> 0) @@ offs
           /\ proc' = [proc EXCEPT ![p].cmd = @.cmd,
                         ![p].fds = Reopen(@, IF in THEN 0 ELSE 1,
                                           [kind |-> "file", n |-> n, name |-> f])]
           /\ UNCHANGED <<pipes, tty, fails>>
        \/ Missing(Cmd(p)) /\ Exit(p) /\ UNCHANGED <<Data, fails>>
        \/ /\ ~Missing(Cmd(p)) /\ Failure /\ Exit(p)     \* it may have made the file
           /\ files' \in {files, IF in THEN files ELSE Opened(files, f, "+")}
           /\ UNCHANGED <<pipes, offs, tty>>
  /\ Keep

\* fork1 in runcmd
ForkOrPanic(p, at, childAt, cmd) ==
  /\ (Fork(p, at, childAt, cmd) /\ UNCHANGED <<Data, fails>>) \/ Fails(p)
  /\ Keep

RunList(p) == Is(p, "LIST") /\ ForkOrPanic(p, "list", "cmd", Cmd(p).left)
ListWaits(p) == /\ Runs(p, "list") /\ Waits(p, "right")
                /\ UNCHANGED <<Data, fails>> /\ Keep
RunRight(p) == /\ Runs(p, "right")
               /\ proc' = [proc EXCEPT ![p].at = "cmd", ![p].cmd = @.right]
               /\ UNCHANGED <<Data, fails>> /\ Keep
RunBack(p) == Is(p, "BACK") /\ ForkOrPanic(p, "exit", "cmd", Cmd(p).cmd)

\* p[0] and p[1]
PipeEnds(p) == {fd \in DOMAIN proc[p].fds : fd > 2 /\ proc[p].fds[fd].kind \in Ends}
EndOf(p, kind) == CHOOSE x \in {proc[p].fds[fd] : fd \in PipeEnds(p)} : x.kind = kind
RunPipe(p) ==
  /\ Is(p, "PIPE")
  /\ \/ LET n == NewNumber(pipes)
        IN /\ pipes' = (n :> << >>) @@ pipes
           /\ Go(p, "left", Dup(Dup(proc[p].fds, [kind |-> "read", n |-> n]), [kind |-> "write", n |-> n]))
           /\ UNCHANGED <<files, offs, tty, fails>>
     \/ Fails(p)
  /\ Keep
ForkLeft(p) == Runs(p, "left") /\ ForkOrPanic(p, "then right", "to pipe", Cmd(p).left)
ForkRight(p) == Runs(p, "then right") /\ ForkOrPanic(p, "close", "from pipe", Cmd(p).right)

\* close, dup, close and close in a child; close and close in the parent.
\* Mutant: the parent keeps them.
EndsClosed_Not(p) == proc[p].fds
EndsClosed(p) == CloseAll(proc[p].fds, PipeEnds(p))
Plumb(p) ==
  /\ \/ /\ Runs(p, "to pipe")
        /\ Go(p, "cmd", CloseAll(Reopen(proc[p].fds, 1, EndOf(p, "write")), PipeEnds(p)))
     \/ /\ Runs(p, "from pipe")
        /\ Go(p, "cmd", CloseAll(Reopen(proc[p].fds, 0, EndOf(p, "read")), PipeEnds(p)))
     \/ Runs(p, "close") /\ Go(p, "wait", EndsClosed(p))
  /\ UNCHANGED <<Data, fails>> /\ Keep
PipeWaits(p) == /\ \/ Runs(p, "wait") /\ Waits(p, "last")
                   \/ Runs(p, "last") /\ Waits(p, "exit")
                /\ UNCHANGED <<Data, fails>> /\ Keep
Leave(p) == /\ Runs(p, "exit") /\ Exit(p)
            /\ UNCHANGED <<Data, fails>> /\ Keep

RunCmd(p) == \/ RunExec(p) \/ RunRedir(p) \/ RunList(p) \/ ListWaits(p) \/ RunRight(p)
             \/ RunBack(p) \/ RunPipe(p) \/ ForkLeft(p) \/ ForkRight(p) \/ Plumb(p)
             \/ PipeWaits(p) \/ Leave(p)

-------------------------------------------------------------------------------
(* Programs: echo writes its arguments, cat what it reads.  A byte is a word.  *)

In(p) == proc[p].fds[0]
Out(p) == proc[p].fds[1]
Readers(x) == [x EXCEPT !.kind = "read"] \in Open

\* One byte to standard output: it may have to wait, or find nobody to read it.
CanWrite(p) == Out(p).kind = "write" /\ Readers(Out(p)) => Len(pipes[Out(p).n]) < PIPESIZE
Write(p, b) ==
  CASE Out(p).kind = "tty" -> tty' = Append(tty, b) /\ UNCHANGED <<pipes, files, offs>>
    [] Out(p).kind = "file" ->
         LET n == Out(p).n
         IN /\ files' = [files EXCEPT ![Out(p).name] =
                           IF offs[n] < Len(@) THEN [@ EXCEPT ![offs[n] + 1] = b] ELSE Append(@, b)]
            /\ offs' = [offs EXCEPT ![n] = @ + 1] /\ UNCHANGED <<pipes, tty>>
    [] OTHER -> /\ pipes' = IF Readers(Out(p)) THEN [pipes EXCEPT ![Out(p).n] = Append(@, b)]
                            ELSE pipes
                /\ UNCHANGED <<files, offs, tty>>

\* What is there to be read on standard input.
Unread(p) == CASE In(p).kind = "read" -> pipes[In(p).n]
               [] In(p).kind = "file" -> SubSeq(files[In(p).name], offs[In(p).n] + 1,
                                                Len(files[In(p).name]))
               [] OTHER -> << >>
AtEnd(p) == Unread(p) = << >> /\ ~(In(p).kind = "read" /\ [In(p) EXCEPT !.kind = "write"] \in Open)

\* cat holds the byte it has read in its argument list. It exits when nobody reads what
\* it writes; echo goes on.
Writes(p) == /\ Runs(p, "echo") \/ Runs(p, "cat")
             /\ Cmd(p).argv # << >> /\ CanWrite(p)
             /\ Write(p, Head(Cmd(p).argv))
             /\ IF Runs(p, "cat") /\ Out(p).kind = "write" /\ ~Readers(Out(p)) THEN Exit(p)
                ELSE proc' = [proc EXCEPT ![p].cmd.argv = Tail(@)]
             /\ UNCHANGED fails /\ Keep
Reads(p) == /\ Runs(p, "cat") /\ Cmd(p).argv = << >> /\ Unread(p) # << >>
            /\ proc' = [proc EXCEPT ![p].cmd.argv = <<Head(Unread(p))>>]
            /\ IF In(p).kind = "read" THEN pipes' = [pipes EXCEPT ![In(p).n] = Tail(@)] /\ UNCHANGED offs
               ELSE offs' = [offs EXCEPT ![In(p).n] = @ + 1] /\ UNCHANGED pipes
            /\ UNCHANGED <<files, tty, fails>> /\ Keep
Finishes(p) == /\ Runs(p, "echo") \/ (Runs(p, "cat") /\ AtEnd(p))
               /\ Cmd(p).argv = << >>
               /\ Exit(p)
               /\ UNCHANGED <<Data, fails>> /\ Keep
Program(p) == Writes(p) \/ Reads(p) \/ Finishes(p)

-------------------------------------------------------------------------------
(* sh's main, and init *)

Std == (0 :> Console) @@ (1 :> Console) @@ (2 :> Console)

RECURSIVE HasBack(_)
HasBack(c) == CASE c.type = "EXEC" -> FALSE
                [] c.type = "REDIR" -> HasBack(c.cmd)
                [] c.type = "BACK" -> TRUE
                [] OTHER -> HasBack(c.left) \/ HasBack(c.right)

\* A line is read; blank ones and cd are the shell's own.
Cd(text) == Len(text) > 2 /\ SubSeq(text, 1, 3) = <<"c", "d", " ">>
Meant(c, x) == [tty |-> meant.tty \o x.out, files |-> x.files,
                back |-> meant.back \/ HasBack(c)]
Prompt(p) ==
  /\ Runs(p, "prompt") /\ script # << >>
  /\ script' = Tail(script)
  /\ LET text == Head(script).text
         parsed == Head(script).parsed
     IN IF text = << >> \/ Cd(text) THEN UNCHANGED <<proc, meant, Data, fails>>
        ELSE /\ \/ Fork(p, "line", "parse", parsed) /\ UNCHANGED <<Data, fails>>
                \/ Fails(p)
             /\ meant' = IF parsed.ok THEN Meant(parsed.cmd, Means(parsed.cmd, << >>, meant.files))
                         ELSE meant
  /\ UNCHANGED shell
Parse(p) == /\ Runs(p, "parse")
            /\ IF Cmd(p).ok THEN proc' = [proc EXCEPT ![p].at = "cmd", ![p].cmd = @.cmd]
               ELSE Exit(p)
            /\ UNCHANGED <<Data, fails>> /\ Keep
LineDone(p) == /\ Runs(p, "line") /\ Waits(p, "prompt")
               /\ UNCHANGED <<Data, fails>> /\ Keep
EndOfInput(p) == /\ Runs(p, "prompt") /\ script = << >>
                 /\ Exit(p)
                 /\ UNCHANGED <<Data, fails>> /\ Keep

\* main opens the console until it has three descriptors, and closes the fourth.
ShStart(p) == /\ Runs(p, "sh")
              /\ Go(p, "prompt", Restrict(proc[p].fds @@ Std, 0..2))
              /\ UNCHANGED <<Data, fails>> /\ Keep
\* init's child cannot exec the shell.
NoExec(p) == Runs(p, "sh") /\ Fails(p) /\ Keep

\* init opens the console and dups it, starts a shell and waits until that is gone. It
\* always has the shell to wait for.
Boot == /\ Runs(Init1, "boot")
        /\ Go(Init1, "start", Dup(Dup(Dup(<< >>, Console), Console), Console))
        /\ UNCHANGED <<Data, fails>> /\ Keep
StartShell == /\ Runs(Init1, "start") /\ Fork(Init1, "watch", "sh", Exec(<< >>))
              /\ shell' = CHOOSE q \in Pid : proc'[q] # proc[q] /\ q # Init1
              /\ UNCHANGED <<Data, fails, script, meant>>
\* init's fork fails: it exits, and the kernel panics ("init exiting") and spins.
NoShell == /\ Runs(Init1, "start") /\ Failure
           /\ Go(Init1, "panic", proc[Init1].fds)
           /\ UNCHANGED Data /\ Keep
Panicked == Runs(Init1, "panic")
Spin == Panicked /\ UNCHANGED shellVars
Reap == /\ Runs(Init1, "watch")
        /\ \E q \in Kids(Init1) :
             /\ proc[q].st = "zombie"
             /\ proc' = [proc EXCEPT ![q] = Unused, ![Init1].at = IF q = shell THEN "start" ELSE @]
        /\ UNCHANGED <<Data, fails>> /\ Keep

Shell(p) == Prompt(p) \/ Parse(p) \/ LineDone(p) \/ EndOfInput(p)
            \/ ShStart(p) \/ NoExec(p)
InitProc == Boot \/ StartShell \/ NoShell \/ Reap
Process(p) == Shell(p) \/ RunCmd(p) \/ Program(p)

\* After a panic the other CPUs may go on.
Next == InitProc \/ Spin \/ \E p \in Pid : Process(p)

\* Every process goes on as long as it can, until the kernel panics.
Fairness == /\ WF_shellVars(InitProc)
            /\ \A p \in Pid : WF_shellVars(~Panicked /\ Process(p))

-------------------------------------------------------------------------------
(* Properties *)

\* At a prompt, when nothing runs any more, what was typed has done what it means:
\* the console and the files hold what every command was to write, in that order
\* unless there was a background command.
Quiet == \A p \in Pid : proc[p].st = "run" => p \in {Init1, shell}
Same(s, t) == IF meant.back THEN \A b \in ToSet(s \o t) : Times(b, s) = Times(b, t) ELSE s = t
LinesDone == \A p \in Pid : Runs(p, "prompt") =>
               /\ meant.back \/ fails > 0 \/ Quiet
               /\ Quiet /\ fails = 0 => /\ Same(tty, meant.tty)
                                        /\ DOMAIN files = DOMAIN meant.files
                                        /\ \A f \in DOMAIN files : Same(files[f], meant.files[f])

\* A command and the shell have standard descriptors and no other.
FdsClean == \A p \in Pid : /\ Runs(p, "prompt") => proc[p].fds = Std
                           /\ proc[p].at \in {"cmd", "echo", "cat"} /\ proc[p].st = "run" =>
                                DOMAIN proc[p].fds = 0..2
ShellInv == LinesDone /\ FdsClean

\* The prompt comes back, always: no line leaves the shell or a pipe waiting, whatever
\* has failed, but for init's own fork, after which there is no kernel to come back to.
PromptReturns == []<>(Panicked \/ \E p \in Pid : Runs(p, "prompt"))
===============================================================================
