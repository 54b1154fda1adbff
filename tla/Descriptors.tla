------------------------------- MODULE Descriptors -------------------------------
(***************************************************************************)
(* kernel/file.c's table of open files, and who uses it: the descriptors of   *)
(* processes (kernel/sysfile.c), pipealloc and pipeclose, fork and exit.      *)
(* ftable.lock makes each use of the table one step; what the last close does *)
(* to a pipe or an inode comes after it, when the entry may be in use again.  *)
(* Devices are opened and closed as inodes are.                               *)
(***************************************************************************)
EXTENDS Integers, SequencesExt, FiniteSetsExt, TLC

CONSTANTS Proc, First, NFILE, NOFILE, Page, Inum, Dir, Root,
          Opens        \* the inodes that open is called for

VARIABLES file,        \* ftable
          ofile, cwd,  \* per process: per descriptor, its entry or 0; a directory
          at, made,    \* place; entries that filealloc has given to this call
          todo,        \* what is left to close, in order
          pipe, iref   \* the open ends of the pipe in each page; references to inodes

descVars == <<file, ofile, cwd, at, made, todo, pipe, iref>>

Slot == 1..NFILE
Fd == 0..(NOFILE - 1)
Closed == [fd \in Fd |-> 0]
Unused == [ref |-> 0, type |-> "none", obj |-> Root, writable |-> FALSE]

FileClose(s) == [do |-> "fileclose", obj |-> s, writable |-> FALSE]
PipeClose(pg, w) == [do |-> "pipe", obj |-> pg, writable |-> w]
Iput(i) == [do |-> "inode", obj |-> i, writable |-> FALSE]

None == <<"none">>
User == <<"user">>
InPipe == <<"pipe">>
Exiting == <<"exit">>
InOpen(i) == <<"open", i>>

Init == /\ file = [s \in Slot |-> Unused]
        /\ ofile = [p \in Proc |-> Closed] /\ cwd = [p \in Proc |-> Root]
        /\ at = [p \in Proc |-> IF p = First THEN User ELSE None]
        /\ made = [p \in Proc |-> << >>] /\ todo = [p \in Proc |-> << >>]
        /\ pipe = [pg \in Page |-> {}]
        /\ iref = [i \in Inum |-> IF i = Root THEN 1 ELSE 0]

Syscall(p) == at[p] = User /\ todo[p] = << >>
Goto(p, from, to) == at[p] = from /\ at' = [at EXCEPT ![p] = to]

-------------------------------------------------------------------------------
(* The table, and a process's descriptors *)

FreeSlots == {s \in Slot : file[s].ref = 0}
Filealloc(p) == /\ made' = [made EXCEPT ![p] = Append(@, Min(FreeSlots))]
                /\ file' = [file EXCEPT ![Min(FreeSlots)].ref = 1]
\* n calls of it for an entry f; mutant: without the increment
Filedup_Not(f, n) == f
Filedup(f, n) == [f EXCEPT !.ref = @ + n]

FreeFds(fds) == {fd \in Fd : fds[fd] = 0}
Fdalloc(fds, s) == [fds EXCEPT ![Min(FreeFds(fds))] = s]
\* the same, for the entries of this call: one or two
HasRoom(p) == Cardinality(FreeFds(ofile[p])) >= Len(made[p])
Given(p) == [ofile EXCEPT ![p] = IF Len(made[p]) = 1 THEN Fdalloc(@, made[p][1])
                                 ELSE Fdalloc(Fdalloc(@, made[p][1]), made[p][2])]
GiveBack(p, more) == /\ todo' = [todo EXCEPT ![p] = [k \in DOMAIN made[p] |-> FileClose(made[p][k])] \o more]
                     /\ made' = [made EXCEPT ![p] = << >>]

\* fileclose, under the lock; what else is in the entry is set again before it is read.
\* Mutant: the type is left.
Emptied_Type(f) == [f EXCEPT !.ref = 0]
Emptied(f) == Unused
Dropped(f) == [f EXCEPT !.ref = @ - 1]
Ending(f) == IF f.type = "none" THEN << >>
             ELSE IF f.type = "pipe" THEN <<PipeClose(f.obj, f.writable)>> ELSE <<Iput(f.obj)>>
CloseFile(p) ==
  /\ todo[p] # << >> /\ Head(todo[p]).do = "fileclose"
  /\ LET s == Head(todo[p]).obj
         last == file[s].ref = 1
     IN /\ file' = [file EXCEPT ![s] = IF last THEN Emptied(@) ELSE Dropped(@)]
        /\ todo' = [todo EXCEPT ![p] = (IF last THEN Ending(file[s]) ELSE << >>) \o Tail(@)]
  /\ UNCHANGED <<ofile, cwd, at, made, pipe, iref>>
\* and after it, with the copy ff
End(w) == IF w THEN "w" ELSE "r"
CloseEnd(p) ==
  /\ todo[p] # << >> /\ Head(todo[p]).do # "fileclose"
  /\ LET x == Head(todo[p])
     IN IF x.do = "pipe" THEN pipe' = [pipe EXCEPT ![x.obj] = @ \ {End(x.writable)}] /\ UNCHANGED iref
        ELSE iref' = [iref EXCEPT ![x.obj] = @ - 1] /\ UNCHANGED pipe
  /\ todo' = [todo EXCEPT ![p] = Tail(@)]
  /\ UNCHANGED <<file, ofile, cwd, at, made>>

-------------------------------------------------------------------------------
(* dup, close, fork, exit, chdir *)

Dup(p, fd) == /\ Syscall(p) /\ ofile[p][fd] # 0 /\ FreeFds(ofile[p]) # {}
              /\ ofile' = [ofile EXCEPT ![p] = Fdalloc(@, @[fd])]
              /\ file' = [file EXCEPT ![ofile[p][fd]] = Filedup(@, 1)]
              /\ UNCHANGED <<cwd, at, made, todo, pipe, iref>>
Close(p, fd) == /\ Syscall(p) /\ ofile[p][fd] # 0
                /\ ofile' = [ofile EXCEPT ![p][fd] = 0]
                /\ todo' = [todo EXCEPT ![p] = <<FileClose(ofile[p][fd])>>]
                /\ UNCHANGED <<file, cwd, at, made, pipe, iref>>

Stand(p, s) == {fd \in Fd : ofile[p][fd] = s}       \* for an entry
Fork(p, q) == /\ Syscall(p) /\ at[q] = None /\ todo[q] = << >>
              /\ at' = [at EXCEPT ![q] = User]
              /\ ofile' = [ofile EXCEPT ![q] = ofile[p]] /\ cwd' = [cwd EXCEPT ![q] = cwd[p]]
              /\ file' = [s \in Slot |-> Filedup(file[s], Cardinality(Stand(p, s)))]
              /\ iref' = [iref EXCEPT ![cwd[p]] = @ + 1]
              /\ UNCHANGED <<made, todo, pipe>>
\* Exit closes descriptors one by one, then lets go of the directory.
Exit(p) == /\ Syscall(p) /\ p # First /\ Goto(p, User, Exiting)
           /\ UNCHANGED <<file, ofile, cwd, made, todo, pipe, iref>>
ExitClose(p, fd) ==
  /\ at[p] = Exiting /\ todo[p] = << >>
  /\ ofile[p][fd] # 0 /\ \A n \in Fd : n < fd => ofile[p][n] = 0
  /\ ofile' = [ofile EXCEPT ![p][fd] = 0]
  /\ todo' = [todo EXCEPT ![p] = <<FileClose(ofile[p][fd])>>]
  /\ UNCHANGED <<file, cwd, at, made, pipe, iref>>
ExitEnd(p) == /\ Goto(p, Exiting, None) /\ todo[p] = << >> /\ ofile[p] = Closed
              /\ todo' = [todo EXCEPT ![p] = <<Iput(cwd[p])>>]
              /\ UNCHANGED <<file, ofile, cwd, made, pipe, iref>>
\* namei has found i, which may not be a directory.
Chdir(p, i) == /\ Syscall(p)
               /\ iref' = [iref EXCEPT ![i] = @ + 1]
               /\ cwd' = [cwd EXCEPT ![p] = IF i \in Dir THEN i ELSE @]
               /\ todo' = [todo EXCEPT ![p] = <<Iput(IF i \in Dir THEN cwd[p] ELSE i)>>]
               /\ UNCHANGED <<file, ofile, at, made, pipe>>

-------------------------------------------------------------------------------
(* open: an inode, an entry for it, a descriptor *)

OpenCall(p, i) == /\ Syscall(p) /\ Goto(p, User, InOpen(i))
                  /\ iref' = [iref EXCEPT ![i] = @ + 1]
                  /\ UNCHANGED <<file, ofile, cwd, made, todo, pipe>>
OpenAlloc(p, i) == /\ at[p] = InOpen(i) /\ made[p] = << >> /\ FreeSlots # {}
                   /\ Filealloc(p)
                   /\ UNCHANGED <<ofile, cwd, at, todo, pipe, iref>>
OpenDone(p, i) == /\ Goto(p, InOpen(i), User) /\ made[p] # << >> /\ HasRoom(p)
                  /\ ofile' = Given(p)
                  /\ \E w \in {FALSE, i \notin Dir} :
                       file' = [file EXCEPT ![Head(made[p])] =
                                  [@ EXCEPT !.type = "inode", !.obj = i, !.writable = w]]
                  /\ made' = [made EXCEPT ![p] = << >>]
                  /\ UNCHANGED <<cwd, todo, pipe, iref>>
\* no entry, or no descriptor
OpenFail(p, i) == /\ Goto(p, InOpen(i), User)
                  /\ IF made[p] = << >> THEN FreeSlots = {} ELSE ~HasRoom(p)
                  /\ GiveBack(p, <<Iput(i)>>)
                  /\ UNCHANGED <<file, ofile, cwd, pipe, iref>>

-------------------------------------------------------------------------------
(* pipe: two entries and a page, which pipealloc gives back when one of them is *)
(* missing, and then two descriptors                                           *)

PipeFile(p) == /\ Syscall(p) \/ (at[p] = InPipe /\ Len(made[p]) < 2)
               /\ FreeSlots # {} /\ Filealloc(p)
               /\ at' = [at EXCEPT ![p] = InPipe]
               /\ UNCHANGED <<ofile, cwd, todo, pipe, iref>>
PipeFail(p) == /\ Goto(p, InPipe, User)
               /\ Len(made[p]) = 2 \/ FreeSlots = {}           \* kalloc fails, or filealloc
               /\ GiveBack(p, << >>)
               /\ UNCHANGED <<file, ofile, cwd, pipe, iref>>
PipeEnd(f, pg, w) == [f EXCEPT !.type = "pipe", !.obj = pg, !.writable = w]
PipeDone(p, pg) ==
  /\ Goto(p, InPipe, User) /\ Len(made[p]) = 2 /\ pipe[pg] = {}
  /\ pipe' = [pipe EXCEPT ![pg] = {"r", "w"}]
  /\ file' = [file EXCEPT ![made[p][1]] = PipeEnd(@, pg, FALSE), ![made[p][2]] = PipeEnd(@, pg, TRUE)]
  /\ \/ HasRoom(p) /\ ofile' = Given(p) /\ made' = [made EXCEPT ![p] = << >>] /\ UNCHANGED todo
     \/ GiveBack(p, << >>) /\ UNCHANGED ofile        \* no descriptors, or copyout fails
  /\ UNCHANGED <<cwd, iref>>

Next == \E p \in Proc : \/ CloseFile(p) \/ CloseEnd(p) \/ Exit(p) \/ ExitEnd(p)
                        \/ \E fd \in Fd : Dup(p, fd) \/ Close(p, fd) \/ ExitClose(p, fd)
                        \/ \E q \in Proc : Fork(p, q)
                        \/ \E i \in Inum : Chdir(p, i)
                        \/ \E i \in Opens : \/ OpenCall(p, i) \/ OpenAlloc(p, i)
                                            \/ OpenDone(p, i) \/ OpenFail(p, i)
                        \/ PipeFile(p) \/ PipeFail(p)
                        \/ \E pg \in Page : PipeDone(p, pg)
Spec == Init /\ [][Next]_descVars

-------------------------------------------------------------------------------
(* Properties *)

\* How many there are in the sets A[p], over the processes; of x in the sequences t[p].
Count(A) == Cardinality(UNION {{p} \X A[p] : p \in Proc})
Places(t, x) == {k \in DOMAIN t : t[k] = x}
Todo(x) == Count([p \in Proc |-> Places(todo[p], x)])

\* An entry has as many references as there are descriptors, calls and closes under
\* way that stand for it; so filedup and fileclose never panic, and none is lost.
RefExact == \A s \in Slot :
  file[s].ref = Count([p \in Proc |-> Stand(p, s)])
                + Count([p \in Proc |-> Places(made[p], s)]) + Todo(FileClose(s))

\* One entry, or one close under way, stands for each open end of a pipe, and as many
\* as it has references for an inode, besides directories and calls.
Entries(type, x, w) == Cardinality({s \in Slot : /\ file[s].ref > 0 /\ file[s].type = type
                                                 /\ file[s].obj = x /\ file[s].writable = w})
EndsExact == \A pg \in Page, w \in BOOLEAN :
  Entries("pipe", pg, w) + Todo(PipeClose(pg, w)) = IF End(w) \in pipe[pg] THEN 1 ELSE 0
InodesExact == \A i \in Inum :
  iref[i] = Entries("inode", i, FALSE) + Entries("inode", i, TRUE) + Todo(Iput(i))
            + Cardinality({p \in Proc : at[p] = InOpen(i)})
            + Cardinality({p \in Proc : at[p] # None /\ cwd[p] = i})
DescInv == RefExact /\ EndsExact /\ InodesExact

\* The objects behind the descriptors of each process are as FdTable promises.
Object(s) == [type |-> file[s].type, obj |-> file[s].obj, writable |-> file[s].writable]
Numbers == INSTANCE FdTable WITH
  fds <- [p \in Proc |-> [fd \in Fd \ FreeFds(ofile[p]) |-> Object(ofile[p][fd])]],
  Ends <- {[r |-> [type |-> "pipe", obj |-> pg, writable |-> FALSE],
            w |-> [type |-> "pipe", obj |-> pg, writable |-> TRUE]] : pg \in Page},
  Objects <- {[type |-> "inode", obj |-> i, writable |-> w] : i \in Inum, w \in BOOLEAN}
ImplementsDescriptors == Numbers!Spec
===============================================================================
