---------------------------------- MODULE Pipe -----------------------------------
(***************************************************************************)
(* kernel/pipe.c: one pipe, with the two struct files of kernel/file.c that  *)
(* refer to it.  Processes inherit the ends by fork, read, write, close and  *)
(* are killed.  pi->lock is held over several steps, so that a kill, which   *)
(* does not take it, can come between any two bytes.                         *)
(***************************************************************************)
EXTENDS Integers, FiniteSets, Sequences

CONSTANTS Proc, Creator, NoProc, Byte,
          PIPESIZE,
          Wrap,           \* the counters are uints: here they wrap at Wrap
          MaxLen          \* the longest read and write

ASSUME SizeAssumption == /\ PIPESIZE \in Nat \ {0} /\ MaxLen \in Nat
                         /\ Wrap \in Nat /\ Wrap > PIPESIZE /\ Wrap % PIPESIZE = 0
ASSUME ProcAssumption == Creator \in Proc /\ NoProc \notin Proc /\ IsFiniteSet(Proc)

VARIABLES data, nread, nwrite,      \* struct pipe
          open, lock,               \* its open ends; the holder of its lock
          freed,                    \* kfree has been called
          ref,                      \* ref counts of the two struct files
          fds,                      \* the ends each process has a descriptor of
          pc, left, asleep,         \* place, bytes still to move, sleeping
          killed

pipeVars == <<data, nread, nwrite, open>>
fileVars == <<ref, fds>>
vars == <<pipeVars, lock, freed, fileVars, pc, left, asleep, killed>>

End == {"r", "w"}
Used == (nwrite - nread) % Wrap
Empty == nread = nwrite
\* Mutant: room for one byte more.
Full_Late == nwrite = (nread + PIPESIZE + 1) % Wrap

Full == nwrite = (nread + PIPESIZE) % Wrap

PC == {"none", "user", "write", "write_sleep", "read_wait", "read", "read_sleep", "close_r", "close_w"}

TypeOK == /\ data \in [0..(PIPESIZE - 1) -> Byte]
          /\ nread \in 0..(Wrap - 1) /\ nwrite \in 0..(Wrap - 1) /\ Used <= PIPESIZE
          /\ open \subseteq End /\ lock \in Proc \cup {NoProc} /\ freed \in BOOLEAN
          /\ fds \in [Proc -> SUBSET End]
          /\ ref = [e \in End |-> Cardinality({p \in Proc : e \in fds[p]})]
          /\ pc \in [Proc -> PC] /\ left \in [Proc -> 0..MaxLen]
          /\ asleep \in [Proc -> BOOLEAN] /\ killed \in [Proc -> BOOLEAN]

\* pipealloc; the page's bytes are whatever kalloc left there
Init == /\ data \in [0..(PIPESIZE - 1) -> Byte] /\ nread = 0 /\ nwrite = 0
        /\ open = End /\ lock = NoProc /\ freed = FALSE
        /\ ref = [e \in End |-> 1]
        /\ fds = [p \in Proc |-> IF p = Creator THEN End ELSE {}]
        /\ pc = [p \in Proc |-> IF p = Creator THEN "user" ELSE "none"]
        /\ left = [p \in Proc |-> 0]
        /\ asleep = [p \in Proc |-> FALSE] /\ killed = [p \in Proc |-> FALSE]

Goto(p, from, to) == pc[p] = from /\ pc' = [pc EXCEPT ![p] = to]

\* wakeup(&pi->nread) and wakeup(&pi->nwrite)
Wake(place) == asleep' = [p \in Proc |-> asleep[p] /\ pc[p] # place]

-------------------------------------------------------------------------------
(* pipewrite *)

Syscall(p) == pc[p] = "user" /\ ~killed[p]

WriteCall(p) == /\ Syscall(p) /\ "w" \in fds[p] /\ lock = NoProc
                /\ lock' = p
                /\ \E n \in 0..MaxLen : left' = [left EXCEPT ![p] = n]
                /\ pc' = [pc EXCEPT ![p] = "write"]
                /\ UNCHANGED <<pipeVars, freed, fileVars, asleep, killed>>

\* the top of the loop: nobody will read, or this process is killed
GivesUp(p) == "r" \notin open \/ killed[p]

WriteFail(p) == /\ Goto(p, "write", "user")
                /\ left[p] > 0 /\ GivesUp(p)
                /\ lock' = NoProc
                /\ left' = [left EXCEPT ![p] = 0]
                /\ UNCHANGED <<pipeVars, freed, fileVars, asleep, killed>>

WriteFull(p) == /\ Goto(p, "write", "write_sleep")
                /\ left[p] > 0 /\ ~GivesUp(p) /\ Full
                /\ Wake("read_sleep")
                /\ UNCHANGED <<pipeVars, lock, freed, fileVars, left, killed>>

WriteByte(p) == /\ Goto(p, "write", "write")
                /\ left[p] > 0 /\ ~GivesUp(p) /\ ~Full
                /\ \E b \in Byte : data' = [data EXCEPT ![nwrite % PIPESIZE] = b]
                /\ nwrite' = (nwrite + 1) % Wrap
                /\ left' = [left EXCEPT ![p] = @ - 1]
                /\ UNCHANGED <<nread, open, lock, freed, fileVars, asleep, killed>>

\* all is written, or copyin fails
WriteDone(p) == /\ Goto(p, "write", "user")
                /\ left[p] = 0 \/ (~GivesUp(p) /\ ~Full)
                /\ Wake("read_sleep")
                /\ lock' = NoProc
                /\ left' = [left EXCEPT ![p] = 0]
                /\ UNCHANGED <<pipeVars, freed, fileVars, killed>>

-------------------------------------------------------------------------------
(* piperead *)

ReadCall(p) == /\ Syscall(p) /\ "r" \in fds[p] /\ lock = NoProc
               /\ lock' = p
               /\ \E n \in 0..MaxLen : left' = [left EXCEPT ![p] = n]
               /\ pc' = [pc EXCEPT ![p] = "read_wait"]
               /\ UNCHANGED <<pipeVars, freed, fileVars, asleep, killed>>

MustWait == Empty /\ "w" \in open

ReadWait(p) == /\ Goto(p, "read_wait", IF ~MustWait THEN "read"
                                       ELSE IF killed[p] THEN "user" ELSE "read_sleep")
               /\ lock' = IF MustWait /\ killed[p] THEN NoProc ELSE lock
               /\ left' = IF MustWait /\ killed[p] THEN [left EXCEPT ![p] = 0] ELSE left
               /\ UNCHANGED <<pipeVars, freed, fileVars, asleep, killed>>

ReadByte(p) == /\ Goto(p, "read", "read")
               /\ left[p] > 0 /\ ~Empty
               /\ nread' = (nread + 1) % Wrap
               /\ left' = [left EXCEPT ![p] = @ - 1]
               /\ UNCHANGED <<data, nwrite, open, lock, freed, fileVars, asleep, killed>>

\* Mutant: no room is announced.
ReadDone_NoWakeup(p) == /\ Goto(p, "read", "user")
                        /\ lock' = NoProc
                        /\ left' = [left EXCEPT ![p] = 0]
                        /\ UNCHANGED <<pipeVars, freed, fileVars, asleep, killed>>

\* all is read, or there is no more, or copyout fails
ReadDone(p) == /\ Goto(p, "read", "user")
               /\ Wake("write_sleep")
               /\ lock' = NoProc
               /\ left' = [left EXCEPT ![p] = 0]
               /\ UNCHANGED <<pipeVars, freed, fileVars, killed>>

-------------------------------------------------------------------------------
(* sleep, and the way back from it *)

Sleep(p) == /\ pc[p] \in {"write_sleep", "read_sleep"} /\ lock = p
            /\ asleep' = [asleep EXCEPT ![p] = TRUE]
            /\ lock' = NoProc
            /\ UNCHANGED <<pipeVars, freed, fileVars, pc, left, killed>>

Resume(p) == /\ pc[p] \in {"write_sleep", "read_sleep"}
             /\ ~asleep[p] /\ lock = NoProc
             /\ lock' = p
             /\ pc' = [pc EXCEPT ![p] = IF @ = "write_sleep" THEN "write" ELSE "read_wait"]
             /\ UNCHANGED <<pipeVars, freed, fileVars, left, asleep, killed>>

-------------------------------------------------------------------------------
(* filedup, fileclose, pipeclose, kkill *)

\* kfork gives the child every open file
Fork(p, q) == /\ Syscall(p) /\ pc[q] = "none" /\ fds[p] # {}
              /\ fds' = [fds EXCEPT ![q] = fds[p]]
              /\ ref' = [e \in End |-> IF e \in fds[p] THEN ref[e] + 1 ELSE ref[e]]
              /\ pc' = [pc EXCEPT ![q] = "user"]
              /\ UNCHANGED <<pipeVars, lock, freed, left, asleep, killed>>

\* close, or exit: the last reference goes on to pipeclose
FileClose(p, e) == /\ pc[p] = "user" /\ e \in fds[p]
                   /\ fds' = [fds EXCEPT ![p] = @ \ {e}]
                   /\ ref' = [ref EXCEPT ![e] = @ - 1]
                   /\ pc' = [pc EXCEPT ![p] = IF ref[e] > 1 THEN "user"
                                              ELSE IF e = "r" THEN "close_r" ELSE "close_w"]
                   /\ UNCHANGED <<pipeVars, lock, freed, left, asleep, killed>>

PipeClose(p, e, place, sleepers) == /\ Goto(p, place, "user")
                                    /\ lock = NoProc
                                    /\ open' = open \ {e}
                                    /\ Wake(sleepers)
                                    /\ freed' = (freed \/ open' = {})
                                    /\ UNCHANGED <<data, nread, nwrite, lock, fileVars, left, killed>>

\* with p->lock, but not pi->lock
Kill(p) == /\ pc[p] # "none"
           /\ killed' = [killed EXCEPT ![p] = TRUE]
           /\ asleep' = [asleep EXCEPT ![p] = FALSE]
           /\ UNCHANGED <<pipeVars, lock, freed, fileVars, pc, left>>

-------------------------------------------------------------------------------

Write(p) == WriteFail(p) \/ WriteFull(p) \/ WriteByte(p) \/ WriteDone(p)
Read(p) == ReadWait(p) \/ ReadByte(p) \/ ReadDone(p)
Close(p) == PipeClose(p, "r", "close_r", "write_sleep") \/ PipeClose(p, "w", "close_w", "read_sleep")
InCall(p) == Write(p) \/ Read(p) \/ Close(p) \/ Sleep(p) \/ Resume(p)

Next == \E p \in Proc : \/ WriteCall(p) \/ ReadCall(p) \/ InCall(p) \/ Kill(p)
                        \/ \E q \in Proc : Fork(p, q)
                        \/ \E e \in End : FileClose(p, e)

Spec == Init /\ [][Next]_vars

-------------------------------------------------------------------------------
(* Properties *)

\* The bytes inside, oldest first, from their places in the ring.
Content == [i \in 1..Used |-> data[(nread + i - 1) % PIPESIZE]]

Stream == INSTANCE ByteStream WITH
            Capacity <- PIPESIZE,
            q <- Content,
            shut <- End \ open

\* Several readers and writers, partial transfers and wrapped counters: the
\* pipe is a stream that loses, repeats and reorders nothing.
ImplementsStream == Stream!Spec

\* Who is inside a call holds the lock, but for sleepers, who have given it up.
Inside == {"write", "read_wait", "read"}
Sleeps == {"write_sleep", "read_sleep"}
LockHeld == \A p \in Proc : /\ pc[p] \in Inside => lock = p
                            /\ lock = p => pc[p] \in Inside \cup Sleeps
                            /\ asleep[p] => pc[p] \in Sleeps /\ lock # p

\* An end is open as long as somebody has it, is inside a call for it, or has still
\* to close it, which one process does.
Closing(e) == IF e = "r" THEN "close_r" ELSE "close_w"
EndsOpen == /\ \A p \in Proc : /\ fds[p] \subseteq open
                               /\ pc[p] = "none" => fds[p] = {}
                               /\ pc[p] \in {"write", "write_sleep"} => "w" \in fds[p]
                               /\ pc[p] \in {"read_wait", "read", "read_sleep"} => "r" \in fds[p]
            /\ \A e \in End, p \in Proc : pc[p] = Closing(e) =>
                 /\ e \in open
                 /\ \A q \in Proc : e \notin fds[q] /\ (pc[q] = Closing(e) => q = p)

\* The page goes back to kalloc when the second end is closed, and then nobody has a
\* descriptor, is inside a call or has still to close an end.
FreedUnused == /\ freed <=> open = {}
               /\ freed => \A p \in Proc : fds[p] = {} /\ pc[p] \in {"none", "user"}

\* A writer sleeps only while the pipe is full and can be read, a reader only
\* while it is empty and can be written (pipe.c:113).  Between the bytes of one
\* call, which come under the lock, it may sleep on.  The exception is a writer
\* that is killed after some bytes: it leaves them and wakes nobody (pipe.c:84).
WritersMustWait == \A p \in Proc : pc[p] = "write_sleep" =>
  /\ asleep[p] => "r" \in open /\ (Full \/ (\E q \in Proc : pc[q] = "read"))
  /\ lock = p => "r" \in open /\ Full
ReadersMustWait == \A p \in Proc : pc[p] = "read_sleep" =>
  /\ asleep[p] => MustWait \/ (\E q \in Proc : killed[q] \/ pc[q] = "write")
  /\ lock = p => MustWait
SleepersMustWait == \A p \in Proc : asleep[p] /\ lock = NoProc =>
  \/ pc[p] = "write_sleep" /\ Full /\ "r" \in open
  \/ pc[p] = "read_sleep" /\ (MustWait \/ \E q \in Proc : killed[q])

PipeInv == /\ TypeOK /\ LockHeld /\ EndsOpen /\ FreedUnused
           /\ WritersMustWait /\ ReadersMustWait /\ SleepersMustWait
===============================================================================
