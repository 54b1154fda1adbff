------------------------------- MODULE LogBuffer -------------------------------
(***************************************************************************)
(* The circular log buffer of kernel/paniclog.c: log_add (behind log_info,  *)
(* log_warn, log_debug and log_panic_prep) and log_flush, run by several     *)
(* CPUs at once, one step per access another CPU could interleave with.      *)
(*                                                                         *)
(* An entry keeps its three parts apart: the tick stamp, the origin (level,  *)
(* file and line) and the message.  A part written by a call is that call's  *)
(* event, so an entry whose origin and message differ is a torn one.         *)
(***************************************************************************)
EXTENDS Integers, Sequences

CONSTANTS CPU, Event, LOG_SIZE, MaxTicks,
          NoCPU,      \* logbuf.lock is free
          NoEvent     \* the zero bytes of a slot never written

ASSUME LogSizeAssumption == LOG_SIZE \in Nat \ {0}
ASSUME NoneAssumption == NoCPU \notin CPU /\ NoEvent \notin Event
ASSUME MaxTicksAssumption == MaxTicks \in Nat

VARIABLES ticks,      \* trap.c's clock, read here without tickslock
          lock,       \* the CPU holding logbuf.lock
          entries, head, count,   \* logbuf
          flushing,   \* log_flush's static flag
          pc,         \* where each CPU is in log_add or log_flush
          arg,        \* log_add: the event being logged
          idx,        \* log_flush: the slot being printed
          line,       \* log_flush: the half line the first printf has shown
          shown       \* log_flush: the lines on the console, in order

bufVars == <<lock, entries, head, count, flushing>>
cpuVars == <<pc, arg, idx, line, shown>>
vars == <<ticks, bufVars, cpuVars>>

Slot == 0..(LOG_SIZE - 1)
Entry == [ticks : Nat, origin : Event \cup {NoEvent}, msg : Event \cup {NoEvent}]
Zeroed == [ticks |-> 0, origin |-> NoEvent, msg |-> NoEvent]

Adding == {"add_header", "add_msg", "add_publish"}
Flushing == {"flush_header", "flush_msg"}
PC == {"idle", "add_acquire", "flush_acquire", "flushed"} \cup Adding \cup Flushing

TypeOK == /\ ticks \in Nat
          /\ lock \in CPU \cup {NoCPU}
          /\ entries \in [Slot -> Entry]
          /\ head \in Slot
          /\ count \in 0..LOG_SIZE
          /\ flushing \in BOOLEAN
          /\ pc \in [CPU -> PC]
          /\ arg \in [CPU -> Event \cup {NoEvent}]
          /\ idx \in [CPU -> Slot]
          /\ line \in [CPU -> Entry]
          /\ shown \in [CPU -> Seq(Entry)]

\* log_init, on the zeroed static storage
Init == /\ ticks = 0
        /\ lock = NoCPU
        /\ entries = [s \in Slot |-> Zeroed]
        /\ head = 0
        /\ count = 0
        /\ flushing = FALSE
        /\ pc = [c \in CPU |-> "idle"]
        /\ arg = [c \in CPU |-> NoEvent]
        /\ idx = [c \in CPU |-> 0]
        /\ line = [c \in CPU |-> Zeroed]
        /\ shown = [c \in CPU |-> << >>]

Goto(c, from, to) == pc[c] = from /\ pc' = [pc EXCEPT ![c] = to]
\* Mutant: the swap's old value is not looked at.
Acquire_Unchecked(c) == lock' = c
Acquire(c) == lock = NoCPU /\ lock' = c
Release(c) == lock' = NoCPU

\* clockintr, on the boot CPU: no lock of the log is involved
Tick == /\ ticks < MaxTicks
        /\ ticks' = ticks + 1
        /\ UNCHANGED <<bufVars, cpuVars>>

-------------------------------------------------------------------------------
(* log_add *)

AddCall(c, e) == /\ Goto(c, "idle", "add_acquire")
                 /\ arg' = [arg EXCEPT ![c] = e]
                 /\ UNCHANGED <<ticks, bufVars, idx, line, shown>>

AddAcquire(c) == /\ Goto(c, "add_acquire", "add_header")
                 /\ Acquire(c)
                 /\ UNCHANGED <<ticks, entries, head, count, flushing, arg, idx, line, shown>>

\* e->ticks, e->level, e->file, e->line
AddHeader(c) == /\ Goto(c, "add_header", "add_msg")
                /\ entries' = [entries EXCEPT ![head].ticks = ticks,
                                              ![head].origin = arg[c]]
                /\ UNCHANGED <<ticks, lock, head, count, flushing, arg, idx, line, shown>>

\* vsnprintf into e->msg
AddMsg(c) == /\ Goto(c, "add_msg", "add_publish")
             /\ entries' = [entries EXCEPT ![head].msg = arg[c]]
             /\ UNCHANGED <<ticks, lock, head, count, flushing, arg, idx, line, shown>>

AddPublish(c) == /\ Goto(c, "add_publish", "idle")
                 /\ head' = (head + 1) % LOG_SIZE
                 /\ count' = IF count < LOG_SIZE THEN count + 1 ELSE count
                 /\ Release(c)
                 /\ arg' = [arg EXCEPT ![c] = NoEvent]
                 /\ UNCHANGED <<ticks, entries, flushing, idx, line, shown>>

-------------------------------------------------------------------------------
(* log_flush *)

\* The flag is read before the lock is taken.
FlushCall(c) == /\ ~flushing
                /\ Goto(c, "idle", "flush_acquire")
                /\ UNCHANGED <<ticks, bufVars, arg, idx, line, shown>>

\* Mutant: the flush runs without the lock, so log_add moves under it.
FlushAcquire_NoLock(c) == /\ Goto(c, "flush_acquire", "flush_header")
                          /\ flushing' = TRUE
                          /\ idx' = [idx EXCEPT ![c] = head]
                          /\ UNCHANGED <<ticks, lock, entries, head, count, arg, line, shown>>

FlushAcquire(c) == /\ Goto(c, "flush_acquire", "flush_header")
                   /\ Acquire(c)
                   /\ flushing' = TRUE
                   /\ idx' = [idx EXCEPT ![c] = head]
                   /\ UNCHANGED <<ticks, entries, head, count, arg, line, shown>>

Older(s) == (s - 1 + LOG_SIZE) % LOG_SIZE

\* the loop's first printf: "[%d][%s] %s:%d "
FlushHeader(c) == /\ Len(shown[c]) < count
                  /\ Goto(c, "flush_header", "flush_msg")
                  /\ idx' = [idx EXCEPT ![c] = Older(idx[c])]
                  /\ line' = [line EXCEPT ![c] = [entries[Older(idx[c])] EXCEPT !.msg = NoEvent]]
                  /\ UNCHANGED <<ticks, bufVars, arg, shown>>

\* the loop's second printf: "%s\n"
FlushMsg(c) == /\ Goto(c, "flush_msg", "flush_header")
               /\ shown' = [shown EXCEPT ![c] =
                     Append(@, [line[c] EXCEPT !.msg = entries[idx[c]].msg])]
               /\ line' = [line EXCEPT ![c] = Zeroed]
               /\ UNCHANGED <<ticks, bufVars, arg, idx>>

\* Mutant: an early return that forgets the lock.
FlushDone_NoRelease(c) == /\ Len(shown[c]) >= count
                          /\ Goto(c, "flush_header", "flushed")
                          /\ flushing' = FALSE
                          /\ idx' = [idx EXCEPT ![c] = 0]
                          /\ UNCHANGED <<ticks, lock, entries, head, count, arg, line, shown>>

FlushDone(c) == /\ Len(shown[c]) >= count
                /\ Goto(c, "flush_header", "flushed")
                /\ flushing' = FALSE
                /\ Release(c)
                /\ idx' = [idx EXCEPT ![c] = 0]
                /\ UNCHANGED <<ticks, entries, head, count, arg, line, shown>>

\* The caller returns: its report scrolls off the model's console.
FlushReturn(c) == /\ Goto(c, "flushed", "idle")
                  /\ shown' = [shown EXCEPT ![c] = << >>]
                  /\ UNCHANGED <<ticks, bufVars, arg, idx, line>>

Call(c) == (\E e \in Event : AddCall(c, e)) \/ FlushCall(c)
AddStep(c) == AddAcquire(c) \/ AddHeader(c) \/ AddMsg(c) \/ AddPublish(c)
FlushStep(c) == FlushAcquire(c) \/ FlushHeader(c) \/ FlushMsg(c)
                   \/ FlushDone(c) \/ FlushReturn(c)

Next == Tick \/ \E c \in CPU : Call(c) \/ AddStep(c) \/ FlushStep(c)

Spec == Init /\ [][Next]_vars

\* A CPU inside log_add or log_flush has interrupts off while it holds the
\* lock and keeps executing.  Nothing is assumed of new calls, of the clock,
\* nor of who wins the race for a free lock.
FairSpec == Spec /\ \A c \in CPU : WF_vars(AddStep(c) \/ FlushStep(c))
-------------------------------------------------------------------------------
(* Refinement of EventLog.  An event enters the log when its header is        *)
(* written: from then on, if the buffer is full, the oldest entry is gone      *)
(* from its slot although head and count still count it.                       *)

\* The slot of the i-th most recent published entry, 1 =< i =< count.
SlotOf(i) == IF i =< head THEN head - i ELSE head - i + LOG_SIZE

Writer(c) == pc[c] \in {"add_msg", "add_publish"}
Writing == \E c \in CPU : Writer(c)

\* the entry a writer is in the middle of, as its publication will show it
Pending == [entries[head] EXCEPT !.msg = entries[head].origin]

NumRecent == IF Writing /\ count < LOG_SIZE THEN count + 1 ELSE count

Recent == [i \in 1..NumRecent |->
              IF Writing THEN IF i = 1 THEN Pending ELSE entries[SlotOf(i - 1)]
                         ELSE entries[SlotOf(i)]]

Log == INSTANCE EventLog
         WITH recent <- Recent,
              report <- [c \in CPU |-> IF pc[c] = "flushed" THEN shown[c] ELSE << >>]

-------------------------------------------------------------------------------
(* Properties *)

\* log_add and log_flush together behave as the atomic EventLog: no event is
\* lost or torn by another CPU's log_add, the buffer holds the LOG_SIZE latest,
\* and a flush, which prints over many steps, shows one snapshot of it.
ImplementsEventLog == Log!Spec

\* The clock is read inside the critical section, so stamps never decrease
\* from an older event to a more recent one (log_add, e->ticks = ticks).
TicksSorted == \A i, j \in 1..NumRecent :
                  i =< j => Recent[j].ticks =< Recent[i].ticks

\* Why the two properties above hold, in the form that one step preserves.

\* logbuf.lock is held exactly by the CPU inside a critical section of log_add
\* or log_flush, so only that CPU touches the buffer.
Mutex == \A c \in CPU : pc[c] \in Adding \cup Flushing <=> lock = c

\* What log_add has written of the entry at head is its own event's.
PartsWritten ==
  \A c \in CPU :
    /\ pc[c] \in {"add_acquire"} \cup Adding => arg[c] \in Event
    /\ Writer(c) => entries[head].origin = arg[c]
    /\ pc[c] = "add_publish" => entries[head].msg = arg[c]

\* log_flush has shown the latest entries up to the one it stands on.
FlushedBy(c) ==
  LET n == Len(shown[c]) IN
  /\ pc[c] \in Flushing => /\ n =< count
                           /\ shown[c] = [i \in 1..n |-> entries[SlotOf(i)]]
  /\ pc[c] = "flush_header" => idx[c] = SlotOf(n)
  /\ pc[c] = "flush_msg" =>
        /\ n < count
        /\ idx[c] = SlotOf(n + 1)
        /\ line[c] = [entries[SlotOf(n + 1)] EXCEPT !.msg = NoEvent]
  /\ pc[c] \notin Flushing \cup {"flushed"} => shown[c] = << >>
FlushedSoFar == \A c \in CPU : FlushedBy(c)

\* No stamp is ahead of the clock.
StampsPast == \A s \in Slot : entries[s].ticks =< ticks

LogInv == TypeOK /\ Mutex /\ PartsWritten /\ FlushedSoFar /\ StampsPast /\ TicksSorted

\* Whoever takes logbuf.lock gives it back: the flush loop ends although other
\* CPUs keep calling log_add (they wait for the lock).
LockReleased == \A c \in CPU : (lock = c) ~> (lock # c)
===============================================================================
