------------------------------- MODULE EventLog -------------------------------
(***************************************************************************)
(* What the kernel log promises its callers, without locks, slots or       *)
(* steps: log_add makes an event the most recent one at one instant, the    *)
(* log remembers the LOG_SIZE most recent events, and a completed           *)
(* log_flush has shown exactly the events remembered at one instant, most   *)
(* recent first.  LogBuffer is shown to implement this specification.       *)
(***************************************************************************)
EXTENDS Integers, Sequences

CONSTANTS CPU,        \* the harts that log and flush
          Event,      \* what a call of log_add has to say (level, place, text)
          LOG_SIZE,   \* the number of events remembered
          MaxTicks    \* bound on the clock

VARIABLES ticks,      \* the kernel clock that stamps events
          recent,     \* the remembered events, most recent first
          report      \* report[c]: what the flush just completed by c has shown

vars == <<ticks, recent, report>>

Stamped == [ticks : Nat, origin : Event, msg : Event]

TypeOK == /\ ticks \in Nat
          /\ recent \in Seq(Stamped)
          /\ Len(recent) =< LOG_SIZE
          /\ report \in [CPU -> Seq(Stamped)]

\* The sequence s with e put in front, cut to its first LOG_SIZE elements.
Push(e, s) ==
  [i \in 1..(IF Len(s) < LOG_SIZE THEN Len(s) + 1 ELSE LOG_SIZE) |->
      IF i = 1 THEN e ELSE s[i - 1]]

Init == /\ ticks = 0
        /\ recent = << >>
        /\ report = [c \in CPU |-> << >>]

Tick == /\ ticks < MaxTicks
        /\ ticks' = ticks + 1
        /\ UNCHANGED <<recent, report>>

Add(e) == /\ recent' = Push([ticks |-> ticks, origin |-> e, msg |-> e], recent)
          /\ UNCHANGED <<ticks, report>>

Report(c) == /\ report' = [report EXCEPT ![c] = recent]
             /\ UNCHANGED <<ticks, recent>>

Forget(c) == /\ report' = [report EXCEPT ![c] = << >>]
             /\ UNCHANGED <<ticks, recent>>

Next == \/ Tick
        \/ \E e \in Event : Add(e)
        \/ \E c \in CPU : Report(c) \/ Forget(c)

Spec == Init /\ [][Next]_vars
===============================================================================
