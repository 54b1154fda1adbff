---------------------------- MODULE LogBufferProofs ----------------------------
(***************************************************************************)
(* Proofs about LogBuffer, for every set of CPUs and events and every buffer *)
(* size: type correctness, mutual exclusion on the buffer, sorted stamps,    *)
(* and the refinement of EventLog.                                           *)
(***************************************************************************)
EXTENDS LogBuffer, TLAPS

-------------------------------------------------------------------------------
(* Slot arithmetic *)

\* A number below n is its own remainder (index arithmetic of log_add, log_flush).
LEMMA ModSmall ==
  ASSUME NEW n \in Nat \ {0}, NEW k \in 0..(n - 1)
  PROVE  k % n = k
  BY SMT

\* A number of [n, 2n) wraps once.
LEMMA ModWrap ==
  ASSUME NEW n \in Nat \ {0}, NEW k \in n..(2 * n - 1)
  PROVE  k % n = k - n
  BY SMT

\* log_add's next head is the following slot, or slot 0 after the last.
LEMMA NextHead ==
  ASSUME NEW s \in Slot
  PROVE  (s + 1) % LOG_SIZE = IF s + 1 = LOG_SIZE THEN 0 ELSE s + 1
  BY LogSizeAssumption, ModSmall, ModWrap, SMT DEF Slot

\* log_flush's next index is the previous slot, or the last after slot 0.
LEMMA OlderSlot ==
  ASSUME NEW s \in Slot
  PROVE  Older(s) = IF s = 0 THEN LOG_SIZE - 1 ELSE s - 1
  BY LogSizeAssumption, ModSmall, ModWrap, SMT DEF Slot, Older

\* Stepping back from the i-th latest slot reaches the (i+1)-th.
LEMMA SlotOfOlder ==
  ASSUME head \in Slot, NEW i \in 0..(LOG_SIZE - 1)
  PROVE  /\ SlotOf(i) \in Slot
         /\ Older(SlotOf(i)) = SlotOf(i + 1)
         /\ i # 0 => SlotOf(i) # head
<1>1. SlotOf(i) \in Slot
  BY LogSizeAssumption, SMT DEF Slot, SlotOf
<1>2. Older(SlotOf(i)) = SlotOf(i + 1)
  BY <1>1, OlderSlot, LogSizeAssumption, SMT DEF Slot, SlotOf
<1>3. i # 0 => SlotOf(i) # head
  BY LogSizeAssumption, SMT DEF Slot, SlotOf
<1> QED  BY <1>1, <1>2, <1>3

\* Every published entry is in a slot of the array.
LEMMA SlotOfType ==
  ASSUME head \in Slot, NEW i \in 0..LOG_SIZE
  PROVE  SlotOf(i) \in Slot
  BY LogSizeAssumption, SMT DEF Slot, SlotOf

-------------------------------------------------------------------------------
(* Type correctness *)

\* The values the buffer and a CPU start from have their types (log_init).
LEMMA Blank == /\ 0 \in Slot
               /\ Zeroed \in Entry
               /\ << >> \in Seq(Entry)
<1>1. 0 \in Slot
  BY LogSizeAssumption DEF Slot
<1>2. Zeroed \in Entry
  BY DEF Zeroed, Entry
<1>3. << >> \in Seq(Entry)
  OBVIOUS
<1> QED  BY <1>1, <1>2, <1>3

\* log_init leaves every variable of its type.
LEMMA InitType == Init => TypeOK
<1> SUFFICES ASSUME Init PROVE TypeOK
  OBVIOUS
<1>1. entries \in [Slot -> Entry] /\ line \in [CPU -> Entry]
  BY Blank DEF Init
<1>2. shown \in [CPU -> Seq(Entry)] /\ idx \in [CPU -> Slot] /\ head \in Slot
  BY Blank DEF Init
<1>3. count \in 0..LOG_SIZE /\ pc \in [CPU -> PC]
  BY LogSizeAssumption DEF Init, PC
<1> QED  BY <1>1, <1>2, <1>3 DEF Init, TypeOK

\* Every step keeps the types: head never leaves the array, count never
\* exceeds it (log_add, log_flush).
LEMMA NextType == TypeOK /\ [Next]_vars => TypeOK'
<1> SUFFICES ASSUME TypeOK, [Next]_vars PROVE TypeOK'
  OBVIOUS
<1> USE DEF TypeOK, Goto, Acquire, Release, bufVars, cpuVars
<1>1. CASE Tick
  BY <1>1 DEF Tick
<1>2. ASSUME NEW c \in CPU, NEW e \in Event, AddCall(c, e) PROVE TypeOK'
  BY <1>2 DEF AddCall, PC, Adding
<1>3. ASSUME NEW c \in CPU, FlushCall(c) PROVE TypeOK'
  BY <1>3 DEF FlushCall, PC, Flushing
<1>4. ASSUME NEW c \in CPU, AddAcquire(c) PROVE TypeOK'
  BY <1>4 DEF AddAcquire, PC, Adding
<1>5. ASSUME NEW c \in CPU, AddHeader(c) PROVE TypeOK'
  BY <1>5 DEF AddHeader, PC, Adding, Entry
<1>6. ASSUME NEW c \in CPU, AddMsg(c) PROVE TypeOK'
  BY <1>6 DEF AddMsg, PC, Adding, Entry
<1>7. ASSUME NEW c \in CPU, AddPublish(c) PROVE TypeOK'
  <2>1. head' \in Slot
    BY <1>7, NextHead, LogSizeAssumption DEF AddPublish, Slot
  <2>2. count' \in 0..LOG_SIZE
    BY <1>7, LogSizeAssumption DEF AddPublish
  <2> QED  BY <1>7, <2>1, <2>2 DEF AddPublish, PC
<1>8. ASSUME NEW c \in CPU, FlushAcquire(c) PROVE TypeOK'
  BY <1>8 DEF FlushAcquire, PC, Flushing
<1>9. ASSUME NEW c \in CPU, FlushHeader(c) PROVE TypeOK'
  <2>1. Older(idx[c]) \in Slot
    BY OlderSlot, LogSizeAssumption DEF Slot
  <2>2. [entries[Older(idx[c])] EXCEPT !.msg = NoEvent] \in Entry
    BY <2>1 DEF Entry
  <2> QED  BY <1>9, <2>1, <2>2 DEF FlushHeader, PC, Flushing
<1>10. ASSUME NEW c \in CPU, FlushMsg(c) PROVE TypeOK'
  <2>1. [line[c] EXCEPT !.msg = entries[idx[c]].msg] \in Entry
    BY DEF Entry
  <2>2. Append(shown[c], [line[c] EXCEPT !.msg = entries[idx[c]].msg]) \in Seq(Entry)
    BY <2>1
  <2> QED  BY <1>10, <2>2, Blank DEF FlushMsg, PC, Flushing
<1>11. ASSUME NEW c \in CPU, FlushDone(c) PROVE TypeOK'
  BY <1>11, Blank DEF FlushDone, PC
<1>12. ASSUME NEW c \in CPU, FlushReturn(c) PROVE TypeOK'
  BY <1>12, Blank DEF FlushReturn, PC
<1>13. CASE UNCHANGED vars
  BY <1>13 DEF vars
<1> QED
  BY <1>1, <1>2, <1>3, <1>4, <1>5, <1>6, <1>7, <1>8, <1>9, <1>10, <1>11, <1>12, <1>13
  DEF Next, Call, AddStep, FlushStep

\* Every variable of the log keeps its type: head never leaves the array and
\* count never exceeds it (log_add, log_flush).
THEOREM TypeCorrect == Spec => []TypeOK
BY InitType, NextType, PTL DEF Spec

-------------------------------------------------------------------------------
(* What each step does to the remembered events *)

\* The entry that AddHeader puts in front of the remembered events.
NewEntry(c) == [ticks |-> ticks, origin |-> arg[c], msg |-> arg[c]]

\* A step that leaves the buffer and its writer alone forgets nothing.
LEMMA RecentKept ==
  ASSUME UNCHANGED <<entries, head, count>>, Writing' = Writing
  PROVE  Recent' = Recent /\ NumRecent' = NumRecent
BY DEF Recent, NumRecent, SlotOf, Pending

\* A step of a CPU that neither enters nor leaves the middle of an entry
\* leaves the set of writers alone.
LEMMA WritingKept ==
  ASSUME TypeOK, NEW c \in CPU, NEW to, pc' = [pc EXCEPT ![c] = to],
         pc[c] \in {"add_msg", "add_publish"} <=> to \in {"add_msg", "add_publish"}
  PROVE  Writing' = Writing
<1>1. \A d \in CPU : Writer(d)' <=> Writer(d)
  BY DEF TypeOK, Writer
<1> QED  BY <1>1 DEF Writing

\* The lock holder is the only writer (log_add runs under logbuf.lock).
LEMMA HolderWrites ==
  ASSUME TypeOK, Mutex, NEW c \in CPU, lock = c
  PROVE  Writing <=> Writer(c)
BY DEF TypeOK, Mutex, Writing, Writer, Adding

\* log_add's first write of an entry puts it before the remembered ones, and
\* when the buffer is full drops exactly the oldest.
LEMMA HeaderPushes ==
  ASSUME LogInv, NEW c \in CPU, AddHeader(c)
  PROVE  Recent' = Log!Push(NewEntry(c), Recent)
<1> USE DEF LogInv
<1>1. lock = c /\ ~Writing /\ Writing'
  <2>1. lock = c
    BY DEF AddHeader, Goto, Mutex, Adding
  <2>2. ~Writing
    BY <2>1, HolderWrites DEF AddHeader, Goto, Writer
  <2>3. Writer(c)'
    BY DEF AddHeader, Goto, Writer, TypeOK
  <2> QED  BY <2>1, <2>2, <2>3 DEF Writing
<1>2. /\ head' = head /\ count' = count
      /\ entries' = [entries EXCEPT ![head] =
                       [@ EXCEPT !.ticks = ticks, !.origin = arg[c]]]
      /\ head \in Slot /\ count \in 0..LOG_SIZE /\ entries \in [Slot -> Entry]
  BY DEF AddHeader, TypeOK
<1>3. Pending' = NewEntry(c)
  <2>1. entries[head] \in Entry
    BY <1>2
  <2>2. entries'[head'] = [ticks |-> ticks, origin |-> arg[c], msg |-> entries[head].msg]
    BY <1>2, <2>1 DEF Entry
  <2> QED  BY <2>2 DEF Pending, NewEntry
<1>4. /\ Len(Recent) = count
      /\ NumRecent' = IF count < LOG_SIZE THEN count + 1 ELSE LOG_SIZE
  BY <1>1, <1>2, LogSizeAssumption DEF Recent, NumRecent
<1>5. ASSUME NEW i \in 1..NumRecent', i # 1
      PROVE  entries[SlotOf(i - 1)]' = Recent[i - 1]
  <2>1. i - 1 \in 1..(LOG_SIZE - 1) /\ i - 1 \in 1..count
    BY <1>2, <1>4, <1>5, LogSizeAssumption
  <2>2. SlotOf(i - 1) # head /\ SlotOf(i - 1) \in Slot
    BY <1>2, <2>1, SlotOfOlder
  <2>3. entries'[SlotOf(i - 1)] = entries[SlotOf(i - 1)]
    BY <1>2, <2>2
  <2>4. SlotOf(i - 1)' = SlotOf(i - 1)
    BY <1>2 DEF SlotOf
  <2>5. Recent[i - 1] = entries[SlotOf(i - 1)]
    BY <1>1, <2>1, LogSizeAssumption DEF Recent, NumRecent
  <2> QED  BY <2>3, <2>4, <2>5
<1>6. Recent' = [i \in 1..NumRecent' |-> IF i = 1 THEN NewEntry(c) ELSE Recent[i - 1]]
  <2>1. Recent' = [i \in 1..NumRecent' |->
                      IF i = 1 THEN Pending' ELSE entries[SlotOf(i - 1)]']
    BY <1>1 DEF Recent
  <2> QED  BY <2>1, <1>3, <1>5
<1> QED  BY <1>4, <1>6 DEF Log!Push

\* Filling in the message of an entry changes no remembered event: the entry
\* already counts with the message it is about to have.
LEMMA MsgKeeps ==
  ASSUME LogInv, NEW c \in CPU, AddMsg(c)
  PROVE  Recent' = Recent /\ NumRecent' = NumRecent
<1> USE DEF LogInv
<1>1. Writing /\ Writing'
  BY DEF AddMsg, Goto, Writing, Writer, TypeOK
<1>2. /\ head' = head /\ count' = count
      /\ entries' = [entries EXCEPT ![head] = [@ EXCEPT !.msg = arg[c]]]
      /\ head \in Slot /\ count \in 0..LOG_SIZE /\ entries \in [Slot -> Entry]
  BY DEF AddMsg, TypeOK
<1>3. Pending' = Pending
  <2>1. entries[head] \in Entry
    BY <1>2
  <2>2. entries'[head'] = [entries[head] EXCEPT !.msg = arg[c]]
    BY <1>2
  <2> QED  BY <2>1, <2>2 DEF Pending, Entry
<1>4. NumRecent' = NumRecent /\ NumRecent \in 0..LOG_SIZE
  BY <1>1, <1>2, LogSizeAssumption DEF NumRecent
<1>5. ASSUME NEW i \in 1..NumRecent, i # 1
      PROVE  entries[SlotOf(i - 1)]' = entries[SlotOf(i - 1)]
  <2>1. i - 1 \in 1..(LOG_SIZE - 1)
    BY <1>4, <1>5, LogSizeAssumption
  <2>2. SlotOf(i - 1) # head /\ SlotOf(i - 1) \in Slot
    BY <1>2, <2>1, SlotOfOlder
  <2>3. SlotOf(i - 1)' = SlotOf(i - 1)
    BY <1>2 DEF SlotOf
  <2> QED  BY <1>2, <2>2, <2>3
<1>6. /\ Recent  = [i \in 1..NumRecent |->
                       IF i = 1 THEN Pending ELSE entries[SlotOf(i - 1)]]
      /\ Recent' = [i \in 1..NumRecent' |->
                       IF i = 1 THEN Pending' ELSE entries[SlotOf(i - 1)]']
  BY <1>1 DEF Recent
<1> QED  BY <1>3, <1>4, <1>5, <1>6

\* Advancing head and count makes the written entry the latest published one
\* and changes no remembered event (the last lines of log_add).
LEMMA PublishKeeps ==
  ASSUME LogInv, NEW c \in CPU, AddPublish(c)
  PROVE  Recent' = Recent /\ NumRecent' = NumRecent
<1> USE DEF LogInv
<1>1. Writing /\ ~Writing' /\ entries[head].msg = entries[head].origin
  <2>1. lock = c /\ Writer(c)
    BY DEF AddPublish, Goto, Mutex, Adding, Writer
  <2>2. \A d \in CPU : d # c => ~Writer(d)
    BY <2>1 DEF Mutex, Writer, Adding
  <2>3. \A d \in CPU : ~Writer(d)'
    BY <2>2 DEF AddPublish, Goto, Writer, TypeOK
  <2>4. entries[head].msg = entries[head].origin
    BY <2>1 DEF AddPublish, Goto, PartsWritten
  <2> QED  BY <2>1, <2>3, <2>4 DEF Writing
<1>2. /\ entries' = entries /\ entries \in [Slot -> Entry]
      /\ head \in Slot /\ count \in 0..LOG_SIZE
      /\ head' = IF head + 1 = LOG_SIZE THEN 0 ELSE head + 1
      /\ count' = IF count < LOG_SIZE THEN count + 1 ELSE count
  BY NextHead DEF AddPublish, TypeOK
<1>3. Pending = entries[head]
  BY <1>1, <1>2 DEF Pending, Entry
<1>4. NumRecent' = NumRecent /\ NumRecent \in 0..LOG_SIZE
  BY <1>1, <1>2, LogSizeAssumption DEF NumRecent
<1>5. ASSUME NEW i \in 1..NumRecent
      PROVE  SlotOf(i)' = IF i = 1 THEN head ELSE SlotOf(i - 1)
  BY <1>2, <1>4, LogSizeAssumption DEF SlotOf, Slot
<1>6. /\ Recent  = [i \in 1..NumRecent |->
                       IF i = 1 THEN Pending ELSE entries[SlotOf(i - 1)]]
      /\ Recent' = [i \in 1..NumRecent' |-> entries'[SlotOf(i)']]
  BY <1>1 DEF Recent
<1>7. \A i \in 1..NumRecent :
         entries'[SlotOf(i)'] = IF i = 1 THEN Pending ELSE entries[SlotOf(i - 1)]
  BY <1>2, <1>3, <1>5
<1> QED  BY <1>4, <1>6, <1>7

-------------------------------------------------------------------------------
(* The inductive invariant *)

\* A flush in progress is not disturbed by another CPU's step: either the step
\* leaves the buffer alone or that CPU holds the lock and nobody is flushing.
LEMMA FlushUndisturbed ==
  ASSUME LogInv, NEW c \in CPU, NEW d \in CPU, d # c,
         pc'[d] = pc[d], UNCHANGED <<shown[d], idx[d], line[d]>>,
         UNCHANGED <<entries, head, count>> \/ lock = c
  PROVE  FlushedBy(d)'
<1>1. FlushedBy(d)
  BY DEF LogInv, FlushedSoFar
<1>2. CASE UNCHANGED <<entries, head, count>>
  <2>1. \A i : SlotOf(i)' = SlotOf(i)
    BY <1>2 DEF SlotOf
  <2> QED  BY <1>1, <1>2, <2>1 DEF FlushedBy
<1>3. CASE lock = c
  <2>1. pc[d] \notin Flushing
    BY <1>3 DEF LogInv, Mutex
  <2> QED  BY <1>1, <2>1 DEF FlushedBy, Flushing
<1> QED  BY <1>2, <1>3

\* A new most recent event with the current stamp keeps the stamps sorted.
LEMMA PushSorted ==
  ASSUME LogInv, NEW c \in CPU, AddHeader(c)
  PROVE  TicksSorted'
<1> USE DEF LogInv
<1>1. /\ Recent' = Log!Push(NewEntry(c), Recent)
      /\ ~Writing /\ Writing' /\ count' = count /\ head' = head
  <2>1. lock = c
    BY DEF AddHeader, Goto, Mutex, Adding
  <2>2. ~Writing
    BY <2>1, HolderWrites DEF AddHeader, Goto, Writer
  <2>3. Writer(c)'
    BY DEF AddHeader, Goto, Writer, TypeOK
  <2> QED  BY <2>2, <2>3, HeaderPushes DEF AddHeader, Writing
<1>2. /\ count \in 0..LOG_SIZE /\ ticks \in Nat
      /\ NumRecent = count /\ Recent = [i \in 1..count |-> entries[SlotOf(i)]]
      /\ NumRecent' = IF count < LOG_SIZE THEN count + 1 ELSE LOG_SIZE
  BY <1>1, LogSizeAssumption DEF TypeOK, NumRecent, Recent
<1>3. \A i \in 1..count : Recent[i].ticks \in Nat /\ Recent[i].ticks =< ticks
  <2> TAKE i \in 1..count
  <2>1. head \in Slot /\ i \in 0..LOG_SIZE
    BY <1>2, LogSizeAssumption DEF TypeOK
  <2>2. SlotOf(i) \in Slot
    BY <2>1, SlotOfType
  <2> QED  BY <1>2, <2>2 DEF TypeOK, Entry, StampsPast
<1>4. \A i \in 1..NumRecent' : Recent'[i] = IF i = 1 THEN NewEntry(c) ELSE Recent[i - 1]
  BY <1>1, <1>2, LogSizeAssumption DEF Log!Push
<1>5. \A i \in 1..NumRecent' : i # 1 => i - 1 \in 1..count
  BY <1>2, LogSizeAssumption
<1> SUFFICES ASSUME NEW i \in 1..NumRecent', NEW j \in 1..NumRecent', i =< j
             PROVE  Recent'[j].ticks =< Recent'[i].ticks
  BY DEF TicksSorted
<1>6. CASE j = 1
  BY <1>4, <1>6, <1>2 DEF NewEntry
<1>7. CASE i = 1 /\ j # 1
  BY <1>3, <1>4, <1>5, <1>7, <1>2 DEF NewEntry
<1>8. CASE i # 1 /\ j # 1
  BY <1>2, <1>4, <1>5, <1>8 DEF TicksSorted
<1> QED  BY <1>6, <1>7, <1>8, <1>2

\* Acquiring and releasing logbuf.lock keeps it with the CPU in the section.
LEMMA MutexStep == LogInv /\ [Next]_vars => Mutex'
<1> SUFFICES ASSUME LogInv, [Next]_vars PROVE Mutex'
  OBVIOUS
<1> USE NoneAssumption
        DEF LogInv, TypeOK, Mutex, Goto, Acquire, Release, Adding, Flushing, bufVars, cpuVars
<1>1. CASE Tick
  BY <1>1 DEF Tick
<1>2. ASSUME NEW c \in CPU, NEW e \in Event, AddCall(c, e) PROVE Mutex'
  BY <1>2 DEF AddCall
<1>3. ASSUME NEW c \in CPU, FlushCall(c) PROVE Mutex'
  BY <1>3 DEF FlushCall
<1>4. ASSUME NEW c \in CPU, AddStep(c) PROVE Mutex'
  BY <1>4 DEF AddStep, AddAcquire, AddHeader, AddMsg, AddPublish
<1>5. ASSUME NEW c \in CPU, FlushStep(c) PROVE Mutex'
  BY <1>5 DEF FlushStep, FlushAcquire, FlushHeader, FlushMsg, FlushDone, FlushReturn
<1>6. CASE UNCHANGED vars
  BY <1>6 DEF vars
<1> QED  BY <1>1, <1>2, <1>3, <1>4, <1>5, <1>6 DEF Next, Call

\* Each part of the entry at head is written by the lock holder from its own
\* argument, and head stands still until the entry is published.
LEMMA PartsStep == LogInv /\ [Next]_vars => PartsWritten'
<1> SUFFICES ASSUME LogInv, [Next]_vars PROVE PartsWritten'
  OBVIOUS
<1> USE DEF LogInv, TypeOK, Mutex, PartsWritten, Writer, Goto, Adding, bufVars, cpuVars
<1>1. CASE Tick
  BY <1>1 DEF Tick
<1>2. ASSUME NEW c \in CPU, NEW e \in Event, AddCall(c, e) PROVE PartsWritten'
  BY <1>2 DEF AddCall
<1>3. ASSUME NEW c \in CPU, FlushCall(c) PROVE PartsWritten'
  BY <1>3 DEF FlushCall
<1>4. ASSUME NEW c \in CPU, AddAcquire(c) PROVE PartsWritten'
  BY <1>4 DEF AddAcquire
<1>5. ASSUME NEW c \in CPU, AddHeader(c) PROVE PartsWritten'
  BY <1>5 DEF AddHeader, Entry
<1>6. ASSUME NEW c \in CPU, AddMsg(c) PROVE PartsWritten'
  BY <1>6 DEF AddMsg, Entry
<1>7. ASSUME NEW c \in CPU, AddPublish(c) PROVE PartsWritten'
  BY <1>7 DEF AddPublish
<1>8. ASSUME NEW c \in CPU, FlushStep(c) PROVE PartsWritten'
  BY <1>8 DEF FlushStep, FlushAcquire, FlushHeader, FlushMsg, FlushDone, FlushReturn
<1>9. CASE UNCHANGED vars
  BY <1>9 DEF vars
<1> QED
  BY <1>1, <1>2, <1>3, <1>4, <1>5, <1>6, <1>7, <1>8, <1>9 DEF Next, Call, AddStep

\* No step stamps an entry ahead of the clock, and the clock only advances.
LEMMA StampsStep == LogInv /\ [Next]_vars => StampsPast'
<1> SUFFICES ASSUME LogInv, [Next]_vars PROVE StampsPast'
  OBVIOUS
<1> USE DEF LogInv, TypeOK, StampsPast, Entry, bufVars, cpuVars
<1>1. CASE Tick
  BY <1>1 DEF Tick
<1>2. ASSUME NEW c \in CPU, AddHeader(c) PROVE StampsPast'
  BY <1>2 DEF AddHeader
<1>3. ASSUME NEW c \in CPU, AddMsg(c) PROVE StampsPast'
  BY <1>3 DEF AddMsg
<1>4. CASE UNCHANGED <<ticks, entries>>
  BY <1>4
<1> QED
  BY <1>1, <1>2, <1>3, <1>4
  DEF Next, Call, AddStep, FlushStep, AddCall, AddAcquire, AddPublish, FlushCall,
      FlushAcquire, FlushHeader, FlushMsg, FlushDone, FlushReturn, vars

\* Each printed line extends the snapshot by the next older entry.
LEMMA FlushedStep == LogInv /\ [Next]_vars => FlushedSoFar'
<1> SUFFICES ASSUME LogInv, [Next]_vars PROVE FlushedSoFar'
  OBVIOUS
<1> USE DEF Goto
<1>1. ASSUME UNCHANGED <<entries, head, count, pc, shown, idx, line>>
      PROVE  FlushedSoFar'
  <2>1. \A i : SlotOf(i)' = SlotOf(i)
    BY <1>1 DEF SlotOf
  <2> QED  BY <1>1, <2>1 DEF LogInv, FlushedSoFar, FlushedBy
<1>2. ASSUME NEW c \in CPU, NEW e \in Event, AddCall(c, e) PROVE FlushedSoFar'
  <2>1. FlushedBy(c)'
    BY <1>2 DEF AddCall, LogInv, TypeOK, FlushedSoFar, FlushedBy, Flushing
  <2>2. \A d \in CPU : d # c => FlushedBy(d)'
    BY <1>2, FlushUndisturbed DEF AddCall, LogInv, TypeOK, bufVars
  <2> QED  BY <2>1, <2>2 DEF FlushedSoFar
<1>3. ASSUME NEW c \in CPU, AddStep(c) PROVE FlushedSoFar'
  <2>1. FlushedBy(c)'
    BY <1>3 DEF AddStep, AddAcquire, AddHeader, AddMsg, AddPublish,
                LogInv, TypeOK, FlushedSoFar, FlushedBy, Flushing
  <2>2. UNCHANGED <<entries, head, count>> \/ lock = c
    BY <1>3 DEF AddStep, AddAcquire, AddHeader, AddMsg, AddPublish, LogInv, Mutex, Adding
  <2>3. \A d \in CPU : d # c => FlushedBy(d)'
    BY <1>3, <2>2, FlushUndisturbed
    DEF AddStep, AddAcquire, AddHeader, AddMsg, AddPublish, LogInv, TypeOK
  <2> QED  BY <2>1, <2>3 DEF FlushedSoFar
<1>4. ASSUME NEW c \in CPU, FlushCall(c) \/ FlushStep(c) PROVE FlushedSoFar'
  <2>1. UNCHANGED <<entries, head, count>> /\ \A i : SlotOf(i)' = SlotOf(i)
    BY <1>4 DEF FlushCall, FlushStep, FlushAcquire, FlushHeader, FlushMsg, FlushDone,
                FlushReturn, bufVars, SlotOf
  <2>2. \A d \in CPU : d # c => FlushedBy(d)'
    BY <1>4, <2>1, FlushUndisturbed
    DEF FlushCall, FlushStep, FlushAcquire, FlushHeader, FlushMsg, FlushDone,
        FlushReturn, LogInv, TypeOK
  <2>3. FlushedBy(c)
    BY DEF LogInv, FlushedSoFar
  <2>4. ASSUME FlushCall(c) PROVE FlushedBy(c)'
    BY <2>1, <2>3, <2>4 DEF FlushCall, LogInv, TypeOK, FlushedBy, Flushing
  <2>5. ASSUME FlushAcquire(c) PROVE FlushedBy(c)'
    <3>1. pc[c] = "flush_acquire" /\ pc'[c] = "flush_header" /\ shown'[c] = << >>
      BY <2>3, <2>5 DEF FlushAcquire, LogInv, TypeOK, FlushedBy, Flushing
    <3>2. Len(shown'[c]) = 0 /\ shown'[c] = [i \in 1..0 |-> entries[SlotOf(i)]]
      BY <3>1
    <3>3. head \in Slot /\ 0 =< count /\ idx'[c] = head
      BY <2>5 DEF FlushAcquire, LogInv, TypeOK
    <3>4. SlotOf(0) = head
      BY <3>3 DEF SlotOf, Slot
    <3> QED  BY <2>1, <3>1, <3>2, <3>3, <3>4 DEF FlushedBy, Flushing
  <2>6. ASSUME FlushHeader(c) PROVE FlushedBy(c)'
    <3> PICK n \in Nat : n = Len(shown[c])
      BY DEF LogInv, TypeOK
    <3>1. /\ pc[c] = "flush_header" /\ pc'[c] = "flush_msg" /\ shown' = shown
          /\ n < count /\ count \in 0..LOG_SIZE /\ head \in Slot
          /\ idx[c] = SlotOf(n) /\ idx'[c] = Older(idx[c])
          /\ line'[c] = [entries[Older(idx[c])] EXCEPT !.msg = NoEvent]
          /\ shown[c] = [i \in 1..n |-> entries[SlotOf(i)]]
      BY <2>3, <2>6 DEF FlushHeader, LogInv, TypeOK, FlushedBy, Flushing
    <3>2. n \in 0..(LOG_SIZE - 1)
      BY <3>1, LogSizeAssumption
    <3>3. Older(idx[c]) = SlotOf(n + 1)
      BY <3>1, <3>2, SlotOfOlder
    <3>4. /\ Len(shown'[c]) = n /\ n =< count' /\ n < count'
          /\ shown'[c] = [i \in 1..n |-> entries'[SlotOf(i)']]
          /\ idx'[c] = SlotOf(n + 1)'
          /\ line'[c] = [entries'[SlotOf(n + 1)'] EXCEPT !.msg = NoEvent]
      BY <2>1, <3>1, <3>3
    <3> QED  BY <3>1, <3>4 DEF FlushedBy, Flushing
  <2>7. ASSUME FlushMsg(c) PROVE FlushedBy(c)'
    <3> DEFINE n == Len(shown[c])
    <3> DEFINE shownLine == [line[c] EXCEPT !.msg = entries[idx[c]].msg]
    <3>1. /\ pc[c] = "flush_msg" /\ pc'[c] = "flush_header"
          /\ shown'[c] = Append(shown[c], shownLine)
          /\ shown[c] \in Seq(Entry) /\ line[c] \in Entry
          /\ n \in Nat /\ n < count /\ count \in 0..LOG_SIZE /\ head \in Slot
          /\ idx[c] = SlotOf(n + 1) /\ idx'[c] = idx[c]
          /\ line[c] = [entries[SlotOf(n + 1)] EXCEPT !.msg = NoEvent]
          /\ shown[c] = [i \in 1..n |-> entries[SlotOf(i)]]
      BY <2>3, <2>7 DEF FlushMsg, LogInv, TypeOK, FlushedBy, Flushing
    <3>2. SlotOf(n + 1) \in Slot
      <4>1. n + 1 \in 0..LOG_SIZE
        BY <3>1, LogSizeAssumption
      <4> QED  BY <3>1, <4>1, SlotOfType
    <3>3. shownLine = entries[SlotOf(n + 1)]
      <4>1. entries[SlotOf(n + 1)] \in Entry
        BY <3>2 DEF LogInv, TypeOK
      <4> QED  BY <3>1, <4>1 DEF Entry
    <3>4. shownLine \in Entry
      BY <3>2, <3>3 DEF LogInv, TypeOK
    <3> HIDE DEF shownLine
    <3>5. Len(shown'[c]) = n + 1
      BY <3>1, <3>4
    <3>6. shown'[c] = [i \in 1..(n + 1) |-> entries[SlotOf(i)]]
      BY <3>1, <3>3, <3>4
    <3>7. n + 1 =< count
      BY <3>1
    <3> QED  BY <2>1, <3>1, <3>5, <3>6, <3>7 DEF FlushedBy, Flushing
  <2>8. ASSUME FlushDone(c) \/ FlushReturn(c) PROVE FlushedBy(c)'
    BY <2>1, <2>3, <2>8 DEF FlushDone, FlushReturn, LogInv, TypeOK, FlushedBy, Flushing
  <2>9. FlushedBy(c)'
    BY <1>4, <2>4, <2>5, <2>6, <2>7, <2>8 DEF FlushStep
  <2> QED  BY <2>2, <2>9 DEF FlushedSoFar
<1> QED
  BY <1>1, <1>2, <1>3, <1>4 DEF Next, Call, Tick, bufVars, cpuVars, vars

\* Only the first write of an entry changes the remembered events.
LEMMA RecentStep ==
  ASSUME LogInv, [Next]_vars
  PROVE  \/ Recent' = Recent /\ NumRecent' = NumRecent
         \/ \E c \in CPU : AddHeader(c)
<1> USE DEF LogInv, Goto, bufVars, cpuVars
<1>1. CASE UNCHANGED <<entries, head, count, pc>>
  <2>1. Writing' = Writing
    BY <1>1 DEF Writing, Writer
  <2> QED  BY <1>1, <2>1, RecentKept
<1>2. ASSUME NEW c \in CPU, NEW e \in Event, AddCall(c, e)
      PROVE  Recent' = Recent /\ NumRecent' = NumRecent
  <2>1. Writing' = Writing
    BY <1>2, WritingKept DEF AddCall
  <2> QED  BY <1>2, <2>1, RecentKept DEF AddCall
<1>3. ASSUME NEW c \in CPU, AddAcquire(c)
      PROVE  Recent' = Recent /\ NumRecent' = NumRecent
  <2>1. Writing' = Writing
    BY <1>3, WritingKept DEF AddAcquire
  <2> QED  BY <1>3, <2>1, RecentKept DEF AddAcquire
<1>4. ASSUME NEW c \in CPU, FlushCall(c) \/ FlushStep(c)
      PROVE  Recent' = Recent /\ NumRecent' = NumRecent
  <2>1. PICK to : /\ pc' = [pc EXCEPT ![c] = to]
                  /\ {pc[c], to} \cap {"add_msg", "add_publish"} = {}
    BY <1>4 DEF FlushCall, FlushStep, FlushAcquire, FlushHeader, FlushMsg, FlushDone, FlushReturn
  <2>2. Writing' = Writing
    BY <2>1, WritingKept
  <2>3. UNCHANGED <<entries, head, count>>
    BY <1>4 DEF FlushCall, FlushStep, FlushAcquire, FlushHeader, FlushMsg, FlushDone, FlushReturn
  <2> QED  BY <2>2, <2>3, RecentKept
<1> QED
  BY <1>1, <1>2, <1>3, <1>4, MsgKeeps, PublishKeeps
  DEF Next, Call, AddStep, Tick, vars

\* A step that leaves the remembered events alone leaves them sorted.
LEMMA SortedStep == LogInv /\ [Next]_vars => TicksSorted'
<1> SUFFICES ASSUME LogInv, [Next]_vars PROVE TicksSorted'
  OBVIOUS
<1>1. CASE Recent' = Recent /\ NumRecent' = NumRecent
  BY <1>1 DEF LogInv, TicksSorted
<1> QED  BY <1>1, RecentStep, PushSorted

\* log_init establishes the invariant.
LEMMA InitLogInv == Init => LogInv
<1> SUFFICES ASSUME Init PROVE LogInv
  OBVIOUS
<1>1. TypeOK
  BY InitType
<1>2. Mutex /\ PartsWritten
  BY NoneAssumption DEF Init, Mutex, PartsWritten, Writer, Adding, Flushing
<1>3. FlushedSoFar
  BY DEF Init, FlushedSoFar, FlushedBy, Flushing
<1>4. StampsPast
  BY DEF Init, StampsPast, Zeroed, Slot
<1>5. ~Writing
  BY DEF Init, Writing, Writer
<1>6. NumRecent = 0
  BY <1>5 DEF Init, NumRecent
<1>7. TicksSorted
  BY <1>6 DEF TicksSorted
<1> QED  BY <1>1, <1>2, <1>3, <1>4, <1>7 DEF LogInv

\* The inductive invariant of log_add and log_flush: the lock protects the
\* buffer, entries are written whole, and a flush tracks the entries it shows.
THEOREM LogInvariant == Spec => []LogInv
<1>1. LogInv /\ [Next]_vars => LogInv'
  <2>1. LogInv => TypeOK
    BY DEF LogInv
  <2> QED  BY <2>1, NextType, MutexStep, PartsStep, FlushedStep, StampsStep, SortedStep
           DEF LogInv
<1> QED  BY <1>1, InitLogInv, PTL DEF Spec

\* Stamps never decrease from an older remembered event to a newer one,
\* because log_add reads the clock while it holds logbuf.lock.
THEOREM StampsSorted == Spec => []TicksSorted
<1>1. LogInv => TicksSorted
  BY DEF LogInv
<1> QED  BY <1>1, LogInvariant, PTL

-------------------------------------------------------------------------------
(* Refinement *)

\* Zeroed buffer, empty log (log_init).
LEMMA InitRefines == Init => Log!Init
<1> SUFFICES ASSUME Init PROVE Log!Init
  OBVIOUS
<1>1. NumRecent = 0
  BY DEF Init, NumRecent, Writing, Writer
<1>2. Recent = << >>
  BY <1>1 DEF Recent
<1>3. [c \in CPU |-> IF pc[c] = "flushed" THEN shown[c] ELSE << >>] = [c \in CPU |-> << >>]
  BY DEF Init
<1> QED  BY <1>2, <1>3 DEF Init, Log!Init

\* Every step of log_add and log_flush is one atomic step of the event log or
\* none: the first write of an entry adds it, the end of the flush loop reports.
LEMMA NextRefines == LogInv /\ [Next]_vars => [Log!Next]_(Log!vars)
<1> SUFFICES ASSUME LogInv, [Next]_vars PROVE [Log!Next]_(Log!vars)
  OBVIOUS
<1> DEFINE rep == [c \in CPU |-> IF pc[c] = "flushed" THEN shown[c] ELSE << >>]
<1> USE DEF Goto, bufVars, cpuVars
<1>1. CASE Tick
  <2>1. Recent' = Recent /\ rep' = rep
    BY <1>1, RecentKept DEF Tick, Writing, Writer
  <2> QED  BY <1>1, <2>1 DEF Tick, Log!Next, Log!Tick
<1>2. ASSUME NEW c \in CPU, AddHeader(c)
      PROVE  Log!Next
  <2>1. arg[c] \in Event /\ rep' = rep /\ ticks' = ticks
    BY <1>2 DEF AddHeader, LogInv, TypeOK, PartsWritten, Adding
  <2>2. Log!Add(arg[c])
    BY <1>2, <2>1, HeaderPushes DEF Log!Add, NewEntry
  <2> QED  BY <2>1, <2>2 DEF Log!Next
<1>3. ASSUME NEW c \in CPU, FlushDone(c)
      PROVE  Log!Next
  <2>1. Recent' = Recent /\ ticks' = ticks
    <3>1. \A d \in CPU : ~AddHeader(d)
      BY <1>3 DEF FlushDone, AddHeader, LogInv, TypeOK
    <3> QED  BY <1>3, <3>1, RecentStep DEF FlushDone
  <2>2. shown[c] = Recent
    <3>1. lock = c /\ pc[c] \in Flushing /\ Len(shown[c]) = count
      BY <1>3 DEF FlushDone, LogInv, TypeOK, Mutex, FlushedSoFar, FlushedBy, Flushing
    <3>2. ~Writing
      BY <3>1, HolderWrites DEF LogInv, Writer, Flushing
    <3>3. shown[c] = [i \in 1..count |-> entries[SlotOf(i)]]
      BY <3>1 DEF LogInv, FlushedSoFar, FlushedBy
    <3> QED  BY <3>2, <3>3 DEF Recent, NumRecent
  <2>3. rep' = [rep EXCEPT ![c] = Recent]
    BY <1>3, <2>2 DEF FlushDone, LogInv, TypeOK
  <2> QED  BY <2>1, <2>3 DEF Log!Next, Log!Report
<1>4. ASSUME NEW c \in CPU, FlushReturn(c)
      PROVE  Log!Next
  <2>1. Recent' = Recent /\ ticks' = ticks
    <3>1. \A d \in CPU : ~AddHeader(d)
      BY <1>4 DEF FlushReturn, AddHeader, LogInv, TypeOK
    <3> QED  BY <1>4, <3>1, RecentStep DEF FlushReturn
  <2>2. rep' = [rep EXCEPT ![c] = << >>]
    BY <1>4 DEF FlushReturn, LogInv, TypeOK
  <2> QED  BY <2>1, <2>2 DEF Log!Next, Log!Forget
<1>5. ASSUME NEW c \in CPU,
             \/ Call(c) \/ AddAcquire(c) \/ AddMsg(c) \/ AddPublish(c)
             \/ FlushAcquire(c) \/ FlushHeader(c) \/ FlushMsg(c)
      PROVE  UNCHANGED Log!vars
  <2>1. /\ ticks' = ticks
        /\ pc' = [pc EXCEPT ![c] = pc'[c]]
        /\ pc[c] # "flushed" /\ pc'[c] # "flushed" /\ pc[c] # "add_header"
        /\ \A d \in CPU : d # c => shown'[d] = shown[d]
    BY <1>5 DEF LogInv, TypeOK, Call, AddCall, AddAcquire, AddMsg, AddPublish, FlushCall,
                FlushAcquire, FlushHeader, FlushMsg
  <2>2. Recent' = Recent
    <3>1. \A d \in CPU : ~AddHeader(d)
      BY <2>1, <1>5 DEF AddHeader, LogInv, TypeOK
    <3> QED  BY <3>1, RecentStep
  <2>3. rep' = rep
    BY <2>1 DEF LogInv, TypeOK
  <2> QED  BY <2>1, <2>2, <2>3 DEF Log!vars
<1>6. CASE UNCHANGED vars
  <2>1. Recent' = Recent /\ rep' = rep /\ ticks' = ticks
    BY <1>6, RecentKept DEF vars, Writing, Writer
  <2> QED  BY <2>1 DEF Log!vars
<1> QED
  BY <1>1, <1>2, <1>3, <1>4, <1>5, <1>6 DEF Next, AddStep, FlushStep

\* The circular buffer under logbuf.lock implements the atomic event log, for
\* every number of CPUs and every LOG_SIZE.
THEOREM Refinement == Spec => ImplementsEventLog
<1>1. LogInv /\ [Next]_vars => [Log!Next]_(Log!vars)
  BY NextRefines
<1> QED  BY <1>1, InitRefines, LogInvariant, PTL DEF Spec, ImplementsEventLog, Log!Spec
===============================================================================
