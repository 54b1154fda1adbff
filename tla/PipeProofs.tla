------------------------------- MODULE PipeProofs -------------------------------
(***************************************************************************)
(* Proofs about Pipe, for every finite set of processes, every set of bytes, *)
(* every size of the ring and every multiple of it at which counters wrap:   *)
(* who may sleep, when the page is freed, and that it implements ByteStream. *)
(***************************************************************************)
EXTENDS Pipe, FiniteSetTheorems, SequenceTheorems, TLAPS

-------------------------------------------------------------------------------
(* Remainders *)

\* A positive multiple of n is at least n.
LEMMA MultipleLarge ==
  ASSUME NEW n \in Nat \ {0}, NEW d \in Nat \ {0}
  PROVE  n * d >= n
<1>1. PICK m \in Nat : d = m + 1
  BY SMT
<1>2. n * d = n * m + n /\ n * m \in Nat
  BY <1>1, SMT
<1> QED  BY <1>2, SMT

\* There is one way to write a number as a multiple of n and a rest below n.
LEMMA RestUnique ==
  ASSUME NEW n \in Nat \ {0}, NEW q \in Int, NEW s \in Int,
         NEW r \in 0..(n - 1), NEW t \in 0..(n - 1), n * q + r = n * s + t
  PROVE  r = t
<1>1. n * (q - s) = t - r
  BY SMT
<1>2. CASE q - s \in Nat \ {0}
  BY <1>1, <1>2, MultipleLarge, SMT
<1>3. CASE s - q \in Nat \ {0}
  <2>1. n * (s - q) >= n
    BY <1>3, MultipleLarge
  <2> QED  BY <1>1, <2>1, SMT
<1>4. CASE q = s
  BY <1>1, <1>4, SMT
<1> QED  BY <1>2, <1>3, <1>4, SMT

\* The rest is what % gives.
LEMMA RestIsMod ==
  ASSUME NEW n \in Nat \ {0}, NEW x \in Int, NEW q \in Int, NEW r \in 0..(n - 1),
         x = n * q + r
  PROVE  x % n = r
<1>1. x % n \in 0..(n - 1)
  BY SMT
<1>2. x = n * (x \div n) + (x % n) /\ x \div n \in Int
  BY SMT
<1>3. n * q + r = n * (x \div n) + (x % n)
  BY <1>2
<1> QED  BY <1>1, <1>2, <1>3, RestUnique

\* A place in the ring is the same after a round of the counters.
LEMMA RoundKeeps ==
  ASSUME NEW x \in Nat
  PROVE  (x + Wrap) % PIPESIZE = x % PIPESIZE
<1> DEFINE m == Wrap \div PIPESIZE
           q == x \div PIPESIZE
           r == x % PIPESIZE
<1>1. m \in Int /\ Wrap = PIPESIZE * m
  BY SizeAssumption, SMT
<1>2. q \in Int /\ r \in 0..(PIPESIZE - 1) /\ x = PIPESIZE * q + r
  BY SizeAssumption, SMT
<1>3. x + Wrap = PIPESIZE * (m + q) + r
  <2> HIDE DEF m, q, r
  <2> QED  BY <1>1, <1>2, SizeAssumption, SMT
<1>4. m + q \in Int /\ x + Wrap \in Int /\ PIPESIZE \in Nat \ {0}
  BY <1>1, <1>2, SizeAssumption, SMT
<1>5. r \in 0..(PIPESIZE - 1)
  BY <1>2
<1> HIDE DEF m, q
<1>6. (x + Wrap) % PIPESIZE = r
  BY <1>3, <1>4, <1>5, RestIsMod
<1> QED  BY <1>6

\* Places less than a ring apart differ.
LEMMA PlacesDiffer ==
  ASSUME NEW x \in Nat, NEW d \in 1..(PIPESIZE - 1)
  PROVE  (x + d) % PIPESIZE # x % PIPESIZE
<1> DEFINE q == x \div PIPESIZE
           r == x % PIPESIZE
<1>1. q \in Int /\ r \in 0..(PIPESIZE - 1) /\ x = PIPESIZE * q + r
  BY SizeAssumption, SMT
<1> HIDE DEF q
<1>2. CASE r + d < PIPESIZE
  <2>1. x + d = PIPESIZE * q + (r + d) /\ r + d \in 0..(PIPESIZE - 1) /\ x + d \in Int
    BY <1>1, <1>2, SizeAssumption, SMT
  <2>2. (x + d) % PIPESIZE = r + d
    BY <1>1, <2>1, RestIsMod, SizeAssumption
  <2> QED  BY <1>1, <2>2, SMT
<1>3. CASE r + d >= PIPESIZE
  <2>1. x + d = PIPESIZE * (q + 1) + (r + d - PIPESIZE)
    BY <1>1, SizeAssumption, SMT
  <2>2. r + d - PIPESIZE \in 0..(PIPESIZE - 1) /\ x + d \in Int /\ q + 1 \in Int
    BY <1>1, <1>3, SizeAssumption, SMT
  <2>3. (x + d) % PIPESIZE = r + d - PIPESIZE
    BY <2>1, <2>2, RestIsMod, SizeAssumption
  <2> QED  BY <1>1, <2>3, SizeAssumption, SMT
<1> QED  BY <1>1, <1>2, <1>3, SizeAssumption, SMT

-------------------------------------------------------------------------------
(* The counters *)

\* Adding to a counter wraps it once at most.
LEMMA AddWraps ==
  ASSUME NEW x \in 0..(Wrap - 1), NEW d \in 0..(Wrap - 1)
  PROVE  (x + d) % Wrap = IF x + d < Wrap THEN x + d ELSE x + d - Wrap
<1>1. Wrap \in Nat \ {0} /\ x + d \in Int
  BY SizeAssumption, SMT
<1>2. CASE x + d < Wrap
  <2>1. x + d = Wrap * 0 + (x + d) /\ x + d \in 0..(Wrap - 1) /\ 0 \in Int
    BY <1>1, <1>2, SMT
  <2> QED  BY <1>1, <1>2, <2>1, RestIsMod
<1>3. CASE x + d >= Wrap
  <2>1. x + d = Wrap * 1 + (x + d - Wrap) /\ x + d - Wrap \in 0..(Wrap - 1) /\ 1 \in Int
    BY <1>1, <1>3, SMT
  <2>2. (x + d) % Wrap = x + d - Wrap
    BY <1>1, <2>1, RestIsMod
  <2> QED  BY <1>1, <1>3, <2>2, SMT
<1> QED  BY <1>1, <1>2, <1>3, SMT

\* The distance of two counters is what is between them, past the wrap or not.
LEMMA DistanceWraps ==
  ASSUME NEW r \in 0..(Wrap - 1), NEW w \in 0..(Wrap - 1)
  PROVE  (w - r) % Wrap = IF r <= w THEN w - r ELSE w - r + Wrap
<1>1. Wrap \in Nat \ {0} /\ w - r \in Int
  BY SizeAssumption, SMT
<1>2. CASE r <= w
  <2>1. w - r = Wrap * 0 + (w - r) /\ w - r \in 0..(Wrap - 1) /\ 0 \in Int
    BY <1>1, <1>2, SMT
  <2> QED  BY <1>1, <1>2, <2>1, RestIsMod
<1>3. CASE r > w
  <2>1. w - r = Wrap * (-1) + (w - r + Wrap) /\ w - r + Wrap \in 0..(Wrap - 1) /\ -1 \in Int
    BY <1>1, <1>3, SMT
  <2>2. (w - r) % Wrap = w - r + Wrap
    BY <1>1, <2>1, RestIsMod
  <2> QED  BY <1>1, <1>3, <2>2, SMT
<1> QED  BY <1>1, <1>2, <1>3, SMT

\* What the two counters say of the ring: it is empty when they are equal, full when
\* the writer is a ring ahead, and each byte written or read moves its counter by one.
LEMMA Counters ==
  ASSUME NEW r \in 0..(Wrap - 1), NEW w \in 0..(Wrap - 1)
  PROVE  /\ (w - r) % Wrap \in 0..(Wrap - 1)
         /\ r = w <=> (w - r) % Wrap = 0
         /\ w = (r + PIPESIZE) % Wrap <=> (w - r) % Wrap = PIPESIZE
         /\ (r + 1) % Wrap \in 0..(Wrap - 1) /\ (w + 1) % Wrap \in 0..(Wrap - 1)
         /\ (w - r) % Wrap < PIPESIZE => (((w + 1) % Wrap) - r) % Wrap = ((w - r) % Wrap) + 1
         /\ r # w => (w - ((r + 1) % Wrap)) % Wrap = ((w - r) % Wrap) - 1
<1>1. /\ (w - r) % Wrap = IF r <= w THEN w - r ELSE w - r + Wrap
      /\ Wrap \in Nat /\ PIPESIZE \in Nat /\ PIPESIZE > 0 /\ Wrap > PIPESIZE
  BY DistanceWraps, SizeAssumption
<1>2. (r + PIPESIZE) % Wrap = IF r + PIPESIZE < Wrap THEN r + PIPESIZE ELSE r + PIPESIZE - Wrap
  <2>1. PIPESIZE \in 0..(Wrap - 1)
    BY <1>1, SMT
  <2> QED  BY <2>1, AddWraps
<1>3. /\ (r + 1) % Wrap = IF r + 1 < Wrap THEN r + 1 ELSE r + 1 - Wrap
      /\ (w + 1) % Wrap = IF w + 1 < Wrap THEN w + 1 ELSE w + 1 - Wrap
  <2>1. 1 \in 0..(Wrap - 1)
    BY <1>1, SMT
  <2> QED  BY <2>1, AddWraps
<1>4. (r + 1) % Wrap \in 0..(Wrap - 1) /\ (w + 1) % Wrap \in 0..(Wrap - 1)
  BY <1>1, <1>3, SMT
<1>5. (w - ((r + 1) % Wrap)) % Wrap = IF (r + 1) % Wrap <= w THEN w - ((r + 1) % Wrap)
                                                           ELSE w - ((r + 1) % Wrap) + Wrap
  BY <1>4, DistanceWraps
<1>6. (((w + 1) % Wrap) - r) % Wrap = IF r <= (w + 1) % Wrap THEN ((w + 1) % Wrap) - r
                                                           ELSE ((w + 1) % Wrap) - r + Wrap
  BY <1>4, DistanceWraps
<1>7. (w - r) % Wrap \in 0..(Wrap - 1) /\ (r = w <=> (w - r) % Wrap = 0)
  BY <1>1, SMT
<1>8. w = (r + PIPESIZE) % Wrap <=> (w - r) % Wrap = PIPESIZE
  BY <1>1, <1>2, SMT
<1>9. (w - r) % Wrap < PIPESIZE => (((w + 1) % Wrap) - r) % Wrap = ((w - r) % Wrap) + 1
  BY <1>1, <1>3, <1>6, SMT
<1>10. r # w => (w - ((r + 1) % Wrap)) % Wrap = ((w - r) % Wrap) - 1
  BY <1>1, <1>3, <1>5, SMT
<1> QED  BY <1>4, <1>7, <1>8, <1>9, <1>10

-------------------------------------------------------------------------------
(* References *)

\* The processes that have a descriptor of end e of table f.
Having(f, e) == {p \in Proc : e \in f[p]}

\* They are counted: a finite set, whose count goes up by one with a new process and
\* down by one with a process that had the end, to nought with the last.
LEMMA Counted ==
  ASSUME NEW S \in SUBSET Proc, NEW p \in Proc
  PROVE  /\ Cardinality(S) \in Nat
         /\ p \notin S => Cardinality(S \cup {p}) = Cardinality(S) + 1
         /\ p \in S => Cardinality(S \ {p}) = Cardinality(S) - 1
         /\ p \in S /\ Cardinality(S) <= 1 => S = {p}
<1>1. IsFiniteSet(S)
  BY FS_Subset, ProcAssumption
<1>2. Cardinality(S) \in Nat
  BY <1>1, FS_CardinalityType
<1>3. p \notin S => Cardinality(S \cup {p}) = Cardinality(S) + 1
  BY <1>1, FS_AddElement
<1>4. p \in S => Cardinality(S \ {p}) = Cardinality(S) - 1
  BY <1>1, FS_RemoveElement
<1>5. ASSUME p \in S, Cardinality(S) <= 1
      PROVE  S = {p}
  <2>1. IsFiniteSet(S \ {p}) /\ Cardinality(S \ {p}) \in Nat
    BY <1>1, FS_Subset, FS_CardinalityType
  <2>2. Cardinality(S \ {p}) = 0
    BY <1>2, <1>4, <1>5, <2>1, SMT
  <2>3. S \ {p} = {}
    BY <2>1, <2>2, FS_EmptySet
  <2> QED  BY <1>5, <2>3
<1> QED  BY <1>2, <1>3, <1>4, <1>5

-------------------------------------------------------------------------------
(* The invariant *)

\* The inductive part of PipeInv; the rest of it follows in every state.
Core == /\ TypeOK /\ LockHeld /\ EndsOpen /\ (freed <=> open = {})
        /\ WritersMustWait /\ ReadersMustWait

\* With the lock free nobody is between two bytes, so sleepers have their full reason;
\* and a freed pipe has no open end, so nobody can have one or be inside a call.
LEMMA CoreSuffices == Core => PipeInv
<1> SUFFICES ASSUME Core
             PROVE  PipeInv
  OBVIOUS
<1>1. SleepersMustWait
  BY ProcAssumption DEF Core, TypeOK, LockHeld, Inside, Sleeps, WritersMustWait, ReadersMustWait,
                        SleepersMustWait, End, PC
<1>2. FreedUnused
  BY DEF Core, TypeOK, EndsOpen, FreedUnused, Closing, End, PC
<1> QED  BY <1>1, <1>2 DEF Core, PipeInv

\* In a new pipe nobody is inside a call, and its creator has both ends.
LEMMA InitCore == Init => Core
<1> SUFFICES ASSUME Init
             PROVE  Core
  OBVIOUS
<1>1. TypeOK
  <2>1. \A e \in End : {p \in Proc : e \in fds[p]} = {Creator}
    BY ProcAssumption DEF Init
  <2>2. Cardinality({Creator}) = 1
    BY FS_Singleton
  <2>3. ref = [e \in End |-> Cardinality({p \in Proc : e \in fds[p]})]
    BY <2>1, <2>2 DEF Init
  <2>4. Used = 0
    BY Counters, SizeAssumption DEF Init, Used
  <2>5. fds \in [Proc -> SUBSET End] /\ pc \in [Proc -> PC]
    BY DEF Init, PC
  <2>6. nread \in 0..(Wrap - 1) /\ nwrite \in 0..(Wrap - 1) /\ Used <= PIPESIZE
    BY <2>4, SizeAssumption, SMT DEF Init
  <2>7. left \in [Proc -> 0..MaxLen]
    BY SizeAssumption DEF Init
  <2>8. /\ asleep \in [Proc -> BOOLEAN] /\ killed \in [Proc -> BOOLEAN]
        /\ data \in [0..(PIPESIZE - 1) -> Byte]
        /\ open \subseteq End /\ lock \in Proc \cup {NoProc} /\ freed \in BOOLEAN
    BY DEF Init
  <2> QED  BY <2>3, <2>5, <2>6, <2>7, <2>8 DEF TypeOK
<1>2. LockHeld
  BY ProcAssumption DEF Init, LockHeld, Inside, Sleeps
<1>3. EndsOpen
  BY DEF Init, EndsOpen, Closing, End
<1>4. WritersMustWait /\ ReadersMustWait
  BY DEF Init, WritersMustWait, ReadersMustWait
<1> QED  BY <1>1, <1>2, <1>3, <1>4 DEF Core, Init, End

\* A write takes the free lock, so nobody is inside a call, and has its end open.
LEMMA WriteCallCore == ASSUME NEW p \in Proc, Core, WriteCall(p) PROVE Core'
<1> USE DEF Core, TypeOK
<1>1. TypeOK'
  <2>1. PICK n \in 0..MaxLen : left' = [left EXCEPT ![p] = n]
    BY DEF WriteCall
  <2>2. left' \in [Proc -> 0..MaxLen]
    BY <2>1
  <2>3. pc' \in [Proc -> PC]
    BY DEF WriteCall, PC
  <2> QED  BY <2>2, <2>3 DEF WriteCall, pipeVars, fileVars, Used
<1>2. LockHeld'
  BY ProcAssumption DEF WriteCall, Syscall, LockHeld, Inside, Sleeps
<1>3. EndsOpen'
  BY DEF WriteCall, pipeVars, fileVars, EndsOpen, Closing
<1>4. WritersMustWait'
  BY DEF WriteCall, Syscall, pipeVars, WritersMustWait, Full
<1>5. ReadersMustWait'
  BY DEF WriteCall, ReadersMustWait
<1>6. (freed <=> open = {})'
  BY DEF WriteCall, pipeVars
<1> QED  BY <1>1, <1>2, <1>3, <1>4, <1>5, <1>6

\* Who gives up because nobody reads leaves no reader asleep: a reader has the reading
\* end.  Who gives up because he is killed may leave one, which the invariant allows.
LEMMA WriteFailCore == ASSUME NEW p \in Proc, Core, WriteFail(p) PROVE Core'
<1> USE DEF Core, TypeOK
<1>1. TypeOK'
  BY SizeAssumption DEF WriteFail, Goto, pipeVars, fileVars, Used, PC
<1>2. LockHeld'
  BY ProcAssumption DEF WriteFail, Goto, LockHeld, Inside
<1>3. EndsOpen'
  BY DEF WriteFail, Goto, pipeVars, fileVars, EndsOpen, Closing
<1>4. WritersMustWait'
  BY ProcAssumption DEF WriteFail, Goto, pipeVars, WritersMustWait, Full
<1>5. ReadersMustWait'
  BY ProcAssumption DEF WriteFail, Goto, EndsOpen, ReadersMustWait, GivesUp
<1>6. (freed <=> open = {})'
  BY DEF WriteFail, pipeVars
<1> QED  BY <1>1, <1>2, <1>3, <1>4, <1>5, <1>6

\* A writer that finds the ring full wakes the readers before it goes to sleep.
LEMMA WriteFullCore == ASSUME NEW p \in Proc, Core, WriteFull(p) PROVE Core'
<1> USE DEF Core, TypeOK
<1>1. TypeOK'
  BY SizeAssumption DEF WriteFull, Goto, Wake, pipeVars, fileVars, Used, PC
<1>2. LockHeld'
  BY DEF WriteFull, Goto, Wake, LockHeld, Inside, Sleeps
<1>3. EndsOpen'
  BY DEF WriteFull, Goto, pipeVars, fileVars, EndsOpen, Closing
<1>4. WritersMustWait'
  BY DEF WriteFull, pipeVars, WritersMustWait, Full, GivesUp
<1>5. ReadersMustWait'
  BY DEF WriteFull, Goto, Wake, pipeVars, ReadersMustWait, MustWait, Empty
<1>6. (freed <=> open = {})'
  BY DEF WriteFull, pipeVars
<1> QED  BY <1>1, <1>2, <1>3, <1>4, <1>5, <1>6

\* A byte goes in only with room, so no writer is asleep, and readers that sleep on are
\* woken by the end of this write.
LEMMA WriteByteCore == ASSUME NEW p \in Proc, Core, WriteByte(p) PROVE Core'
<1> USE DEF Core, TypeOK
<1>1. TypeOK'
  <2>1. PICK b \in Byte : data' = [data EXCEPT ![nwrite % PIPESIZE] = b]
    BY DEF WriteByte
  <2>2. data' \in [0..(PIPESIZE - 1) -> Byte]
    BY <2>1
  <2>3. Used < PIPESIZE /\ nwrite' \in 0..(Wrap - 1) /\ Used' = Used + 1
    <3>1. Used # PIPESIZE /\ Used \in Nat
      BY Counters DEF WriteByte, Full, Used
    <3>2. Used < PIPESIZE
      BY <3>1, SizeAssumption, SMT
    <3> QED  BY <3>2, Counters DEF WriteByte, Used
  <2>4. left' \in [Proc -> 0..MaxLen]
    <3>1. left[p] - 1 \in 0..MaxLen
      BY SizeAssumption DEF WriteByte
    <3> QED  BY <3>1 DEF WriteByte
  <2>5. pc' \in [Proc -> PC] /\ Used' <= PIPESIZE
    <3>1. Used' <= PIPESIZE
      BY <2>3, SizeAssumption, SMT DEF Used
    <3> QED  BY <3>1 DEF WriteByte, Goto, PC
  <2> QED  BY <2>2, <2>3, <2>4, <2>5 DEF WriteByte, fileVars
<1>2. LockHeld'
  BY DEF WriteByte, Goto, LockHeld
<1>3. EndsOpen'
  BY DEF WriteByte, Goto, fileVars, EndsOpen
<1>4. WritersMustWait'
  BY DEF WriteByte, Goto, WritersMustWait
<1>5. ReadersMustWait'
  BY DEF WriteByte, Goto, LockHeld, Inside, ReadersMustWait
<1>6. (freed <=> open = {})'
  BY DEF WriteByte
<1> QED  BY <1>1, <1>2, <1>3, <1>4, <1>5, <1>6

\* Who has written wakes the readers before giving the lock up.
LEMMA WriteDoneCore == ASSUME NEW p \in Proc, Core, WriteDone(p) PROVE Core'
<1> USE DEF Core, TypeOK
<1>1. TypeOK'
  BY SizeAssumption DEF WriteDone, Goto, Wake, pipeVars, fileVars, Used, PC
<1>2. LockHeld'
  BY ProcAssumption DEF WriteDone, Goto, Wake, LockHeld, Inside
<1>3. EndsOpen'
  BY DEF WriteDone, Goto, pipeVars, fileVars, EndsOpen, Closing
<1>4. WritersMustWait'
  BY ProcAssumption DEF WriteDone, Goto, Wake, pipeVars, WritersMustWait, Full
<1>5. ReadersMustWait'
  BY ProcAssumption DEF WriteDone, Goto, Wake, ReadersMustWait
<1>6. (freed <=> open = {})'
  BY DEF WriteDone, pipeVars
<1> QED  BY <1>1, <1>2, <1>3, <1>4, <1>5, <1>6

\* A read takes the free lock, so nobody is inside a call, and has its end open.
LEMMA ReadCallCore == ASSUME NEW p \in Proc, Core, ReadCall(p) PROVE Core'
<1> USE DEF Core, TypeOK
<1>1. TypeOK'
  <2>1. PICK n \in 0..MaxLen : left' = [left EXCEPT ![p] = n]
    BY DEF ReadCall
  <2>2. left' \in [Proc -> 0..MaxLen]
    BY <2>1
  <2>3. pc' \in [Proc -> PC]
    BY DEF ReadCall, PC
  <2> QED  BY <2>2, <2>3 DEF ReadCall, pipeVars, fileVars, Used
<1>2. LockHeld'
  BY ProcAssumption DEF ReadCall, Syscall, LockHeld, Inside, Sleeps
<1>3. EndsOpen'
  BY DEF ReadCall, pipeVars, fileVars, EndsOpen, Closing
<1>4. WritersMustWait'
  BY DEF ReadCall, Syscall, pipeVars, WritersMustWait, Full
<1>5. ReadersMustWait'
  BY DEF ReadCall, Syscall, pipeVars, ReadersMustWait, MustWait, Empty
<1>6. (freed <=> open = {})'
  BY DEF ReadCall, pipeVars
<1> QED  BY <1>1, <1>2, <1>3, <1>4, <1>5, <1>6

\* A reader goes to sleep, still with the lock, only if it must wait.
LEMMA ReadWaitCore == ASSUME NEW p \in Proc, Core, ReadWait(p) PROVE Core'
<1> USE DEF Core, TypeOK
<1>1. TypeOK'
  BY SizeAssumption DEF ReadWait, Goto, pipeVars, fileVars, Used, PC, End
<1>2. LockHeld'
  BY ProcAssumption DEF ReadWait, Goto, LockHeld, Inside, Sleeps
<1>3. EndsOpen'
  BY DEF ReadWait, Goto, pipeVars, fileVars, EndsOpen, Closing
<1>4. WritersMustWait'
  BY ProcAssumption DEF ReadWait, Goto, pipeVars, WritersMustWait, Full
<1>5. ReadersMustWait'
  BY DEF ReadWait, Goto, pipeVars, ReadersMustWait, MustWait, Empty
<1>6. (freed <=> open = {})'
  BY DEF ReadWait, pipeVars
<1> QED  BY <1>1, <1>2, <1>3, <1>4, <1>5, <1>6

\* A byte goes out, so the ring was not empty; writers that sleep on are woken by the
\* end of this read.
LEMMA ReadByteCore == ASSUME NEW p \in Proc, Core, ReadByte(p) PROVE Core'
<1> USE DEF Core, TypeOK
<1>1. TypeOK'
  <2>1. nread' \in 0..(Wrap - 1) /\ Used' = Used - 1 /\ Used \in Nat
    BY Counters DEF ReadByte, Empty, Used
  <2>2. left' \in [Proc -> 0..MaxLen]
    <3>1. left[p] - 1 \in 0..MaxLen
      BY SizeAssumption DEF ReadByte
    <3> QED  BY <3>1 DEF ReadByte
  <2>3. pc' \in [Proc -> PC] /\ Used' <= PIPESIZE
    <3>1. Used' <= PIPESIZE
      BY <2>1, SizeAssumption, SMT
    <3> QED  BY <3>1 DEF ReadByte, Goto, PC
  <2> QED  BY <2>1, <2>2, <2>3 DEF ReadByte, fileVars
<1>2. LockHeld'
  BY DEF ReadByte, Goto, LockHeld
<1>3. EndsOpen'
  BY DEF ReadByte, Goto, fileVars, EndsOpen
<1>4. WritersMustWait'
  BY DEF ReadByte, Goto, LockHeld, Inside, WritersMustWait
<1>5. ReadersMustWait'
  BY DEF ReadByte, Goto, ReadersMustWait, MustWait
<1>6. (freed <=> open = {})'
  BY DEF ReadByte
<1> QED  BY <1>1, <1>2, <1>3, <1>4, <1>5, <1>6

\* Who has read wakes the writers before giving the lock up.
LEMMA ReadDoneCore == ASSUME NEW p \in Proc, Core, ReadDone(p) PROVE Core'
<1> USE DEF Core, TypeOK
<1>1. TypeOK'
  BY SizeAssumption DEF ReadDone, Goto, Wake, pipeVars, fileVars, Used, PC
<1>2. LockHeld'
  BY ProcAssumption DEF ReadDone, Goto, Wake, LockHeld, Inside
<1>3. EndsOpen'
  BY DEF ReadDone, Goto, pipeVars, fileVars, EndsOpen, Closing
<1>4. WritersMustWait'
  BY ProcAssumption DEF ReadDone, Goto, Wake, WritersMustWait
<1>5. ReadersMustWait'
  BY ProcAssumption DEF ReadDone, Goto, Wake, pipeVars, ReadersMustWait, MustWait, Empty
<1>6. (freed <=> open = {})'
  BY DEF ReadDone, pipeVars
<1> QED  BY <1>1, <1>2, <1>3, <1>4, <1>5, <1>6

\* Falling asleep and giving the lock up are one step, so the reason still holds.
LEMMA SleepCore == ASSUME NEW p \in Proc, Core, Sleep(p) PROVE Core'
<1> USE DEF Core, TypeOK
<1>1. TypeOK'
  BY SizeAssumption DEF Sleep, pipeVars, fileVars, Used
<1>2. LockHeld'
  BY ProcAssumption DEF Sleep, LockHeld, Inside
<1>3. EndsOpen'
  BY DEF Sleep, pipeVars, fileVars, EndsOpen
<1>4. WritersMustWait'
  BY ProcAssumption DEF Sleep, pipeVars, WritersMustWait, Full
<1>5. ReadersMustWait'
  BY ProcAssumption DEF Sleep, pipeVars, ReadersMustWait, MustWait, Empty
<1>6. (freed <=> open = {})'
  BY DEF Sleep, pipeVars
<1> QED  BY <1>1, <1>2, <1>3, <1>4, <1>5, <1>6

\* Who comes back from sleep takes the lock again and looks at the ring anew.
LEMMA ResumeCore == ASSUME NEW p \in Proc, Core, Resume(p) PROVE Core'
<1> USE DEF Core, TypeOK
<1>1. TypeOK'
  BY SizeAssumption DEF Resume, pipeVars, fileVars, Used, PC
<1>2. LockHeld'
  BY ProcAssumption DEF Resume, LockHeld, Inside
<1>3. EndsOpen'
  BY DEF Resume, pipeVars, fileVars, EndsOpen, Closing
<1>4. WritersMustWait'
  BY DEF Resume, pipeVars, WritersMustWait, Full
<1>5. ReadersMustWait'
  BY DEF Resume, pipeVars, ReadersMustWait, MustWait, Empty
<1>6. (freed <=> open = {})'
  BY DEF Resume, pipeVars
<1> QED  BY <1>1, <1>2, <1>3, <1>4, <1>5, <1>6

\* A kill wakes its process, and moves nothing.
LEMMA KillCore == ASSUME NEW p \in Proc, Core, Kill(p) PROVE Core'
<1> USE DEF Core, TypeOK
<1>1. TypeOK'
  BY SizeAssumption DEF Kill, pipeVars, fileVars, Used
<1>2. LockHeld'
  BY DEF Kill, LockHeld
<1>3. EndsOpen'
  BY DEF Kill, pipeVars, fileVars, EndsOpen
<1>4. WritersMustWait'
  BY DEF Kill, pipeVars, WritersMustWait, Full
<1>5. ReadersMustWait'
  BY DEF Kill, pipeVars, ReadersMustWait, MustWait, Empty
<1>6. (freed <=> open = {})'
  BY DEF Kill, pipeVars
<1> QED  BY <1>1, <1>2, <1>3, <1>4, <1>5, <1>6

\* A fork counts the new references; the child had none.
LEMMA ForkCore == ASSUME NEW p \in Proc, NEW q \in Proc, Core, Fork(p, q) PROVE Core'
<1> USE DEF Core, TypeOK
<1>1. TypeOK'
  <2>1. p # q /\ fds[q] = {} /\ fds' = [fds EXCEPT ![q] = fds[p]]
    BY DEF Fork, EndsOpen
  <2>2. ASSUME NEW e \in End
        PROVE  ref'[e] = Cardinality(Having(fds', e))
    <3>1. /\ ref[e] = Cardinality(Having(fds, e))
          /\ Having(fds, e) \in SUBSET Proc /\ q \notin Having(fds, e)
      BY <2>1 DEF Having
    <3>2. Having(fds', e) = IF e \in fds[p] THEN Having(fds, e) \cup {q} ELSE Having(fds, e)
      BY <2>1 DEF Having
    <3>3. ref'[e] = IF e \in fds[p] THEN ref[e] + 1 ELSE ref[e]
      BY DEF Fork
    <3>4. Cardinality(Having(fds, e) \cup {q}) = Cardinality(Having(fds, e)) + 1
      BY <3>1, Counted
    <3> HIDE DEF TypeOK
    <3> QED  BY <3>1, <3>2, <3>3, <3>4
  <2>3. ref' = [e \in End |-> Cardinality({r \in Proc : e \in fds'[r]})]
    BY <2>2 DEF Fork, Having
  <2>4. fds' \in [Proc -> SUBSET End] /\ pc' \in [Proc -> PC]
    BY <2>1 DEF Fork, PC
  <2> QED  BY <2>3, <2>4 DEF Fork, pipeVars, Used
<1>2. LockHeld'
  BY DEF Fork, LockHeld, Inside, Sleeps
<1>3. EndsOpen'
  BY DEF Fork, pipeVars, EndsOpen, Closing
<1>4. WritersMustWait'
  BY DEF Fork, pipeVars, WritersMustWait, Full
<1>5. ReadersMustWait'
  BY DEF Fork, pipeVars, ReadersMustWait, MustWait, Empty
<1>6. (freed <=> open = {})'
  BY DEF Fork, pipeVars
<1> QED  BY <1>1, <1>2, <1>3, <1>4, <1>5, <1>6

\* A close counts one reference less; whoever gives the last one back, and nobody
\* else, goes on to close the end.
LEMMA FileCloseCore == ASSUME NEW p \in Proc, NEW e \in End, Core, FileClose(p, e) PROVE Core'
<1> USE DEF Core, TypeOK
<1>1. fds' = [fds EXCEPT ![p] = fds[p] \ {e}] /\ e \in fds[p] /\ pc[p] = "user"
  BY DEF FileClose
<1>2. /\ ref[e] = Cardinality(Having(fds, e)) /\ p \in Having(fds, e)
      /\ Having(fds, e) \in SUBSET Proc /\ Having(fds', e) = Having(fds, e) \ {p}
  BY <1>1 DEF Having
<1>0. /\ Cardinality(Having(fds, e)) \in Nat
      /\ Cardinality(Having(fds, e) \ {p}) = Cardinality(Having(fds, e)) - 1
      /\ Cardinality(Having(fds, e)) <= 1 => Having(fds, e) = {p}
  <2> DEFINE S == Having(fds, e)
  <2>1. S \in SUBSET Proc /\ p \in S
    BY <1>2
  <2> HIDE DEF S, Core, TypeOK
  <2>2. /\ Cardinality(S) \in Nat
        /\ Cardinality(S \ {p}) = Cardinality(S) - 1
        /\ Cardinality(S) <= 1 => S = {p}
    BY <2>1, Counted
  <2> QED  BY <2>2 DEF S
<1>3. TypeOK'
  <2>1. ASSUME NEW f \in End
        PROVE  ref'[f] = Cardinality(Having(fds', f))
    <3>1. CASE f = e
      <4>1. ref'[e] = ref[e] - 1
        BY DEF FileClose
      <4> HIDE DEF TypeOK
      <4> QED  BY <1>0, <1>2, <3>1, <4>1
    <3>2. CASE f # e
      <4>1. Having(fds', f) = Having(fds, f)
        BY <1>1, <3>2 DEF Having
      <4> QED  BY <3>2, <4>1 DEF FileClose, Having
    <3> QED  BY <3>1, <3>2
  <2>2. ref' = [f \in End |-> Cardinality({r \in Proc : f \in fds'[r]})]
    BY <2>1 DEF FileClose, Having
  <2>3. fds' \in [Proc -> SUBSET End] /\ pc' \in [Proc -> PC]
    BY <1>1 DEF FileClose, PC
  <2> QED  BY <2>2, <2>3 DEF FileClose, pipeVars, Used
<1>4. LockHeld'
  BY DEF FileClose, LockHeld, Inside, Sleeps
<1>5. EndsOpen'
  <2>1. pc'[p] = "user" \/ (pc'[p] = Closing(e) /\ \A q \in Proc : e \notin fds'[q])
    <3>0. pc'[p] = IF ref[e] > 1 THEN "user" ELSE Closing(e)
      <4>1. pc \in [Proc -> PC]
        OBVIOUS
      <4> HIDE DEF TypeOK
      <4> QED  BY <4>1 DEF FileClose, Closing
    <3> HIDE DEF TypeOK
    <3>1. CASE ref[e] > 1
      BY <3>0, <3>1
    <3>2. CASE ~(ref[e] > 1)
      <4>1. Having(fds, e) = {p}
        <5>1. ref[e] <= 1
          BY <1>0, <1>2, <3>2, SMT
        <5> QED  BY <1>0, <1>2, <5>1
      <4>2. \A q \in Proc : e \notin fds'[q]
        BY <1>2, <4>1 DEF Having
      <4> QED  BY <3>0, <3>2, <4>2
    <3> QED  BY <3>1, <3>2
  <2>2. \A q \in Proc : fds'[q] \subseteq fds[q] /\ (q # p => fds'[q] = fds[q] /\ pc'[q] = pc[q])
    BY <1>1 DEF FileClose
  <2>3. \A q \in Proc : pc[q] # Closing(e)
    BY <1>1 DEF EndsOpen
  <2>4. \A q \in Proc : /\ fds'[q] \subseteq open
                        /\ pc'[q] = "none" => fds'[q] = {}
                        /\ pc'[q] \in {"write", "write_sleep"} => "w" \in fds'[q]
                        /\ pc'[q] \in {"read_wait", "read", "read_sleep"} => "r" \in fds'[q]
    BY <1>1, <2>1, <2>2 DEF EndsOpen, Closing
  <2>5. ASSUME NEW f \in End, NEW q \in Proc, pc'[q] = Closing(f)
        PROVE  /\ f \in open
               /\ \A r \in Proc : f \notin fds'[r] /\ (pc'[r] = Closing(f) => r = q)
    <3>1. CASE q = p
      <4>1. f = e /\ \A r \in Proc : e \notin fds'[r]
        BY <2>1, <2>5, <3>1 DEF Closing, End
      <4>2. e \in open
        BY <1>1 DEF EndsOpen
      <4> QED  BY <2>2, <2>3, <3>1, <4>1, <4>2
    <3>2. CASE q # p
      <4>1. pc[q] = Closing(f)
        BY <2>2, <2>5, <3>2
      <4>2. f # e /\ f \in open /\ \A r \in Proc : f \notin fds[r] /\ (pc[r] = Closing(f) => r = q)
        BY <2>3, <4>1 DEF EndsOpen
      <4>3. pc'[p] # Closing(f)
        BY <2>1, <4>2 DEF Closing, End
      <4> QED  BY <2>2, <4>2, <4>3
    <3> QED  BY <3>1, <3>2
  <2>6. open' = open
    BY DEF FileClose, pipeVars
  <2> QED  BY <2>4, <2>5, <2>6 DEF EndsOpen, Closing
<1>6. WritersMustWait'
  BY DEF FileClose, pipeVars, WritersMustWait, Full
<1>7. ReadersMustWait'
  BY DEF FileClose, pipeVars, ReadersMustWait, MustWait, Empty
<1>8. (freed <=> open = {})'
  BY DEF FileClose, pipeVars
<1> QED  BY <1>3, <1>4, <1>5, <1>6, <1>7, <1>8

\* The last close of an end wakes whom the other end's guards speak of: the writers,
\* once nobody can read, and the readers, once nobody can write.
LEMMA CloseCore == ASSUME NEW p \in Proc, Core, Close(p) PROVE Core'
<1> USE DEF Core, TypeOK
<1>1. PICK e \in End : PipeClose(p, e, Closing(e), IF e = "r" THEN "write_sleep" ELSE "read_sleep")
  BY DEF Close, Closing, End
<1>2. TypeOK'
  BY <1>1 DEF PipeClose, Goto, Wake, fileVars, Used, PC
<1>3. LockHeld'
  BY <1>1 DEF PipeClose, Goto, Wake, LockHeld, Inside, Sleeps, Closing
<1>4. EndsOpen'
  BY <1>1 DEF PipeClose, Goto, fileVars, EndsOpen, Closing
<1>5. WritersMustWait'
  BY <1>1, ProcAssumption DEF PipeClose, Goto, Wake, WritersMustWait, Full, Closing
<1>6. ReadersMustWait'
  BY <1>1, ProcAssumption DEF PipeClose, Goto, Wake, ReadersMustWait, MustWait, Empty, Closing
<1>7. (freed <=> open = {})'
  BY <1>1 DEF PipeClose
<1> QED  BY <1>2, <1>3, <1>4, <1>5, <1>6, <1>7

\* Every step keeps the invariant.
LEMMA StepCore == Core /\ [Next]_vars => Core'
<1> SUFFICES ASSUME Core, [Next]_vars
             PROVE  Core'
  OBVIOUS
<1>1. CASE Next
  <2>1. PICK p \in Proc : \/ WriteCall(p) \/ ReadCall(p) \/ InCall(p) \/ Kill(p)
                          \/ \E q \in Proc : Fork(p, q)
                          \/ \E e \in End : FileClose(p, e)
    BY <1>1 DEF Next
  <2>2. CASE WriteCall(p) \/ ReadCall(p) \/ Kill(p)
    BY <2>2, WriteCallCore, ReadCallCore, KillCore
  <2>3. CASE \E q \in Proc : Fork(p, q)
    BY <2>3, ForkCore
  <2>4. CASE \E e \in End : FileClose(p, e)
    BY <2>4, FileCloseCore
  <2>5. CASE InCall(p)
    <3>1. CASE Write(p)
      BY <3>1, WriteFailCore, WriteFullCore, WriteByteCore, WriteDoneCore DEF Write
    <3>2. CASE Read(p)
      BY <3>2, ReadWaitCore, ReadByteCore, ReadDoneCore DEF Read
    <3>3. CASE Close(p) \/ Sleep(p) \/ Resume(p)
      BY <3>3, CloseCore, SleepCore, ResumeCore
    <3> QED  BY <2>5, <3>1, <3>2, <3>3 DEF InCall
  <2> QED  BY <2>1, <2>2, <2>3, <2>4, <2>5
<1>2. CASE UNCHANGED vars
  BY <1>2 DEF vars, pipeVars, fileVars, Core, TypeOK, LockHeld, EndsOpen, WritersMustWait,
              ReadersMustWait, Used, Full, MustWait, Empty
<1> QED  BY <1>1, <1>2

\* So it holds in every reachable state.
LEMMA CoreInvariant == Spec => []Core
<1> QED  BY InitCore, StepCore, PTL DEF Spec

\* However reads, writes, closes, forks and kills interleave: who is inside a call holds
\* the lock, an end is closed once, after its last use, the page is freed with the
\* second one, and who sleeps has a reason to (pipe.c:59-134).
THEOREM PipeInvariant == Spec => []PipeInv
<1> QED  BY CoreInvariant, CoreSuffices, PTL

\* No lost wakeup: with the lock free, a sleeping writer has a full pipe that can be
\* read, a sleeping reader an empty one that can be written, or a writer was killed
\* after some bytes and left without the wakeup (pipe.c:84).
THEOREM NoNeedlessSleep == Spec => []SleepersMustWait
<1>1. PipeInv => SleepersMustWait
  BY DEF PipeInv
<1> QED  BY <1>1, PipeInvariant, PTL

-------------------------------------------------------------------------------
(* The stream *)

\* Where the next byte goes is a ring's fill past where the next comes from, though
\* either counter may have wrapped.
LEMMA WritePlace ==
  ASSUME NEW r \in 0..(Wrap - 1), NEW w \in 0..(Wrap - 1)
  PROVE  w % PIPESIZE = (r + ((w - r) % Wrap)) % PIPESIZE
<1> DEFINE d == (w - r) % Wrap
<1>1. d = IF r <= w THEN w - r ELSE w - r + Wrap
  BY DistanceWraps
<1>2. Wrap \in Nat /\ r \in Int /\ w \in Nat
  BY SizeAssumption
<1> HIDE DEF d
<1>3. CASE r <= w
  <2>1. r + d = w
    BY <1>1, <1>2, <1>3
  <2> QED  BY <2>1 DEF d
<1>4. CASE ~(r <= w)
  <2>1. r + d = w + Wrap
    BY <1>1, <1>2, <1>4
  <2>2. (w + Wrap) % PIPESIZE = w % PIPESIZE
    BY <1>2, RoundKeeps
  <2> QED  BY <2>1, <2>2 DEF d
<1> QED  BY <1>3, <1>4

\* The places counted from the next counter are those counted from this one, one on.
LEMMA NextPlace ==
  ASSUME NEW r \in 0..(Wrap - 1), NEW i \in Nat \ {0}
  PROVE  (((r + 1) % Wrap) + i - 1) % PIPESIZE = (r + i) % PIPESIZE
<1>1. Wrap \in Nat /\ Wrap > 1
  BY SizeAssumption, SMT
<1>2. (r + 1) % Wrap = IF r + 1 < Wrap THEN r + 1 ELSE r + 1 - Wrap
  BY <1>1, AddWraps
<1>3. CASE r + 1 < Wrap
  <2>1. ((r + 1) % Wrap) + i - 1 = r + i
    BY <1>1, <1>2, <1>3, SMT
  <2> QED  BY <2>1
<1>4. CASE ~(r + 1 < Wrap)
  <2>1. ((r + 1) % Wrap) + i - 1 = i - 1 /\ r + i = (i - 1) + Wrap /\ i - 1 \in Nat
    BY <1>1, <1>2, <1>4, SMT
  <2> QED  BY <2>1, RoundKeeps
<1> QED  BY <1>3, <1>4

\* A place is one of the ring.
LEMMA PlaceInRing ==
  ASSUME NEW x \in Nat
  PROVE  x % PIPESIZE \in 0..(PIPESIZE - 1)
<1> QED  BY SizeAssumption, SMT

\* The content is a sequence of Used bytes.
ContentOK == /\ Used \in Nat /\ Content \in Seq(Byte) /\ Len(Content) = Used
             /\ \A i \in 1..Used : Content[i] = data[(nread + i - 1) % PIPESIZE]

\* In every state of the right types it is so.
LEMMA ContentIs == TypeOK => ContentOK
<1> SUFFICES ASSUME TypeOK
             PROVE  ContentOK
  OBVIOUS
<1>1. Used \in Nat
  BY Counters DEF TypeOK, Used
<1>2. \A i \in 1..Used : data[(nread + i - 1) % PIPESIZE] \in Byte
  <2>1. ASSUME NEW i \in 1..Used
        PROVE  nread + i - 1 \in Nat
    BY <1>1, SizeAssumption, SMT DEF TypeOK
  <2> QED  BY <2>1, PlaceInRing DEF TypeOK
<1>3. Content \in [1..Used -> Byte]
  BY <1>2 DEF Content
<1>4. Content \in Seq(Byte) /\ Len(Content) = Used
  BY <1>1, <1>3, SMT
<1> QED  BY <1>1, <1>4 DEF Content, ContentOK

\* A byte written goes behind the others and leaves them as they are.
LEMMA WritePuts == ASSUME NEW p \in Proc, Core, Core', WriteByte(p) PROVE Stream!Put
<1>1. TypeOK /\ TypeOK'
  BY DEF Core
<1>2. PICK b \in Byte : data' = [data EXCEPT ![nwrite % PIPESIZE] = b]
  BY DEF WriteByte
<1>3. /\ nread' = nread /\ nread \in 0..(Wrap - 1) /\ nwrite \in 0..(Wrap - 1)
      /\ nwrite' = (nwrite + 1) % Wrap /\ data \in [0..(PIPESIZE - 1) -> Byte]
  BY <1>1 DEF WriteByte, TypeOK
<1>4. Used \in Nat /\ Used < PIPESIZE /\ Used' = Used + 1
  <2>1. Used # PIPESIZE /\ Used \in Nat /\ Used <= PIPESIZE
    BY <1>1, Counters DEF WriteByte, Full, Used, TypeOK
  <2>2. Used < PIPESIZE
    BY <2>1, SizeAssumption, SMT
  <2> QED  BY <1>3, <2>1, <2>2, Counters DEF Used
<1>5. nwrite % PIPESIZE = (nread + Used) % PIPESIZE /\ nread + Used \in Nat
  <2>1. nwrite % PIPESIZE = (nread + ((nwrite - nread) % Wrap)) % PIPESIZE
    BY <1>3, WritePlace
  <2>2. nread + Used \in Nat
    BY <1>3, <1>4, SizeAssumption, SMT
  <2> QED  BY <2>1, <2>2 DEF Used
<1>6. /\ Content' \in Seq(Byte) /\ Len(Content') = Used + 1
      /\ \A i \in 1..(Used + 1) : Content'[i] = data'[(nread + i - 1) % PIPESIZE]
  <2>1. ContentOK'
    BY <1>1, ContentIs, PTL
  <2> QED  BY <1>3, <1>4, <2>1 DEF ContentOK
<1>7. Content \in Seq(Byte) /\ Len(Content) = Used
      /\ \A i \in 1..Used : Content[i] = data[(nread + i - 1) % PIPESIZE]
  BY <1>1, ContentIs DEF ContentOK
<1>8. ASSUME NEW i \in 1..Used
      PROVE  Content'[i] = Content[i]
  <2>1. /\ nread + i - 1 \in Nat /\ Used - i + 1 \in 1..(PIPESIZE - 1) /\ i \in 1..(Used + 1)
        /\ (nread + i - 1) + (Used - i + 1) = nread + Used
    BY <1>3, <1>4, <1>8, SizeAssumption, SMT
  <2>2. (nread + Used) % PIPESIZE # (nread + i - 1) % PIPESIZE
    BY <2>1, PlacesDiffer
  <2>3. (nread + i - 1) % PIPESIZE \in 0..(PIPESIZE - 1)
    BY <2>1, PlaceInRing
  <2>4. data'[(nread + i - 1) % PIPESIZE] = data[(nread + i - 1) % PIPESIZE]
    BY <1>2, <1>3, <1>5, <2>2, <2>3
  <2> QED  BY <1>6, <1>7, <2>1, <2>4
<1>9. Content'[Used + 1] = b
  <2>1. nread + (Used + 1) - 1 = nread + Used /\ Used + 1 \in 1..(Used + 1)
    BY <1>3, <1>4, SizeAssumption, SMT
  <2>2. (nread + Used) % PIPESIZE \in 0..(PIPESIZE - 1)
    BY <1>5, PlaceInRing
  <2> QED  BY <1>2, <1>3, <1>5, <1>6, <2>1, <2>2
<1>10. Content' = Append(Content, b)
  <2>1. /\ Append(Content, b) \in Seq(Byte) /\ Len(Append(Content, b)) = Used + 1
        /\ \A i \in 1..Used : Append(Content, b)[i] = Content[i]
        /\ Append(Content, b)[Used + 1] = b
    BY <1>2, <1>7, AppendProperties
  <2>2. ASSUME NEW i \in 1..(Used + 1)
        PROVE  Content'[i] = Append(Content, b)[i]
    <3>1. i \in 1..Used \/ i = Used + 1
      BY <1>4, SMT
    <3> QED  BY <1>8, <1>9, <2>1, <3>1
  <2> QED  BY <1>6, <2>1, <2>2, SeqEqual
<1>11. "r" \in open /\ open' = open
  BY DEF WriteByte, GivesUp
<1> QED  BY <1>4, <1>7, <1>10, <1>11 DEF Stream!Put, End

\* A byte read is the one in front.
LEMMA ReadGets == ASSUME NEW p \in Proc, Core, Core', ReadByte(p) PROVE Stream!Get
<1>1. TypeOK /\ TypeOK'
  BY DEF Core
<1>2. /\ nread' = (nread + 1) % Wrap /\ nread \in 0..(Wrap - 1) /\ nwrite \in 0..(Wrap - 1)
      /\ nwrite' = nwrite /\ data' = data /\ nread # nwrite /\ open' = open
  BY <1>1 DEF ReadByte, Empty, TypeOK
<1>3. Used' = Used - 1 /\ Used \in Nat /\ Used # 0
  BY <1>2, Counters DEF Used
<1>4. ContentOK /\ ContentOK'
  BY <1>1, ContentIs, PTL
<1>5. Content # << >> /\ Content \in Seq(Byte)
  BY <1>3, <1>4, EmptySeq DEF ContentOK
<1>6. /\ Tail(Content) \in Seq(Byte) /\ Len(Tail(Content)) = Used - 1
      /\ \A i \in 1..(Used - 1) : Tail(Content)[i] = Content[i + 1]
  BY <1>4, <1>5, HeadTailProperties DEF ContentOK
<1>7. ASSUME NEW i \in 1..(Used - 1)
      PROVE  Content'[i] = Tail(Content)[i]
  <2>1. /\ i \in Nat \ {0} /\ i \in 1..Used' /\ i + 1 \in 1..Used
        /\ nread + (i + 1) - 1 = nread + i
    BY <1>2, <1>3, <1>7, SizeAssumption, SMT
  <2>2. (nread' + i - 1) % PIPESIZE = (nread + i) % PIPESIZE
    BY <1>2, <2>1, NextPlace
  <2>3. Content'[i] = data[(nread + i) % PIPESIZE]
    BY <1>2, <1>4, <2>1, <2>2 DEF ContentOK
  <2>4. Content[i + 1] = data[(nread + i) % PIPESIZE]
    BY <1>4, <2>1 DEF ContentOK
  <2> QED  BY <1>6, <2>3, <2>4
<1>8. Content' \in Seq(Byte) /\ Len(Content') = Used - 1
  BY <1>3, <1>4 DEF ContentOK
<1>9. Content' = Tail(Content)
  BY <1>6, <1>7, <1>8, SeqEqual
<1> QED  BY <1>2, <1>5, <1>9 DEF Stream!Get

\* The last close of an end shuts it.
LEMMA CloseShuts == ASSUME NEW p \in Proc, Core, Close(p) PROVE \E e \in End : Stream!Shut(e)
<1>1. PICK e \in End : open' = open \ {e} /\ data' = data /\ nread' = nread /\ nwrite' = nwrite
  BY DEF Close, PipeClose, End
<1>2. Content' = Content
  BY <1>1 DEF Content, Used
<1> QED  BY <1>1, <1>2 DEF Stream!Shut

\* All other steps leave the stream alone.
LEMMA OthersStutter ==
  ASSUME UNCHANGED pipeVars
  PROVE  UNCHANGED Stream!vars
<1> QED  BY DEF pipeVars, Stream!vars, Content, Used

\* A step of the pipe is a step of the stream, or none.
LEMMA StepStreams == Core /\ Core' /\ [Next]_vars => [Stream!Next]_(Stream!vars)
<1> SUFFICES ASSUME Core, Core', [Next]_vars
             PROVE  [Stream!Next]_(Stream!vars)
  OBVIOUS
<1>1. ASSUME NEW p \in Proc, WriteByte(p)
      PROVE  Stream!Next
  BY <1>1, WritePuts DEF Stream!Next
<1>2. ASSUME NEW p \in Proc, ReadByte(p)
      PROVE  Stream!Next
  BY <1>2, ReadGets DEF Stream!Next
<1>3. ASSUME NEW p \in Proc, Close(p)
      PROVE  Stream!Next
  BY <1>3, CloseShuts DEF Stream!Next, End
<1>4. ASSUME NEW p \in Proc,
             \/ WriteCall(p) \/ WriteFail(p) \/ WriteFull(p) \/ WriteDone(p)
             \/ ReadCall(p) \/ ReadWait(p) \/ ReadDone(p) \/ Sleep(p) \/ Resume(p) \/ Kill(p)
             \/ (\E q \in Proc : Fork(p, q)) \/ (\E e \in End : FileClose(p, e))
      PROVE  UNCHANGED pipeVars
  BY <1>4 DEF WriteCall, WriteFail, WriteFull, WriteDone, ReadCall, ReadWait, ReadDone, Sleep,
              Resume, Kill, Fork, FileClose, pipeVars
<1>5. CASE UNCHANGED vars
  BY <1>5, OthersStutter DEF vars
<1>6. CASE Next
  <2>1. PICK p \in Proc : \/ WriteCall(p) \/ ReadCall(p) \/ InCall(p) \/ Kill(p)
                          \/ \E q \in Proc : Fork(p, q)
                          \/ \E e \in End : FileClose(p, e)
    BY <1>6 DEF Next
  <2> QED  BY <1>1, <1>2, <1>3, <1>4, <2>1, OthersStutter DEF InCall, Write, Read
<1> QED  BY <1>5, <1>6

\* A new pipe is an empty stream with both ends open.
LEMMA InitStreams == Init => Stream!Init
<1> SUFFICES ASSUME Init
             PROVE  Stream!Init
  OBVIOUS
<1>1. Core
  BY InitCore
<1>2. Used = 0
  <2>1. 0 \in 0..(Wrap - 1)
    BY SizeAssumption, SMT
  <2> QED  BY <2>1, Counters DEF Init, Used
<1>3. Content = << >>
  BY <1>1, <1>2, ContentIs, EmptySeq DEF Core, ContentOK
<1> QED  BY <1>3 DEF Init, Stream!Init

\* Reads and writes of several processes, in any interleaving, of any length and past
\* any wrap of the counters, with closes and kills between: the pipe is a bounded
\* stream of bytes that loses, repeats and reorders none (pipe.c:77-134).
THEOREM Refinement == Spec => ImplementsStream
<1> QED  BY CoreInvariant, InitStreams, StepStreams, PTL DEF Spec, ImplementsStream, Stream!Spec
===============================================================================
