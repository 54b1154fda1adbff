----------------------------- MODULE SpinLockProofs -----------------------------
(***************************************************************************)
(* Proofs about SpinLock, for every set of CPUs and of locks and every lock  *)
(* order: the push_off count, the interrupt discipline, the absence of the   *)
(* panics of acquire, release and pop_off, and mutual exclusion.             *)
(***************************************************************************)
EXTENDS SpinLock, FiniteSetTheorems, TLAPS

-------------------------------------------------------------------------------
(* Activations and their push_offs *)

\* An activation is the thread or the handler of its CPU.
LEMMA Activations ==
  /\ \A a \in Act : Cpu(a) \in CPU /\ (a = T(Cpu(a)) \/ a = H(Cpu(a)))
  /\ \A c \in CPU : /\ T(c) \in Act /\ H(c) \in Act /\ T(c) # H(c)
                    /\ Cpu(T(c)) = c /\ Cpu(H(c)) = c
                    /\ Runs(T(c)) <=> ~handling[c]
                    /\ handling \in [CPU -> BOOLEAN] => (Runs(H(c)) <=> handling[c])
  BY DEF Act, Cpu, T, H, Runs

\* The locks of an activation are counted by a natural number.
LEMMA HeldCounts ==
  ASSUME SpinInv, NEW a \in Act
  PROVE  /\ IsFiniteSet(held[a]) /\ Cardinality(held[a]) \in Nat
         /\ Cardinality(held[a]) = 0 <=> held[a] = {}
  BY FS_CardinalityType, FS_EmptySet DEF SpinInv, HeldFinite

\* An activation owes a natural number of pop_offs: none only if it holds no
\* lock and is not inside acquire, release or myproc.
LEMMA PushesType ==
  ASSUME SpinInv, NEW a \in Act
  PROVE  /\ Pushes(a) \in Nat
         /\ Pushes(a) = 0 <=> held[a] = {} /\ pc[a] \notin {"check", "swap", "pop"}
  BY HeldCounts DEF Pushes

\* What a CPU's count says of its thread and its handler.
LEMMA NoffParts ==
  ASSUME SpinInv, NEW c \in CPU
  PROVE  /\ noff[c] \in Nat
         /\ \A a \in Act : Cpu(a) = c => noff[c] >= Pushes(a)
         /\ noff[c] = 0 <=> Pushes(T(c)) = 0 /\ Pushes(H(c)) = 0
<1>1. Pushes(T(c)) \in Nat /\ Pushes(H(c)) \in Nat
  BY PushesType, Activations
<1>2. noff[c] = Pushes(T(c)) + Pushes(H(c))
  BY DEF SpinInv, NoffExact
<1>3. \A a \in Act : Cpu(a) = c => a = T(c) \/ a = H(c)
  BY Activations
<1>4. noff[c] >= Pushes(T(c)) /\ noff[c] >= Pushes(H(c)) /\ noff[c] \in Nat
  BY <1>1, <1>2
<1>5. noff[c] = 0 <=> Pushes(T(c)) = 0 /\ Pushes(H(c)) = 0
  BY <1>1, <1>2
<1> QED  BY <1>3, <1>4, <1>5

\* A step of one activation that changes its debt and its CPU's count alike
\* keeps every count exact.
LEMMA NoffStep ==
  ASSUME SpinInv, NEW a \in Act, NEW d \in Int,
         Pushes(a)' = Pushes(a) + d,
         \A c \in CPU : noff'[c] = IF c = Cpu(a) THEN noff[c] + d ELSE noff[c],
         \A b \in Act : b # a => pc'[b] = pc[b] /\ held'[b] = held[b]
  PROVE  NoffExact'
<1> SUFFICES ASSUME NEW c \in CPU
             PROVE  noff'[c] = Pushes(T(c))' + Pushes(H(c))'
  BY DEF NoffExact
<1>1. \A b \in Act : b # a => Pushes(b)' = Pushes(b)
  BY DEF Pushes
<1>2. /\ Pushes(T(c)) \in Nat /\ Pushes(H(c)) \in Nat
      /\ noff[c] = Pushes(T(c)) + Pushes(H(c))
  BY PushesType, Activations DEF SpinInv, NoffExact
<1>3. CASE c # Cpu(a)
  <2>1. T(c) # a /\ H(c) # a
    BY <1>3, Activations
  <2> QED  BY <1>1, <1>2, <1>3, <2>1, Activations
<1>4. CASE a = T(c)
  <2>1. H(c) # a /\ Cpu(a) = c
    BY <1>4, Activations
  <2>2. Pushes(H(c))' = Pushes(H(c)) /\ noff'[c] = noff[c] + d
    BY <1>1, <2>1, Activations
  <2>3. Pushes(T(c))' = Pushes(T(c)) + d
    BY <1>4
  <2> QED  BY <1>2, <2>2, <2>3
<1>5. CASE a = H(c)
  <2>1. T(c) # a /\ Cpu(a) = c
    BY <1>5, Activations
  <2>2. Pushes(T(c))' = Pushes(T(c)) /\ noff'[c] = noff[c] + d
    BY <1>1, <2>1, Activations
  <2>3. Pushes(H(c))' = Pushes(H(c)) + d
    BY <1>5
  <2> QED  BY <1>2, <2>2, <2>3
<1> QED  BY <1>3, <1>4, <1>5, Activations

-------------------------------------------------------------------------------
(* The inductive invariant *)

LEMMA InitInv == Init => SpinInv
<1> SUFFICES ASSUME Init PROVE SpinInv
  OBVIOUS
<1>1. TypeOK
  BY NoneAssumption DEF Init, TypeOK, PC
<1>2. LockedExact /\ OwnerExact /\ Argument /\ NoPanic
  BY NoneAssumption DEF Init, LockedExact, OwnerExact, Argument, NoPanic, InTransit
<1>3. HandlerOnTop
  BY Activations DEF Init, HandlerOnTop
<1>4. IntrExact
  BY Activations DEF Init, IntrExact
<1>5. HeldFinite
  BY FS_EmptySet DEF Init, HeldFinite
<1>6. NoffExact
  <2>1. \A a \in Act : Pushes(a) = 0
    BY FS_EmptySet DEF Init, Pushes
  <2> QED  BY <2>1, Activations DEF Init, NoffExact
<1> QED  BY <1>1, <1>2, <1>3, <1>4, <1>5, <1>6 DEF SpinInv

\* Another activation's place, argument and locks.
Others(a) == \A b \in Act : b # a => /\ pc'[b] = pc[b] /\ lk'[b] = lk[b]
                                     /\ old'[b] = old[b] /\ held'[b] = held[b]

\* The interrupt state that a step of an activation must leave on its CPU.
IntrAfter(a, c) == /\ intr'[c] <=> noff'[c] = 0 /\ ~handling[c]
                   /\ noff'[c] > 0 => (intena'[c] <=> ~handling[c])
                   /\ pc'[a] = "off" => (old'[a] <=> intr[c])

\* A step of the activation that runs keeps the two CPU-wide invariants if it
\* leaves its own CPU's interrupt state right and every other CPU alone.
LEMMA CpuStep ==
  ASSUME SpinInv, NEW a \in Act, Runs(a), Others(a), handling' = handling,
         \A c \in CPU : c # Cpu(a) => /\ intr'[c] = intr[c] /\ noff'[c] = noff[c]
                                      /\ intena'[c] = intena[c],
         IntrAfter(a, Cpu(a)),
         pc'[a] = "off" => held'[a] = held[a] /\ pc[a] = "run"
  PROVE  HandlerOnTop' /\ IntrExact'
<1>1. HandlerOnTop /\ IntrExact /\ TypeOK
  BY DEF SpinInv
<1>2. ASSUME NEW c \in CPU
      PROVE  IF handling[c] THEN pc'[T(c)] \in {"run", "off"} /\ held'[T(c)] = {}
                            ELSE pc'[H(c)] = "run" /\ held'[H(c)] = {}
  <2>1. CASE handling[c]
    <3>1. T(c) \in Act /\ T(c) # a
      BY <2>1, Activations
    <3> QED  BY <1>1, <2>1, <3>1 DEF HandlerOnTop, Others
  <2>2. CASE ~handling[c]
    <3>1. H(c) \in Act /\ H(c) # a
      BY <1>1, <2>2, Activations DEF TypeOK
    <3> QED  BY <1>1, <2>2, <3>1 DEF HandlerOnTop, Others
  <2> QED  BY <2>1, <2>2
<1>3. ASSUME NEW c \in CPU
      PROVE  /\ intr'[c] <=> noff'[c] = 0 /\ ~handling[c]
             /\ noff'[c] > 0 => (intena'[c] <=> ~handling[c])
  <2>1. CASE c = Cpu(a)
    BY <2>1 DEF IntrAfter
  <2>2. CASE c # Cpu(a)
    BY <1>1, <2>2 DEF IntrExact
  <2> QED  BY <2>1, <2>2
<1>4. ASSUME NEW c \in CPU
      PROVE  pc'[T(c)] = "off" /\ held'[T(c)] = {} => old'[T(c)]
  <2>1. CASE a = T(c)
    <3> SUFFICES ASSUME pc'[a] = "off", held'[a] = {}  PROVE old'[a]
      BY <2>1
    <3>1. Cpu(a) = c /\ ~handling[c]
      BY <2>1, Activations
    <3>2. Pushes(T(c)) = 0 /\ Pushes(H(c)) = 0
      <4>1. pc[H(c)] = "run" /\ held[H(c)] = {}
        BY <1>1, <3>1 DEF HandlerOnTop
      <4>2. pc[T(c)] = "run" /\ held[T(c)] = {}
        BY <2>1
      <4> QED  BY <4>1, <4>2, PushesType, Activations
    <3>3. intr[c]
      BY <1>1, <3>1, <3>2, NoffParts DEF IntrExact
    <3> QED  BY <3>1, <3>3 DEF IntrAfter
  <2>2. CASE a # T(c)
    BY <1>1, <2>2, Activations DEF IntrExact, Others
  <2> QED  BY <2>1, <2>2
<1>5. ASSUME NEW c \in CPU
      PROVE  pc'[H(c)] = "off" => ~old'[H(c)]
  <2>1. CASE a = H(c)
    <3>1. Cpu(a) = c /\ handling[c]
      BY <1>1, <2>1, Activations DEF TypeOK
    <3> QED  BY <1>1, <2>1, <3>1 DEF IntrAfter, IntrExact
  <2>2. CASE a # H(c)
    BY <1>1, <2>2, Activations DEF IntrExact, Others
  <2> QED  BY <2>1, <2>2
<1> QED  BY <1>2, <1>3, <1>4, <1>5 DEF HandlerOnTop, IntrExact

\* holding() answers for this CPU wherever acquire and release ask: exactly one
\* of the CPU's activations can hold the lock there.
LEMMA HoldingTells ==
  ASSUME SpinInv, NEW a \in Act, NEW l \in Lock, lk[a] = l, Runs(a)
  PROVE  /\ pc[a] = "check" => ~Holding(Cpu(a), l)
         /\ pc[a] = "disown" => Holding(Cpu(a), l)
<1>1. TypeOK /\ LockedExact /\ OwnerExact /\ Argument /\ HandlerOnTop
  BY DEF SpinInv
<1>2. ASSUME pc[a] = "disown" PROVE Holding(Cpu(a), l)
  <2>1. l \in held[a] /\ ~InTransit(a, l)
    BY <1>1, <1>2 DEF Argument, InTransit
  <2> QED  BY <1>1, <2>1 DEF LockedExact, OwnerExact, Holding
<1>3. ASSUME pc[a] = "check", Holding(Cpu(a), l) PROVE FALSE
  <2>1. PICK b \in Act : l \in held[b]
    BY <1>1, <1>3 DEF LockedExact, Holding
  <2>2. b # a
    BY <1>1, <1>3, <2>1 DEF Argument
  <2>3. Cpu(b) = Cpu(a)
    BY <1>1, <1>3, <2>1, Activations, NoneAssumption DEF OwnerExact, Holding
  <2>4. held[b] = {}
    <3>1. CASE a = T(Cpu(a))
      <4>1. b = H(Cpu(a)) /\ ~handling[Cpu(a)]
        BY <2>2, <2>3, <3>1, Activations
      <4> QED  BY <1>1, <4>1, Activations DEF HandlerOnTop
    <3>2. CASE a = H(Cpu(a))
      <4>1. b = T(Cpu(a)) /\ handling[Cpu(a)]
        BY <1>1, <2>2, <2>3, <3>2, Activations DEF TypeOK
      <4> QED  BY <1>1, <4>1, Activations DEF HandlerOnTop
    <3> QED  BY <3>1, <3>2, Activations
  <2> QED  BY <2>1, <2>4
<1> QED  BY <1>2, <1>3

-------------------------------------------------------------------------------
(* acquire, release and myproc keep the invariant *)

\* Acquire is entered: nothing is counted yet.
LEMMA AcquireCallInv ==
  ASSUME SpinInv, NEW a \in Act, NEW l \in Lock, AcquireCall(a, l)
  PROVE  SpinInv'
<1> USE Activations DEF SpinInv
<1>1. Others(a)
  BY DEF AcquireCall, Goto, lockVars, cpuVars, Others, TypeOK
<1>2. TypeOK'
  BY NoffParts, NoneAssumption DEF AcquireCall, Goto, lockVars, cpuVars, TypeOK, PC
<1>3. HandlerOnTop' /\ IntrExact'
  <2>1. Runs(a) /\ handling' = handling
    BY DEF AcquireCall, Goto, lockVars, cpuVars
  <2>2. \A c \in CPU : c # Cpu(a) => /\ intr'[c] = intr[c] /\ noff'[c] = noff[c]
                                     /\ intena'[c] = intena[c]
    BY <1>1 DEF AcquireCall, Goto, lockVars, cpuVars, TypeOK
  <2>3. IntrAfter(a, Cpu(a))
    BY NoffParts DEF AcquireCall, Goto, lockVars, cpuVars, IntrAfter, IntrExact, TypeOK
  <2>4. pc'[a] = "off" => held'[a] = held[a] /\ pc[a] = "run"
    BY DEF AcquireCall, Goto, lockVars, cpuVars, TypeOK
  <2> QED  BY <1>1, <2>1, <2>2, <2>3, <2>4, CpuStep
<1>4. LockedExact'
  BY <1>1, NoneAssumption DEF AcquireCall, Goto, lockVars, cpuVars, Others, LockedExact, Argument, TypeOK
<1>5. OwnerExact'
  BY <1>1, NoneAssumption DEF AcquireCall, Goto, lockVars, cpuVars, Others, OwnerExact, InTransit, LockedExact, Argument, TypeOK
<1>6. Argument'
  <2>1. l \notin held[a]
    BY OrderAssumption DEF AcquireCall
  <2>2. pc'[a] = "off" /\ lk'[a] = l /\ held' = held
    BY DEF AcquireCall, Goto, TypeOK
  <2> QED  BY <1>1, <2>1, <2>2 DEF Argument, Others
<1>7. HeldFinite'
  BY <1>1, NoneAssumption DEF AcquireCall, Goto, lockVars, cpuVars, Others, HeldFinite, TypeOK
<1>8. NoPanic'
  BY <1>1, NoneAssumption DEF AcquireCall, Goto, lockVars, cpuVars, Others, NoPanic, TypeOK
<1>9. NoffExact'
  <2>1. Pushes(a)' = Pushes(a) + 0
    BY HeldCounts DEF AcquireCall, Goto, lockVars, cpuVars, Pushes, TypeOK, HeldFinite, Argument
  <2>2. \A c \in CPU : noff'[c] = IF c = Cpu(a) THEN noff[c] + 0 ELSE noff[c]
    BY NoffParts DEF AcquireCall, Goto, lockVars, cpuVars, TypeOK
  <2> QED  BY <1>1, <2>1, <2>2, NoffStep DEF Others
<1> QED  BY <1>2, <1>3, <1>4, <1>5, <1>6, <1>7, <1>8, <1>9

\* Push_off raises the count and notes on which side of it interrupts were on.
LEMMA PushOffInv ==
  ASSUME SpinInv, NEW a \in Act, PushOff(a)
  PROVE  SpinInv'
<1> USE Activations DEF SpinInv
<1>0. noff[Cpu(a)] = 0 => (old[a] <=> ~handling[Cpu(a)])
  <2>1. CASE a = T(Cpu(a))
    <3>1. noff[Cpu(a)] = 0 => held[a] = {}
      BY <2>1, NoffParts, PushesType
    <3> QED  BY <2>1, <3>1 DEF PushOff, Goto, IntrExact
  <2>2. CASE a = H(Cpu(a))
    BY <2>2 DEF PushOff, Goto, IntrExact, TypeOK
  <2> QED  BY <2>1, <2>2
<1>1. Others(a)
  BY DEF PushOff, CountPush, Goto, lockVars, cpuVars, Others, TypeOK
<1>2. TypeOK'
  BY <1>0, NoffParts, NoneAssumption DEF PushOff, CountPush, Goto, lockVars, cpuVars, TypeOK, PC
<1>3. HandlerOnTop' /\ IntrExact'
  <2>1. Runs(a) /\ handling' = handling
    BY DEF PushOff, CountPush, Goto, lockVars, cpuVars
  <2>2. \A c \in CPU : c # Cpu(a) => /\ intr'[c] = intr[c] /\ noff'[c] = noff[c]
                                     /\ intena'[c] = intena[c]
    BY <1>0, <1>1 DEF PushOff, CountPush, Goto, lockVars, cpuVars, TypeOK
  <2>3. IntrAfter(a, Cpu(a))
    BY <1>0, NoffParts DEF PushOff, CountPush, Goto, lockVars, cpuVars, IntrAfter, IntrExact, TypeOK
  <2>4. pc'[a] = "off" => held'[a] = held[a] /\ pc[a] = "run"
    BY DEF PushOff, CountPush, Goto, lockVars, cpuVars, TypeOK
  <2> QED  BY <1>1, <2>1, <2>2, <2>3, <2>4, CpuStep
<1>4. LockedExact'
  BY <1>0, <1>1, NoneAssumption DEF PushOff, CountPush, Goto, lockVars, cpuVars, Others, LockedExact, Argument, TypeOK
<1>5. OwnerExact'
  BY <1>0, <1>1, NoneAssumption DEF PushOff, CountPush, Goto, lockVars, cpuVars, Others, OwnerExact, InTransit, LockedExact, Argument, TypeOK
<1>6. Argument'
  BY <1>0, <1>1, NoneAssumption DEF PushOff, CountPush, Goto, lockVars, cpuVars, Others, Argument, TypeOK, LockedExact
<1>7. HeldFinite'
  BY <1>0, <1>1, NoneAssumption DEF PushOff, CountPush, Goto, lockVars, cpuVars, Others, HeldFinite, TypeOK
<1>8. NoPanic'
  BY <1>0, <1>1, NoneAssumption DEF PushOff, CountPush, Goto, lockVars, cpuVars, Others, NoPanic, TypeOK
<1>9. NoffExact'
  <2>1. Pushes(a)' = Pushes(a) + 1
    BY <1>0, HeldCounts DEF PushOff, CountPush, Goto, lockVars, cpuVars, Pushes, TypeOK, HeldFinite, Argument
  <2>2. \A c \in CPU : noff'[c] = IF c = Cpu(a) THEN noff[c] + 1 ELSE noff[c]
    BY <1>0, NoffParts DEF PushOff, CountPush, Goto, lockVars, cpuVars, TypeOK
  <2> QED  BY <1>1, <2>1, <2>2, NoffStep DEF Others
<1> QED  BY <1>2, <1>3, <1>4, <1>5, <1>6, <1>7, <1>8, <1>9

\* Acquire's self-check passes: this CPU does not hold the lock it wants.
LEMMA CheckInv ==
  ASSUME SpinInv, NEW a \in Act, Check(a)
  PROVE  SpinInv'
<1> USE Activations DEF SpinInv
<1>0. ~Holding(Cpu(a), lk[a])
  BY HoldingTells DEF Check, Goto, SpinInv, Argument, TypeOK
<1>1. Others(a)
  BY DEF Check, Goto, lockVars, cpuVars, Others, TypeOK
<1>2. TypeOK'
  BY <1>0, NoffParts, NoneAssumption DEF Check, Goto, lockVars, cpuVars, TypeOK, PC
<1>3. HandlerOnTop' /\ IntrExact'
  <2>1. Runs(a) /\ handling' = handling
    BY DEF Check, Goto, lockVars, cpuVars
  <2>2. \A c \in CPU : c # Cpu(a) => /\ intr'[c] = intr[c] /\ noff'[c] = noff[c]
                                     /\ intena'[c] = intena[c]
    BY <1>0, <1>1 DEF Check, Goto, lockVars, cpuVars, TypeOK
  <2>3. IntrAfter(a, Cpu(a))
    BY <1>0, NoffParts DEF Check, Goto, lockVars, cpuVars, IntrAfter, IntrExact, TypeOK
  <2>4. pc'[a] = "off" => held'[a] = held[a] /\ pc[a] = "run"
    BY DEF Check, Goto, lockVars, cpuVars, TypeOK
  <2> QED  BY <1>1, <2>1, <2>2, <2>3, <2>4, CpuStep
<1>4. LockedExact'
  BY <1>0, <1>1, NoneAssumption DEF Check, Goto, lockVars, cpuVars, Others, LockedExact, Argument, TypeOK
<1>5. OwnerExact'
  BY <1>0, <1>1, NoneAssumption DEF Check, Goto, lockVars, cpuVars, Others, OwnerExact, InTransit, LockedExact, Argument, TypeOK
<1>6. Argument'
  BY <1>0, <1>1, NoneAssumption DEF Check, Goto, lockVars, cpuVars, Others, Argument, TypeOK, LockedExact
<1>7. HeldFinite'
  BY <1>0, <1>1, NoneAssumption DEF Check, Goto, lockVars, cpuVars, Others, HeldFinite, TypeOK
<1>8. NoPanic'
  BY <1>0, <1>1, NoneAssumption DEF Check, Goto, lockVars, cpuVars, Others, NoPanic, TypeOK
<1>9. NoffExact'
  <2>1. Pushes(a)' = Pushes(a) + 0
    BY <1>0, HeldCounts DEF Check, Goto, lockVars, cpuVars, Pushes, TypeOK, HeldFinite, Argument
  <2>2. \A c \in CPU : noff'[c] = IF c = Cpu(a) THEN noff[c] + 0 ELSE noff[c]
    BY <1>0, NoffParts DEF Check, Goto, lockVars, cpuVars, TypeOK
  <2> QED  BY <1>1, <2>1, <2>2, NoffStep DEF Others
<1> QED  BY <1>2, <1>3, <1>4, <1>5, <1>6, <1>7, <1>8, <1>9

\* Amoswap takes a lock nobody holds.
LEMMA SwapInv ==
  ASSUME SpinInv, NEW a \in Act, Swap(a)
  PROVE  SpinInv'
<1> USE Activations DEF SpinInv
<1>1. Others(a)
  BY DEF Swap, Goto, lockVars, cpuVars, Others, TypeOK
<1>2. TypeOK'
  BY NoffParts, NoneAssumption DEF Swap, Goto, lockVars, cpuVars, TypeOK, PC, Argument
<1>3. HandlerOnTop' /\ IntrExact'
  <2>1. Runs(a) /\ handling' = handling
    BY DEF Swap, Goto, lockVars, cpuVars
  <2>2. \A c \in CPU : c # Cpu(a) => /\ intr'[c] = intr[c] /\ noff'[c] = noff[c]
                                     /\ intena'[c] = intena[c]
    BY <1>1 DEF Swap, Goto, lockVars, cpuVars, TypeOK
  <2>3. IntrAfter(a, Cpu(a))
    BY NoffParts DEF Swap, Goto, lockVars, cpuVars, IntrAfter, IntrExact, TypeOK
  <2>4. pc'[a] = "off" => held'[a] = held[a] /\ pc[a] = "run"
    BY DEF Swap, Goto, lockVars, cpuVars, TypeOK
  <2> QED  BY <1>1, <2>1, <2>2, <2>3, <2>4, CpuStep
<1>4. LockedExact'
  BY <1>1, NoneAssumption DEF Swap, Goto, lockVars, cpuVars, Others, LockedExact, Argument, TypeOK
<1>5. OwnerExact'
  BY <1>1, NoneAssumption DEF Swap, Goto, lockVars, cpuVars, Others, OwnerExact, InTransit, LockedExact, Argument, TypeOK
<1>6. Argument'
  BY <1>1, NoneAssumption DEF Swap, Goto, lockVars, cpuVars, Others, Argument, TypeOK, LockedExact
<1>7. HeldFinite'
  BY <1>1, FS_AddElement, NoneAssumption DEF Swap, Goto, lockVars, cpuVars, Others, HeldFinite, TypeOK
<1>8. NoPanic'
  BY <1>1, NoneAssumption DEF Swap, Goto, lockVars, cpuVars, Others, NoPanic, TypeOK
<1>9. NoffExact'
  <2>1. Pushes(a)' = Pushes(a) + 0
    BY FS_AddElement, HeldCounts DEF Swap, Goto, lockVars, cpuVars, Pushes, TypeOK, HeldFinite, Argument
  <2>2. \A c \in CPU : noff'[c] = IF c = Cpu(a) THEN noff[c] + 0 ELSE noff[c]
    BY NoffParts DEF Swap, Goto, lockVars, cpuVars, TypeOK
  <2> QED  BY <1>1, <2>1, <2>2, NoffStep DEF Others
<1> QED  BY <1>2, <1>3, <1>4, <1>5, <1>6, <1>7, <1>8, <1>9

\* Acquire ends with lk->cpu naming the holder.
LEMMA OwnInv ==
  ASSUME SpinInv, NEW a \in Act, Own(a)
  PROVE  SpinInv'
<1> USE Activations DEF SpinInv
<1>1. Others(a)
  BY DEF Own, Goto, lockVars, cpuVars, Others, TypeOK
<1>2. TypeOK'
  BY NoffParts, NoneAssumption DEF Own, Goto, lockVars, cpuVars, TypeOK, PC
<1>3. HandlerOnTop' /\ IntrExact'
  <2>1. Runs(a) /\ handling' = handling
    BY DEF Own, Goto, lockVars, cpuVars
  <2>2. \A c \in CPU : c # Cpu(a) => /\ intr'[c] = intr[c] /\ noff'[c] = noff[c]
                                     /\ intena'[c] = intena[c]
    BY <1>1 DEF Own, Goto, lockVars, cpuVars, TypeOK
  <2>3. IntrAfter(a, Cpu(a))
    BY NoffParts DEF Own, Goto, lockVars, cpuVars, IntrAfter, IntrExact, TypeOK
  <2>4. pc'[a] = "off" => held'[a] = held[a] /\ pc[a] = "run"
    BY DEF Own, Goto, lockVars, cpuVars, TypeOK
  <2> QED  BY <1>1, <2>1, <2>2, <2>3, <2>4, CpuStep
<1>4. LockedExact'
  BY <1>1, NoneAssumption DEF Own, Goto, lockVars, cpuVars, Others, LockedExact, Argument, TypeOK
<1>5. OwnerExact'
  BY <1>1, NoneAssumption DEF Own, Goto, lockVars, cpuVars, Others, OwnerExact, InTransit, LockedExact, Argument, TypeOK
<1>6. Argument'
  BY <1>1, NoneAssumption DEF Own, Goto, lockVars, cpuVars, Others, Argument, TypeOK, LockedExact
<1>7. HeldFinite'
  BY <1>1, NoneAssumption DEF Own, Goto, lockVars, cpuVars, Others, HeldFinite, TypeOK
<1>8. NoPanic'
  BY <1>1, NoneAssumption DEF Own, Goto, lockVars, cpuVars, Others, NoPanic, TypeOK
<1>9. NoffExact'
  <2>1. Pushes(a)' = Pushes(a) + 0
    BY HeldCounts DEF Own, Goto, lockVars, cpuVars, Pushes, TypeOK, HeldFinite, Argument
  <2>2. \A c \in CPU : noff'[c] = IF c = Cpu(a) THEN noff[c] + 0 ELSE noff[c]
    BY NoffParts DEF Own, Goto, lockVars, cpuVars, TypeOK
  <2> QED  BY <1>1, <2>1, <2>2, NoffStep DEF Others
<1> QED  BY <1>2, <1>3, <1>4, <1>5, <1>6, <1>7, <1>8, <1>9

\* Release is entered by the holder.
LEMMA ReleaseCallInv ==
  ASSUME SpinInv, NEW a \in Act, NEW l \in Lock, ReleaseCall(a, l)
  PROVE  SpinInv'
<1> USE Activations DEF SpinInv
<1>1. Others(a)
  BY DEF ReleaseCall, Goto, lockVars, cpuVars, Others, TypeOK
<1>2. TypeOK'
  BY NoffParts, NoneAssumption DEF ReleaseCall, Goto, lockVars, cpuVars, TypeOK, PC
<1>3. HandlerOnTop' /\ IntrExact'
  <2>1. Runs(a) /\ handling' = handling
    BY DEF ReleaseCall, Goto, lockVars, cpuVars
  <2>2. \A c \in CPU : c # Cpu(a) => /\ intr'[c] = intr[c] /\ noff'[c] = noff[c]
                                     /\ intena'[c] = intena[c]
    BY <1>1 DEF ReleaseCall, Goto, lockVars, cpuVars, TypeOK
  <2>3. IntrAfter(a, Cpu(a))
    BY NoffParts DEF ReleaseCall, Goto, lockVars, cpuVars, IntrAfter, IntrExact, TypeOK
  <2>4. pc'[a] = "off" => held'[a] = held[a] /\ pc[a] = "run"
    BY DEF ReleaseCall, Goto, lockVars, cpuVars, TypeOK
  <2> QED  BY <1>1, <2>1, <2>2, <2>3, <2>4, CpuStep
<1>4. LockedExact'
  BY <1>1, NoneAssumption DEF ReleaseCall, Goto, lockVars, cpuVars, Others, LockedExact, Argument, TypeOK
<1>5. OwnerExact'
  BY <1>1, NoneAssumption DEF ReleaseCall, Goto, lockVars, cpuVars, Others, OwnerExact, InTransit, LockedExact, Argument, TypeOK
<1>6. Argument'
  BY <1>1, NoneAssumption DEF ReleaseCall, Goto, lockVars, cpuVars, Others, Argument, TypeOK, LockedExact
<1>7. HeldFinite'
  BY <1>1, NoneAssumption DEF ReleaseCall, Goto, lockVars, cpuVars, Others, HeldFinite, TypeOK
<1>8. NoPanic'
  BY <1>1, NoneAssumption DEF ReleaseCall, Goto, lockVars, cpuVars, Others, NoPanic, TypeOK
<1>9. NoffExact'
  <2>1. Pushes(a)' = Pushes(a) + 0
    BY HeldCounts DEF ReleaseCall, Goto, lockVars, cpuVars, Pushes, TypeOK, HeldFinite, Argument
  <2>2. \A c \in CPU : noff'[c] = IF c = Cpu(a) THEN noff[c] + 0 ELSE noff[c]
    BY NoffParts DEF ReleaseCall, Goto, lockVars, cpuVars, TypeOK
  <2> QED  BY <1>1, <2>1, <2>2, NoffStep DEF Others
<1> QED  BY <1>2, <1>3, <1>4, <1>5, <1>6, <1>7, <1>8, <1>9

\* Release's self-check passes and lk->cpu is cleared.
LEMMA DisownInv ==
  ASSUME SpinInv, NEW a \in Act, Disown(a)
  PROVE  SpinInv'
<1> USE Activations DEF SpinInv
<1>0. Holding(Cpu(a), lk[a])
  BY HoldingTells DEF Disown, Goto, SpinInv, Argument, TypeOK
<1>1. Others(a)
  BY DEF Disown, Goto, lockVars, cpuVars, Others, TypeOK
<1>2. TypeOK'
  BY <1>0, NoffParts, NoneAssumption DEF Disown, Goto, lockVars, cpuVars, TypeOK, PC
<1>3. HandlerOnTop' /\ IntrExact'
  <2>1. Runs(a) /\ handling' = handling
    BY DEF Disown, Goto, lockVars, cpuVars
  <2>2. \A c \in CPU : c # Cpu(a) => /\ intr'[c] = intr[c] /\ noff'[c] = noff[c]
                                     /\ intena'[c] = intena[c]
    BY <1>0, <1>1 DEF Disown, Goto, lockVars, cpuVars, TypeOK
  <2>3. IntrAfter(a, Cpu(a))
    BY <1>0, NoffParts DEF Disown, Goto, lockVars, cpuVars, IntrAfter, IntrExact, TypeOK
  <2>4. pc'[a] = "off" => held'[a] = held[a] /\ pc[a] = "run"
    BY DEF Disown, Goto, lockVars, cpuVars, TypeOK
  <2> QED  BY <1>1, <2>1, <2>2, <2>3, <2>4, CpuStep
<1>4. LockedExact'
  BY <1>0, <1>1, NoneAssumption DEF Disown, Goto, lockVars, cpuVars, Others, LockedExact, Argument, TypeOK
<1>5. OwnerExact'
  BY <1>0, <1>1, NoneAssumption DEF Disown, Goto, lockVars, cpuVars, Others, OwnerExact, InTransit, LockedExact, Argument, TypeOK
<1>6. Argument'
  BY <1>0, <1>1, NoneAssumption DEF Disown, Goto, lockVars, cpuVars, Others, Argument, TypeOK, LockedExact
<1>7. HeldFinite'
  BY <1>0, <1>1, NoneAssumption DEF Disown, Goto, lockVars, cpuVars, Others, HeldFinite, TypeOK
<1>8. NoPanic'
  BY <1>0, <1>1, NoneAssumption DEF Disown, Goto, lockVars, cpuVars, Others, NoPanic, TypeOK
<1>9. NoffExact'
  <2>1. Pushes(a)' = Pushes(a) + 0
    BY <1>0, HeldCounts DEF Disown, Goto, lockVars, cpuVars, Pushes, TypeOK, HeldFinite, Argument
  <2>2. \A c \in CPU : noff'[c] = IF c = Cpu(a) THEN noff[c] + 0 ELSE noff[c]
    BY <1>0, NoffParts DEF Disown, Goto, lockVars, cpuVars, TypeOK
  <2> QED  BY <1>1, <2>1, <2>2, NoffStep DEF Others
<1> QED  BY <1>2, <1>3, <1>4, <1>5, <1>6, <1>7, <1>8, <1>9

\* The lock comes free; the pop_off is still owed.
LEMMA UnlockInv ==
  ASSUME SpinInv, NEW a \in Act, Unlock(a)
  PROVE  SpinInv'
<1> USE Activations DEF SpinInv
<1>1. Others(a)
  BY DEF Unlock, Goto, lockVars, cpuVars, Others, TypeOK
<1>2. TypeOK'
  BY NoffParts, NoneAssumption DEF Unlock, Goto, lockVars, cpuVars, TypeOK, PC
<1>3. HandlerOnTop' /\ IntrExact'
  <2>1. Runs(a) /\ handling' = handling
    BY DEF Unlock, Goto, lockVars, cpuVars
  <2>2. \A c \in CPU : c # Cpu(a) => /\ intr'[c] = intr[c] /\ noff'[c] = noff[c]
                                     /\ intena'[c] = intena[c]
    BY <1>1 DEF Unlock, Goto, lockVars, cpuVars, TypeOK
  <2>3. IntrAfter(a, Cpu(a))
    BY NoffParts DEF Unlock, Goto, lockVars, cpuVars, IntrAfter, IntrExact, TypeOK
  <2>4. pc'[a] = "off" => held'[a] = held[a] /\ pc[a] = "run"
    BY DEF Unlock, Goto, lockVars, cpuVars, TypeOK
  <2> QED  BY <1>1, <2>1, <2>2, <2>3, <2>4, CpuStep
<1>4. LockedExact'
  BY <1>1, NoneAssumption DEF Unlock, Goto, lockVars, cpuVars, Others, LockedExact, Argument, TypeOK
<1>5. OwnerExact'
  BY <1>1, NoneAssumption DEF Unlock, Goto, lockVars, cpuVars, Others, OwnerExact, InTransit, LockedExact, Argument, TypeOK
<1>6. Argument'
  BY <1>1, NoneAssumption DEF Unlock, Goto, lockVars, cpuVars, Others, Argument, TypeOK, LockedExact
<1>7. HeldFinite'
  BY <1>1, FS_RemoveElement, NoneAssumption DEF Unlock, Goto, lockVars, cpuVars, Others, HeldFinite, TypeOK
<1>8. NoPanic'
  BY <1>1, NoneAssumption DEF Unlock, Goto, lockVars, cpuVars, Others, NoPanic, TypeOK
<1>9. NoffExact'
  <2>1. Pushes(a)' = Pushes(a) + 0
    <3>1. lk[a] \in held[a] /\ held'[a] = held[a] \ {lk[a]}
      BY DEF Unlock, Goto, Argument, TypeOK
    <3>2. Cardinality(held'[a]) = Cardinality(held[a]) - 1
      BY <3>1, HeldCounts, FS_RemoveElement
    <3>3. pc[a] = "unlock" /\ pc'[a] = "pop"
      BY DEF Unlock, Goto, TypeOK
    <3> QED  BY <3>2, <3>3, HeldCounts DEF Pushes
  <2>2. \A c \in CPU : noff'[c] = IF c = Cpu(a) THEN noff[c] + 0 ELSE noff[c]
    BY NoffParts DEF Unlock, Goto, lockVars, cpuVars, TypeOK
  <2> QED  BY <1>1, <2>1, <2>2, NoffStep DEF Others
<1> QED  BY <1>2, <1>3, <1>4, <1>5, <1>6, <1>7, <1>8, <1>9

\* Pop_off lowers the count and restores interrupts with the last pop.
LEMMA PopOffInv ==
  ASSUME SpinInv, NEW a \in Act, PopOff(a)
  PROVE  SpinInv'
<1> USE Activations DEF SpinInv
<1>0. noff[Cpu(a)] >= 1 /\ ~BadPop(Cpu(a)) /\ intr[Cpu(a)] = FALSE
  <2>1. Pushes(a) >= 1 /\ Pushes(a) \in Nat
    BY PushesType DEF PopOff, Goto
  <2>2. noff[Cpu(a)] >= 1 /\ noff[Cpu(a)] \in Nat
    BY <2>1, NoffParts
  <2> QED  BY <2>2 DEF BadPop, SpinInv, IntrExact, TypeOK
<1>1. Others(a)
  BY DEF PopOff, CountPop, Goto, lockVars, cpuVars, Others, TypeOK
<1>2. TypeOK'
  BY <1>0, NoffParts, NoneAssumption DEF PopOff, CountPop, Goto, lockVars, cpuVars, TypeOK, PC
<1>3. HandlerOnTop' /\ IntrExact'
  <2>1. Runs(a) /\ handling' = handling
    BY DEF PopOff, CountPop, Goto, lockVars, cpuVars
  <2>2. \A c \in CPU : c # Cpu(a) => /\ intr'[c] = intr[c] /\ noff'[c] = noff[c]
                                     /\ intena'[c] = intena[c]
    BY <1>0, <1>1 DEF PopOff, CountPop, Goto, lockVars, cpuVars, TypeOK
  <2>3. IntrAfter(a, Cpu(a))
    BY <1>0, NoffParts DEF PopOff, CountPop, Goto, lockVars, cpuVars, IntrAfter, IntrExact, TypeOK
  <2>4. pc'[a] = "off" => held'[a] = held[a] /\ pc[a] = "run"
    BY DEF PopOff, CountPop, Goto, lockVars, cpuVars, TypeOK
  <2> QED  BY <1>1, <2>1, <2>2, <2>3, <2>4, CpuStep
<1>4. LockedExact'
  BY <1>0, <1>1, NoneAssumption DEF PopOff, CountPop, Goto, lockVars, cpuVars, Others, LockedExact, Argument, TypeOK
<1>5. OwnerExact'
  BY <1>0, <1>1, NoneAssumption DEF PopOff, CountPop, Goto, lockVars, cpuVars, Others, OwnerExact, InTransit, LockedExact, Argument, TypeOK
<1>6. Argument'
  BY <1>0, <1>1, NoneAssumption DEF PopOff, CountPop, Goto, lockVars, cpuVars, Others, Argument, TypeOK, LockedExact
<1>7. HeldFinite'
  BY <1>0, <1>1, NoneAssumption DEF PopOff, CountPop, Goto, lockVars, cpuVars, Others, HeldFinite, TypeOK
<1>8. NoPanic'
  BY <1>0, <1>1, NoneAssumption DEF PopOff, CountPop, Goto, lockVars, cpuVars, Others, NoPanic, TypeOK
<1>9. NoffExact'
  <2>1. Pushes(a)' = Pushes(a) + (-1)
    BY <1>0, HeldCounts DEF PopOff, CountPop, Goto, lockVars, cpuVars, Pushes, TypeOK, HeldFinite, Argument
  <2>2. \A c \in CPU : noff'[c] = IF c = Cpu(a) THEN noff[c] + (-1) ELSE noff[c]
    BY <1>0, NoffParts DEF PopOff, CountPop, Goto, lockVars, cpuVars, TypeOK
  <2> QED  BY <1>1, <2>1, <2>2, NoffStep DEF Others
<1> QED  BY <1>2, <1>3, <1>4, <1>5, <1>6, <1>7, <1>8, <1>9

\* Myproc pushes without a lock.
LEMMA MyprocInv ==
  ASSUME SpinInv, NEW a \in Act, Myproc(a)
  PROVE  SpinInv'
<1> USE Activations DEF SpinInv
<1>1. Others(a)
  BY DEF Myproc, Goto, lockVars, cpuVars, Others, TypeOK
<1>2. TypeOK'
  BY NoffParts, NoneAssumption DEF Myproc, Goto, lockVars, cpuVars, TypeOK, PC
<1>3. HandlerOnTop' /\ IntrExact'
  <2>1. Runs(a) /\ handling' = handling
    BY DEF Myproc, Goto, lockVars, cpuVars
  <2>2. \A c \in CPU : c # Cpu(a) => /\ intr'[c] = intr[c] /\ noff'[c] = noff[c]
                                     /\ intena'[c] = intena[c]
    BY <1>1 DEF Myproc, Goto, lockVars, cpuVars, TypeOK
  <2>3. IntrAfter(a, Cpu(a))
    BY NoffParts DEF Myproc, Goto, lockVars, cpuVars, IntrAfter, IntrExact, TypeOK
  <2>4. pc'[a] = "off" => held'[a] = held[a] /\ pc[a] = "run"
    BY DEF Myproc, Goto, lockVars, cpuVars, TypeOK
  <2> QED  BY <1>1, <2>1, <2>2, <2>3, <2>4, CpuStep
<1>4. LockedExact'
  BY <1>1, NoneAssumption DEF Myproc, Goto, lockVars, cpuVars, Others, LockedExact, Argument, TypeOK
<1>5. OwnerExact'
  BY <1>1, NoneAssumption DEF Myproc, Goto, lockVars, cpuVars, Others, OwnerExact, InTransit, LockedExact, Argument, TypeOK
<1>6. Argument'
  BY <1>1, NoneAssumption DEF Myproc, Goto, lockVars, cpuVars, Others, Argument, TypeOK, LockedExact
<1>7. HeldFinite'
  BY <1>1, NoneAssumption DEF Myproc, Goto, lockVars, cpuVars, Others, HeldFinite, TypeOK
<1>8. NoPanic'
  BY <1>1, NoneAssumption DEF Myproc, Goto, lockVars, cpuVars, Others, NoPanic, TypeOK
<1>9. NoffExact'
  <2>1. Pushes(a)' = Pushes(a) + 0
    BY HeldCounts DEF Myproc, Goto, lockVars, cpuVars, Pushes, TypeOK, HeldFinite, Argument
  <2>2. \A c \in CPU : noff'[c] = IF c = Cpu(a) THEN noff[c] + 0 ELSE noff[c]
    BY NoffParts DEF Myproc, Goto, lockVars, cpuVars, TypeOK
  <2> QED  BY <1>1, <2>1, <2>2, NoffStep DEF Others
<1> QED  BY <1>2, <1>3, <1>4, <1>5, <1>6, <1>7, <1>8, <1>9

-------------------------------------------------------------------------------
(* Interrupts keep the invariant *)

\* Taking an interrupt or returning from one on c changes only whether the
\* handler runs and whether interrupts are on there.
LEMMA SwitchStep ==
  ASSUME SpinInv, NEW c \in CPU, NEW h \in BOOLEAN,
         noff[c] = 0, pc[H(c)] = "run", held[H(c)] = {},
         pc[T(c)] \in {"run", "off"}, held[T(c)] = {},
         handling' = [handling EXCEPT ![c] = h],
         intr' = [intr EXCEPT ![c] = ~h],
         UNCHANGED <<lockVars, noff, intena, pc, lk, old, held>>
  PROVE  SpinInv'
<1> USE Activations DEF SpinInv, lockVars
<1>1. TypeOK' /\ LockedExact' /\ OwnerExact' /\ Argument' /\ HeldFinite' /\ NoPanic'
  BY DEF TypeOK, LockedExact, OwnerExact, InTransit, Argument, HeldFinite, NoPanic
<1>2. HandlerOnTop'
  BY DEF HandlerOnTop, TypeOK
<1>3. IntrExact'
  BY DEF IntrExact, TypeOK
<1>4. NoffExact'
  BY DEF NoffExact, Pushes
<1> QED  BY <1>1, <1>2, <1>3, <1>4

\* An interrupt finds a thread that owes no pop_off.
LEMMA InterruptInv ==
  ASSUME SpinInv, NEW c \in CPU, Interrupt(c)
  PROVE  SpinInv'
<1> USE Activations DEF SpinInv
<1>1. noff[c] = 0 /\ ~handling[c]
  BY DEF Interrupt, IntrExact
<1>2. pc[H(c)] = "run" /\ held[H(c)] = {}
  BY <1>1 DEF HandlerOnTop
<1>3. held[T(c)] = {} /\ pc[T(c)] \notin {"check", "swap", "pop"}
  BY <1>1, NoffParts, PushesType
<1>4. pc[T(c)] \in {"run", "off"}
  BY <1>3 DEF Argument, NoPanic, TypeOK, PC
<1> QED  BY <1>1, <1>2, <1>3, <1>4, SwitchStep DEF Interrupt

\* The handler returns owing no pop_off, to a thread that owes none.
LEMMA SretInv ==
  ASSUME SpinInv, NEW c \in CPU, Sret(c)
  PROVE  SpinInv'
<1> USE Activations DEF SpinInv
<1>1. pc[H(c)] = "run" /\ held[H(c)] = {} /\ handling[c]
  BY DEF Sret, H
<1>2. pc[T(c)] \in {"run", "off"} /\ held[T(c)] = {}
  BY <1>1 DEF HandlerOnTop
<1>3. noff[c] = 0
  BY <1>1, <1>2, NoffParts, PushesType
<1> QED  BY <1>1, <1>2, <1>3, SwitchStep DEF Sret

\* Every step of acquire, release, myproc and the trap code keeps the invariant.
LEMMA NextInv == SpinInv /\ [Next]_vars => SpinInv'
<1> SUFFICES ASSUME SpinInv, [Next]_vars PROVE SpinInv'
  OBVIOUS
<1>1. CASE UNCHANGED vars
  BY <1>1 DEF vars, lockVars, cpuVars, SpinInv, TypeOK, LockedExact, OwnerExact, InTransit,
              Argument, HandlerOnTop, IntrExact, HeldFinite, NoffExact, Pushes, NoPanic
<1>2. ASSUME NEW a \in Act, Call(a) PROVE SpinInv'
  BY <1>2, MyprocInv, AcquireCallInv, ReleaseCallInv DEF Call
<1>3. ASSUME NEW a \in Act, Advance(a) PROVE SpinInv'
  BY <1>3, PushOffInv, CheckInv, SwapInv, OwnInv, DisownInv, UnlockInv, PopOffInv DEF Advance
<1>4. ASSUME NEW c \in CPU, Interrupt(c) \/ Sret(c) PROVE SpinInv'
  BY <1>4, InterruptInv, SretInv
<1> QED  BY <1>1, <1>2, <1>3, <1>4 DEF Next

\* The inductive invariant of spinlock.c holds in every reachable state.
THEOREM SpinInvariant == Spec => []SpinInv
  BY InitInv, NextInv, PTL DEF Spec

-------------------------------------------------------------------------------
(* What follows from it *)

\* Every variable keeps its type; in particular noff never goes below zero.
THEOREM TypeCorrect == Spec => []TypeOK
<1>1. SpinInv => TypeOK
  BY DEF SpinInv
<1> QED  BY <1>1, SpinInvariant, PTL

\* noff counts the locks held on the CPU and the calls underway, as sched's
\* check for noff = 1 supposes.
THEOREM CountExact == Spec => []NoffExact
<1>1. SpinInv => NoffExact
  BY DEF SpinInv
<1> QED  BY <1>1, SpinInvariant, PTL

\* No CPU is interrupted while it holds a spinlock or handles an interrupt.
THEOREM InterruptsOff == Spec => []Uninterrupted
<1>1. ASSUME SpinInv PROVE Uninterrupted
  <2> SUFFICES ASSUME NEW a \in Act
               PROVE  /\ held[a] # {} => ~intr[Cpu(a)]
                      /\ handling[Cpu(a)] => ~intr[Cpu(a)]
    BY DEF Uninterrupted
  <2>1. held[a] # {} => noff[Cpu(a)] # 0
    BY <1>1, NoffParts, PushesType, Activations
  <2> QED  BY <1>1, <2>1, Activations DEF SpinInv, IntrExact
<1> QED  BY <1>1, SpinInvariant, PTL

\* A thread that holds no lock and is in no call runs with interrupts on.
THEOREM InterruptsBackOn == Spec => []IntrRestored
<1>1. ASSUME SpinInv PROVE IntrRestored
  <2> SUFFICES ASSUME NEW c \in CPU, ~handling[c], pc[T(c)] \in {"run", "off"}, held[T(c)] = {}
               PROVE  intr[c]
    BY DEF IntrRestored
  <2>1. pc[H(c)] = "run" /\ held[H(c)] = {}
    BY <1>1 DEF SpinInv, HandlerOnTop
  <2>2. noff[c] = 0
    BY <1>1, <2>1, NoffParts, PushesType, Activations
  <2> QED  BY <1>1, <2>2 DEF SpinInv, IntrExact
<1> QED  BY <1>1, SpinInvariant, PTL

\* acquire, release and pop_off never panic, for callers that nest locks in
\* an irreflexive order and release only what they hold.
THEOREM PanicFree == Spec => []NoPanic
<1>1. SpinInv => NoPanic
  BY DEF SpinInv
<1> QED  BY <1>1, SpinInvariant, PTL

\* Whoever asks holding() gets the truth.
THEOREM HoldingCorrect == Spec => []HoldingExact
<1>1. ASSUME SpinInv PROVE HoldingExact
  <2> SUFFICES ASSUME NEW a \in Act, pc[a] \in {"check", "disown"}
               PROVE  Holding(Cpu(a), lk[a]) <=>
                        \E b \in Act : Cpu(b) = Cpu(a) /\ lk[a] \in held[b]
    BY DEF HoldingExact
  <2>1. lk[a] \in Lock
    BY <1>1 DEF SpinInv, Argument, TypeOK
  <2>2. ASSUME Holding(Cpu(a), lk[a])
        PROVE  \E b \in Act : Cpu(b) = Cpu(a) /\ lk[a] \in held[b]
    <3>1. PICK b \in Act : lk[a] \in held[b]
      BY <1>1, <2>1, <2>2 DEF SpinInv, LockedExact, Holding
    <3>2. Cpu(b) = Cpu(a)
      BY <1>1, <2>1, <2>2, <3>1, Activations, NoneAssumption DEF SpinInv, OwnerExact, Holding
    <3> QED  BY <3>1, <3>2
  <2>3. ASSUME NEW b \in Act, Cpu(b) = Cpu(a), lk[a] \in held[b]
        PROVE  Holding(Cpu(a), lk[a])
    <3>1. ~InTransit(b, lk[a])
      <4>1. CASE b = a
        BY <4>1 DEF InTransit
      <4>2. CASE b # a
        <5>1. noff[Cpu(b)] # 0 /\ held[b] # {}
          BY <1>1, <2>3, NoffParts, PushesType, Activations
        <5>2. pc[b] \in {"run", "off"} \/ pc[a] = "run"
          BY <1>1, <2>3, <4>2, <5>1, Activations DEF SpinInv, HandlerOnTop, TypeOK
        <5> QED  BY <5>2 DEF InTransit
      <4> QED  BY <4>1, <4>2
    <3> QED  BY <1>1, <2>1, <2>3, <3>1 DEF SpinInv, LockedExact, OwnerExact, Holding
  <2> QED  BY <2>2, <2>3
<1> QED  BY <1>1, SpinInvariant, PTL

-------------------------------------------------------------------------------
(* Mutual exclusion, as the refinement of LockSpec *)

\* The mapped holder of a lock is the activation that holds it.
LEMMA HolderOf ==
  ASSUME SpinInv, NEW l \in Lock
  PROVE  /\ \A a \in Act : l \in held[a] => Holder(l) = a
         /\ (\A a \in Act : l \notin held[a]) => Holder(l) = <<NoCPU, "free">>
<1>1. ASSUME NEW a \in Act, l \in held[a] PROVE Holder(l) = a
  <2>1. \A b \in Act : l \in held[b] => b = a
    BY <1>1 DEF SpinInv, LockedExact
  <2> QED  BY <1>1, <2>1 DEF Holder
<1> QED  BY <1>1 DEF Holder

\* The same in the state after a step.
LEMMA HolderAfter ==
  ASSUME SpinInv', NEW l \in Lock
  PROVE  /\ \A a \in Act : l \in held'[a] => Holder(l)' = a
         /\ (\A a \in Act : l \notin held'[a]) => Holder(l)' = <<NoCPU, "free">>
<1>1. ASSUME NEW a \in Act, l \in held'[a] PROVE Holder(l)' = a
  <2>1. \A b \in Act : l \in held'[b] => b = a
    BY <1>1 DEF SpinInv, LockedExact
  <2> QED  BY <1>1, <2>1 DEF Holder
<1> QED  BY <1>1 DEF Holder

\* A step that moves no lock between activations is a stutter of LockSpec.
LEMMA Stutter ==
  ASSUME UNCHANGED held
  PROVE  [l \in Lock |-> Holder(l)]' = [l \in Lock |-> Holder(l)]
  BY DEF Holder

\* amoswap takes the lock and __sync_lock_release gives it back; every other
\* step of spinlock.c leaves the holders alone.
THEOREM Refinement == Spec => ImplementsLocks
<1> DEFINE free == <<NoCPU, "free">>
           hold == [l \in Lock |-> Holder(l)]
<1>1. Init => Locks!Init
  <2> SUFFICES ASSUME Init PROVE hold = [l \in Lock |-> free]
    BY DEF Locks!Init
  <2>1. SpinInv
    BY InitInv
  <2> QED  BY <2>1, HolderOf DEF Init
<1>2. SpinInv /\ SpinInv' /\ [Next]_vars => [Locks!Next]_hold
  <2> SUFFICES ASSUME SpinInv, SpinInv', [Next]_vars PROVE [Locks!Next]_hold
    OBVIOUS
  <2>1. ASSUME NEW a \in Act, Swap(a) PROVE Locks!Next
    <3>1. PICK l \in Lock : l = lk[a]
      BY <2>1 DEF Swap, Goto, SpinInv, Argument
    <3>2. held' = [held EXCEPT ![a] = @ \cup {l}] /\ held \in [Act -> SUBSET Lock]
      BY <2>1, <3>1 DEF Swap, SpinInv, TypeOK
    <3>3. \A b \in Act : l \notin held[b]
      BY <2>1, <3>1 DEF Swap, SpinInv, LockedExact
    <3>4. Holder(l) = free /\ Holder(l)' = a
      <4>1. l \in held'[a]
        BY <3>2
      <4>2. Holder(l)' = a
        BY <4>1, HolderAfter
      <4> QED  BY <3>3, <4>2, HolderOf
    <3>5. \A k \in Lock : k # l => Holder(k)' = Holder(k)
      BY <3>2 DEF Holder
    <3>6. Locks!Take(a, l)
      BY <3>4, <3>5 DEF Locks!Take
    <3> QED  BY <3>6 DEF Locks!Next
  <2>2. ASSUME NEW a \in Act, Unlock(a) PROVE Locks!Next
    <3>1. PICK l \in Lock : l = lk[a] /\ l \in held[a]
      BY <2>2 DEF Unlock, Goto, SpinInv, Argument, TypeOK
    <3>2. held' = [held EXCEPT ![a] = @ \ {l}] /\ held \in [Act -> SUBSET Lock]
      BY <2>2, <3>1 DEF Unlock, SpinInv, TypeOK
    <3>3. \A b \in Act : l \notin held'[b]
      BY <3>1, <3>2 DEF SpinInv, LockedExact
    <3>4. Holder(l) = a /\ Holder(l)' = free
      <4>1. Holder(l)' = free
        BY <3>3, HolderAfter
      <4> QED  BY <3>1, <4>1, HolderOf
    <3>5. \A k \in Lock : k # l => Holder(k)' = Holder(k)
      BY <3>2 DEF Holder
    <3>6. Locks!Give(a, l)
      BY <3>4, <3>5 DEF Locks!Give
    <3> QED  BY <3>6 DEF Locks!Next
  <2>3. CASE UNCHANGED held
    BY <2>3, Stutter
  <2>4. ASSUME NEW a \in Act, Advance(a), ~Swap(a), ~Unlock(a) PROVE UNCHANGED held
    BY <2>4 DEF Advance, PushOff, Check, Own, Disown, PopOff
  <2>5. ASSUME NEW a \in Act, Call(a) PROVE UNCHANGED held
    BY <2>5 DEF Call, Myproc, AcquireCall, ReleaseCall
  <2>6. ASSUME NEW c \in CPU, Interrupt(c) \/ Sret(c) PROVE UNCHANGED held
    BY <2>6 DEF Interrupt, Sret
  <2> QED  BY <2>1, <2>2, <2>3, <2>4, <2>5, <2>6 DEF Next, vars
<1> QED  BY <1>1, <1>2, SpinInvariant, PTL DEF Spec, ImplementsLocks, Locks!Spec
===============================================================================
