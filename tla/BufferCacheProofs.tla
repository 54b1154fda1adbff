---------------------------- MODULE BufferCacheProofs ----------------------------
(***************************************************************************)
(* Proofs about BufferCache, for every finite set of threads, every set of   *)
(* blocks, any number of buffers and any limit on pinned ones.               *)
(***************************************************************************)
EXTENDS BufferCache, FiniteSetTheorems, FunctionTheorems, WellFoundedInduction, TLAPS

-------------------------------------------------------------------------------
(* Counting, and the list *)

\* A set of threads is counted: one more with a new thread, one less without one.
LEMMA Counted ==
  ASSUME NEW S \in SUBSET Thread, NEW t \in Thread
  PROVE  /\ Cardinality(S) \in 0..Cardinality(Thread) /\ Cardinality(Thread) \in Nat
         /\ t \notin S => Cardinality(S \cup {t}) = Cardinality(S) + 1
         /\ t \in S => Cardinality(S \ {t}) = Cardinality(S) - 1
         /\ Cardinality(S) = 0 <=> S = {}
<1>1. IsFiniteSet(S) /\ Cardinality(S) <= Cardinality(Thread) /\ Cardinality(Thread) \in Nat
  BY ThreadAssumption, FS_Subset, FS_CardinalityType
<1>2. Cardinality(S) \in Nat
  BY <1>1, FS_CardinalityType
<1>3. t \notin S => Cardinality(S \cup {t}) = Cardinality(S) + 1
  BY <1>1, FS_AddElement
<1>4. t \in S => Cardinality(S \ {t}) = Cardinality(S) - 1
  BY <1>1, FS_RemoveElement
<1>5. Cardinality(S) = 0 <=> S = {}
  BY <1>1, FS_EmptySet
<1> QED  BY <1>1, <1>2, <1>3, <1>4, <1>5

\* What is counted is finite.
LEMMA Finite ==
  /\ NoBuf \notin Buf
  /\ \A b \in Buf : IsFiniteSet(Users(b)) /\ Cardinality(Users(b)) \in Nat
  /\ TypeOK => IsFiniteSet(pinned) /\ Cardinality(pinned) \in Nat
<1>1. NoBuf \notin Buf
  BY DEF NoBuf, Buf
<1>2. \A b \in Buf : IsFiniteSet(Users(b)) /\ Cardinality(Users(b)) \in Nat
  BY ThreadAssumption, FS_Subset, FS_CardinalityType DEF Users
<1>3. TypeOK => IsFiniteSet(pinned) /\ Cardinality(pinned) \in Nat
  <2>1. IsFiniteSet(Buf)
    BY SizeAssumption, FS_Interval DEF Buf
  <2>2. TypeOK => pinned \in SUBSET Buf
    BY DEF TypeOK
  <2> QED  BY <2>1, <2>2, FS_Subset, FS_CardinalityType
<1> QED  BY <1>1, <1>2, <1>3

\* As many references as threads and a pin are the most, so refcnt has its type.
LEMMA RefsBounded ==
  ASSUME NEW b \in Buf
  PROVE  Cardinality(Users(b)) + Pin(b) \in 0..(Cardinality(Thread) + 1)
<1>1. IsFiniteSet(Users(b)) /\ Cardinality(Users(b)) <= Cardinality(Thread) /\ Cardinality(Thread) \in Nat
  BY ThreadAssumption, FS_Subset, FS_CardinalityType DEF Users
<1>2. Cardinality(Users(b)) \in Nat /\ Pin(b) \in {0, 1}
  BY <1>1, FS_CardinalityType DEF Pin
<1> QED  BY <1>1, <1>2

\* A buffer that refcnt says is free is not pinned, and no thread has it or its lock.
LEMMA FreeUnused ==
  ASSUME TypeOK, RefExact, HoldersExact, NEW b \in Free
  PROVE  b \in Buf /\ b \notin pinned /\ slock[b] = Nobody /\ \A t \in Thread : buf[t] # b
<1>1. b \in Buf /\ Cardinality(Users(b)) + Pin(b) = 0
  BY DEF Free, RefExact
<1>2. IsFiniteSet(Users(b)) /\ Cardinality(Users(b)) \in Nat /\ Pin(b) \in Nat
  BY ThreadAssumption, FS_Subset, FS_CardinalityType DEF Users, Pin
<1>3. Cardinality(Users(b)) = 0 /\ Pin(b) = 0
  BY <1>1, <1>2
<1>4. Users(b) = {} /\ b \notin pinned
  BY <1>2, <1>3, FS_EmptySet DEF Pin
<1>5. \A t \in Thread : buf[t] # b
  BY <1>4 DEF Users
<1>6. slock[b] = Nobody
  BY <1>1, <1>5 DEF TypeOK, HoldersExact
<1> QED  BY <1>1, <1>4, <1>5, <1>6

\* The order of the numbers, as a relation.
Less == OpToRel(<, Nat)

\* Every non-empty set of numbers has a least one.
LEMMA LeastNumber ==
  ASSUME NEW S \in SUBSET Nat, S # {}
  PROVE  \E n \in S : \A m \in S : n <= m
<1>1. IsWellFoundedOn(Less, Nat)
  BY NatLessThanWellFounded, Zenon DEF Less
<1>2. PICK n \in S : \A m \in S : <<m, n>> \notin Less
  BY <1>1, WFMin
<1>3. ASSUME NEW m \in S
      PROVE  n <= m
  <2>1. m \in Nat /\ n \in Nat /\ ~(m < n)
    BY <1>2 DEF Less, OpToRel
  <2> QED  BY <2>1
<1> QED  BY <1>3

\* Of the places of the list that hold a free buffer one is the last.
LEMMA OldestFree ==
  ASSUME TypeOK, Free # {}
  PROVE  Oldest \in Free
<1> DEFINE Left == {n \in Nat : \E i \in Buf : n = NBUF - i /\ lru[i] \in Free}
<1>1. PICK i \in Buf : lru[i] \in Free
  BY DEF TypeOK, Free
<1>2. NBUF - i \in Left
  BY <1>1, SizeAssumption DEF Buf
<1>3. PICK n \in Left : \A m \in Left : n <= m
  BY <1>2, LeastNumber
<1>4. PICK p \in Buf : n = NBUF - p /\ lru[p] \in Free
  BY <1>3
<1>5. ASSUME NEW j \in (p + 1)..NBUF, lru[j] \in Free
      PROVE  FALSE
  <2>1. j \in Buf /\ NBUF - j \in Left /\ NBUF - j < n /\ n \in Nat
    BY <1>4, <1>5, SizeAssumption DEF Buf
  <2> QED  BY <1>3, <2>1
<1>6. \E q \in Buf : lru[q] \in Free /\ \A j \in (q + 1)..NBUF : lru[j] \notin Free
  BY <1>4, <1>5
<1> QED  BY <1>6 DEF Oldest

-------------------------------------------------------------------------------
(* The invariant *)

\* With as many buffers as threads and pinned blocks, a thread that has none finds one.
LEMMA BufferLeft ==
  ASSUME CacheInv, NEW t \in Thread, pc[t] = "out", Free = {}
  PROVE  ~(Cardinality(Thread) + MaxPinned <= NBUF)
<1> USE DEF CacheInv
<1> DEFINE others == Thread \ {t}
           used == {b \in Buf : \E u \in others : buf[u] = b}
<1>1. IsFiniteSet(Thread) /\ IsFiniteSet(others) /\ Cardinality(others) = Cardinality(Thread) - 1
      /\ Cardinality(Thread) \in Nat
  BY ThreadAssumption, FS_RemoveElement, FS_CardinalityType
<1>2. IsFiniteSet(Buf) /\ Cardinality(Buf) = NBUF
  BY SizeAssumption, FS_Interval DEF Buf
<1>3. IsFiniteSet(used) /\ Cardinality(used) \in Nat /\ IsFiniteSet(pinned) /\ Cardinality(pinned) \in Nat
  BY <1>2, FS_Subset, FS_CardinalityType DEF TypeOK
<1>4. Cardinality(used) <= Cardinality(others)
  <2> DEFINE of == [b \in used |-> CHOOSE u \in others : buf[u] = b]
  <2>1. \A b \in used : of[b] \in others /\ buf[of[b]] = b
    OBVIOUS
  <2>2. of \in Injection(used, others)
    BY <2>1 DEF Injection, IsInjective
  <2> QED  BY <1>1, <2>2, FS_Injection
<1>5. Buf \subseteq used \cup pinned
  <2>1. ASSUME NEW b \in Buf, b \notin pinned
        PROVE  b \in used
    <3>1. refcnt[b] # 0 /\ Pin(b) = 0
      BY <2>1 DEF Free, Pin
    <3>2. IsFiniteSet(Users(b)) /\ Cardinality(Users(b)) # 0
      BY <1>1, <3>1, FS_Subset, FS_CardinalityType DEF Users, RefExact
    <3>3. PICK u \in Users(b) : TRUE
      BY <3>2, FS_EmptySet
    <3>4. u # t
      BY <3>3 DEF HoldersExact, Users, Buf, NoBuf
    <3> QED  BY <3>3, <3>4 DEF Users
  <2> QED  BY <2>1
<1>6. Cardinality(Buf) <= Cardinality(used) + Cardinality(pinned)
  <2>1. IsFiniteSet(used \cup pinned) /\ Cardinality(used \cup pinned) \in Nat
        /\ Cardinality(used \cup pinned) =
             Cardinality(used) + Cardinality(pinned) - Cardinality(used \cap pinned)
    BY <1>3, FS_Union, FS_CardinalityType
  <2>2. IsFiniteSet(used \cap pinned) /\ Cardinality(used \cap pinned) \in Nat
    BY <1>3, FS_Subset, FS_CardinalityType
  <2> HIDE DEF used
  <2>3. Cardinality(Buf) <= Cardinality(used \cup pinned)
    <3>1. Buf \in SUBSET (used \cup pinned)
      BY <1>5
    <3> HIDE DEF CacheInv
    <3> QED  BY <2>1, <3>1, FS_Subset
  <2> QED  BY <1>2, <1>3, <2>1, <2>2, <2>3, SizeAssumption
<1>7. Cardinality(pinned) <= MaxPinned
  BY DEF PinnedOrWritten
<1> QED  BY <1>1, <1>2, <1>3, <1>4, <1>6, <1>7, SizeAssumption

\* One more thread at a buffer, and one less.
LEMMA UsersChange ==
  ASSUME TypeOK, NEW t \in Thread, NEW b \in Buf,
         \/ buf[t] = NoBuf /\ buf' = [buf EXCEPT ![t] = b]
         \/ buf[t] = b /\ buf' = [buf EXCEPT ![t] = NoBuf]
  PROVE  /\ buf[t] = NoBuf => Cardinality(Users(b)') = Cardinality(Users(b)) + 1
         /\ buf[t] = b => Cardinality(Users(b)') = Cardinality(Users(b)) - 1
         /\ \A c \in Buf : c # b => Users(c)' = Users(c)
<1>1. NoBuf \notin Buf
  BY DEF Buf, NoBuf
<1>2. Users(b) \in SUBSET Thread /\ Cardinality(Users(b)) \in Nat
  BY ThreadAssumption, FS_Subset, FS_CardinalityType DEF Users
<1>3. CASE buf[t] = NoBuf
  <2>1. Users(b)' = Users(b) \cup {t} /\ t \notin Users(b)
    BY <1>1, <1>3 DEF TypeOK, Users
  <2>2. \A c \in Buf : c # b => Users(c)' = Users(c)
    BY <1>1, <1>3 DEF TypeOK, Users
  <2> QED  BY <1>1, <1>2, <1>3, <2>1, <2>2, Counted
<1>4. CASE buf[t] = b
  <2>1. Users(b)' = Users(b) \ {t} /\ t \in Users(b)
    BY <1>1, <1>4 DEF TypeOK, Users
  <2>2. \A c \in Buf : c # b => Users(c)' = Users(c)
    BY <1>1, <1>4 DEF TypeOK, Users
  <2> QED  BY <1>1, <1>2, <1>4, <2>1, <2>2, Counted
<1> QED  BY <1>3, <1>4

\* The type of refcnt follows from what it counts, in this state and in the next.
RefTyped ==
  RefExact /\ refcnt = [b \in Buf |-> refcnt[b]] => refcnt \in [Buf -> 0..(Cardinality(Thread) + 1)]

\* It has its type in this state.
LEMMA RefType == RefTyped
<1> SUFFICES ASSUME RefExact, refcnt = [b \in Buf |-> refcnt[b]]
             PROVE  refcnt \in [Buf -> 0..(Cardinality(Thread) + 1)]
  BY DEF RefTyped
<1>1. \A b \in Buf : refcnt[b] \in 0..(Cardinality(Thread) + 1)
  BY RefsBounded DEF RefExact
<1> QED  BY <1>1

\* And in the next.
LEMMA RefTypeNext ==
  ASSUME RefExact', refcnt' = [b \in Buf |-> refcnt'[b]]
  PROVE  refcnt' \in [Buf -> 0..(Cardinality(Thread) + 1)]
<1>1. RefTyped'
  BY RefType, PTL
<1> QED  BY <1>1 DEF RefTyped

\* Moving a buffer to the head of the list loses none.
LEMMA ListKept ==
  ASSUME TypeOK, NEW b \in Buf
  PROVE  ToHead(b) \in [Buf -> Buf] /\ \A c \in Buf : \E i \in Buf : ToHead(b)[i] = c
<1> DEFINE place == CHOOSE i \in Buf : lru[i] = b
<1>1. place \in Buf /\ lru[place] = b /\ lru \in [Buf -> Buf] /\ 1 \in Buf
  <2>1. lru \in [Buf -> Buf] /\ \E i \in Buf : lru[i] = b
    BY DEF TypeOK
  <2>2. 1 \in Buf
    BY SizeAssumption DEF Buf
  <2> QED  BY <2>1, <2>2
<1>2. ToHead(b) = [i \in Buf |-> IF i = 1 THEN b ELSE IF i <= place THEN lru[i - 1] ELSE lru[i]]
  BY DEF ToHead
<1> HIDE DEF place
<1>3. \A i \in Buf : i # 1 => i - 1 \in Buf
  BY SizeAssumption DEF Buf
<1>4. ToHead(b) \in [Buf -> Buf]
  BY <1>1, <1>2, <1>3
<1>5. ASSUME NEW c \in Buf, c # b
      PROVE  \E i \in Buf : ToHead(b)[i] = c
  <2>1. PICK j \in Buf : lru[j] = c
    BY DEF TypeOK
  <2>2. CASE j < place
    <3>1. j + 1 \in Buf /\ j + 1 # 1 /\ j + 1 <= place /\ (j + 1) - 1 = j
      BY <1>1, <2>2, SizeAssumption DEF Buf
    <3> QED  BY <1>2, <2>1, <3>1
  <2>3. CASE j > place
    <3>1. j # 1 /\ ~(j <= place)
      BY <1>1, <2>3 DEF Buf
    <3> QED  BY <1>2, <2>1, <3>1
  <2>4. j # place /\ j \in Int /\ place \in Int
    BY <1>1, <1>5, <2>1 DEF Buf
  <2> QED  BY <2>2, <2>3, <2>4
<1>6. ToHead(b)[1] = b
  BY <1>1, <1>2
<1> QED  BY <1>1, <1>4, <1>5, <1>6

\* A block found in the cache gains a reference.
LEMMA BgetHitKeeps ==
  ASSUME NEW t \in Thread, NEW k \in Block, CacheInv, BgetHit(t, k)
  PROVE  CacheInv'
<1> USE DEF CacheInv, TypeOK
<1>0. PICK b \in Cached(k) : refcnt' = [refcnt EXCEPT ![b] = @ + 1] /\ buf' = [buf EXCEPT ![t] = b]
  BY DEF BgetHit
<1>a. /\ b \in Buf /\ blockno[b] = k /\ k # NoBlock /\ buf[t] = NoBuf /\ NoBuf \notin Buf
      /\ pc[t] = "out" /\ pc' = [pc EXCEPT ![t] = "lock"]
      /\ blockno' = blockno /\ valid' = valid /\ data' = data /\ disk' = disk /\ slock' = slock
      /\ pinned' = pinned /\ lru' = lru /\ panicked' = panicked
  BY <1>0, NobodyAssumption DEF BgetHit, Cached, Goto, HoldersExact, Buf, NoBuf
<1>2. RefExact'
  <2>1. Cardinality(Users(b)') = Cardinality(Users(b)) + 1 /\ Cardinality(Users(b)) \in Nat
        /\ \A c \in Buf : c # b => Users(c)' = Users(c)
    <3> HIDE DEF TypeOK
    <3> QED  BY <1>0, <1>a, UsersChange, Finite
  <2>2. refcnt'[b] = refcnt[b] + 1 /\ \A c \in Buf : (c # b => refcnt'[c] = refcnt[c]) /\ Pin(c)' = Pin(c)
    BY <1>0, <1>a DEF Pin
  <2>3. \A c \in Buf : refcnt[c] \in Int /\ Pin(c) \in Int
    BY DEF Pin
  <2> HIDE DEF TypeOK
  <2> QED  BY <1>a, <2>1, <2>2, <2>3 DEF RefExact
<1>1. TypeOK'
  <2>1. refcnt' \in [Buf -> 0..(Cardinality(Thread) + 1)]
    BY <1>0, <1>2, RefTypeNext
  <2> QED  BY <1>0, <1>a, <2>1 DEF PC
<1>3. OneBuffer'
  BY <1>a DEF OneBuffer
<1>4. NoPanic'
  BY <1>a DEF NoPanic
<1>5. HoldersExact'
  BY <1>0, <1>a DEF HoldersExact, Locked
<1>6. PinnedOrWritten'
  BY <1>0, <1>a DEF PinnedOrWritten, HoldersExact, Locked
<1> QED  BY <1>1, <1>2, <1>3, <1>4, <1>5, <1>6

\* A buffer that nobody needs becomes the block's, with one reference; or there is none,
\* which takes fewer buffers than threads and pinned blocks.
LEMMA BgetMissKeeps ==
  ASSUME NEW t \in Thread, NEW k \in Block, CacheInv, BgetMiss(t, k)
  PROVE  CacheInv'
<1> USE DEF CacheInv, TypeOK
<1>1. CASE Free = {}
  <2>1. /\ pc[t] = "out" /\ panicked' = TRUE /\ pc' = pc /\ buf' = buf /\ UNCHANGED bufVars
        /\ disk' = disk /\ lru' = lru /\ slock' = slock /\ pinned' = pinned
    BY <1>1 DEF BgetMiss
  <2>2. NoPanic'
    BY <1>1, <2>1, BufferLeft DEF NoPanic
  <2> QED  BY <2>1, <2>2 DEF bufVars, RefExact, Users, Pin, OneBuffer, HoldersExact, PinnedOrWritten
<1>2. CASE Free # {}
  <2>1. PICK b \in Buf : b = Oldest /\ b \notin pinned /\ slock[b] = Nobody /\ \A u \in Thread : buf[u] # b
    BY <1>2, OldestFree, FreeUnused
  <2>2. /\ pc[t] = "out" /\ ~panicked /\ Cached(k) = {} /\ pc' = [pc EXCEPT ![t] = "lock"]
        /\ buf' = [buf EXCEPT ![t] = b] /\ blockno' = [blockno EXCEPT ![b] = k]
        /\ valid' = [valid EXCEPT ![b] = FALSE] /\ refcnt' = [refcnt EXCEPT ![b] = 1]
        /\ data' = data /\ panicked' = panicked /\ disk' = disk /\ lru' = lru /\ slock' = slock
        /\ pinned' = pinned
    BY <1>2, <2>1 DEF BgetMiss
  <2>3. buf[t] = NoBuf /\ NoBuf \notin Buf /\ k # NoBlock /\ \A c \in Buf : blockno[c] # k
    <3>1. k # NoBlock /\ \A c \in Buf : blockno[c] # k
      BY <2>2, NobodyAssumption DEF Cached
    <3> QED  BY <2>2, <3>1, Finite DEF HoldersExact
  <2>4. RefExact'
    <3>1. \A c \in Buf : c # b => Users(c)' = Users(c)
      BY <2>1, <2>2, <2>3, UsersChange
    <3>2. Users(b)' = {t}
      <4>1. \A u \in Thread : buf'[u] = b <=> u = t
        BY <2>1, <2>2
      <4> QED  BY <4>1 DEF Users
    <3>3. Cardinality({t}) = 1
      BY FS_Singleton
    <3>4. refcnt'[b] = 1 /\ Pin(b)' = 0
      BY <2>1, <2>2 DEF Pin
    <3>5. \A c \in Buf : c # b => refcnt'[c] = refcnt[c] /\ Pin(c)' = Pin(c)
      BY <2>1, <2>2 DEF Pin
    <3>6. refcnt'[b] = Cardinality(Users(b)') + Pin(b)'
      BY <3>2, <3>3, <3>4
    <3>7. ASSUME NEW c \in Buf, c # b
          PROVE  refcnt'[c] = Cardinality(Users(c)') + Pin(c)'
      BY <3>1, <3>5, <3>7 DEF RefExact
    <3> QED  BY <3>6, <3>7 DEF RefExact
  <2>5. TypeOK'
    <3>1. refcnt' \in [Buf -> 0..(Cardinality(Thread) + 1)]
      BY <2>2, <2>4, RefTypeNext
    <3> QED  BY <2>1, <2>2, <3>1 DEF PC
  <2>6. OneBuffer'
    BY <2>2, <2>3 DEF OneBuffer
  <2>7. NoPanic'
    BY <2>2 DEF NoPanic
  <2>8. HoldersExact'
    BY <2>1, <2>2, <2>3 DEF HoldersExact, Locked
  <2>9. PinnedOrWritten'
    BY <2>1, <2>2, <2>3 DEF PinnedOrWritten, HoldersExact, Locked
  <2> QED  BY <2>4, <2>5, <2>6, <2>7, <2>8, <2>9
<1> QED  BY <1>1, <1>2

\* A sleep-lock is taken only when free.
LEMMA LockKeeps ==
  ASSUME NEW t \in Thread, CacheInv, Lock(t)
  PROVE  CacheInv'
<1> USE DEF CacheInv, TypeOK
<1>0. buf[t] \in Buf /\ blockno[buf[t]] \in Block /\ slock[buf[t]] = Nobody
  BY Finite DEF Lock, Goto, HoldersExact, Locked
<1>2. RefExact'
  BY DEF Lock, Goto, bufVars, RefExact, Users, Pin
<1>1. TypeOK'
  <2>1. refcnt' \in [Buf -> 0..(Cardinality(Thread) + 1)]
    BY <1>2, RefTypeNext DEF Lock, bufVars
  <2>2. data' \in [Buf -> Val] /\ disk' \in [Block -> Val] /\ pc' \in [Thread -> PC]
    BY <1>0 DEF Lock, Goto, bufVars, PC
  <2> QED  BY <1>0, <2>1, <2>2 DEF Lock, bufVars
<1>3. OneBuffer'
  BY DEF Lock, bufVars, OneBuffer
<1>4. NoPanic'
  BY DEF Lock, NoPanic
<1>5. HoldersExact'
  BY <1>0, NobodyAssumption DEF Lock, Goto, bufVars, HoldersExact, Locked
<1>6. PinnedOrWritten'
  BY <1>0, NobodyAssumption DEF Lock, Goto, bufVars, HoldersExact, Locked, PinnedOrWritten, OneBuffer
<1> QED  BY <1>1, <1>2, <1>3, <1>4, <1>5, <1>6

\* What was not valid is read from the disk, under the lock.
LEMMA ReadKeeps ==
  ASSUME NEW t \in Thread, CacheInv, Read(t)
  PROVE  CacheInv'
<1> USE DEF CacheInv, TypeOK
<1>0. buf[t] \in Buf /\ blockno[buf[t]] \in Block /\ slock[buf[t]] = t
  BY Finite DEF Read, Goto, HoldersExact, Locked
<1>2. RefExact'
  BY DEF Read, Goto, bufVars, RefExact, Users, Pin
<1>1. TypeOK'
  <2>1. refcnt' \in [Buf -> 0..(Cardinality(Thread) + 1)]
    BY <1>2, RefTypeNext DEF Read, bufVars
  <2>2. data' \in [Buf -> Val] /\ disk' \in [Block -> Val] /\ pc' \in [Thread -> PC]
    BY <1>0 DEF Read, Goto, bufVars, PC
  <2> QED  BY <1>0, <2>1, <2>2 DEF Read, bufVars
<1>3. OneBuffer'
  BY DEF Read, bufVars, OneBuffer
<1>4. NoPanic'
  BY DEF Read, NoPanic
<1>5. HoldersExact'
  BY <1>0, NobodyAssumption DEF Read, Goto, bufVars, HoldersExact, Locked
<1>6. PinnedOrWritten'
  BY <1>0, NobodyAssumption DEF Read, Goto, bufVars, HoldersExact, Locked, PinnedOrWritten, OneBuffer
<1> QED  BY <1>1, <1>2, <1>3, <1>4, <1>5, <1>6

\* Only the holder of the lock changes the content, and it is going to log or write it.
LEMMA ModifyKeeps ==
  ASSUME NEW t \in Thread, CacheInv, Modify(t)
  PROVE  CacheInv'
<1> USE DEF CacheInv, TypeOK
<1>0. buf[t] \in Buf /\ blockno[buf[t]] \in Block /\ slock[buf[t]] = t
  BY Finite DEF Modify, Goto, HoldersExact, Locked
<1>2. RefExact'
  BY DEF Modify, Goto, bufVars, RefExact, Users, Pin
<1>1. TypeOK'
  <2>1. refcnt' \in [Buf -> 0..(Cardinality(Thread) + 1)]
    BY <1>2, RefTypeNext DEF Modify, bufVars
  <2>2. data' \in [Buf -> Val] /\ disk' \in [Block -> Val] /\ pc' \in [Thread -> PC]
    BY <1>0 DEF Modify, Goto, bufVars, PC
  <2> QED  BY <1>0, <2>1, <2>2 DEF Modify, bufVars
<1>3. OneBuffer'
  BY DEF Modify, bufVars, OneBuffer
<1>4. NoPanic'
  BY DEF Modify, NoPanic
<1>5. HoldersExact'
  BY <1>0, NobodyAssumption DEF Modify, Goto, bufVars, HoldersExact, Locked
<1>6. PinnedOrWritten'
  BY <1>0, NobodyAssumption DEF Modify, Goto, bufVars, HoldersExact, Locked, PinnedOrWritten, OneBuffer
<1> QED  BY <1>1, <1>2, <1>3, <1>4, <1>5, <1>6

\* What was changed is pinned, once.
LEMMA LogWriteKeeps ==
  ASSUME NEW t \in Thread, CacheInv, LogWrite(t)
  PROVE  CacheInv'
<1> USE DEF CacheInv, TypeOK
<1>0. /\ buf[t] \in Buf /\ valid[buf[t]] /\ slock[buf[t]] = t /\ pc[t] = "dirty"
      /\ \A b \in Buf : Users(b)' = Users(b)
  BY Finite DEF LogWrite, Goto, HoldersExact, Locked, PinnedOrWritten, Users
<1>2. RefExact'
  <2>1. \A b \in Buf : refcnt[b] \in Int /\ Pin(b)' = IF b = buf[t] THEN 1 ELSE Pin(b)
    BY DEF LogWrite, Pin
  <2>2. \A b \in Buf : refcnt'[b] = refcnt[b] + (IF b = buf[t] THEN 1 - Pin(b) ELSE 0)
    BY <1>0, <2>1 DEF LogWrite, Bpin, Pin
  <2>3. \A b \in Buf : Cardinality(Users(b)) \in Int /\ Pin(b) \in Int
    BY Finite DEF Pin
  <2> QED  BY <1>0, <2>1, <2>2, <2>3 DEF RefExact
<1>1. TypeOK'
  <2>1. refcnt' \in [Buf -> 0..(Cardinality(Thread) + 1)]
    BY <1>2, RefTypeNext DEF LogWrite, Bpin
  <2> QED  BY <1>0, <2>1 DEF LogWrite, Goto, PC
<1>3. OneBuffer'
  BY DEF LogWrite, bufVars, OneBuffer
<1>4. NoPanic'
  BY DEF LogWrite, NoPanic
<1>5. HoldersExact'
  BY <1>0, NobodyAssumption DEF LogWrite, Goto, HoldersExact, Locked
<1>6. PinnedOrWritten'
  <2>1. Cardinality(pinned') <= MaxPinned
    <3>1. IsFiniteSet(pinned) /\ Cardinality(pinned) \in Nat
      BY Finite
    <3>2. CASE buf[t] \in pinned
      <4>1. pinned' = pinned
        BY <3>2 DEF LogWrite
      <4> QED  BY <4>1 DEF PinnedOrWritten
    <3>3. CASE buf[t] \notin pinned
      <4>1. Cardinality(pinned') = Cardinality(pinned) + 1
        BY <3>1, <3>3, FS_AddElement DEF LogWrite
      <4> QED  BY <3>1, <3>3, <4>1, SizeAssumption DEF LogWrite
    <3> QED  BY <3>2, <3>3
  <2> QED  BY <1>0, <2>1, NobodyAssumption DEF LogWrite, Goto, HoldersExact, Locked, PinnedOrWritten
<1> QED  BY <1>1, <1>2, <1>3, <1>4, <1>5, <1>6

\* What was changed is on the disk, under its own block.
LEMMA BwriteKeeps ==
  ASSUME NEW t \in Thread, CacheInv, Bwrite(t)
  PROVE  CacheInv'
<1> USE DEF CacheInv, TypeOK
<1>0. buf[t] \in Buf /\ blockno[buf[t]] \in Block /\ slock[buf[t]] = t
  BY Finite DEF Bwrite, Goto, HoldersExact, Locked
<1>2. RefExact'
  BY DEF Bwrite, Goto, bufVars, RefExact, Users, Pin
<1>1. TypeOK'
  <2>1. refcnt' \in [Buf -> 0..(Cardinality(Thread) + 1)]
    BY <1>2, RefTypeNext DEF Bwrite, bufVars
  <2>2. data' \in [Buf -> Val] /\ disk' \in [Block -> Val] /\ pc' \in [Thread -> PC]
    BY <1>0 DEF Bwrite, Goto, bufVars, PC
  <2> QED  BY <1>0, <2>1, <2>2 DEF Bwrite, bufVars
<1>3. OneBuffer'
  BY DEF Bwrite, bufVars, OneBuffer
<1>4. NoPanic'
  BY DEF Bwrite, NoPanic
<1>5. HoldersExact'
  BY <1>0, NobodyAssumption DEF Bwrite, Goto, bufVars, HoldersExact, Locked
<1>6. PinnedOrWritten'
  BY <1>0, NobodyAssumption DEF Bwrite, Goto, bufVars, HoldersExact, Locked, PinnedOrWritten, OneBuffer
<1> QED  BY <1>1, <1>2, <1>3, <1>4, <1>5, <1>6

\* What the log has pinned is on the disk before it is unpinned.
LEMMA InstallKeeps ==
  ASSUME NEW t \in Thread, CacheInv, Install(t)
  PROVE  CacheInv'
<1> USE DEF CacheInv, TypeOK
<1>0. buf[t] \in Buf /\ blockno[buf[t]] \in Block /\ slock[buf[t]] = t
  BY Finite DEF Install, Goto, HoldersExact, Locked
<1>2. RefExact'
  BY DEF Install, Goto, bufVars, RefExact, Users, Pin
<1>1. TypeOK'
  <2>1. refcnt' \in [Buf -> 0..(Cardinality(Thread) + 1)]
    BY <1>2, RefTypeNext DEF Install, bufVars
  <2>2. data' \in [Buf -> Val] /\ disk' \in [Block -> Val] /\ pc' \in [Thread -> PC]
    BY <1>0 DEF Install, Goto, bufVars, PC
  <2> QED  BY <1>0, <2>1, <2>2 DEF Install, bufVars
<1>3. OneBuffer'
  BY DEF Install, bufVars, OneBuffer
<1>4. NoPanic'
  BY DEF Install, NoPanic
<1>5. HoldersExact'
  BY <1>0, NobodyAssumption DEF Install, Goto, bufVars, HoldersExact, Locked
<1>6. PinnedOrWritten'
  BY <1>0, NobodyAssumption DEF Install, Goto, bufVars, HoldersExact, Locked, PinnedOrWritten, OneBuffer
<1> QED  BY <1>1, <1>2, <1>3, <1>4, <1>5, <1>6

\* The pin goes; the reference of the thread stays.
LEMMA BunpinKeeps ==
  ASSUME NEW t \in Thread, CacheInv, Bunpin(t)
  PROVE  CacheInv'
<1> USE DEF CacheInv, TypeOK
<1>0. /\ buf[t] \in Buf /\ valid[buf[t]] /\ slock[buf[t]] = t /\ pc[t] = "unpin" /\ buf[t] \in pinned
      /\ \A b \in Buf : Users(b)' = Users(b)
  BY Finite DEF Bunpin, Goto, HoldersExact, Locked, PinnedOrWritten, Users
<1>2. RefExact'
  <2>1. \A b \in Buf : refcnt[b] \in Int /\ Pin(b)' = (IF b = buf[t] THEN 0 ELSE Pin(b)) /\ Pin(buf[t]) = 1
    BY <1>0 DEF Bunpin, Pin
  <2>2. \A b \in Buf : refcnt'[b] = IF b = buf[t] THEN refcnt[b] - 1 ELSE refcnt[b]
    BY <1>0 DEF Bunpin
  <2>3. \A b \in Buf : Cardinality(Users(b)) \in Int /\ Pin(b) \in Int
    BY Finite DEF Pin
  <2> QED  BY <1>0, <2>1, <2>2, <2>3 DEF RefExact
<1>1. TypeOK'
  <2>1. refcnt' \in [Buf -> 0..(Cardinality(Thread) + 1)]
    BY <1>2, RefTypeNext DEF Bunpin, bufVars
  <2> QED  BY <2>1 DEF Bunpin, Goto, bufVars, PC
<1>3. OneBuffer'
  BY DEF Bunpin, bufVars, OneBuffer
<1>4. NoPanic'
  BY DEF Bunpin, NoPanic
<1>5. HoldersExact'
  BY <1>0, NobodyAssumption DEF Bunpin, Goto, HoldersExact, Locked
<1>6. PinnedOrWritten'
  <2>1. Cardinality(pinned') <= MaxPinned
    <3>1. IsFiniteSet(pinned) /\ Cardinality(pinned) \in Nat
      BY Finite
    <3>2. Cardinality(pinned') = Cardinality(pinned) - 1
      <4>1. pinned' = pinned \ {buf[t]}
        BY DEF Bunpin
      <4> HIDE DEF CacheInv, TypeOK
      <4> QED  BY <1>0, <3>1, <4>1, FS_RemoveElement
    <3> QED  BY <3>1, <3>2, SizeAssumption DEF PinnedOrWritten
  <2> QED  BY <1>0, <2>1, NobodyAssumption DEF Bunpin, Goto, HoldersExact, Locked, PinnedOrWritten
<1> QED  BY <1>1, <1>2, <1>3, <1>4, <1>5, <1>6

\* Who gives the lock up has logged or written what it changed.
LEMMA UnlockKeeps ==
  ASSUME NEW t \in Thread, CacheInv, Unlock(t)
  PROVE  CacheInv'
<1> USE DEF CacheInv, TypeOK
<1>0. buf[t] \in Buf /\ blockno[buf[t]] \in Block /\ slock[buf[t]] = t
  BY Finite DEF Unlock, Goto, HoldersExact, Locked
<1>2. RefExact'
  BY DEF Unlock, Goto, bufVars, RefExact, Users, Pin
<1>1. TypeOK'
  <2>1. refcnt' \in [Buf -> 0..(Cardinality(Thread) + 1)]
    BY <1>2, RefTypeNext DEF Unlock, bufVars
  <2>2. data' \in [Buf -> Val] /\ disk' \in [Block -> Val] /\ pc' \in [Thread -> PC]
    BY <1>0 DEF Unlock, Goto, bufVars, PC
  <2> QED  BY <1>0, <2>1, <2>2 DEF Unlock, bufVars
<1>3. OneBuffer'
  BY DEF Unlock, bufVars, OneBuffer
<1>4. NoPanic'
  BY DEF Unlock, NoPanic
<1>5. HoldersExact'
  BY <1>0, NobodyAssumption DEF Unlock, Goto, bufVars, HoldersExact, Locked
<1>6. PinnedOrWritten'
  BY <1>0, NobodyAssumption DEF Unlock, Goto, bufVars, HoldersExact, Locked, PinnedOrWritten, OneBuffer
<1> QED  BY <1>1, <1>2, <1>3, <1>4, <1>5, <1>6

\* The last reference goes with the thread, and the buffer is now the most recent one.
LEMMA BrelseKeeps ==
  ASSUME NEW t \in Thread, CacheInv, Brelse(t)
  PROVE  CacheInv'
<1> USE DEF CacheInv, TypeOK
<1>0. PICK b \in Buf : b = buf[t] /\ NoBuf \notin Buf /\ pc[t] = "relse" /\ slock[b] # t
  BY Finite, NobodyAssumption DEF Brelse, Goto, HoldersExact, Locked
<1>a. /\ pc' = [pc EXCEPT ![t] = "out"] /\ buf' = [buf EXCEPT ![t] = NoBuf]
      /\ refcnt' = [refcnt EXCEPT ![b] = @ - 1] /\ lru' = (IF refcnt[b] = 1 THEN ToHead(b) ELSE lru)
      /\ blockno' = blockno /\ valid' = valid /\ data' = data /\ disk' = disk /\ slock' = slock
      /\ pinned' = pinned /\ panicked' = panicked
  BY <1>0 DEF Brelse, Goto
<1>2. RefExact'
  <2>1. Cardinality(Users(b)') = Cardinality(Users(b)) - 1 /\ Cardinality(Users(b)) \in Nat
        /\ \A c \in Buf : c # b => Users(c)' = Users(c)
    <3> HIDE DEF TypeOK
    <3> QED  BY <1>0, <1>a, UsersChange, Finite
  <2>2. refcnt'[b] = refcnt[b] - 1 /\ \A c \in Buf : (c # b => refcnt'[c] = refcnt[c]) /\ Pin(c)' = Pin(c)
    BY <1>0, <1>a DEF Pin
  <2>3. \A c \in Buf : refcnt[c] \in Int /\ Pin(c) \in Int
    BY DEF Pin
  <2> HIDE DEF TypeOK
  <2> QED  BY <1>0, <2>1, <2>2, <2>3 DEF RefExact
<1>1. TypeOK'
  <2>1. refcnt' \in [Buf -> 0..(Cardinality(Thread) + 1)]
    BY <1>a, <1>2, RefTypeNext
  <2>2. lru' \in [Buf -> Buf] /\ \A c \in Buf : \E i \in Buf : lru'[i] = c
    <3>1. ToHead(b) \in [Buf -> Buf] /\ \A c \in Buf : \E i \in Buf : ToHead(b)[i] = c
      BY <1>0, ListKept
    <3> QED  BY <1>a, <3>1
  <2> QED  BY <1>0, <1>a, <2>1, <2>2 DEF PC
<1>3. OneBuffer'
  BY <1>a DEF OneBuffer
<1>4. NoPanic'
  BY <1>a DEF NoPanic
<1>5. HoldersExact'
  BY <1>0, <1>a, NobodyAssumption DEF HoldersExact, Locked
<1>6. PinnedOrWritten'
  BY <1>0, <1>a, NobodyAssumption DEF PinnedOrWritten, HoldersExact, Locked
<1> QED  BY <1>1, <1>2, <1>3, <1>4, <1>5, <1>6

\* binit: every buffer is in the list, free and without a block.
LEMMA InitKeeps == Init => CacheInv
<1> SUFFICES ASSUME Init
             PROVE  CacheInv
  OBVIOUS
<1>1. \A b \in Buf : Users(b) = {} /\ Pin(b) = 0
  BY Finite DEF Init, Users, Pin
<1>2. RefExact
  BY <1>1, FS_EmptySet DEF Init, RefExact
<1>3. TypeOK
  <2>1. refcnt \in [Buf -> 0..(Cardinality(Thread) + 1)]
    BY <1>2, RefType DEF Init, RefTyped
  <2>2. lru \in [Buf -> Buf] /\ \A b \in Buf : \E i \in Buf : lru[i] = b
    <3>1. \A b \in Buf : NBUF + 1 - b \in Buf /\ NBUF + 1 - (NBUF + 1 - b) = b
      BY SizeAssumption DEF Buf
    <3> QED  BY <3>1 DEF Init
  <2> QED  BY <2>1, <2>2, ValAssumption DEF Init, TypeOK, PC
<1>4. OneBuffer /\ NoPanic /\ HoldersExact
  BY DEF Init, OneBuffer, NoPanic, HoldersExact, Locked
<1>5. PinnedOrWritten
  BY FS_EmptySet, SizeAssumption DEF Init, PinnedOrWritten
<1> QED  BY <1>2, <1>3, <1>4, <1>5 DEF CacheInv

\* Every step keeps the invariant.
LEMMA StepKeeps == CacheInv /\ [Next]_vars => CacheInv'
<1> SUFFICES ASSUME CacheInv, [Next]_vars
             PROVE  CacheInv'
  OBVIOUS
<1>1. CASE Next
  BY <1>1, BgetHitKeeps, BgetMissKeeps, LockKeeps, ReadKeeps, ModifyKeeps, LogWriteKeeps, BwriteKeeps,
     InstallKeeps, BunpinKeeps, UnlockKeeps, BrelseKeeps DEF Next
<1>2. CASE UNCHANGED vars
  BY <1>2 DEF vars, bufVars, CacheInv, TypeOK, RefExact, Users, Pin, OneBuffer, NoPanic, HoldersExact,
              PinnedOrWritten
<1> QED  BY <1>1, <1>2

\* For any number of threads, buffers and blocks: refcnt counts who needs a buffer, a block
\* has one buffer, there are enough of them if as many as threads and pinned blocks, the
\* lock's holder is who uses it, and nothing is recycled that the disk lacks.
THEOREM CacheInvariant == Spec => []CacheInv
<1> QED  BY InitKeeps, StepKeeps, PTL DEF Spec

-------------------------------------------------------------------------------
(* One content and one user for a block *)

\* The buffer of a block that is valid has its content; with none the disk has it.
ContentOK == \A k \in Block :
  /\ \A b \in Buf : blockno[b] = k /\ valid[b] => Content(k) = data[b]
  /\ (\A b \in Buf : ~(blockno[b] = k /\ valid[b])) => Content(k) = disk[k]

\* The abstract content is what the buffer, or else the disk, has.
LEMMA ContentIs == CacheInv => ContentOK
<1> SUFFICES ASSUME CacheInv, NEW k \in Block
             PROVE  /\ \A b \in Buf : blockno[b] = k /\ valid[b] => Content(k) = data[b]
                    /\ (\A b \in Buf : ~(blockno[b] = k /\ valid[b])) => Content(k) = disk[k]
  BY DEF ContentOK
<1>1. ASSUME NEW b \in Buf, blockno[b] = k, valid[b]
      PROVE  Content(k) = data[b]
  <2>1. \A c \in Cached(k) : c = b
    BY <1>1, NobodyAssumption DEF CacheInv, OneBuffer, Cached
  <2>2. b \in Cached(k)
    BY <1>1 DEF Cached
  <2>3. (CHOOSE c \in Cached(k) : valid[c]) = b
    BY <1>1, <2>1, <2>2
  <2> QED  BY <1>1, <2>2, <2>3 DEF Content
<1>2. ASSUME \A b \in Buf : ~(blockno[b] = k /\ valid[b])
      PROVE  Content(k) = disk[k]
  BY <1>2 DEF Content, Cached
<1> QED  BY <1>1, <1>2

\* The holder of the lock of a block's buffer owns it; with none nobody does.
OwnerOK == \A k \in Block :
  /\ \A b \in Buf : blockno[b] = k /\ slock[b] # Nobody => Owner(k) = slock[b]
  /\ (\A b \in Buf : ~(blockno[b] = k /\ slock[b] # Nobody)) => Owner(k) = Nobody

\* The abstract owner is who holds the lock of the buffer.
LEMMA OwnerIs == CacheInv => OwnerOK
<1> SUFFICES ASSUME CacheInv, NEW k \in Block
             PROVE  /\ \A b \in Buf : blockno[b] = k /\ slock[b] # Nobody => Owner(k) = slock[b]
                    /\ (\A b \in Buf : ~(blockno[b] = k /\ slock[b] # Nobody)) => Owner(k) = Nobody
  BY DEF OwnerOK
<1>1. ASSUME NEW b \in Buf, blockno[b] = k, slock[b] # Nobody
      PROVE  Owner(k) = slock[b]
  <2>1. \A c \in Cached(k) : c = b
    BY <1>1, NobodyAssumption DEF CacheInv, OneBuffer, Cached
  <2>2. b \in Cached(k)
    BY <1>1 DEF Cached
  <2>3. (CHOOSE c \in Cached(k) : slock[c] # Nobody) = b
    BY <1>1, <2>1, <2>2
  <2> QED  BY <1>1, <2>2, <2>3 DEF Owner
<1>2. ASSUME \A b \in Buf : ~(blockno[b] = k /\ slock[b] # Nobody)
      PROVE  Owner(k) = Nobody
  BY <1>2 DEF Owner, Cached
<1> QED  BY <1>1, <1>2

\* In both states of a step the contents are as said.
LEMMA ContentNow == ASSUME CacheInv, CacheInv' PROVE ContentOK /\ ContentOK'
<1> QED  BY ContentIs, PTL

\* The same of the owners.
LEMMA OwnerNow == ASSUME CacheInv, CacheInv' PROVE OwnerOK /\ OwnerOK'
<1> QED  BY OwnerIs, PTL

\* Where nothing of a buffer changes that they depend on, content and owner stay.
LEMMA ContentStays ==
  ASSUME disk' = disk, blockno' = blockno, valid' = valid, data' = data
  PROVE  \A k \in Block : Content(k)' = Content(k)
<1> QED  BY DEF Content, Cached

\* The owners stay where no lock changes hands.
LEMMA OwnerStays ==
  ASSUME blockno' = blockno, slock' = slock
  PROVE  \A k \in Block : Owner(k)' = Owner(k)
<1> QED  BY DEF Owner, Cached

\* What a step may do to content and owner of all blocks.
Stay == \A k \in Block : Content(k)' = Content(k) /\ Owner(k)' = Owner(k)

\* Then the step is none of the abstract store.
LEMMA StayMaps == Stay => UNCHANGED Store!vars
<1> QED  BY DEF Stay, Store!vars

\* A buffer is recycled when the disk has its block; what it gets is on the disk.
LEMMA BgetMissMaps ==
  ASSUME NEW t \in Thread, NEW k \in Block, CacheInv, CacheInv', BgetMiss(t, k)
  PROVE  Stay
<1>1. CASE Free = {}
  <2>1. disk' = disk /\ blockno' = blockno /\ valid' = valid /\ data' = data /\ slock' = slock
    BY <1>1 DEF BgetMiss, bufVars
  <2> QED  BY <2>1, ContentStays, OwnerStays DEF Stay
<1>2. CASE Free # {}
  <2>1. PICK b \in Buf : b = Oldest /\ b \notin pinned /\ slock[b] = Nobody
    BY <1>2, OldestFree, FreeUnused DEF CacheInv
  <2>2. /\ \A c \in Buf : blockno[c] # k
        /\ \A c \in Buf : blockno'[c] = IF c = b THEN k ELSE blockno[c]
        /\ \A c \in Buf : valid'[c] = IF c = b THEN FALSE ELSE valid[c]
        /\ data' = data /\ disk' = disk /\ slock' = slock
    <3>1. /\ Cached(k) = {} /\ data' = data /\ disk' = disk /\ slock' = slock
          /\ blockno' = [blockno EXCEPT ![b] = k] /\ valid' = [valid EXCEPT ![b] = FALSE]
      BY <1>2, <2>1 DEF BgetMiss
    <3>2. \A c \in Buf : blockno[c] # k
      BY <3>1 DEF Cached
    <3> QED  BY <3>1, <3>2 DEF CacheInv, TypeOK
  <2>3. valid[b] => data[b] = disk[blockno[b]]
    BY <2>1 DEF CacheInv, PinnedOrWritten
  <2>4. ContentOK /\ OwnerOK /\ ContentOK' /\ OwnerOK'
    BY ContentNow, OwnerNow
  <2>5. ASSUME NEW j \in Block
        PROVE  Content(j)' = Content(j)
    <3>1. CASE \E c \in Buf : blockno[c] = j /\ valid[c] /\ c # b
      <4>1. PICK c \in Buf : blockno[c] = j /\ valid[c] /\ c # b
        BY <3>1
      <4>2. blockno'[c] = j /\ valid'[c]
        BY <2>2, <4>1
      <4>3. Content(j) = data[c] /\ Content(j)' = data'[c]
        BY <2>4, <4>1, <4>2 DEF ContentOK
      <4> QED  BY <2>2, <4>3
    <3>2. CASE blockno[b] = j /\ valid[b]
      <4>1. \A c \in Buf : ~(blockno'[c] = j /\ valid'[c])
        BY <2>2, <3>2, NobodyAssumption DEF CacheInv, OneBuffer
      <4>2. Content(j)' = disk[j] /\ Content(j) = data[b]
        BY <2>2, <2>4, <3>2, <4>1 DEF ContentOK
      <4> QED  BY <2>3, <3>2, <4>2
    <3>3. CASE \A c \in Buf : ~(blockno[c] = j /\ valid[c])
      <4>1. \A c \in Buf : ~(blockno'[c] = j /\ valid'[c])
        BY <2>2, <3>3
      <4> QED  BY <2>2, <2>4, <3>3, <4>1 DEF ContentOK
    <3> QED  BY <3>1, <3>2, <3>3
  <2>6. ASSUME NEW j \in Block
        PROVE  Owner(j)' = Owner(j)
    <3>1. \A c \in Buf : (blockno'[c] = j /\ slock'[c] # Nobody) <=> (blockno[c] = j /\ slock[c] # Nobody)
      BY <2>1, <2>2
    <3>2. CASE \E c \in Buf : blockno[c] = j /\ slock[c] # Nobody
      BY <2>2, <2>4, <3>1, <3>2 DEF OwnerOK
    <3>3. CASE \A c \in Buf : ~(blockno[c] = j /\ slock[c] # Nobody)
      BY <2>4, <3>1, <3>3 DEF OwnerOK
    <3> QED  BY <3>2, <3>3
  <2> QED  BY <2>5, <2>6 DEF Stay
<1> QED  BY <1>1, <1>2

\* Who uses a buffer has its lock; the buffer is the only one of its block.
LEMMA Holder ==
  ASSUME CacheInv, NEW t \in Thread, pc[t] # "out"
  PROVE  /\ buf[t] \in Buf /\ blockno[buf[t]] \in Block
         /\ \A c \in Buf : blockno[c] = blockno[buf[t]] => c = buf[t]
         /\ pc[t] \in Locked => slock[buf[t]] = t
<1> QED  BY Finite DEF CacheInv, TypeOK, HoldersExact, OneBuffer

\* The owner changes where the lock does.
LEMMA OwnerChanges ==
  ASSUME CacheInv, CacheInv', blockno' = blockno, NEW b \in Buf, NEW k \in Block, blockno[b] = k,
         \A c \in Buf : blockno[c] = k => c = b,
         NEW u \in Thread \cup {Nobody}, \A c \in Buf : slock'[c] = IF c = b THEN u ELSE slock[c]
  PROVE  \A i \in Block : Owner(i)' = IF i = k THEN u ELSE Owner(i)
<1>1. Owner(k)' = u
  <2>1. CASE u = Nobody
    BY <2>1, OwnerNow DEF OwnerOK
  <2>2. CASE u # Nobody
    BY <2>2, OwnerNow DEF OwnerOK
  <2> QED  BY <2>1, <2>2
<1>2. ASSUME NEW i \in Block, i # k
      PROVE  Owner(i)' = Owner(i)
  <2>1. \A c \in Buf : blockno[c] = i => slock'[c] = slock[c]
    BY <1>2
  <2>2. CASE \E c \in Buf : blockno[c] = i /\ slock[c] # Nobody
    BY <2>1, <2>2, OwnerNow DEF OwnerOK
  <2>3. CASE \A c \in Buf : ~(blockno[c] = i /\ slock[c] # Nobody)
    BY <2>1, <2>3, OwnerNow DEF OwnerOK
  <2> QED  BY <2>2, <2>3
<1> QED  BY <1>1, <1>2

\* The lock of a block's buffer is taken, and given up, for the block.
LEMMA LockMaps ==
  ASSUME NEW t \in Thread, CacheInv, CacheInv', Lock(t)
  PROVE  Store!Take(t, blockno[buf[t]])
<1> DEFINE j == blockno[buf[t]]
<1>1. /\ buf[t] \in Buf /\ j \in Block /\ \A c \in Buf : blockno[c] = j => c = buf[t]
      /\ slock[buf[t]] = Nobody /\ slock' = [slock EXCEPT ![buf[t]] = t]
      /\ disk' = disk /\ blockno' = blockno /\ valid' = valid /\ data' = data
  BY Holder DEF Lock, Goto, bufVars
<1>2. Owner(j) = Nobody
  BY <1>1, OwnerNow DEF OwnerOK
<1>3. PICK b \in Buf, k \in Block : b = buf[t] /\ k = j
  BY <1>1
<1>4. \A i \in Block : Owner(i)' = IF i = k THEN t ELSE Owner(i)
  <2>1. \A c \in Buf : slock'[c] = IF c = b THEN t ELSE slock[c]
    BY <1>1, <1>3 DEF CacheInv, TypeOK
  <2> QED  BY <1>1, <1>3, <2>1, OwnerChanges
<1>5. \A i \in Block : Content(i)' = Content(i)
  BY <1>1, ContentStays
<1> QED  BY <1>1, <1>2, <1>3, <1>4, <1>5 DEF Store!Take

\* Giving the lock of a buffer up is giving up its block.
LEMMA UnlockMaps ==
  ASSUME NEW t \in Thread, CacheInv, CacheInv', Unlock(t)
  PROVE  Store!Drop(t, blockno[buf[t]])
<1> DEFINE j == blockno[buf[t]]
<1>1. /\ buf[t] \in Buf /\ j \in Block /\ \A c \in Buf : blockno[c] = j => c = buf[t]
      /\ slock[buf[t]] = t /\ slock' = [slock EXCEPT ![buf[t]] = Nobody]
      /\ disk' = disk /\ blockno' = blockno /\ valid' = valid /\ data' = data
  BY Holder DEF Unlock, Goto, bufVars, Locked
<1>2. Owner(j) = t
  BY <1>1, OwnerNow, NobodyAssumption DEF OwnerOK
<1>3. PICK b \in Buf, k \in Block : b = buf[t] /\ k = j
  BY <1>1
<1>4. \A i \in Block : Owner(i)' = IF i = k THEN Nobody ELSE Owner(i)
  <2>1. \A c \in Buf : slock'[c] = IF c = b THEN Nobody ELSE slock[c]
    BY <1>1, <1>3 DEF CacheInv, TypeOK
  <2> QED  BY <1>1, <1>3, <2>1, OwnerChanges
<1>5. \A i \in Block : Content(i)' = Content(i)
  BY <1>1, ContentStays
<1> QED  BY <1>1, <1>2, <1>3, <1>4, <1>5 DEF Store!Drop

\* The holder of the lock changes the content.
LEMMA ModifyMaps ==
  ASSUME NEW t \in Thread, CacheInv, CacheInv', Modify(t)
  PROVE  Store!Update(t, blockno[buf[t]])
<1> DEFINE j == blockno[buf[t]]
<1>1. /\ buf[t] \in Buf /\ j \in Block /\ \A c \in Buf : blockno[c] = j => c = buf[t]
      /\ slock[buf[t]] = t /\ valid[buf[t]]
      /\ disk' = disk /\ blockno' = blockno /\ valid' = valid /\ slock' = slock
  BY Holder DEF Modify, Goto, Locked, CacheInv, PinnedOrWritten
<1>2. PICK v \in Val : data' = [data EXCEPT ![buf[t]] = v]
  BY DEF Modify
<1>3. Owner(j) = t
  BY <1>1, OwnerNow, NobodyAssumption DEF OwnerOK
<1>4. PICK b \in Buf, k \in Block : b = buf[t] /\ k = j
  BY <1>1
<1>5. \A i \in Block : Content(i)' = IF i = k THEN v ELSE Content(i)
  <2>1. \A c \in Buf : data'[c] = IF c = b THEN v ELSE data[c]
    BY <1>2, <1>4 DEF CacheInv, TypeOK
  <2>2. Content(k)' = v
    BY <1>1, <1>4, <2>1, ContentNow DEF ContentOK
  <2>3. ASSUME NEW i \in Block, i # k
        PROVE  Content(i)' = Content(i)
    <3>1. CASE \E c \in Buf : blockno[c] = i /\ valid[c]
      BY <1>1, <1>4, <2>1, <2>3, <3>1, ContentNow DEF ContentOK
    <3>2. CASE \A c \in Buf : ~(blockno[c] = i /\ valid[c])
      BY <1>1, <3>2, ContentNow DEF ContentOK
    <3> QED  BY <3>1, <3>2
  <2> QED  BY <2>2, <2>3
<1>6. \A i \in Block : Owner(i)' = Owner(i)
  BY <1>1, OwnerStays
<1> QED  BY <1>1, <1>2, <1>3, <1>4, <1>5, <1>6 DEF Store!Update

\* A block read from the disk, or written to it, is the same block.
LEMMA TransferMaps ==
  ASSUME NEW t \in Thread, CacheInv, CacheInv', Read(t) \/ Bwrite(t) \/ Install(t)
  PROVE  Stay
<1>1. /\ buf[t] \in Buf /\ blockno[buf[t]] \in Block
      /\ \A c \in Buf : blockno[c] = blockno[buf[t]] => c = buf[t]
      /\ blockno' = blockno /\ slock' = slock
  BY Holder DEF Read, Bwrite, Install, Goto, bufVars
<1>2. PICK b \in Buf, k \in Block : b = buf[t] /\ k = blockno[b]
  BY <1>1
<1>3. /\ valid'[b] /\ Content(k) = data'[b]
      /\ \A c \in Buf : c # b => valid'[c] = valid[c] /\ data'[c] = data[c]
      /\ \A i \in Block : i # k => disk'[i] = disk[i]
  <2>1. CASE Read(t)
    <3>1. CASE valid[b]
      BY <1>2, <2>1, <3>1, ContentNow DEF ContentOK, Read, CacheInv, TypeOK
    <3>2. CASE ~valid[b]
      <4>1. Content(k) = disk[k]
        BY <1>1, <1>2, <3>2, ContentNow DEF ContentOK
      <4> QED  BY <1>2, <2>1, <3>2, <4>1 DEF Read, CacheInv, TypeOK
    <3> QED  BY <3>1, <3>2
  <2>2. CASE Bwrite(t) \/ Install(t)
    <3>1. valid[b] /\ valid' = valid /\ data' = data /\ disk' = [disk EXCEPT ![k] = data[b]]
      BY <1>2, <2>2 DEF Bwrite, Install, Goto, bufVars, CacheInv, PinnedOrWritten
    <3> QED  BY <1>2, <3>1, ContentNow DEF ContentOK, CacheInv, TypeOK
  <2> QED  BY <2>1, <2>2
<1>4. ASSUME NEW i \in Block
      PROVE  Content(i)' = Content(i)
  <2>1. CASE i = k
    BY <1>1, <1>2, <1>3, <2>1, ContentNow DEF ContentOK
  <2>2. CASE i # k
    <3>1. \A c \in Buf : blockno[c] = i => c # b /\ valid'[c] = valid[c] /\ data'[c] = data[c]
      BY <1>2, <1>3, <2>2
    <3>2. CASE \E c \in Buf : blockno[c] = i /\ valid[c]
      BY <1>1, <3>1, <3>2, ContentNow DEF ContentOK
    <3>3. CASE \A c \in Buf : ~(blockno[c] = i /\ valid[c])
      BY <1>1, <1>3, <2>2, <3>1, <3>3, ContentNow DEF ContentOK
    <3> QED  BY <3>2, <3>3
  <2> QED  BY <2>1, <2>2
<1> QED  BY <1>1, <1>4, OwnerStays DEF Stay

\* Every step is one on a block of the abstract store, or none.
LEMMA StepMaps == CacheInv /\ CacheInv' /\ [Next]_vars => [Store!Next]_(Store!vars)
<1> SUFFICES ASSUME CacheInv, CacheInv', [Next]_vars
             PROVE  Store!Next \/ UNCHANGED Store!vars
  OBVIOUS
<1>1. ASSUME NEW t \in Thread, Lock(t) \/ Unlock(t) \/ Modify(t)
      PROVE  Store!Next
  <2>1. blockno[buf[t]] \in Block
    BY <1>1, Holder DEF Lock, Unlock, Modify, Goto
  <2> QED  BY <1>1, <2>1, LockMaps, UnlockMaps, ModifyMaps DEF Store!Next
<1>2. ASSUME NEW t \in Thread, Read(t) \/ Bwrite(t) \/ Install(t)
      PROVE  UNCHANGED Store!vars
  BY <1>2, TransferMaps, StayMaps
<1>3. ASSUME NEW t \in Thread, LogWrite(t) \/ Bunpin(t) \/ Brelse(t) \/ \E k \in Block : BgetHit(t, k)
      PROVE  UNCHANGED Store!vars
  <2>1. disk' = disk /\ blockno' = blockno /\ valid' = valid /\ data' = data /\ slock' = slock
    BY <1>3 DEF BgetHit, LogWrite, Bunpin, Brelse
  <2>2. Stay
    BY <2>1, ContentStays, OwnerStays DEF Stay
  <2> QED  BY <2>2, StayMaps
<1>4. ASSUME NEW t \in Thread, NEW k \in Block, BgetMiss(t, k)
      PROVE  UNCHANGED Store!vars
  BY <1>4, BgetMissMaps, StayMaps
<1>5. CASE UNCHANGED vars
  <2>1. disk' = disk /\ blockno' = blockno /\ valid' = valid /\ data' = data /\ slock' = slock
    BY <1>5 DEF vars, bufVars
  <2>2. Stay
    BY <2>1, ContentStays, OwnerStays DEF Stay
  <2> QED  BY <2>2, StayMaps
<1> QED  BY <1>1, <1>2, <1>3, <1>4, <1>5 DEF Next

\* An empty cache over a blank disk.
LEMMA InitMaps == Init => Store!Init
<1> SUFFICES ASSUME Init
             PROVE  Store!Init
  OBVIOUS
<1>1. CacheInv /\ ContentOK /\ OwnerOK
  BY InitKeeps, ContentIs, OwnerIs
<1>2. \A k \in Block : Content(k) = 0 /\ Owner(k) = Nobody
  BY <1>1 DEF Init, ContentOK, OwnerOK
<1> QED  BY <1>2 DEF Store!Init

\* However buffers are shared, recycled and read again: a block has one content and one
\* user at a time, and no change to it is lost.
THEOREM Refinement == Spec => ImplementsStore
<1> QED  BY CacheInvariant, InitMaps, StepMaps, PTL DEF Spec, ImplementsStore, Store!Spec
===============================================================================
