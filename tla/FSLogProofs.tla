------------------------------- MODULE FSLogProofs ------------------------------
(***************************************************************************)
(* Proofs about FSLog, for every finite set of threads, every set of blocks, *)
(* every size of the log and any number of writes and crashes.               *)
(***************************************************************************)
EXTENDS FSLog, FiniteSetTheorems, FunctionTheorems, SequenceTheorems, TLAPS

-------------------------------------------------------------------------------
(* The invariant *)

\* The inductive part of FSLogInv; Durable follows from it in every state.
Core == /\ TypeOK /\ CallsCounted /\ Reserved
        /\ NoneTwice(lh) /\ NoneTwice(header) /\ CommitInOrder /\ RecoverInOrder
        /\ PanicOnlyFull /\ SleepsForReason

\* A positive multiple of m is at least m.
LEMMA MultipleLarge ==
  ASSUME NEW m \in Nat \ {0}, NEW d \in Nat \ {0}
  PROVE  m * d >= m
<1>1. PICK e \in Nat : d = e + 1
  BY SMT
<1>2. m * d = m * e + m /\ m * e \in Nat
  BY <1>1, SMT
<1> QED  BY <1>2, SMT

\* The place in rows of m tells the row and the column.
LEMMA RowsDiffer ==
  ASSUME NEW m \in Nat \ {0}, NEW i \in Int, NEW s \in Int, NEW j \in 1..m, NEW t \in 1..m,
         m * (i - 1) + j = m * (s - 1) + t
  PROVE  i = s /\ j = t
<1>1. m * (i - s) = t - j
  BY SMT
<1>2. CASE i - s \in Nat \ {0}
  BY <1>1, <1>2, MultipleLarge, SMT
<1>3. CASE s - i \in Nat \ {0}
  <2>1. m * (s - i) >= m
    BY <1>3, MultipleLarge
  <2> QED  BY <1>1, <2>1, SMT
<1>4. CASE i = s
  BY <1>1, <1>4, SMT
<1> QED  BY <1>2, <1>3, <1>4, SMT

\* Three parts of a product, each no product itself.
LEMMA PartsAdd ==
  ASSUME NEW a \in Nat, NEW b \in Nat, NEW m \in Nat \ {0}, NEW j \in 1..m, NEW c, c = a + m + b
  PROVE  c \in Nat /\ a + j \in 1..c
  BY SMT

\* A place in n rows of m.
LEMMA PlaceInRows ==
  ASSUME NEW m \in Nat \ {0}, NEW n \in Nat, NEW i \in 1..n, NEW j \in 1..m
  PROVE  m * (i - 1) + j \in 1..(n * m)
<1> DEFINE a == m * (i - 1)
           b == m * (n - i)
<1>1. i - 1 \in Nat /\ n - i \in Nat
  BY SMT
<1>2. a \in Nat /\ b \in Nat
  BY <1>1, SMT
<1>3. n * m = a + m + b
  BY SMT
<1> HIDE DEF a, b
<1>4. a + j \in 1..(n * m)
  BY <1>2, <1>3, PartsAdd
<1> QED  BY <1>4 DEF a

\* A set of pairs <<u, b>> with at most m partners b for each u has at most m pairs for
\* each u: number the partners, and lay the pairs out in rows of m.
LEMMA RowsOf ==
  ASSUME NEW U, IsFiniteSet(U), NEW m \in Nat \ {0}, NEW w,
         \A u \in U : IsFiniteSet(w[u]) /\ Cardinality(w[u]) <= m,
         NEW P, \A x \in P : x = <<x[1], x[2]>> /\ x[1] \in U /\ x[2] \in w[x[1]]
  PROVE  IsFiniteSet(P) /\ Cardinality(P) <= Cardinality(U) * m
<1> DEFINE n == Cardinality(U)
<1>1. n \in Nat /\ ExistsBijection(U, 1..n)
  BY FS_CardinalityType, Fun_ExistsBijSymmetric
<1>2. PICK k \in Injection(U, 1..n) : TRUE
  BY <1>1, Fun_BijectionProperties DEF ExistsBijection, Bijection
<1>3. ASSUME NEW u \in U
      PROVE  \E f : f \in Injection(w[u], 1..m)
  <2>1. Cardinality(w[u]) \in Nat /\ ExistsBijection(w[u], 1..Cardinality(w[u]))
    BY FS_CardinalityType, Fun_ExistsBijSymmetric
  <2>2. PICK f \in Injection(w[u], 1..Cardinality(w[u])) : TRUE
    BY <2>1 DEF ExistsBijection, Bijection
  <2>3. 1..Cardinality(w[u]) \subseteq 1..m
    BY <2>1
  <2>4. f \in Injection(w[u], 1..m)
    BY <2>2, <2>3 DEF Injection, IsInjective
  <2> QED  BY <2>4
<1> DEFINE F == [u \in U |-> CHOOSE f : f \in Injection(w[u], 1..m)]
<1>4. \A u \in U : F[u] \in Injection(w[u], 1..m)
  BY <1>3
<1> HIDE DEF F, n
<1> DEFINE Row(i, j) == m * (i - 1) + j
<1>5. \A x \in P : k[x[1]] \in 1..n /\ F[x[1]][x[2]] \in 1..m
  BY <1>2, <1>4 DEF Injection
<1>6. ASSUME NEW i \in 1..n, NEW j \in 1..m
      PROVE  Row(i, j) \in 1..(n * m)
  BY <1>1, PlaceInRows
<1>7. ASSUME NEW i \in 1..n, NEW j \in 1..m, NEW s \in 1..n, NEW t \in 1..m, Row(i, j) = Row(s, t)
      PROVE  i = s /\ j = t
  <2>1. i \in Int /\ s \in Int
    BY <1>1
  <2> QED  BY <1>7, <2>1, RowsDiffer
<1> HIDE DEF Row
<1> DEFINE g == [x \in P |-> Row(k[x[1]], F[x[1]][x[2]])]
<1>8. g \in Injection(P, 1..(n * m))
  <2>1. \A x \in P : g[x] \in 1..(n * m)
    BY <1>5, <1>6
  <2>2. ASSUME NEW x \in P, NEW y \in P, g[x] = g[y]
        PROVE  x = y
    <3>1. k[x[1]] = k[y[1]] /\ F[x[1]][x[2]] = F[y[1]][y[2]]
      BY <1>5, <1>7, <2>2
    <3>2. x[1] = y[1]
      BY <1>2, <3>1 DEF Injection, IsInjective
    <3>3. x[2] = y[2]
      BY <1>4, <3>1, <3>2 DEF Injection, IsInjective
    <3> QED  BY <3>2, <3>3
  <2> QED  BY <2>1, <2>2 DEF Injection, IsInjective
<1>9. IsFiniteSet(1..(n * m)) /\ Cardinality(1..(n * m)) = n * m
  <2>1. n * m \in Nat
    BY <1>1, SMT
  <2> QED  BY <2>1, FS_Interval
<1>10. IsFiniteSet(P) /\ Cardinality(P) <= n * m
  BY <1>8, <1>9, FS_Injection
<1> QED  BY <1>10 DEF n

\* A set of threads is counted: one more with a new thread, one less without one.
LEMMA Counted ==
  ASSUME NEW S \in SUBSET Op, NEW o \in Op
  PROVE  /\ Cardinality(S) \in 0..Cardinality(Op)
         /\ o \notin S => Cardinality(S \cup {o}) = Cardinality(S) + 1
         /\ o \in S => Cardinality(S \ {o}) = Cardinality(S) - 1
         /\ Cardinality(S) = 0 <=> S = {}
<1>1. IsFiniteSet(S) /\ Cardinality(S) <= Cardinality(Op) /\ Cardinality(Op) \in Nat
  BY OpAssumption, FS_Subset, FS_CardinalityType
<1>2. Cardinality(S) \in Nat
  BY <1>1, FS_CardinalityType
<1>3. o \notin S => Cardinality(S \cup {o}) = Cardinality(S) + 1
  BY <1>1, FS_AddElement
<1>4. o \in S => Cardinality(S \ {o}) = Cardinality(S) - 1
  BY <1>1, FS_RemoveElement
<1>5. Cardinality(S) = 0 <=> S = {}
  BY <1>1, FS_EmptySet
<1> QED  BY <1>1, <1>2, <1>3, <1>4, <1>5

\* The blocks written in the calls under way, each with its thread, are finitely many.
LEMMA PairsCounted == CallsCounted => IsFiniteSet(LoggedPairs) /\ Cardinality(LoggedPairs) \in Nat
<1> SUFFICES ASSUME CallsCounted
             PROVE  IsFiniteSet(LoggedPairs)
  BY FS_CardinalityType
<1>1. OpBlocks + 1 \in Nat \ {0} /\ \A o \in Op : IsFiniteSet(wrote[o]) /\ Cardinality(wrote[o]) <= OpBlocks + 1
  BY SizeAssumption, FS_CardinalityType DEF CallsCounted
<1>2. \A x \in LoggedPairs : x = <<x[1], x[2]>> /\ x[1] \in Op /\ x[2] \in wrote[x[1]]
  BY DEF LoggedPairs
<1> QED  BY <1>1, <1>2, OpAssumption, RowsOf

\* Pairs of one thread: at most as many as a call writes.
LEMMA PairsOfOne ==
  ASSUME CallsCounted, NEW o \in Op, NEW S, S \subseteq LoggedPairs, \A x \in S : x[1] = o
  PROVE  Cardinality(S) <= MAXOPBLOCKS
<1>1. IsFiniteSet({o}) /\ Cardinality({o}) = 1 /\ MAXOPBLOCKS \in Nat \ {0}
  BY FS_Singleton, SizeAssumption
<1>2. \A u \in {o} : IsFiniteSet(wrote[u]) /\ Cardinality(wrote[u]) <= MAXOPBLOCKS
  BY SizeAssumption, FS_CardinalityType DEF CallsCounted
<1>3. \A x \in S : x = <<x[1], x[2]>> /\ x[1] \in {o} /\ x[2] \in wrote[x[1]]
  BY DEF LoggedPairs
<1>4. Cardinality(S) <= Cardinality({o}) * MAXOPBLOCKS
  BY <1>1, <1>2, <1>3, RowsOf
<1>5. 1 * MAXOPBLOCKS = MAXOPBLOCKS
  BY <1>1, SMT
<1> QED  BY <1>1, <1>4, <1>5

\* A call that has not written all it may leaves room in the log: it could have one
\* more pair, and the pairs would still be no more than the reservations.
LEMMA PairsLess ==
  ASSUME CallsCounted, NEW o \in Users, Cardinality(wrote[o]) < MAXOPBLOCKS
  PROVE  Cardinality(LoggedPairs) < outstanding * MAXOPBLOCKS
<1> DEFINE more == [u \in Op |-> IF u = o THEN wrote[o] \cup {NoBlock} ELSE wrote[u]]
           w == <<o, NoBlock>>
           P == LoggedPairs \cup {w}
<1>1. IsFiniteSet(LoggedPairs) /\ Cardinality(LoggedPairs) \in Nat
  BY PairsCounted
<1>2. w \notin LoggedPairs
  BY BlockAssumption DEF LoggedPairs
<1>3. Cardinality(P) = Cardinality(LoggedPairs) + 1
  BY <1>1, <1>2, FS_AddElement
<1>4. IsFiniteSet(Users) /\ Users \subseteq Op /\ MAXOPBLOCKS \in Nat \ {0}
  BY OpAssumption, FS_Subset, SizeAssumption DEF Users
<1>5. ASSUME NEW u \in Users
      PROVE  IsFiniteSet(more[u]) /\ Cardinality(more[u]) <= MAXOPBLOCKS
  <2>1. IsFiniteSet(wrote[u]) /\ Cardinality(wrote[u]) \in Nat /\ Cardinality(wrote[u]) <= MAXOPBLOCKS
    BY <1>4, SizeAssumption, FS_CardinalityType DEF CallsCounted
  <2>2. CASE u # o
    BY <1>4, <2>1, <2>2
  <2>3. CASE u = o
    <3>1. /\ IsFiniteSet(wrote[o] \cup {NoBlock})
          /\ Cardinality(wrote[o] \cup {NoBlock}) <= Cardinality(wrote[o]) + 1
      BY <2>1, <2>3, FS_AddElement
    <3>2. more[u] = wrote[o] \cup {NoBlock}
      BY <1>4, <2>3
    <3>3. Cardinality(wrote[o] \cup {NoBlock}) \in Nat
      BY <3>1, FS_CardinalityType
    <3> QED  BY <1>4, <2>1, <2>3, <3>1, <3>2, <3>3
  <2> QED  BY <2>2, <2>3
<1>6. \A x \in P : x = <<x[1], x[2]>> /\ x[1] \in Users /\ x[2] \in more[x[1]]
  <2>1. ASSUME NEW x \in LoggedPairs
        PROVE  x = <<x[1], x[2]>> /\ x[1] \in Users /\ x[2] \in more[x[1]]
    BY DEF LoggedPairs, CallsCounted
  <2>2. w = <<w[1], w[2]>> /\ w[1] \in Users /\ w[2] \in more[w[1]]
    BY <1>4
  <2> QED  BY <2>1, <2>2
<1> HIDE DEF more, P
<1>7. Cardinality(P) <= Cardinality(Users) * MAXOPBLOCKS
  BY <1>4, <1>5, <1>6, RowsOf
<1>8. Cardinality(Users) = outstanding /\ outstanding * MAXOPBLOCKS \in Int
  <2>1. Cardinality(Users) \in Nat
    BY <1>4, FS_CardinalityType
  <2> QED  BY <2>1, SizeAssumption, SMT DEF CallsCounted
<1> QED  BY <1>1, <1>3, <1>7, <1>8, SMT

\* While no call is under way the log has the room it says.
Idle == outstanding = 0 /\ \A p \in Op : wrote[p] = {}

\* A log of which nothing is in use or reserved has room.
LEMMA ReservedIdle == TypeOK /\ Idle => Reserved
<1> SUFFICES ASSUME TypeOK, Idle
             PROVE  Reserved
  OBVIOUS
<1>1. LoggedPairs = {}
  BY DEF Idle, LoggedPairs
<1>2. Cardinality(LoggedPairs) = 0 /\ 0 * MAXOPBLOCKS = 0
  BY <1>1, FS_EmptySet, SizeAssumption, SMT
<1>3. Len(lh) \in Nat
  BY LenProperties DEF TypeOK
<1> QED  BY <1>2, <1>3, SizeAssumption DEF Idle, TypeOK, Reserved

\* A call that begins takes part of the room that nobody has reserved, or sleeps.
LEMMA BeginOpCore ==
  ASSUME NEW o \in Op, Core, BeginOp(o)
  PROVE  Core'
<1> USE DEF Core, TypeOK
<1>0. outstanding' = Cardinality(Users') /\ outstanding' \in 0..Cardinality(Op)
  <2>1. CASE committing \/ ~Space
    <3>1. Users' = Users
      BY <2>1 DEF BeginOp, Users
    <3> QED  BY <2>1, <3>1 DEF BeginOp, CallsCounted
  <2>2. CASE ~(committing \/ ~Space)
    <3>1. Users' = Users \cup {o} /\ o \notin Users /\ Users \in SUBSET Op /\ Users' \in SUBSET Op
      BY <2>2 DEF BeginOp, Users
    <3>2. outstanding' = Cardinality(Users')
      BY <2>2, <3>1, Counted DEF BeginOp, CallsCounted
    <3> QED  BY <3>1, <3>2, Counted
  <2> QED  BY <2>1, <2>2
<1>1. TypeOK'
  BY <1>0 DEF BeginOp, disk, bounds, PC
<1>2. CallsCounted'
  BY <1>0 DEF BeginOp, CallsCounted, Users, Commits
<1>3. Reserved'
  <2>1. LoggedPairs' = LoggedPairs /\ Cardinality(LoggedPairs) \in Nat
    BY PairsCounted DEF BeginOp, LoggedPairs
  <2> QED  BY <2>1, SizeAssumption DEF BeginOp, Reserved, Space
<1>4. (NoneTwice(lh) /\ NoneTwice(header))'
  BY DEF BeginOp, disk
<1>5. CommitInOrder'
  BY DEF BeginOp, disk, CommitInOrder, Copied, Changing
<1>6. RecoverInOrder'
  BY DEF BeginOp, RecoverInOrder
<1>7. PanicOnlyFull'
  BY DEF BeginOp, PanicOnlyFull
<1>8. SleepsForReason'
  BY DEF BeginOp, Space, SleepsForReason
<1> QED  BY <1>1, <1>2, <1>3, <1>4, <1>5, <1>6, <1>7, <1>8

\* A call that changes a block of the cache still has it to log, within what it may write.
LEMMA ModifyCore ==
  ASSUME NEW o \in Op, NEW b \in Block, Core, Modify(o, b)
  PROVE  Core'
<1> USE DEF Core, TypeOK
<1>0. Users' = Users /\ o \in Users /\ Users \in SUBSET Op /\ boot = "up"
  BY DEF Modify, Goto, Users
<1>a. ~committing /\ \A p \in Op : pc'[p] \notin Commits
  BY <1>0 DEF Modify, Goto, CallsCounted, Commits
<1>1. TypeOK'
  BY BoundAssumption DEF Modify, disk, mem, Goto, PC, Val
<1>2. CallsCounted'
  <2>1. wrote'[o] = wrote[o] \cup {b} /\ IsFiniteSet(wrote'[o]) /\ Cardinality(wrote'[o]) <= OpBlocks
    BY FS_AddElement DEF Modify, CallsCounted
  <2> QED  BY <1>0, <1>a, <2>1, BlockAssumption DEF Modify, Goto, mem, CallsCounted, Users, Commits
<1>3. Reserved'
  <2>1. LoggedPairs \in SUBSET LoggedPairs'
    BY DEF Modify, mem, LoggedPairs
  <2>2. (IsFiniteSet(LoggedPairs) /\ Cardinality(LoggedPairs) \in Nat)'
    BY <1>2, PairsCounted, PTL
  <2>3. Cardinality(LoggedPairs) <= Cardinality(LoggedPairs') /\ Cardinality(LoggedPairs) \in Nat
    BY <2>1, <2>2, PairsCounted, FS_Subset
  <2>4. Len(lh') = Len(lh) /\ outstanding' = outstanding
    BY DEF Modify, mem
  <2> HIDE DEF TypeOK
  <2> QED  BY <2>2, <2>3, <2>4, SizeAssumption DEF Reserved, TypeOK
<1>4. (NoneTwice(lh) /\ NoneTwice(header))'
  BY DEF Modify, disk, mem
<1>5. CommitInOrder'
  <2>1. header' = << >> /\ tail' = 1
    BY <1>0, <1>a DEF Modify, Goto, disk, CommitInOrder, Commits
  <2>2. ASSUME NEW x \in Block
        PROVE  (home[x] = cache[x] \/ Logged(x, lh) \/ Changing(x))'
    <3>1. home[x] = cache[x] \/ Logged(x, lh) \/ Changing(x)
      BY <1>0, <1>a DEF CommitInOrder, Modify, Goto, Commits
    <3>2. CASE x = b
      BY <3>2 DEF Modify, Changing
    <3>3. CASE x # b
      <4>1. Changing(x) => Changing(x)'
        BY <3>3, BlockAssumption DEF Modify, Goto, CallsCounted, Changing
      <4> QED  BY <3>1, <3>3, <4>1 DEF Modify, disk, mem, Logged
    <3> QED  BY <3>2, <3>3
  <2>3. outstanding' # 0
    BY <1>0, Counted DEF Modify, mem, CallsCounted
  <2> QED  BY <1>a, <2>1, <2>2, <2>3 DEF CommitInOrder, Commits
<1>6. RecoverInOrder'
  BY DEF Modify, Goto, RecoverInOrder
<1>7. PanicOnlyFull'
  BY DEF Modify, Goto, PanicOnlyFull
<1>8. SleepsForReason'
  BY DEF Modify, mem, Goto, SleepsForReason, Space
<1> QED  BY <1>1, <1>2, <1>3, <1>4, <1>5, <1>6, <1>7, <1>8

\* A logged block is one of its call's, so the log grows only within what is reserved,
\* and has room while calls write no more than they may.
LEMMA LogWriteCore ==
  ASSUME NEW o \in Op, Core, LogWrite(o)
  PROVE  Core'
<1> USE DEF Core, TypeOK
<1>0. Users' = Users /\ o \in Users /\ Users \in SUBSET Op /\ boot = "up" /\ boot' = "up"
  BY DEF LogWrite, Goto, Users
<1>a. ~committing /\ \A p \in Op : pc'[p] \notin Commits /\ pc[p] \notin Commits
  BY <1>0 DEF LogWrite, Goto, CallsCounted, Commits
<1>b. outstanding > 0 /\ outstanding' = outstanding /\ blk[o] \in Block
  <2>1. Cardinality(Users) # 0 /\ Cardinality(Users) \in 0..Cardinality(Op)
    BY <1>0, Counted
  <2>2. outstanding > 0
    BY <2>1 DEF CallsCounted
  <2>3. blk[o] \in Block /\ outstanding' = outstanding
    BY DEF LogWrite, Goto, CallsCounted
  <2> QED  BY <2>2, <2>3
<1>c. \/ lh' = lh /\ (BadLogWrite \/ Logged(blk[o], lh))
      \/ lh' = Append(lh, blk[o]) /\ ~BadLogWrite /\ ~Logged(blk[o], lh)
  BY DEF LogWrite
<1>d. lh' \in Seq(Block) /\ Len(lh') <= LOGBLOCKS
  <2>1. CASE lh' = lh
    BY <2>1
  <2>2. CASE lh' = Append(lh, blk[o]) /\ ~BadLogWrite
    <3>1. Len(lh') = Len(lh) + 1 /\ lh' \in Seq(Block)
      BY <1>b, <2>2, AppendProperties
    <3> QED  BY <2>2, <3>1, SizeAssumption, LenProperties DEF BadLogWrite
  <2> QED  BY <1>c, <2>1, <2>2
<1>e. \A x \in Block : Logged(x, lh') <=> Logged(x, lh) \/ (x = blk[o] /\ lh' # lh)
  <2>1. CASE lh' = lh
    BY <2>1
  <2>2. CASE lh' = Append(lh, blk[o])
    <3>1. /\ DOMAIN lh = 1..Len(lh) /\ DOMAIN lh' = 1..(Len(lh) + 1) /\ Len(lh) \in Nat
          /\ \A i \in 1..Len(lh) : lh'[i] = lh[i]
          /\ lh'[Len(lh) + 1] = blk[o]
      BY <1>b, <1>d, <2>2, AppendProperties
    <3>2. lh' # lh
      BY <3>1
    <3>3. ASSUME NEW x \in Block, Logged(x, lh)
          PROVE  Logged(x, lh')
      BY <3>1, <3>3 DEF Logged
    <3>4. Logged(blk[o], lh')
      BY <3>1 DEF Logged
    <3>5. ASSUME NEW x \in Block, Logged(x, lh')
          PROVE  Logged(x, lh) \/ x = blk[o]
      <4>1. PICK i \in 1..(Len(lh) + 1) : lh'[i] = x
        BY <3>1, <3>5 DEF Logged
      <4>2. i \in 1..Len(lh) \/ i = Len(lh) + 1
        BY <3>1
      <4> QED  BY <3>1, <4>1, <4>2 DEF Logged
    <3> QED  BY <3>2, <3>3, <3>4, <3>5
  <2> QED  BY <1>c, <2>1, <2>2
<1>1. TypeOK'
  BY <1>d DEF LogWrite, Goto, disk, bounds, PC
<1>2. CallsCounted'
  BY DEF LogWrite, Goto, CallsCounted, Users, Commits
<1>3. Reserved'
  <2>1. IsFiniteSet(LoggedPairs) /\ Cardinality(LoggedPairs) \in Nat
    BY PairsCounted
  <2>2. (IsFiniteSet(LoggedPairs) /\ Cardinality(LoggedPairs) \in Nat)'
    BY <1>2, PairsCounted, PTL
  <2>3. CASE lh' = lh
    <3>1. LoggedPairs' = LoggedPairs
      BY <2>3 DEF LogWrite, LoggedPairs
    <3> QED  BY <1>b, <2>3, <3>1 DEF Reserved
  <2>4. CASE lh' = Append(lh, blk[o]) /\ ~Logged(blk[o], lh)
    <3> DEFINE w == <<o, blk[o]>>
    <3>1. w \notin LoggedPairs /\ w \in LoggedPairs' /\ LoggedPairs \subseteq LoggedPairs'
      BY <1>b, <1>e, <2>4 DEF LogWrite, Goto, CallsCounted, LoggedPairs
    <3>2. Cardinality(LoggedPairs \cup {w}) = Cardinality(LoggedPairs) + 1
      BY <2>1, <3>1, FS_AddElement
    <3>3. Cardinality(LoggedPairs \cup {w}) <= Cardinality(LoggedPairs')
      BY <2>2, <3>1, FS_Subset
    <3>4. Len(lh') = Len(lh) + 1 /\ Len(lh) \in Nat
      BY <1>b, <2>4, AppendProperties
    <3> HIDE DEF w
    <3> QED  BY <1>b, <2>1, <2>2, <3>2, <3>3, <3>4, SizeAssumption DEF Reserved
  <2> QED  BY <1>c, <2>3, <2>4
<1>4. (NoneTwice(lh) /\ NoneTwice(header))'
  BY DEF LogWrite, disk, NoneTwice, Logged
<1>5. CommitInOrder'
  <2>1. header' = << >> /\ tail' = 1
    BY <1>0, <1>a DEF LogWrite, disk, CommitInOrder, Commits
  <2>2. ASSUME NEW x \in Block
        PROVE  (home[x] = cache[x] \/ Logged(x, lh) \/ Changing(x))'
    <3>1. home[x] = cache[x] \/ Logged(x, lh) \/ Changing(x)
      BY <1>0, <1>a DEF CommitInOrder, Commits
    <3>2. CASE Changing(x)
      <4>1. PICK p \in Op : blk[p] = x \/ (pc[p] = "panic" /\ x \in wrote[p])
        BY <3>2 DEF Changing
      <4>2. CASE p # o
        BY <4>1, <4>2 DEF LogWrite, Goto, Changing
      <4>3. CASE p = o
        <5>1. blk[o] = x /\ x \in wrote[o]
          BY <4>1, <4>3 DEF LogWrite, Goto, CallsCounted
        <5>2. CASE BadLogWrite
          BY <5>1, <5>2 DEF LogWrite, Goto, Changing
        <5>3. CASE ~BadLogWrite
          BY <1>c, <1>e, <5>1, <5>3 DEF LogWrite
        <5> QED  BY <5>2, <5>3
      <4> QED  BY <4>2, <4>3
    <3> QED  BY <1>e, <3>1, <3>2 DEF LogWrite, disk
  <2> QED  BY <1>a, <1>b, <2>1, <2>2 DEF CommitInOrder, Commits
<1>6. RecoverInOrder'
  BY DEF LogWrite, Goto, RecoverInOrder
<1>7. PanicOnlyFull'
  <2>1. ASSUME BadLogWrite, Cardinality(wrote[o]) # MAXOPBLOCKS
        PROVE  FALSE
    <3>1. Len(lh) >= LOGBLOCKS
      BY <1>b, <2>1 DEF BadLogWrite
    <3>2. IsFiniteSet(wrote[o]) /\ Cardinality(wrote[o]) \in Nat /\ Cardinality(wrote[o]) <= OpBlocks
      BY FS_CardinalityType DEF CallsCounted
    <3>3. Cardinality(wrote[o]) < MAXOPBLOCKS
      BY <2>1, <3>2, SizeAssumption
    <3>4. Cardinality(LoggedPairs) < outstanding * MAXOPBLOCKS
      BY <1>0, <3>3, PairsLess
    <3>5. Cardinality(LoggedPairs) \in Nat /\ Len(lh) \in Nat /\ outstanding * MAXOPBLOCKS \in Nat
      BY PairsCounted, SizeAssumption
    <3>6. Len(lh) + outstanding * MAXOPBLOCKS <= LOGBLOCKS + Cardinality(LoggedPairs)
      BY DEF Reserved
    <3>7. LOGBLOCKS \in Nat
      BY SizeAssumption
    <3>8. ASSUME NEW len \in Nat, NEW pairs \in Nat, NEW room \in Nat, NEW blocks \in Nat,
                 len >= blocks, pairs < room, len + room <= blocks + pairs
          PROVE  FALSE
      BY <3>8
    <3> HIDE DEF Reserved
    <3> QED  BY <3>1, <3>4, <3>5, <3>6, <3>7, <3>8
  <2> QED  BY <2>1 DEF LogWrite, Goto, PanicOnlyFull
<1>8. SleepsForReason'
  <2>1. Len(lh) \in Nat /\ Len(lh') \in Nat /\ Len(lh) <= Len(lh')
    BY DEF LogWrite, Goto
  <2>2. (outstanding + 1) * MAXOPBLOCKS \in Nat /\ LOGBLOCKS \in Nat
    BY SizeAssumption DEF CallsCounted
  <2>3. ASSUME NEW a \in Nat, NEW b \in Nat, a <= b, NEW room \in Nat, NEW n \in Nat, b + room <= n
        PROVE  a + room <= n
    BY <2>3
  <2>4. outstanding' = outstanding
    BY DEF LogWrite
  <2>5. ASSUME Space'
        PROVE  Space
    <3>1. Len(lh') + (outstanding + 1) * MAXOPBLOCKS <= LOGBLOCKS
      BY <2>4, <2>5 DEF Space
    <3>2. Len(lh) + (outstanding + 1) * MAXOPBLOCKS <= LOGBLOCKS
      BY <2>1, <2>2, <2>3, <3>1
    <3> QED  BY <3>2 DEF Space
  <2> QED  BY <2>5 DEF LogWrite, Goto, SleepsForReason
<1> QED  BY <1>1, <1>2, <1>3, <1>4, <1>5, <1>6, <1>7, <1>8

\* A call that ends gives its reservation back; the last one commits if anything is logged.
LEMMA EndOpCore ==
  ASSUME NEW o \in Op, Core, EndOp(o)
  PROVE  Core'
<1> USE DEF Core, TypeOK
<1>0. /\ Users \in SUBSET Op /\ o \in Users /\ boot = "up" /\ boot' = "up"
      /\ ~committing /\ \A p \in Op : pc[p] \notin Commits
  BY DEF EndOp, CallsCounted, Users
<1>a. \A p \in Op : pc'[p] = IF p # o THEN IF LastOut \/ pc[p] # "asleep" THEN pc[p] ELSE "begin"
                             ELSE IF ~LastOut THEN "out"
                             ELSE IF lh = << >> THEN "finish" ELSE "write_log"
  BY <1>0 DEF EndOp, Woken
<1>b. Users' = Users \ {o}
  BY <1>0, <1>a DEF Users
<1>c. outstanding' = Cardinality(Users') /\ outstanding' \in 0..Cardinality(Op) /\ outstanding > 0
  <2>1. Users' \in SUBSET Op
    BY <1>0, <1>b
  <2>2. outstanding' = Cardinality(Users')
    BY <1>0, <1>b, Counted DEF EndOp, CallsCounted
  <2>3. Cardinality(Users) # 0 /\ Cardinality(Users) \in 0..Cardinality(Op)
    BY <1>0, Counted
  <2>4. outstanding > 0
    BY <2>3 DEF CallsCounted
  <2> QED  BY <2>1, <2>2, <2>4, Counted
<1>d. committing' <=> LastOut
  BY <1>0 DEF EndOp
<1>e. LastOut => Users' = {}
  <2>1. Users' \in SUBSET Op
    BY <1>0, <1>b
  <2>2. LastOut => Cardinality(Users') = 0
    BY <1>c DEF LastOut, EndOp
  <2> QED  BY <1>0, <2>1, <2>2, Counted
<1>1. TypeOK'
  <2>1. pc' \in [Op -> PC] /\ wrote' \in [Op -> SUBSET Block]
    BY <1>0 DEF EndOp, Woken, PC
  <2>2. committing' \in BOOLEAN
    BY DEF EndOp
  <2> QED  BY <1>c, <2>1, <2>2 DEF EndOp, disk, bounds
<1>2. CallsCounted'
  <2>1. \A p \in Op : wrote'[p] = IF p = o THEN {} ELSE wrote[p]
    BY DEF EndOp
  <2>2. IsFiniteSet({}) /\ Cardinality({}) <= OpBlocks
    BY FS_EmptySet, SizeAssumption
  <2>3. \A p \in Op : IsFiniteSet(wrote'[p]) /\ Cardinality(wrote'[p]) <= OpBlocks
    BY <2>1, <2>2 DEF CallsCounted
  <2>4. committing' => Users' = {} /\ boot' = "up"
    BY <1>0, <1>d, <1>e
  <2>5. ASSUME NEW p \in Op
        PROVE  /\ pc'[p] \in Commits => committing' /\ \A q \in Op : pc'[q] \in Commits => q = p
               /\ pc'[p] = "log" <=> blk'[p] # NoBlock
               /\ pc'[p] = "log" => blk'[p] \in wrote'[p]
               /\ p \notin Users' => wrote'[p] = {}
    <3>1. blk'[p] = blk[p] /\ pc[o] = "in"
      BY DEF EndOp
    <3>2. pc'[p] \in Commits => p = o /\ LastOut
      BY <1>0, <1>a DEF Commits
    <3>3. \A q \in Op : pc'[q] \in Commits => q = o
      BY <1>0, <1>a DEF Commits
    <3> QED  BY <1>a, <1>b, <1>d, <2>1, <3>1, <3>2, <3>3 DEF CallsCounted
  <2> QED  BY <1>0, <1>c, <2>3, <2>4, <2>5 DEF CallsCounted
<1>3. Reserved'
  <2>1. IsFiniteSet(LoggedPairs) /\ Cardinality(LoggedPairs) \in Nat
    BY PairsCounted
  <2>2. LoggedPairs' \subseteq LoggedPairs /\ \A x \in LoggedPairs \ LoggedPairs' : x[1] = o
    BY DEF EndOp, LoggedPairs
  <2>3. Cardinality(LoggedPairs \ LoggedPairs') <= MAXOPBLOCKS
    BY <1>0, <2>2, PairsOfOne
  <2>4. /\ Cardinality(LoggedPairs \ LoggedPairs') = Cardinality(LoggedPairs) - Cardinality(LoggedPairs')
        /\ Cardinality(LoggedPairs') \in Nat
    <3>1. LoggedPairs \cap LoggedPairs' = LoggedPairs' /\ LoggedPairs' \in SUBSET LoggedPairs
      BY <2>2
    <3> QED  BY <2>1, <3>1, FS_Difference, FS_Subset, FS_CardinalityType
  <2>5. outstanding' = outstanding - 1 /\ lh' = lh /\ Len(lh) \in Nat
    BY DEF EndOp
  <2>6. outstanding' * MAXOPBLOCKS = outstanding * MAXOPBLOCKS - MAXOPBLOCKS
        /\ outstanding * MAXOPBLOCKS \in Int
    BY <1>c, <2>5, SizeAssumption, SMT
  <2> QED  BY <2>1, <2>3, <2>4, <2>5, <2>6, SizeAssumption DEF Reserved
<1>4. (NoneTwice(lh) /\ NoneTwice(header))'
  BY DEF EndOp, disk
<1>5. CommitInOrder'
  <2>1. header' = << >> /\ tail' = 1
    BY <1>0 DEF EndOp, disk, CommitInOrder, Commits
  <2>2. ASSUME NEW x \in Block
        PROVE  (home[x] = cache[x] \/ Logged(x, lh) \/ Changing(x))'
    <3>1. home[x] = cache[x] \/ Logged(x, lh) \/ Changing(x)
      BY <1>0 DEF CommitInOrder, Commits
    <3>2. Changing(x) => Changing(x)'
      <4>1. ASSUME NEW p \in Op, blk[p] = x \/ (pc[p] = "panic" /\ x \in wrote[p])
            PROVE  blk'[p] = x \/ (pc'[p] = "panic" /\ x \in wrote'[p])
        BY <1>a, <4>1 DEF EndOp
      <4> QED  BY <4>1 DEF Changing
    <3> QED  BY <3>1, <3>2 DEF EndOp, disk, Logged
  <2>3. outstanding' = 0 => committing'
    BY <1>0, <1>c, <1>d DEF EndOp, LastOut
  <2>4. \A p \in Op : /\ pc'[p] \notin {"install", "erase"}
                      /\ pc'[p] = "write_log" => lh' # << >>
                      /\ pc'[p] = "finish" => lh' = << >>
    BY <1>0, <1>a DEF EndOp, Commits
  <2>5. Copied(0)'
    BY DEF Copied
  <2>6. tail' <= Len(lh') + 1
    BY <2>1 DEF EndOp
  <2> QED  BY <2>1, <2>2, <2>3, <2>4, <2>5, <2>6 DEF CommitInOrder
<1>6. RecoverInOrder'
  BY DEF EndOp, RecoverInOrder
<1>7. PanicOnlyFull'
  <2>1. ASSUME NEW p \in Op, pc'[p] = "panic"
        PROVE  pc[p] = "panic" /\ p # o
    BY <1>a, <2>1
  <2>2. \A p \in Op : p # o => wrote'[p] = wrote[p]
    BY DEF EndOp
  <2> QED  BY <2>1, <2>2 DEF PanicOnlyFull
<1>8. SleepsForReason'
  BY <1>a, <1>d DEF EndOp, SleepsForReason
<1> QED  BY <1>1, <1>2, <1>3, <1>4, <1>5, <1>6, <1>7, <1>8

\* Blocks are copied to the log one after the other, while nobody changes the cache.
LEMMA WriteLogCore ==
  ASSUME NEW o \in Op, Core, WriteLog(o)
  PROVE  Core'
<1> USE DEF Core, TypeOK
<1>1. TypeOK'
  BY SizeAssumption DEF WriteLog, mem, bounds, Goto, Slot
<1>2. CallsCounted'
  BY DEF WriteLog, mem, Goto, CallsCounted, Users
<1>3. Reserved'
  BY DEF WriteLog, mem, Reserved, LoggedPairs
<1>4. (NoneTwice(lh) /\ NoneTwice(header))'
  BY DEF WriteLog, mem
<1>5. CommitInOrder'
  <2>1. /\ boot = "up" /\ lh # << >> /\ tail <= Len(lh) /\ Copied(tail - 1) /\ committing
        /\ slot' = [slot EXCEPT ![tail] = cache[lh[tail]]] /\ tail' = tail + 1
        /\ pc' = pc /\ lh' = lh /\ cache' = cache /\ home' = home /\ header' = header
        /\ boot' = boot /\ committing' = committing /\ blk' = blk /\ wrote' = wrote
    BY DEF WriteLog, Goto, mem, CommitInOrder, CallsCounted, Commits
  <2>2. \A p \in Op : pc[p] \in Commits => p = o
    BY DEF WriteLog, Goto, CallsCounted, Commits
  <2>3. \A p \in Op : pc[p] \notin {"install", "erase"} /\ (pc[p] = "write_log" => p = o)
    BY <2>2 DEF WriteLog, Goto, Commits
  <2>4. Copied(tail - 1)'
    <3>1. ASSUME NEW i \in 1..(tail' - 1)
          PROVE  slot'[i] = cache[lh[i]]
      <4>1. i \in Slot /\ (i = tail \/ i \in 1..(tail - 1)) /\ tail \in Slot
        BY <2>1, <3>1, SizeAssumption DEF Slot
      <4>2. slot'[i] = IF i = tail THEN cache[lh[tail]] ELSE slot[i]
        BY <2>1, <4>1
      <4> QED  BY <2>1, <4>1, <4>2 DEF Copied
    <3> QED  BY <2>1, <3>1 DEF Copied
  <2>5. tail' <= Len(lh') + 1
    BY <2>1
  <2>6. header' = << >> /\ \A x \in Block : (home[x] = cache[x] \/ Logged(x, lh) \/ Changing(x))'
    BY <2>1, <2>3 DEF CommitInOrder, Changing
  <2>7. pc'[o] = "write_log"
    BY <2>1 DEF WriteLog, Goto
  <2>8. \A p \in Op : pc'[p] # "finish"
    BY <2>1, <2>2, <2>7 DEF Commits
  <2> QED  BY <2>1, <2>3, <2>4, <2>5, <2>6, <2>7, <2>8 DEF CommitInOrder
<1>6. RecoverInOrder'
  BY DEF WriteLog, Goto, RecoverInOrder
<1>7. PanicOnlyFull'
  BY DEF WriteLog, Goto, PanicOnlyFull
<1>8. SleepsForReason'
  BY DEF WriteLog, mem, Goto, SleepsForReason, Space
<1> QED  BY <1>1, <1>2, <1>3, <1>4, <1>5, <1>6, <1>7, <1>8

\* The header is written when the whole log is, so it names what the log holds.
LEMMA WriteHeadCore ==
  ASSUME NEW o \in Op, Core, WriteHead(o)
  PROVE  Core'
<1> USE DEF Core, TypeOK
<1>1. TypeOK'
  BY SizeAssumption DEF WriteHead, mem, bounds, Goto, PC
<1>2. CallsCounted'
  BY DEF WriteHead, mem, Goto, CallsCounted, Users, Commits
<1>3. Reserved'
  BY DEF WriteHead, mem, Reserved, LoggedPairs
<1>4. (NoneTwice(lh) /\ NoneTwice(header))'
  BY DEF WriteHead, mem
<1>5. CommitInOrder'
  BY BlockAssumption DEF WriteHead, mem, Goto, CallsCounted, Users, Commits, CommitInOrder,
     Copied, Changing, Logged
<1>6. RecoverInOrder'
  BY DEF WriteHead, Goto, RecoverInOrder
<1>7. PanicOnlyFull'
  BY DEF WriteHead, Goto, PanicOnlyFull
<1>8. SleepsForReason'
  BY DEF WriteHead, mem, Goto, SleepsForReason, Space
<1> QED  BY <1>1, <1>2, <1>3, <1>4, <1>5, <1>6, <1>7, <1>8

\* A block goes home from the cache, which still holds what was committed.
LEMMA InstallCore ==
  ASSUME NEW o \in Op, Core, Install(o)
  PROVE  Core'
<1> USE DEF Core, TypeOK
<1>1. TypeOK'
  <2>1. tail \in Slot /\ tail \in 1..Len(lh) /\ lh[tail] \in Block
    BY ElementOfSeq, SizeAssumption DEF Install, Goto, CommitInOrder, Slot
  <2>2. home' \in [Block -> Val] /\ pc' \in [Op -> PC]
    BY <2>1 DEF Install, Goto, PC
  <2>3. tail' \in 1..(LOGBLOCKS + 1)
    BY <2>1, SizeAssumption DEF Install
  <2> QED  BY <2>2, <2>3 DEF Install, mem, bounds
<1>2. CallsCounted'
  BY DEF Install, mem, Goto, CallsCounted, Users, Commits
<1>3. Reserved'
  BY DEF Install, mem, Reserved, LoggedPairs
<1>4. (NoneTwice(lh) /\ NoneTwice(header))'
  BY DEF Install, mem
<1>5. CommitInOrder'
  BY DEF Install, mem, Goto, CommitInOrder, Copied
<1>6. RecoverInOrder'
  BY DEF Install, Goto, RecoverInOrder
<1>7. PanicOnlyFull'
  BY DEF Install, Goto, PanicOnlyFull
<1>8. SleepsForReason'
  BY DEF Install, mem, Goto, SleepsForReason, Space
<1> QED  BY <1>1, <1>2, <1>3, <1>4, <1>5, <1>6, <1>7, <1>8

\* The header is erased when all it names is at home.
LEMMA EraseCore ==
  ASSUME NEW o \in Op, Core, Erase(o)
  PROVE  Core'
<1> USE DEF Core, TypeOK
<1>1. TypeOK'
  BY SizeAssumption DEF Erase, bounds, Goto, PC
<1>2. CallsCounted'
  BY DEF Erase, Goto, CallsCounted, Users, Commits
<1>3. Reserved'
  <2>1. committing /\ Users = {} /\ outstanding = 0
    BY Counted DEF Erase, Goto, CallsCounted, Commits
  <2>2. Idle'
    BY <2>1 DEF Erase, CallsCounted, Idle
  <2> HIDE DEF TypeOK, Core
  <2> QED  BY <1>1, <2>2, ReservedIdle, PTL
<1>4. (NoneTwice(lh) /\ NoneTwice(header))'
  BY DEF Erase, NoneTwice
<1>5. CommitInOrder'
  BY DEF Erase, Goto, CallsCounted, Commits, CommitInOrder
<1>6. RecoverInOrder'
  BY DEF Erase, Goto, RecoverInOrder
<1>7. PanicOnlyFull'
  BY DEF Erase, Goto, PanicOnlyFull
<1>8. SleepsForReason'
  BY DEF Erase, Goto, CallsCounted, Commits, SleepsForReason
<1> QED  BY <1>1, <1>2, <1>3, <1>4, <1>5, <1>6, <1>7, <1>8

\* The commit ends with an empty log, so that everyone who waited is woken.
LEMMA FinishCore ==
  ASSUME NEW o \in Op, Core, Finish(o)
  PROVE  Core'
<1> USE DEF Core, TypeOK
<1>1. TypeOK'
  BY DEF Finish, disk, bounds, Woken, PC
<1>2. CallsCounted'
  BY DEF Finish, Woken, CallsCounted, Users, Commits
<1>3. Reserved'
  BY DEF Finish, Reserved, LoggedPairs
<1>4. (NoneTwice(lh) /\ NoneTwice(header))'
  BY DEF Finish, disk
<1>5. CommitInOrder'
  BY DEF Finish, disk, Woken, CommitInOrder, Copied, Changing
<1>6. RecoverInOrder'
  BY DEF Finish, RecoverInOrder
<1>7. PanicOnlyFull'
  BY DEF Finish, Woken, PanicOnlyFull
<1>8. SleepsForReason'
  BY DEF Finish, Woken, SleepsForReason
<1> QED  BY <1>1, <1>2, <1>3, <1>4, <1>5, <1>6, <1>7, <1>8

\* What a crash leaves is a disk that recovery can read: a header is whole or absent.
LEMMA CrashCore ==
  ASSUME Core, Crash
  PROVE  Core'
<1> USE DEF Core, TypeOK
<1>1. TypeOK'
  <2>1. 0 \in 0..Cardinality(Op) /\ 1 \in 1..(LOGBLOCKS + 1)
    BY OpAssumption, FS_CardinalityType, SizeAssumption
  <2>2. << >> \in Seq(Block) /\ Len(<< >>) <= LOGBLOCKS
    BY EmptySeq, SizeAssumption
  <2>3. crashes' \in 0..MaxCrashes
    BY BoundAssumption DEF Crash
  <2> QED  BY <2>1, <2>2, <2>3 DEF Crash, disk, PC
<1>2. CallsCounted'
  <2>1. Users' = {}
    BY DEF Crash, Users
  <2>2. Cardinality({}) = 0 /\ IsFiniteSet({}) /\ 0 <= OpBlocks
    BY FS_EmptySet, SizeAssumption
  <2>3. \A p \in Op : wrote'[p] = {} /\ pc'[p] = "out" /\ blk'[p] = NoBlock
    BY DEF Crash
  <2>4. outstanding' = 0 /\ committing' = FALSE
    BY DEF Crash
  <2> QED  BY <2>1, <2>2, <2>3, <2>4 DEF CallsCounted, Commits
<1>3. Reserved'
  <2>1. Idle'
    BY DEF Crash, Idle
  <2> HIDE DEF TypeOK, Core
  <2> QED  BY <1>1, <2>1, ReservedIdle, PTL
<1>4. (NoneTwice(lh) /\ NoneTwice(header))'
  BY DEF Crash, disk, NoneTwice
<1>5. CommitInOrder'
  BY DEF Crash, CommitInOrder
<1>6. RecoverInOrder'
  BY DEF Crash, disk, RecoverInOrder
<1>7. PanicOnlyFull'
  BY DEF Crash, PanicOnlyFull
<1>8. SleepsForReason'
  BY DEF Crash, SleepsForReason
<1> QED  BY <1>1, <1>2, <1>3, <1>4, <1>5, <1>6, <1>7, <1>8

\* Recovery starts from the header on the disk.
LEMMA RecoverReadHeadCore ==
  ASSUME Core, RecoverReadHead
  PROVE  Core'
<1> USE DEF Core, TypeOK
<1>1. TypeOK'
  BY DEF RecoverReadHead, disk, bounds
<1>2. CallsCounted'
  BY DEF RecoverReadHead, CallsCounted, Users
<1>3. Reserved'
  <2>1. boot # "up" /\ Users = {} /\ \A p \in Op : wrote[p] = {}
    BY DEF RecoverReadHead, CallsCounted, Users
  <2>2. outstanding = 0
    BY <2>1, FS_EmptySet DEF CallsCounted
  <2>3. Idle'
    BY <2>1, <2>2 DEF RecoverReadHead, Idle
  <2> HIDE DEF TypeOK, Core
  <2> QED  BY <1>1, <2>3, ReservedIdle, PTL
<1>4. (NoneTwice(lh) /\ NoneTwice(header))'
  BY DEF RecoverReadHead, disk
<1>5. CommitInOrder'
  BY DEF RecoverReadHead, CommitInOrder
<1>6. RecoverInOrder'
  BY DEF RecoverReadHead, disk, RecoverInOrder
<1>7. PanicOnlyFull'
  BY DEF RecoverReadHead, PanicOnlyFull
<1>8. SleepsForReason'
  BY DEF RecoverReadHead, CallsCounted, SleepsForReason
<1> QED  BY <1>1, <1>2, <1>3, <1>4, <1>5, <1>6, <1>7, <1>8

\* Recovery copies what the log holds.
LEMMA RecoverInstallCore ==
  ASSUME Core, RecoverInstall
  PROVE  Core'
<1> USE DEF Core, TypeOK
<1>1. TypeOK'
  <2>1. tail \in Slot /\ tail \in 1..Len(lh) /\ lh[tail] \in Block
    BY ElementOfSeq, SizeAssumption DEF RecoverInstall, Slot
  <2>2. home' \in [Block -> Val] /\ cache' \in [Block -> Val]
    BY <2>1 DEF RecoverInstall
  <2>3. tail' \in 1..(LOGBLOCKS + 1)
    BY <2>1, SizeAssumption DEF RecoverInstall
  <2> QED  BY <2>2, <2>3 DEF RecoverInstall, mem, bounds
<1>2. CallsCounted'
  BY DEF RecoverInstall, mem, CallsCounted, Users
<1>3. Reserved'
  BY DEF RecoverInstall, mem, Reserved, LoggedPairs
<1>4. (NoneTwice(lh) /\ NoneTwice(header))'
  BY DEF RecoverInstall, mem
<1>5. CommitInOrder'
  BY DEF RecoverInstall, CommitInOrder
<1>6. RecoverInOrder'
  BY DEF RecoverInstall, mem, RecoverInOrder, NoneTwice
<1>7. PanicOnlyFull'
  BY DEF RecoverInstall, PanicOnlyFull
<1>8. SleepsForReason'
  BY DEF RecoverInstall, CallsCounted, SleepsForReason
<1> QED  BY <1>1, <1>2, <1>3, <1>4, <1>5, <1>6, <1>7, <1>8

\* Recovery erases the header when all of it is at home.
LEMMA RecoverEraseCore ==
  ASSUME Core, RecoverErase
  PROVE  Core'
<1> USE DEF Core, TypeOK
<1>1. TypeOK'
  BY SizeAssumption DEF RecoverErase, bounds
<1>2. CallsCounted'
  BY DEF RecoverErase, CallsCounted, Users
<1>3. Reserved'
  <2>1. boot # "up" /\ Users = {} /\ \A p \in Op : wrote[p] = {}
    BY DEF RecoverErase, CallsCounted, Users
  <2>2. outstanding = 0
    BY <2>1, FS_EmptySet DEF CallsCounted
  <2>3. Idle'
    BY <2>1, <2>2 DEF RecoverErase, Idle
  <2> HIDE DEF TypeOK, Core
  <2> QED  BY <1>1, <2>3, ReservedIdle, PTL
<1>4. (NoneTwice(lh) /\ NoneTwice(header))'
  BY DEF RecoverErase, NoneTwice
<1>5. CommitInOrder'
  <2>1. \A p \in Op : pc'[p] = "out"
    BY DEF RecoverErase, CallsCounted
  <2>2. header' = << >> /\ lh' = << >> /\ tail' = 1 /\ \A x \in Block : home'[x] = cache'[x]
    BY DEF RecoverErase, RecoverInOrder
  <2> QED  BY <2>1, <2>2 DEF CommitInOrder
<1>6. RecoverInOrder'
  BY DEF RecoverErase, RecoverInOrder
<1>7. PanicOnlyFull'
  BY DEF RecoverErase, PanicOnlyFull
<1>8. SleepsForReason'
  BY DEF RecoverErase, CallsCounted, SleepsForReason
<1> QED  BY <1>1, <1>2, <1>3, <1>4, <1>5, <1>6, <1>7, <1>8

\* A fresh disk with an empty log, before the first recovery.
LEMMA InitCore == Init => Core
<1> SUFFICES ASSUME Init
             PROVE  Core
  OBVIOUS
<1>1. << >> \in Seq(Block) /\ Len(<< >>) = 0
  BY EmptySeq
<1>2. Users = {} /\ Cardinality({}) = 0 /\ IsFiniteSet({})
  BY FS_EmptySet DEF Init, Users
<1>3. TypeOK
  <2>1. 0 \in 0..Cardinality(Op) /\ 0 \in Val /\ 0 \in 0..MaxCrashes /\ 1 \in 1..(LOGBLOCKS + 1)
    BY OpAssumption, FS_CardinalityType, SizeAssumption, BoundAssumption DEF Val
  <2>2. header \in Seq(Block) /\ Len(header) <= LOGBLOCKS /\ lh \in Seq(Block) /\ Len(lh) <= LOGBLOCKS
    BY <1>1, SizeAssumption DEF Init
  <2>3. home \in [Block -> Val] /\ cache \in [Block -> Val] /\ slot \in [Slot -> Val]
    BY <2>1 DEF Init
  <2>4. pc \in [Op -> PC] /\ blk \in [Op -> Block \cup {NoBlock}] /\ wrote \in [Op -> SUBSET Block]
    BY DEF Init, PC
  <2> QED  BY <2>1, <2>2, <2>3, <2>4 DEF Init, TypeOK
<1>4. CallsCounted
  BY <1>2, SizeAssumption DEF Init, CallsCounted, Commits
<1>5. Reserved
  BY <1>3, ReservedIdle DEF Init, Idle
<1>6. NoneTwice(lh) /\ NoneTwice(header) /\ CommitInOrder /\ RecoverInOrder
  BY <1>1 DEF Init, NoneTwice, CommitInOrder, RecoverInOrder
<1>7. PanicOnlyFull /\ SleepsForReason
  BY DEF Init, PanicOnlyFull, SleepsForReason
<1> QED  BY <1>3, <1>4, <1>5, <1>6, <1>7 DEF Core

\* Every step keeps the invariant.
LEMMA StepCore == Core /\ [Next]_vars => Core'
<1> SUFFICES ASSUME Core, [Next]_vars
             PROVE  Core'
  OBVIOUS
<1>1. CASE \E o \in Op : \/ BeginOp(o) \/ LogWrite(o) \/ EndOp(o) \/ Commit(o)
                         \/ \E b \in Block : Modify(o, b)
  BY <1>1, BeginOpCore, ModifyCore, LogWriteCore, EndOpCore, WriteLogCore, WriteHeadCore,
     InstallCore, EraseCore, FinishCore DEF Commit
<1>2. CASE Recover \/ Crash
  BY <1>2, RecoverReadHeadCore, RecoverInstallCore, RecoverEraseCore, CrashCore DEF Recover
<1>3. CASE UNCHANGED vars
  BY <1>3 DEF vars, disk, mem, bounds, Core, TypeOK, CallsCounted, Users, Reserved, LoggedPairs,
              Logged, NoneTwice, CommitInOrder, Copied, Changing, RecoverInOrder, PanicOnlyFull,
              SleepsForReason, Space
<1> QED  BY <1>1, <1>2, <1>3 DEF Next

\* The strengthened invariant holds in every reachable state.
LEMMA CoreInvariant == Spec => []Core
<1> QED  BY InitCore, StepCore, PTL DEF Spec

-------------------------------------------------------------------------------
(* What a crash would leave *)

\* Replaying a log gives each of its blocks the content of its slot, and leaves the
\* other blocks.
ReplayOK(h) == /\ Replay(h) \in [Block -> {slot[i] : i \in DOMAIN h} \cup {home[b] : b \in Block}]
               /\ \A i \in DOMAIN h : Replay(h)[h[i]] = slot[i]
               /\ \A b \in Block : ~Logged(b, h) => Replay(h)[b] = home[b]

\* Installing a log writes, in each block it names, what the log holds for it.
LEMMA ReplayIs == \A h \in Seq(Block) : NoneTwice(h) => ReplayOK(h)
<1> SUFFICES ASSUME NEW h \in Seq(Block), NoneTwice(h)
             PROVE  ReplayOK(h)
  OBVIOUS
<1>1. ASSUME NEW i \in DOMAIN h
      PROVE  Replay(h)[h[i]] = slot[i]
  <2>1. h[i] \in Block /\ Logged(h[i], h)
    BY LenProperties, ElementOfSeq DEF Logged
  <2>2. (CHOOSE j \in DOMAIN h : h[j] = h[i]) = i
    BY DEF NoneTwice
  <2> QED  BY <2>1, <2>2 DEF Replay
<1>2. \A b \in Block : ~Logged(b, h) => Replay(h)[b] = home[b]
  BY DEF Replay
<1>3. ASSUME NEW b \in Block
      PROVE  Replay(h)[b] \in {slot[i] : i \in DOMAIN h} \cup {home[x] : x \in Block}
  <2>1. CASE Logged(b, h)
    <3>1. PICK i \in DOMAIN h : h[i] = b
      BY <2>1 DEF Logged
    <3> QED  BY <1>1, <3>1
  <2>2. CASE ~Logged(b, h)
    BY <1>2, <2>2
  <2> QED  BY <2>1, <2>2
<1>4. Replay(h) \in [Block -> {slot[i] : i \in DOMAIN h} \cup {home[b] : b \in Block}]
  BY <1>3 DEF Replay
<1> QED  BY <1>1, <1>2, <1>4 DEF ReplayOK

\* An empty log leaves everything.
LEMMA ReplayNone == TypeOK /\ header = << >> => Replay(header) = home
<1> QED  BY DEF TypeOK, Replay, Logged

\* A log whose slots hold the blocks that are not home yet is the whole state.
LEMMA ReplayAll ==
  ASSUME TypeOK, NoneTwice(header), \A i \in DOMAIN header : slot[i] = cache[header[i]],
         \A b \in Block : home[b] = cache[b] \/ Logged(b, header)
  PROVE  Replay(header) = cache
<1>1. ReplayOK(header)
  BY ReplayIs DEF TypeOK
<1>2. ASSUME NEW b \in Block
      PROVE  Replay(header)[b] = cache[b]
  <2>1. CASE Logged(b, header)
    <3>1. PICK i \in DOMAIN header : header[i] = b
      BY <2>1 DEF Logged
    <3> QED  BY <1>1, <3>1 DEF ReplayOK
  <2>2. CASE ~Logged(b, header)
    BY <1>1, <2>2 DEF ReplayOK
  <2> QED  BY <2>1, <2>2
<1> QED  BY <1>1, <1>2 DEF ReplayOK, TypeOK

\* From write_head to the end of erase the disk's log gives the state in memory.
CommittedOK ==
  \A o \in Op : Core /\ boot = "up" /\ pc[o] \in {"install", "erase"} => Replay(header) = cache

\* It does, whichever thread is committing.
LEMMA ReplayCommitted == CommittedOK
<1> SUFFICES ASSUME Core, boot = "up", NEW o \in Op, pc[o] \in {"install", "erase"}
             PROVE  Replay(header) = cache
  BY DEF CommittedOK
<1>1. header = lh /\ Copied(Len(lh)) /\ \A b \in Block : home[b] = cache[b] \/ Logged(b, lh)
  <2>1. DOMAIN lh = 1..Len(lh) /\ tail \in Nat /\ tail >= 1
    BY LenProperties DEF Core, TypeOK
  <2>2. CASE pc[o] = "install"
    <3>1. header = lh /\ Copied(Len(lh))
      BY <2>2 DEF Core, CommitInOrder
    <3>2. \A b \in Block : home[b] = cache[b] \/ \E i \in tail..Len(lh) : lh[i] = b
      BY <2>2 DEF Core, CommitInOrder
    <3>3. \A i \in tail..Len(lh) : i \in DOMAIN lh
      BY <2>1
    <3> QED  BY <3>1, <3>2, <3>3 DEF Logged
  <2>3. CASE pc[o] = "erase"
    BY <2>3 DEF Core, CommitInOrder
  <2> QED  BY <2>2, <2>3
<1>2. \A i \in DOMAIN header : slot[i] = cache[header[i]]
  BY <1>1, LenProperties DEF Core, TypeOK, Copied
<1> QED  BY <1>1, <1>2, ReplayAll DEF Core

\* With no call and no commit under way the log is empty and everything is home.
LEMMA CoreSuffices == Core => FSLogInv
<1> SUFFICES ASSUME Core
             PROVE  FSLogInv
  OBVIOUS
<1>1. ASSUME boot = "up", outstanding = 0, ~committing
      PROVE  Replay(header) = cache
  <2>1. Users = {} /\ \A o \in Op : pc[o] \notin Commits
    <3>1. Users = {}
      BY <1>1, OpAssumption, FS_Subset, FS_EmptySet DEF Core, CallsCounted, Users
    <3> QED  BY <1>1, <3>1 DEF Core, CallsCounted
  <2>2. lh = << >> /\ header = << >>
    BY <1>1, <2>1 DEF Core, CommitInOrder, Commits
  <2>3. \A b \in Block : ~Logged(b, lh) /\ ~Changing(b)
    <3>1. \A o \in Op : pc[o] \notin {"log", "panic"} /\ blk[o] = NoBlock
      BY <2>1 DEF Core, CallsCounted, Users
    <3>2. \A b \in Block : ~Changing(b)
      BY <3>1, BlockAssumption DEF Changing
    <3> QED  BY <2>2, <3>2 DEF Logged
  <2>4. \A b \in Block : home[b] = cache[b]
    BY <1>1, <2>1, <2>3 DEF Core, CommitInOrder, Commits
  <2>5. home = cache
    BY <2>4 DEF Core, TypeOK
  <2> QED  BY <2>2, <2>5, ReplayNone DEF Core
<1>2. Durable
  BY <1>1 DEF Durable
<1> QED  BY <1>2 DEF Core, FSLogInv

\* For any threads, blocks and log size: reservations cover what calls log, nothing is logged
\* twice, a commit and a recovery go in order, the log panics only when a call wrote too much,
\* no thread sleeps in begin_op without a reason, and what was committed is on the disk.
THEOREM FSLogInvariant == Spec => []FSLogInv
<1> QED  BY CoreInvariant, CoreSuffices, PTL
-------------------------------------------------------------------------------
(* The disk that crashes *)

\* A call that begins, or goes to sleep instead.
LEMMA BeginMaps == ASSUME NEW o \in Op, Core, BeginOp(o) PROVE Disk!Begin(o) \/ UNCHANGED Disk!vars
<1>1. View' = View /\ Replay(header)' = Replay(header)
  BY DEF BeginOp, disk, View, Replay, Logged
<1>2. CASE committing \/ ~Space
  <2>1. Active' = Active
    BY <1>2 DEF Core, TypeOK, BeginOp, Active
  <2> QED  BY <1>1, <2>1 DEF Disk!vars
<1>3. CASE ~(committing \/ ~Space)
  <2>1. Active' = Active \cup {o} /\ o \notin Active
    BY <1>3 DEF Core, TypeOK, BeginOp, Active
  <2> QED  BY <1>1, <2>1 DEF Disk!Begin
<1> QED  BY <1>2, <1>3

\* A call writes one block of what calls see.
LEMMA ModifyMaps == ASSUME NEW o \in Op, NEW b \in Block, Core, Modify(o, b) PROVE Disk!Write(o, b)
<1>1. Replay(header)' = Replay(header)
  BY DEF Modify, disk, Replay, Logged
<1>2. clock + 1 \in Val /\ View' = [View EXCEPT ![b] = clock + 1]
  BY BoundAssumption DEF Core, TypeOK, Val, Modify, Goto, View
<1>3. Active' = Active /\ o \in Active
  BY DEF Core, TypeOK, Modify, Goto, Active
<1> QED  BY <1>1, <1>2, <1>3 DEF Disk!Write

\* log_write changes nothing but what is to be committed; one that panics never returns.
LEMMA LogWriteMaps == ASSUME NEW o \in Op, Core, LogWrite(o) PROVE Disk!End(o) \/ UNCHANGED Disk!vars
<1>1. View' = View /\ Replay(header)' = Replay(header)
  BY DEF LogWrite, Goto, disk, View, Replay, Logged
<1>2. CASE BadLogWrite
  <2>1. Active' = Active \ {o} /\ o \in Active
    BY <1>2 DEF Core, TypeOK, LogWrite, Goto, Active
  <2> QED  BY <1>1, <2>1 DEF Disk!End
<1>3. CASE ~BadLogWrite
  <2>1. Active' = Active
    BY <1>3 DEF Core, TypeOK, LogWrite, Goto, Active
  <2> QED  BY <1>1, <2>1 DEF Disk!vars
<1> QED  BY <1>2, <1>3

\* A call ends; if it was the last one its thread goes on to commit.
LEMMA EndMaps == ASSUME NEW o \in Op, Core, EndOp(o) PROVE Disk!End(o)
<1>1. View' = View /\ Replay(header)' = Replay(header)
  BY DEF EndOp, disk, View, Replay, Logged
<1>2. ~committing
  BY DEF Core, EndOp, CallsCounted, Users
<1>3. Active' = Active \ {o} /\ o \in Active
  <2>1. pc' = IF LastOut THEN [pc EXCEPT ![o] = IF lh = << >> THEN "finish" ELSE "write_log"]
                         ELSE Woken([pc EXCEPT ![o] = "out"])
    BY <1>2 DEF EndOp
  <2>2. CASE LastOut
    BY <2>1, <2>2 DEF Core, TypeOK, EndOp, Active
  <2>3. CASE ~LastOut
    BY <2>1, <2>3 DEF Core, TypeOK, EndOp, Active, Woken
  <2> QED  BY <2>2, <2>3
<1> QED  BY <1>1, <1>3 DEF Disk!End

\* Blocks copied to the log do not count before the header says so.
LEMMA WriteLogMaps ==
  ASSUME NEW o \in Op, Core, Core', WriteLog(o)
  PROVE  UNCHANGED Disk!vars
<1>1. header = << >> /\ header' = << >> /\ home' = home
  BY DEF Core, WriteLog, Goto, disk, CommitInOrder, CallsCounted, Commits
<1>2. Replay(header)' = Replay(header)
  <2>1. Replay(header) = home
    BY <1>1, ReplayNone DEF Core
  <2>2. (TypeOK /\ header = << >>)'
    BY <1>1 DEF Core
  <2>3. (Replay(header) = home)'
    BY <2>2, ReplayNone, PTL
  <2> QED  BY <1>1, <2>1, <2>3
<1>3. View' = View /\ Active' = Active
  BY DEF Core, TypeOK, WriteLog, Goto, disk, View, Active
<1> QED  BY <1>2, <1>3 DEF Disk!vars

\* write_head commits: what calls see is what a crash leaves.
LEMMA WriteHeadMaps == ASSUME NEW o \in Op, Core, Core', WriteHead(o) PROVE Disk!Commit
<1>1. Users = {} /\ boot = "up" /\ boot' = "up" /\ pc'[o] = "install"
  BY DEF Core, TypeOK, WriteHead, Goto, CallsCounted, Commits
<1>2. Active = {} /\ Active' = {}
  BY <1>1 DEF Core, TypeOK, WriteHead, Goto, Active, Users
<1>3. (Core /\ boot = "up" /\ pc[o] \in {"install", "erase"})'
  BY <1>1
<1>4. (Replay(header) = cache)'
  <2>1. CommittedOK'
    BY ReplayCommitted, PTL
  <2> QED  BY <1>3, <2>1 DEF CommittedOK
<1>5. View = cache /\ cache' = cache /\ View' = View
  BY <1>1 DEF WriteHead, View
<1> QED  BY <1>2, <1>4, <1>5 DEF Disk!Commit

\* Copying the block of a slot home does not change what a replay of the log gives.
LEMMA ReplayKept ==
  ASSUME NEW i \in DOMAIN header, header' = header, slot' = slot,
         \A b \in Block : b # header[i] => home'[b] = home[b]
  PROVE  Replay(header)' = Replay(header)
<1>1. ASSUME NEW b \in Block, ~Logged(b, header)
      PROVE  home'[b] = home[b]
  BY <1>1 DEF Logged
<1> QED  BY <1>1 DEF Replay, Logged

\* install_trans changes home blocks that the disk's log has.
LEMMA InstallMaps ==
  ASSUME NEW o \in Op, Core, Install(o)
  PROVE  UNCHANGED Disk!vars
<1>1. /\ header = lh /\ header' = header /\ boot = "up" /\ boot' = "up" /\ tail \in DOMAIN lh
      /\ home' = [home EXCEPT ![lh[tail]] = slot[tail]] /\ slot' = slot /\ cache' = cache
  <2>1. tail <= Len(lh) /\ tail \in 1..(LOGBLOCKS + 1) /\ DOMAIN lh = 1..Len(lh) /\ Len(lh) \in Nat
    BY LenProperties DEF Core, TypeOK, Install, Goto, CommitInOrder
  <2>2. tail \in DOMAIN lh
    BY <2>1, SizeAssumption
  <2> QED  BY <2>2 DEF Core, Install, Goto, CommitInOrder
<1>2. \A b \in Block : b # header[tail] => home'[b] = home[b]
  BY <1>1 DEF Core, TypeOK
<1>3. Replay(header)' = Replay(header)
  BY <1>1, <1>2, ReplayKept
<1>4. View' = View /\ Active' = Active
  BY <1>1 DEF Core, TypeOK, Install, Goto, View, Active
<1> QED  BY <1>3, <1>4 DEF Disk!vars

\* When the log is erased everything in it is home.
LEMMA EraseMaps ==
  ASSUME NEW o \in Op, Core, Core', Erase(o)
  PROVE  UNCHANGED Disk!vars
<1>1. boot = "up" /\ boot' = "up" /\ home = cache /\ home' = home /\ cache' = cache /\ header' = << >>
  BY DEF Core, Erase, Goto, CommitInOrder
<1>2. Replay(header) = cache
  BY ReplayCommitted DEF CommittedOK, Erase, Goto
<1>3. (Replay(header) = home)'
  <2>1. (TypeOK /\ header = << >>)'
    BY <1>1 DEF Core
  <2> QED  BY <2>1, ReplayNone, PTL
<1>4. View' = View /\ Active' = Active
  BY <1>1 DEF Core, TypeOK, Erase, Goto, View, Active
<1> QED  BY <1>1, <1>2, <1>3, <1>4 DEF Disk!vars

\* end_op's second half and the first step of recovery change no block.
LEMMA FinishMaps ==
  ASSUME NEW o \in Op, Core, Finish(o)
  PROVE  UNCHANGED Disk!vars
<1>1. View' = View /\ Replay(header)' = Replay(header)
  BY DEF Finish, disk, View, Replay, Logged
<1>2. Active' = Active
  BY DEF Core, TypeOK, Finish, Active, Woken
<1> QED  BY <1>1, <1>2 DEF Disk!vars

\* Reading the header changes nothing on the disk.
LEMMA ReadHeadMaps ==
  ASSUME Core, RecoverReadHead
  PROVE  UNCHANGED Disk!vars
<1>1. Replay(header)' = Replay(header)
  BY DEF RecoverReadHead, disk, Replay, Logged
<1>2. View' = View /\ Active' = Active
  BY <1>1 DEF RecoverReadHead, View, Active
<1> QED  BY <1>1, <1>2 DEF Disk!vars

\* A crash takes what calls see back to what the disk's log gives.
LEMMA CrashMaps == ASSUME Core, Crash PROVE Disk!Crash
<1>1. Replay(header)' = Replay(header)
  BY DEF Crash, disk, Replay, Logged
<1>2. View' = Replay(header) /\ Active' = {}
  BY <1>1 DEF Crash, View, Active
<1> QED  BY <1>1, <1>2 DEF Disk!Crash

\* Recovery copies the slots home, again as often as it is cut short.
LEMMA RecoverInstallMaps ==
  ASSUME Core, RecoverInstall
  PROVE  UNCHANGED Disk!vars
<1>1. /\ header = lh /\ header' = header /\ boot = "install" /\ boot' = "install" /\ tail \in DOMAIN lh
      /\ home' = [home EXCEPT ![lh[tail]] = slot[tail]] /\ slot' = slot /\ pc' = pc
  <2>1. tail <= Len(lh) /\ tail \in 1..(LOGBLOCKS + 1) /\ DOMAIN lh = 1..Len(lh) /\ Len(lh) \in Nat
    BY LenProperties DEF Core, TypeOK, RecoverInstall
  <2>2. tail \in DOMAIN lh
    BY <2>1, SizeAssumption
  <2> QED  BY <2>2 DEF Core, RecoverInstall, RecoverInOrder
<1>2. \A b \in Block : b # header[tail] => home'[b] = home[b]
  BY <1>1 DEF Core, TypeOK
<1>3. Replay(header)' = Replay(header)
  BY <1>1, <1>2, ReplayKept
<1>4. View' = View /\ Active' = Active
  BY <1>1, <1>3 DEF View, Active
<1> QED  BY <1>3, <1>4 DEF Disk!vars

\* When recovery erases the log, its blocks are home, and what calls then see is that.
LEMMA RecoverEraseMaps ==
  ASSUME Core, Core', RecoverErase
  PROVE  UNCHANGED Disk!vars
<1>1. /\ boot = "install" /\ boot' = "up" /\ header = lh /\ cache = home /\ home' = home /\ cache' = cache
      /\ header' = << >> /\ pc' = pc /\ \A i \in DOMAIN header : slot[i] = cache[header[i]]
  <2>1. tail = Len(lh) + 1 /\ DOMAIN lh = 1..Len(lh)
    BY LenProperties DEF Core, TypeOK, RecoverErase, RecoverInOrder
  <2> QED  BY <2>1, LenProperties DEF Core, TypeOK, RecoverErase, RecoverInOrder
<1>2. Replay(header) = cache
  BY <1>1, ReplayAll DEF Core
<1>3. (Replay(header) = home)'
  <2>1. (TypeOK /\ header = << >>)'
    BY <1>1 DEF Core
  <2> QED  BY <2>1, ReplayNone, PTL
<1>4. View' = View /\ Active' = Active
  BY <1>1, <1>2 DEF View, Active
<1> QED  BY <1>1, <1>2, <1>3, <1>4 DEF Disk!vars

\* Every step is one of the abstract disk, or none.
LEMMA StepMaps == Core /\ Core' /\ [Next]_vars => [Disk!Next]_(Disk!vars)
<1> SUFFICES ASSUME Core, Core', [Next]_vars
             PROVE  [Disk!Next]_(Disk!vars)
  OBVIOUS
<1>1. ASSUME NEW o \in Op, BeginOp(o) \/ LogWrite(o) \/ EndOp(o) \/ Commit(o)
      PROVE  Disk!Next \/ UNCHANGED Disk!vars
  BY <1>1, BeginMaps, LogWriteMaps, EndMaps, WriteLogMaps, WriteHeadMaps, InstallMaps, EraseMaps,
     FinishMaps DEF Commit, Disk!Next
<1>2. ASSUME NEW o \in Op, NEW b \in Block, Modify(o, b)
      PROVE  Disk!Next
  BY <1>2, ModifyMaps DEF Disk!Next
<1>3. CASE Recover \/ Crash
  BY <1>3, ReadHeadMaps, RecoverInstallMaps, RecoverEraseMaps, CrashMaps DEF Recover, Disk!Next
<1>4. CASE UNCHANGED vars
  BY <1>4 DEF vars, disk, Disk!vars, View, Active, Replay, Logged
<1> QED  BY <1>1, <1>2, <1>3, <1>4 DEF Next

\* A new disk is blank, and so is the abstract one.
LEMMA InitMaps == Init => Disk!Init
<1> SUFFICES ASSUME Init
             PROVE  Disk!Init
  OBVIOUS
<1>1. Replay(header) = home
  BY InitCore, ReplayNone DEF Core, Init
<1>2. View = home /\ Active = {}
  BY <1>1 DEF Init, View, Active
<1> QED  BY <1>1, <1>2 DEF Init, Disk!Init

\* For any threads, blocks and log size: what was committed is on the disk whole, or not at
\* all, wherever a crash comes, and crashes of the recovery do not change that.
THEOREM Refinement == Spec => ImplementsCrashDisk
<1> QED  BY CoreInvariant, InitMaps, StepMaps, PTL DEF Spec, ImplementsCrashDisk, Disk!Spec
===============================================================================
