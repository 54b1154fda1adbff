------------------------------ MODULE ConsoleProofs ------------------------------
(***************************************************************************)
(* Proofs about the device drivers and the file table: Console and Uart, for *)
(* any set of readers and writers, every size of the input ring and every     *)
(* multiple of it at which its indices wrap; VirtioDisk, for any threads,     *)
(* blocks and number of descriptors; Descriptors, for any finite set of       *)
(* processes and any number of entries, descriptors, pages and inodes.  The   *)
(* console is an input of lines (LineInput) that does not jam, no interrupt   *)
(* of the UART is lost, the disk moves each block once (DiskService), and     *)
(* descriptors are numbers of open objects (FdTable), whatever is done first. *)
(***************************************************************************)
EXTENDS MCConsole, FiniteSetTheorems, SequenceTheorems, WellFoundedInduction, NaturalsInduction,
        TLAPS

-------------------------------------------------------------------------------
(* Remainders *)

\* A positive multiple of n is at least n.
LEMMA MultipleLarge ==
  ASSUME NEW n \in Nat \ {0}, NEW d \in Nat \ {0}
  PROVE  n * d >= n
<1>1. PICK m \in Nat : d = m + 1
  BY SMT
<1>2. n * d = n * m + n /\ n * m \in Nat
  BY <1>1, SMT
<1> QED  BY <1>2, SMT

\* There is one way to write a number as a multiple of n and a rest below n.
LEMMA RestUnique ==
  ASSUME NEW n \in Nat \ {0}, NEW q \in Int, NEW s \in Int,
         NEW u \in 0..(n - 1), NEW t \in 0..(n - 1), n * q + u = n * s + t
  PROVE  u = t
<1>1. n * (q - s) = t - u
  BY SMT
<1>2. CASE q - s \in Nat \ {0}
  BY <1>1, <1>2, MultipleLarge, SMT
<1>3. CASE s - q \in Nat \ {0}
  <2>1. n * (s - q) >= n
    BY <1>3, MultipleLarge
  <2> QED  BY <1>1, <2>1, SMT
<1>4. CASE q = s
  BY <1>1, <1>4, SMT
<1> QED  BY <1>2, <1>3, <1>4, SMT

\* What \div and % give.
LEMMA Division ==
  ASSUME NEW n \in Nat \ {0}, NEW x \in Int
  PROVE  x = n * (x \div n) + (x % n) /\ x \div n \in Int /\ x % n \in 0..(n - 1)
<1>1. x = n * (x \div n) + (x % n)
  BY SMT
<1>2. x \div n \in Int /\ x % n \in 0..(n - 1)
  BY SMT
<1> QED  BY <1>1, <1>2

\* The rest is what % gives.
LEMMA RestIsMod ==
  ASSUME NEW n \in Nat \ {0}, NEW x \in Int, NEW q \in Int, NEW u \in 0..(n - 1),
         x = n * q + u
  PROVE  x % n = u
<1>1. x % n \in 0..(n - 1)
  BY Division
<1>2. x = n * (x \div n) + (x % n) /\ x \div n \in Int
  BY Division
<1>3. n * q + u = n * (x \div n) + (x % n)
  BY <1>2
<1> QED  BY <1>1, <1>2, <1>3, RestUnique

\* A place in a ring of n is the same after a round of counters that wrap at c.
LEMMA RoundKeeps ==
  ASSUME NEW n \in Nat \ {0}, NEW c \in Nat, c % n = 0, NEW x \in Nat
  PROVE  (x + c) % n = x % n
<1> DEFINE m == c \div n
           q == x \div n
           u == x % n
<1>1. m \in Int /\ c = n * m
  <2>1. c = n * (c \div n) + (c % n) /\ c \div n \in Int
    BY Division
  <2> QED  BY <2>1, SMT
<1>2. q \in Int /\ u \in 0..(n - 1) /\ x = n * q + u
  BY Division
<1>3. x + c = n * (m + q) + u
  <2> HIDE DEF m, q, u
  <2> QED  BY <1>1, <1>2, SMT
<1>4. m + q \in Int /\ x + c \in Int
  BY <1>1, <1>2, SMT
<1>5. u \in 0..(n - 1)
  BY <1>2
<1> HIDE DEF m, q
<1>6. (x + c) % n = u
  BY <1>3, <1>4, <1>5, RestIsMod
<1> QED  BY <1>6

\* Places less than a ring apart differ.
LEMMA PlacesDiffer ==
  ASSUME NEW n \in Nat \ {0}, NEW x \in Nat, NEW d \in 1..(n - 1)
  PROVE  (x + d) % n # x % n
<1> DEFINE q == x \div n
           u == x % n
<1>1. q \in Int /\ u \in 0..(n - 1) /\ x = n * q + u
  BY Division
<1> HIDE DEF q
<1>2. CASE u + d < n
  <2>1. x + d = n * q + (u + d) /\ u + d \in 0..(n - 1) /\ x + d \in Int
    BY <1>1, <1>2, SMT
  <2>2. (x + d) % n = u + d
    BY <1>1, <2>1, RestIsMod
  <2> QED  BY <1>1, <2>2, SMT
<1>3. CASE u + d >= n
  <2>1. x + d = n * (q + 1) + (u + d - n)
    <3> HIDE DEF u
    <3>1. n * (q + 1) = n * q + n /\ n * q \in Int
      BY <1>1, SMT
    <3> QED  BY <1>1, <3>1, SMT
  <2>2. u + d - n \in 0..(n - 1) /\ x + d \in Int /\ q + 1 \in Int
    BY <1>1, <1>3, SMT
  <2>3. (x + d) % n = u + d - n
    BY <2>1, <2>2, RestIsMod
  <2> QED  BY <1>1, <2>3, SMT
<1> QED  BY <1>1, <1>2, <1>3, SMT

-------------------------------------------------------------------------------
(* The indices of the ring *)

Index == 0..(Wrap - 1)

\* Adding to a counter wraps it once at most.
LEMMA AddWraps ==
  ASSUME NEW x \in 0..(Wrap - 1), NEW d \in 0..(Wrap - 1)
  PROVE  (x + d) % Wrap = IF x + d < Wrap THEN x + d ELSE x + d - Wrap
<1>1. Wrap \in Nat \ {0} /\ x + d \in Int
  BY SizeAssumption, SMT
<1>2. CASE x + d < Wrap
  <2>1. x + d = Wrap * 0 + (x + d) /\ x + d \in 0..(Wrap - 1) /\ 0 \in Int
    BY <1>1, <1>2, SMT
  <2> QED  BY <1>1, <1>2, <2>1, RestIsMod
<1>3. CASE x + d >= Wrap
  <2>1. x + d = Wrap * 1 + (x + d - Wrap) /\ x + d - Wrap \in 0..(Wrap - 1) /\ 1 \in Int
    BY <1>1, <1>3, SMT
  <2>2. (x + d) % Wrap = x + d - Wrap
    BY <1>1, <2>1, RestIsMod
  <2> QED  BY <1>1, <1>3, <2>2, SMT
<1> QED  BY <1>1, <1>2, <1>3, SMT

\* The distance of two counters is what is between them, past the wrap or not.
LEMMA DistanceWraps ==
  ASSUME NEW i \in 0..(Wrap - 1), NEW j \in 0..(Wrap - 1)
  PROVE  (j - i) % Wrap = IF i <= j THEN j - i ELSE j - i + Wrap
<1>1. Wrap \in Nat \ {0} /\ j - i \in Int
  BY SizeAssumption, SMT
<1>2. CASE i <= j
  <2>1. j - i = Wrap * 0 + (j - i) /\ j - i \in 0..(Wrap - 1) /\ 0 \in Int
    BY <1>1, <1>2, SMT
  <2> QED  BY <1>1, <1>2, <2>1, RestIsMod
<1>3. CASE i > j
  <2>1. j - i = Wrap * (-1) + (j - i + Wrap) /\ j - i + Wrap \in 0..(Wrap - 1) /\ -1 \in Int
    BY <1>1, <1>3, SMT
  <2>2. (j - i) % Wrap = j - i + Wrap
    BY <1>1, <2>1, RestIsMod
  <2> QED  BY <1>1, <1>3, <2>2, SMT
<1> QED  BY <1>1, <1>2, <1>3, SMT

\* The same of the ring's own operators, without remainders.
LEMMA IndexArithmetic ==
  ASSUME NEW i \in Index, NEW j \in Index, NEW n \in Index
  PROVE  /\ Minus(i, j) = IF j <= i THEN i - j ELSE i - j + Wrap
         /\ Plus(i, n) = IF i + n < Wrap THEN i + n ELSE i + n - Wrap
         /\ Minus(i, j) \in Index /\ Plus(i, n) \in Index
<1>1. Minus(i, j) = IF j <= i THEN i - j ELSE i - j + Wrap
  BY DistanceWraps DEF Index, Minus
<1>2. Plus(i, n) = IF i + n < Wrap THEN i + n ELSE i + n - Wrap
  BY AddWraps DEF Index, Plus
<1>3. Minus(i, j) \in Index /\ Plus(i, n) \in Index
  BY <1>1, <1>2, SizeAssumption, SMT DEF Index
<1> QED  BY <1>1, <1>2, <1>3

\* What lies between two indices in order is the difference of their distances from r,
\* and a step of one of them changes it by one.
LEMMA IndicesMove ==
  ASSUME NEW i \in Index, NEW j \in Index, NEW k \in Index,
         Minus(j, i) <= Minus(k, i), Minus(k, i) <= INPUT_BUF_SIZE
  PROVE  /\ Minus(k, j) = Minus(k, i) - Minus(j, i)
         /\ Plus(k, 1) \in Index /\ Plus(i, 1) \in Index /\ Minus(k, 1) \in Index
         /\ Minus(k, i) < INPUT_BUF_SIZE => /\ Minus(Plus(k, 1), i) = Minus(k, i) + 1
                                            /\ Minus(Plus(k, 1), j) = Minus(k, j) + 1
         /\ i # j => /\ Minus(j, Plus(i, 1)) = Minus(j, i) - 1
                     /\ Minus(k, Plus(i, 1)) = Minus(k, i) - 1
         /\ k # j => /\ Minus(Minus(k, 1), i) = Minus(k, i) - 1
                     /\ Minus(Minus(k, 1), j) = Minus(k, j) - 1
         /\ i = j <=> Minus(j, i) = 0
         /\ j = k <=> Minus(k, j) = 0
         /\ Plus(j, Minus(k, j)) = k
<1>1. 1 \in Index /\ Wrap \in Nat /\ INPUT_BUF_SIZE \in Nat /\ INPUT_BUF_SIZE < Wrap
  BY SizeAssumption, SMT DEF Index
<1>2. Plus(k, 1) \in Index /\ Plus(i, 1) \in Index /\ Minus(k, 1) \in Index
  BY <1>1, IndexArithmetic
<1>3. /\ Minus(j, i) = IF i <= j THEN j - i ELSE j - i + Wrap
      /\ Minus(k, i) = IF i <= k THEN k - i ELSE k - i + Wrap
      /\ Minus(k, j) = IF j <= k THEN k - j ELSE k - j + Wrap
  BY IndexArithmetic
<1>4. /\ Plus(k, 1) = IF k + 1 < Wrap THEN k + 1 ELSE k + 1 - Wrap
      /\ Plus(i, 1) = IF i + 1 < Wrap THEN i + 1 ELSE i + 1 - Wrap
      /\ Minus(k, 1) = IF 1 <= k THEN k - 1 ELSE k - 1 + Wrap
  BY <1>1, IndexArithmetic
<1>5. Minus(k, j) = Minus(k, i) - Minus(j, i)
  BY <1>1, <1>3, SMT DEF Index
<1>6. Minus(k, i) < INPUT_BUF_SIZE => /\ Minus(Plus(k, 1), i) = Minus(k, i) + 1
                                      /\ Minus(Plus(k, 1), j) = Minus(k, j) + 1
  <2>1. /\ Minus(Plus(k, 1), i) = IF i <= Plus(k, 1) THEN Plus(k, 1) - i ELSE Plus(k, 1) - i + Wrap
        /\ Minus(Plus(k, 1), j) = IF j <= Plus(k, 1) THEN Plus(k, 1) - j ELSE Plus(k, 1) - j + Wrap
    BY <1>2, IndexArithmetic
  <2> QED  BY <1>1, <1>3, <1>4, <2>1, SMT DEF Index
<1>7. i # j => /\ Minus(j, Plus(i, 1)) = Minus(j, i) - 1
               /\ Minus(k, Plus(i, 1)) = Minus(k, i) - 1
  <2>1. /\ Minus(j, Plus(i, 1)) = IF Plus(i, 1) <= j THEN j - Plus(i, 1) ELSE j - Plus(i, 1) + Wrap
        /\ Minus(k, Plus(i, 1)) = IF Plus(i, 1) <= k THEN k - Plus(i, 1) ELSE k - Plus(i, 1) + Wrap
    BY <1>2, IndexArithmetic
  <2> QED  BY <1>1, <1>3, <1>4, <2>1, SMT DEF Index
<1>8. k # j => /\ Minus(Minus(k, 1), i) = Minus(k, i) - 1
               /\ Minus(Minus(k, 1), j) = Minus(k, j) - 1
  <2>1. /\ Minus(Minus(k, 1), i) = IF i <= Minus(k, 1) THEN Minus(k, 1) - i
                                                        ELSE Minus(k, 1) - i + Wrap
        /\ Minus(Minus(k, 1), j) = IF j <= Minus(k, 1) THEN Minus(k, 1) - j
                                                        ELSE Minus(k, 1) - j + Wrap
    BY <1>2, IndexArithmetic
  <2> QED  BY <1>1, <1>3, <1>4, <2>1, SMT DEF Index
<1>9. (i = j <=> Minus(j, i) = 0) /\ (j = k <=> Minus(k, j) = 0)
  BY <1>1, <1>3, SMT DEF Index
<1>10. Plus(j, Minus(k, j)) = k
  <2>1. Minus(k, j) \in Index
    BY IndexArithmetic
  <2>2. Plus(j, Minus(k, j)) = IF j + Minus(k, j) < Wrap THEN j + Minus(k, j)
                                                         ELSE j + Minus(k, j) - Wrap
    BY <2>1, IndexArithmetic
  <2> QED  BY <1>1, <1>3, <2>2, SMT DEF Index
<1> QED  BY <1>2, <1>5, <1>6, <1>7, <1>8, <1>9, <1>10

\* A place of the ring does not notice the wrap.
LEMMA PlaceOf ==
  ASSUME NEW i \in Index, NEW n \in Index
  PROVE  /\ Plus(i, n) % INPUT_BUF_SIZE = (i + n) % INPUT_BUF_SIZE
         /\ Plus(i, n) % INPUT_BUF_SIZE \in Place
<1>1. Plus(i, n) \in Index /\ (Plus(i, n) = i + n \/ i + n = Plus(i, n) + Wrap)
  <2>1. Plus(i, n) \in Index /\ Plus(i, n) = IF i + n < Wrap THEN i + n ELSE i + n - Wrap
    BY IndexArithmetic
  <2> QED  BY <2>1, SizeAssumption, SMT DEF Index
<1>2. Plus(i, n) \in Nat
  BY <1>1, SizeAssumption, SMT DEF Index
<1>3. (Plus(i, n) + Wrap) % INPUT_BUF_SIZE = Plus(i, n) % INPUT_BUF_SIZE
  BY <1>2, SizeAssumption, RoundKeeps
<1>4. Plus(i, n) % INPUT_BUF_SIZE \in Place
  BY <1>2, SizeAssumption, SMT DEF Place
<1> QED  BY <1>1, <1>3, <1>4

\* Places of one stretch of the ring differ.
LEMMA PlacesApart ==
  ASSUME NEW i \in Index, NEW k \in 0..(INPUT_BUF_SIZE - 1), NEW n \in 0..(INPUT_BUF_SIZE - 1),
         k # n
  PROVE  Plus(i, k) % INPUT_BUF_SIZE # Plus(i, n) % INPUT_BUF_SIZE
<1>1. k \in Index /\ n \in Index /\ i + k \in Nat /\ i + n \in Nat
  BY SizeAssumption, SMT DEF Index
<1>2. /\ Plus(i, k) % INPUT_BUF_SIZE = (i + k) % INPUT_BUF_SIZE
      /\ Plus(i, n) % INPUT_BUF_SIZE = (i + n) % INPUT_BUF_SIZE
  BY <1>1, PlaceOf
<1>3. CASE k < n
  <2>1. n - k \in 1..(INPUT_BUF_SIZE - 1) /\ (i + k) + (n - k) = i + n
    BY <1>1, <1>3, SizeAssumption, SMT DEF Index
  <2>2. ((i + k) + (n - k)) % INPUT_BUF_SIZE # (i + k) % INPUT_BUF_SIZE
    BY <1>1, <2>1, SizeAssumption, PlacesDiffer
  <2> QED  BY <1>2, <2>1, <2>2
<1>4. CASE n < k
  <2>1. k - n \in 1..(INPUT_BUF_SIZE - 1) /\ (i + n) + (k - n) = i + k
    BY <1>1, <1>4, SizeAssumption, SMT DEF Index
  <2>2. ((i + n) + (k - n)) % INPUT_BUF_SIZE # (i + n) % INPUT_BUF_SIZE
    BY <1>1, <2>1, SizeAssumption, PlacesDiffer
  <2> QED  BY <1>2, <2>1, <2>2
<1>5. k < n \/ n < k
  BY SizeAssumption, SMT
<1> QED  BY <1>3, <1>4, <1>5

-------------------------------------------------------------------------------
(* The invariant of the ring *)

\* A reader has cons.lock inside consoleread, or sleeps without it; it has read what
\* it no longer has to; and it goes to sleep and sleeps only on what is empty.
ReadersInPlace ==
  \A p \in Reader :
    /\ pc[p] = "wait" => lock = p
    /\ lock = p => pc[p] # "user" /\ ~asleep[p]
    /\ asleep[p] => pc[p] = "sleep"
    /\ pc[p] # "user" => left[p] > 0
    /\ left[p] + got[p] <= MaxLen
    /\ pc[p] = "sleep" /\ (asleep[p] \/ lock = p) => r = w

\* A line that is still edited holds no newline: ^U erases all of it.
LineOpen == \A k \in 1..Minus(e, w) : At(Plus(w, k - 1)) # "newline"

\* The inductive part of RingInv.
RingCore == TypeOK /\ NotJammed /\ ReadersInPlace /\ LineOpen

\* Whoever sleeps does so with nothing to read, with the lock free or not.
LEMMA RingCoreSuffices == RingCore => RingInv
  BY DEF RingCore, RingInv, ReadersInPlace, ReaderSleeps

\* An empty ring.
LEMMA InitRingCore == Init => RingCore
<1> SUFFICES ASSUME Init
             PROVE  RingCore
  OBVIOUS
<1>1. 0 \in Index /\ Minus(0, 0) = 0
  <2>1. 0 \in Index
    BY SizeAssumption, SMT DEF Index
  <2>2. Minus(0, 0) = IF 0 <= 0 THEN 0 - 0 ELSE 0 - 0 + Wrap
    BY <2>1, IndexArithmetic
  <2> QED  BY <2>1, <2>2, SMT
<1>2. TypeOK
  <2>1. 0 <= INPUT_BUF_SIZE /\ 0 <= MaxLen
    BY SizeAssumption, SMT
  <2>2. left \in [Reader -> 0..MaxLen] /\ got \in [Reader -> 0..MaxLen]
    BY <2>1, SizeAssumption DEF Init
  <2>3. cbuf \in [Place -> Char] /\ {r, w, e} \subseteq 0..(Wrap - 1)
    BY <1>1 DEF Init, Char, Index
  <2>4. Minus(w, r) <= Minus(e, r) /\ Minus(e, r) <= INPUT_BUF_SIZE
    BY <1>1, <2>1 DEF Init
  <2> QED  BY <2>2, <2>3, <2>4 DEF Init, TypeOK
<1>3. NotJammed
  BY <1>1, SizeAssumption, SMT DEF Init, NotJammed
<1>4. ReadersInPlace
  <2>1. ASSUME NEW p \in Reader
        PROVE  /\ pc[p] = "user" /\ lock # p /\ ~asleep[p]
               /\ left[p] + got[p] <= MaxLen
    BY ReaderAssumption, SizeAssumption, SMT DEF Init
  <2> QED  BY <2>1 DEF ReadersInPlace
<1>5. LineOpen
  <2>1. 1..0 = {}
    BY SMT
  <2> QED  BY <1>1, <2>1 DEF Init, LineOpen
<1> QED  BY <1>2, <1>3, <1>4, <1>5 DEF RingCore

\* What the types say of the ring: where its three indices are.
LEMMA RingTypes ==
  ASSUME TypeOK
  PROVE  /\ r \in Index /\ w \in Index /\ e \in Index
         /\ Minus(w, r) \in 0..INPUT_BUF_SIZE /\ Minus(e, r) \in 0..INPUT_BUF_SIZE
         /\ Minus(e, w) \in 0..INPUT_BUF_SIZE /\ Minus(w, r) <= Minus(e, r)
         /\ Minus(e, w) = Minus(e, r) - Minus(w, r)
         /\ e % INPUT_BUF_SIZE \in Place
<1>1. r \in Index /\ w \in Index /\ e \in Index
  BY DEF TypeOK, Index
<1>2. /\ Minus(w, r) \in Index /\ Minus(e, r) \in Index
      /\ Minus(w, r) <= Minus(e, r) /\ Minus(e, r) <= INPUT_BUF_SIZE
  BY <1>1, IndexArithmetic DEF TypeOK
<1>3. Minus(e, w) = Minus(e, r) - Minus(w, r)
  BY <1>1, <1>2, IndicesMove
<1>4. /\ Minus(w, r) \in 0..INPUT_BUF_SIZE /\ Minus(e, r) \in 0..INPUT_BUF_SIZE
      /\ Minus(e, w) \in 0..INPUT_BUF_SIZE
  BY <1>2, <1>3, SizeAssumption, SMT DEF Index
<1>5. e % INPUT_BUF_SIZE \in Place
  <2>1. e \in Int
    BY <1>1, SizeAssumption, SMT DEF Index
  <2> QED  BY <2>1, Division, SizeAssumption DEF Place
<1> QED  BY <1>1, <1>2, <1>3, <1>4, <1>5

\* What a step of one index changes of the distances.
LEMMA RingMoves ==
  ASSUME TypeOK
  PROVE  /\ Plus(e, 1) \in Index /\ Plus(r, 1) \in Index /\ Minus(e, 1) \in Index
         /\ Minus(e, r) < INPUT_BUF_SIZE => /\ Minus(Plus(e, 1), r) = Minus(e, r) + 1
                                            /\ Minus(Plus(e, 1), w) = Minus(e, w) + 1
         /\ r # w => /\ Minus(w, Plus(r, 1)) = Minus(w, r) - 1
                     /\ Minus(e, Plus(r, 1)) = Minus(e, r) - 1
         /\ e # w => /\ Minus(Minus(e, 1), r) = Minus(e, r) - 1
                     /\ Minus(Minus(e, 1), w) = Minus(e, w) - 1
         /\ r = w <=> Minus(w, r) = 0
         /\ w = e <=> Minus(e, w) = 0
         /\ Plus(w, Minus(e, w)) = e
<1>1. /\ r \in Index /\ w \in Index /\ e \in Index
      /\ Minus(w, r) <= Minus(e, r) /\ Minus(e, r) <= INPUT_BUF_SIZE
  BY DEF TypeOK, Index
<1>2. r # w => /\ Minus(w, Plus(r, 1)) = Minus(w, r) - 1
               /\ Minus(e, Plus(r, 1)) = Minus(e, r) - 1
  BY <1>1, IndicesMove
<1>3. e # w => /\ Minus(Minus(e, 1), r) = Minus(e, r) - 1
               /\ Minus(Minus(e, 1), w) = Minus(e, w) - 1
  BY <1>1, IndicesMove
<1>4. Minus(e, r) < INPUT_BUF_SIZE => /\ Minus(Plus(e, 1), r) = Minus(e, r) + 1
                                      /\ Minus(Plus(e, 1), w) = Minus(e, w) + 1
  BY <1>1, IndicesMove
<1>5. /\ Plus(e, 1) \in Index /\ Plus(r, 1) \in Index /\ Minus(e, 1) \in Index
      /\ r = w <=> Minus(w, r) = 0
      /\ w = e <=> Minus(e, w) = 0
      /\ Plus(w, Minus(e, w)) = e
  BY <1>1, IndicesMove
<1> QED  BY <1>2, <1>3, <1>4, <1>5

\* A character stored goes behind a stretch that ends at e, and changes nothing of it.
LEMMA StoreKeeps ==
  ASSUME NEW c \in Char, NEW i \in Index, NEW n \in 0..(INPUT_BUF_SIZE - 1),
         TypeOK, Store(c), Plus(i, n) = e
  PROVE  /\ \A k \in 1..n : cbuf'[Plus(i, k - 1) % INPUT_BUF_SIZE] = At(Plus(i, k - 1))
         /\ cbuf'[Plus(i, n) % INPUT_BUF_SIZE] = c
<1>1. cbuf' = [cbuf EXCEPT ![e % INPUT_BUF_SIZE] = c] /\ e % INPUT_BUF_SIZE \in Place
  BY RingTypes DEF Store
<1>2. cbuf'[Plus(i, n) % INPUT_BUF_SIZE] = c
  BY <1>1 DEF TypeOK
<1>3. ASSUME NEW k \in 1..n
      PROVE  cbuf'[Plus(i, k - 1) % INPUT_BUF_SIZE] = At(Plus(i, k - 1))
  <2>1. k - 1 \in 0..(INPUT_BUF_SIZE - 1) /\ k - 1 # n
    BY SizeAssumption, SMT
  <2>2. Plus(i, k - 1) % INPUT_BUF_SIZE # e % INPUT_BUF_SIZE
    BY <2>1, PlacesApart
  <2> QED  BY <1>1, <2>2 DEF At, TypeOK
<1> QED  BY <1>2, <1>3

\* What is typed fills the ring up to its last place, which enters the line.
LEMMA StoreRingCore == ASSUME NEW c \in Char, RingCore, Store(c) PROVE RingCore'
<1> USE DEF RingCore
<1>1. /\ r \in Index /\ w \in Index /\ e \in Index /\ e % INPUT_BUF_SIZE \in Place
      /\ Minus(w, r) \in 0..INPUT_BUF_SIZE /\ Minus(e, r) \in 0..(INPUT_BUF_SIZE - 1)
      /\ Minus(e, w) \in 0..(INPUT_BUF_SIZE - 1) /\ Minus(w, r) <= Minus(e, r)
      /\ Minus(e, w) = Minus(e, r) - Minus(w, r)
  <2>1. Minus(e, r) < INPUT_BUF_SIZE
    BY DEF Store, Room
  <2> QED  BY RingTypes, <2>1, SizeAssumption, SMT
<1>2. /\ Plus(e, 1) \in Index /\ Plus(w, Minus(e, w)) = e
      /\ Minus(Plus(e, 1), r) = Minus(e, r) + 1
      /\ Minus(Plus(e, 1), w) = Minus(e, w) + 1
  <2>1. Minus(e, r) < INPUT_BUF_SIZE
    BY DEF Store, Room
  <2> QED  BY <2>1, RingMoves
<1>3. cbuf' \in [Place -> Char] /\ e' = Plus(e, 1) /\ r' = r
  BY <1>1 DEF Store, TypeOK
<1>4. /\ lock = NoReader /\ lock' = lock /\ pc' = pc /\ left' = left /\ got' = got
      /\ killed' = killed
  BY DEF Store, Handler
<1>5. CASE Enters(c)
  <2>1. w' = e' /\ asleep' = [p \in Reader |-> FALSE]
    BY <1>5 DEF Store, Wake
  <2>2. Minus(e, r) + 1 <= INPUT_BUF_SIZE /\ Minus(e, r) + 1 # 0
    BY <1>1, SizeAssumption, SMT
  <2>3. /\ Minus(w', r') = Minus(e, r) + 1 /\ Minus(e', r') = Minus(e, r) + 1
        /\ Minus(e', r') <= INPUT_BUF_SIZE /\ Minus(w', r') <= Minus(e', r')
    BY <1>1, <1>2, <1>3, <2>1, <2>2, SMT
  <2>4. Minus(e', w') = 0 /\ r' # w'
    <3>1. Minus(r, r) = 0 /\ Minus(Plus(e, 1), Plus(e, 1)) = 0
      <4>1. /\ Minus(r, r) = IF r <= r THEN r - r ELSE r - r + Wrap
            /\ Minus(Plus(e, 1), Plus(e, 1)) =
                 IF Plus(e, 1) <= Plus(e, 1) THEN Plus(e, 1) - Plus(e, 1)
                                             ELSE Plus(e, 1) - Plus(e, 1) + Wrap
        BY <1>1, <1>2, IndexArithmetic
      <4> QED  BY <1>1, <1>2, <4>1, SizeAssumption, SMT DEF Index
    <3> QED  BY <1>2, <1>3, <2>1, <2>2, <3>1
  <2>5. TypeOK'
    BY <1>1, <1>2, <1>3, <1>4, <2>1, <2>3 DEF TypeOK, Index, Minus
  <2>6. LineOpen'
    <3>1. 1..0 = {}
      BY SMT
    <3> QED  BY <2>4, <3>1 DEF LineOpen, Minus
  <2>7. ReadersInPlace'
    BY <1>4, <2>1, ReaderAssumption DEF ReadersInPlace
  <2>8. NotJammed'
    BY <2>4 DEF NotJammed
  <2> QED  BY <2>5, <2>6, <2>7, <2>8
<1>6. CASE ~Enters(c)
  <2>1. w' = w /\ asleep' = asleep
    BY <1>6 DEF Store
  <2>2. c # "newline" /\ Minus(e, r) + 1 # INPUT_BUF_SIZE
    BY <1>6 DEF Enters
  <2>3. /\ Minus(w', r') = Minus(w, r) /\ Minus(e', r') = Minus(e, r) + 1
        /\ Minus(e', w') = Minus(e, w) + 1
    BY <1>2, <1>3, <2>1
  <2>4. Minus(e', r') < INPUT_BUF_SIZE /\ Minus(w', r') <= Minus(e', r')
    BY <1>1, <2>2, <2>3, SizeAssumption, SMT
  <2>5. TypeOK'
    <3>1. Minus(e', r') <= INPUT_BUF_SIZE
      BY <1>1, <2>3, SizeAssumption, SMT
    <3> QED  BY <1>1, <1>2, <1>3, <1>4, <2>1, <2>4, <3>1 DEF TypeOK, Index, Minus
  <2>6. LineOpen'
    <3>1. /\ \A k \in 1..Minus(e, w) : cbuf'[Plus(w, k - 1) % INPUT_BUF_SIZE] = At(Plus(w, k - 1))
          /\ cbuf'[Plus(w, Minus(e, w)) % INPUT_BUF_SIZE] = c
      BY <1>1, <1>2, StoreKeeps
    <3>2. ASSUME NEW k \in 1..(Minus(e, w) + 1)
          PROVE  cbuf'[Plus(w, k - 1) % INPUT_BUF_SIZE] # "newline"
      <4>1. k \in 1..Minus(e, w) \/ k - 1 = Minus(e, w)
        BY <1>1, SMT
      <4> QED  BY <2>2, <3>1, <4>1 DEF LineOpen
    <3> QED  BY <2>1, <2>3, <3>2 DEF LineOpen, At, Minus, Plus
  <2>7. ReadersInPlace'
    BY <1>3, <1>4, <2>1 DEF ReadersInPlace
  <2>8. NotJammed'
    BY <1>1, <2>3, <2>4, SizeAssumption, SMT DEF NotJammed
  <2> QED  BY <2>5, <2>6, <2>7, <2>8
<1> QED  BY <1>5, <1>6

\* An erased character was not entered, so the line only gets shorter.
LEMMA EraseCharRingCore == ASSUME RingCore, EraseChar PROVE RingCore'
<1> USE DEF RingCore
<1>1. /\ e # w /\ e' = Minus(e, 1) /\ r' = r /\ w' = w /\ cbuf' = cbuf /\ asleep' = asleep
      /\ lock' = lock /\ pc' = pc /\ left' = left /\ got' = got /\ killed' = killed
  BY DEF EraseChar, Erasable, Handler
<1>2. /\ Minus(e, 1) \in Index /\ Minus(w', r') = Minus(w, r)
      /\ Minus(e', r') = Minus(e, r) - 1 /\ Minus(e', w') = Minus(e, w) - 1
  BY <1>1, RingMoves
<1>3. /\ Minus(w, r) \in 0..INPUT_BUF_SIZE /\ Minus(e, r) \in 0..INPUT_BUF_SIZE
      /\ Minus(e, w) \in 0..INPUT_BUF_SIZE /\ Minus(e, w) = Minus(e, r) - Minus(w, r)
      /\ Minus(e, w) # 0
  BY <1>1, RingTypes, RingMoves
<1>4. Minus(w', r') <= Minus(e', r') /\ Minus(e', r') < INPUT_BUF_SIZE
  BY <1>2, <1>3, SizeAssumption, SMT
<1>5. TypeOK'
  <2>1. Minus(e', r') <= INPUT_BUF_SIZE
    BY <1>2, <1>3, SizeAssumption, SMT
  <2> QED  BY <1>1, <1>2, <1>4, <2>1 DEF TypeOK, Index, Minus
<1>6. NotJammed'
  BY <1>2, <1>3, <1>4, SizeAssumption, SMT DEF NotJammed
<1>7. ReadersInPlace'
  BY <1>1 DEF ReadersInPlace
<1>8. LineOpen'
  <2>1. \A k \in 1..(Minus(e, w) - 1) : k \in 1..Minus(e, w)
    BY <1>3, SMT
  <2> QED  BY <1>1, <1>2, <2>1 DEF LineOpen, At, Minus, Plus
<1> QED  BY <1>5, <1>6, <1>7, <1>8

\* In a line without a newline there is nothing that ^U keeps.
LEMMA KillsAll == ASSUME RingCore PROVE LastKept = 0 /\ Plus(w, 0) = w
<1> USE DEF RingCore
<1>1. w \in Index /\ Minus(e, w) \in Nat
  BY RingTypes, SMT
<1> DEFINE Kept(n) ==
             /\ \A i \in (n + 1)..Minus(e, w) : cbuf[Plus(w, i - 1) % INPUT_BUF_SIZE] # "newline"
             /\ n > 0 => cbuf[Plus(w, n - 1) % INPUT_BUF_SIZE] = "newline"
<1>2. 0 \in 0..Minus(e, w) /\ Kept(0)
  BY <1>1, SMT DEF LineOpen, At
<1>3. ASSUME NEW n \in 0..Minus(e, w), Kept(n)
      PROVE  n = 0
  <2>1. CASE n > 0
    <3>1. n \in 1..Minus(e, w)
      BY <1>1, <2>1, SMT
    <3> QED  BY <1>3, <2>1, <3>1 DEF LineOpen, At
  <2> QED  BY <1>1, <2>1, SMT
<1>4. LastKept = CHOOSE n \in 0..Minus(e, w) : Kept(n)
  BY DEF LastKept
<1>5. LastKept = 0
  <2> HIDE DEF Kept
  <2> QED  BY <1>2, <1>3, <1>4
<1>6. Plus(w, 0) = w
  <2>1. 0 \in Index
    BY SizeAssumption, SMT DEF Index
  <2>2. Plus(w, 0) = IF w + 0 < Wrap THEN w + 0 ELSE w + 0 - Wrap
    BY <1>1, <2>1, IndexArithmetic
  <2> QED  BY <1>1, <2>2, SizeAssumption, SMT DEF Index
<1> QED  BY <1>5, <1>6

\* Nor is there anything in the line afterwards.
LEMMA KillLineRingCore == ASSUME RingCore, KillLine PROVE RingCore'
<1> USE DEF RingCore
<1>1. /\ e' = w /\ r' = r /\ w' = w /\ cbuf' = cbuf /\ asleep' = asleep
      /\ lock' = lock /\ pc' = pc /\ left' = left /\ got' = got /\ killed' = killed
  BY KillsAll DEF KillLine, Handler
<1>2. /\ Minus(w, r) \in 0..INPUT_BUF_SIZE /\ r \in Index /\ w \in Index
      /\ r = w <=> Minus(w, r) = 0
  BY RingTypes, RingMoves
<1>3. Minus(w, w) = 0
  <2>1. Minus(w, w) = IF w <= w THEN w - w ELSE w - w + Wrap
    BY <1>2, IndexArithmetic
  <2> QED  BY <1>2, <2>1, SizeAssumption, SMT DEF Index
<1>4. TypeOK'
  <2>1. Minus(w, r) <= Minus(w, r) /\ Minus(w, r) <= INPUT_BUF_SIZE
    BY <1>2, SizeAssumption, SMT
  <2> QED  BY <1>1, <1>2, <2>1 DEF TypeOK, Index, Minus
<1>5. NotJammed'
  <2>1. Minus(w, r) = INPUT_BUF_SIZE => r # w
    BY <1>2, SizeAssumption, SMT
  <2> QED  BY <1>1, <2>1 DEF NotJammed, Minus
<1>6. ReadersInPlace'
  BY <1>1 DEF ReadersInPlace
<1>7. LineOpen'
  <2>1. 1..0 = {}
    BY SMT
  <2> QED  BY <1>1, <1>3, <2>1 DEF LineOpen, Minus
<1> QED  BY <1>4, <1>5, <1>6, <1>7

\* A read that leaves the ring alone leaves what is in it.
LEMMA RingRests ==
  ASSUME RingCore, UNCHANGED cons, ReadersInPlace',
         pc' \in [Reader -> {"user", "wait", "sleep"}], lock' \in Reader \cup {NoReader},
         left' \in [Reader -> 0..MaxLen], got' \in [Reader -> 0..MaxLen],
         asleep' \in [Reader -> BOOLEAN], killed' \in [Reader -> BOOLEAN]
  PROVE  RingCore'
<1> USE DEF RingCore, cons
<1>1. TypeOK'
  BY DEF TypeOK, Minus
<1>2. NotJammed' /\ LineOpen'
  BY DEF NotJammed, LineOpen, At, Minus, Plus
<1> QED  BY <1>1, <1>2

\* A read takes the free lock, so nobody is inside consoleread with it.
LEMMA ReadCallRingCore == ASSUME NEW p \in Reader, RingCore, ReadCall(p) PROVE RingCore'
<1> USE DEF RingCore, TypeOK
<1>1. PICK n \in 1..MaxLen : left' = [left EXCEPT ![p] = n]
  BY DEF ReadCall
<1>2. n \in 0..MaxLen /\ n > 0 /\ n + 0 <= MaxLen /\ 0 \in 0..MaxLen
  BY SizeAssumption, SMT
<1>3. left' \in [Reader -> 0..MaxLen] /\ got' \in [Reader -> 0..MaxLen]
  BY <1>1, <1>2 DEF ReadCall
<1>4. ReadersInPlace'
  <2>1. ASSUME NEW q \in Reader, q # p
        PROVE  /\ pc'[q] = pc[q] /\ left'[q] = left[q] /\ got'[q] = got[q]
               /\ asleep'[q] = asleep[q] /\ lock' # q /\ pc[q] # "wait"
    BY <1>1, <2>1, ReaderAssumption DEF ReadCall, Goto, ReadersInPlace
  <2>2. /\ pc'[p] = "wait" /\ left'[p] = n /\ got'[p] = 0 /\ ~asleep'[p] /\ lock' = p
    BY <1>1 DEF ReadCall, Goto, ReadersInPlace
  <2>3. r' = r /\ w' = w
    BY DEF ReadCall, cons
  <2> QED  BY <1>2, <2>1, <2>2, <2>3 DEF ReadersInPlace
<1>5. UNCHANGED cons /\ lock' \in Reader \cup {NoReader} /\ killed' \in [Reader -> BOOLEAN]
  BY DEF ReadCall
<1>6. pc' \in [Reader -> {"user", "wait", "sleep"}] /\ asleep' \in [Reader -> BOOLEAN]
  BY DEF ReadCall, Goto
<1> HIDE DEF RingCore, TypeOK
<1> QED  BY <1>3, <1>4, <1>5, <1>6, RingRests

\* A reader that finds the ring empty goes to sleep, still with the lock, or gives up.
LEMMA ReadWaitRingCore == ASSUME NEW p \in Reader, RingCore, ReadWait(p) PROVE RingCore'
<1> USE DEF RingCore, TypeOK
<1>1. 0 \in 0..MaxLen
  BY SizeAssumption, SMT
<1>2. /\ left' \in [Reader -> 0..MaxLen] /\ got' \in [Reader -> 0..MaxLen]
      /\ pc' \in [Reader -> {"user", "wait", "sleep"}] /\ asleep' \in [Reader -> BOOLEAN]
      /\ lock' \in Reader \cup {NoReader} /\ killed' \in [Reader -> BOOLEAN]
      /\ UNCHANGED cons
  BY <1>1 DEF ReadWait, Return
<1>3. ReadersInPlace'
  <2>1. ASSUME NEW q \in Reader, q # p
        PROVE  /\ pc'[q] = pc[q] /\ left'[q] = left[q] /\ got'[q] = got[q]
               /\ asleep'[q] = asleep[q] /\ lock' # q /\ pc[q] # "wait"
    BY <2>1, ReaderAssumption DEF ReadWait, Return, ReadersInPlace
  <2>2. /\ ~asleep'[p] /\ got'[p] = got[p] /\ r = w
        /\ \/ pc'[p] = "user" /\ left'[p] = 0 /\ lock' # p
           \/ pc'[p] = "sleep" /\ left'[p] = left[p] /\ left[p] > 0 /\ lock' = p
    BY ReaderAssumption DEF ReadWait, Return, ReadersInPlace
  <2>3. r' = r /\ w' = w /\ left[p] \in 0..MaxLen /\ got[p] \in 0..MaxLen
    BY DEF ReadWait, cons
  <2>4. left'[p] + got'[p] <= MaxLen
    <3>1. left[p] + got[p] <= MaxLen
      BY DEF ReadersInPlace
    <3> QED  BY <2>2, <2>3, <3>1, SizeAssumption, SMT
  <2> QED  BY <2>1, <2>2, <2>3, <2>4 DEF ReadersInPlace
<1> HIDE DEF RingCore, TypeOK
<1> QED  BY <1>2, <1>3, RingRests

\* Falling asleep and giving up cons.lock are one step.
LEMMA SleepRingCore == ASSUME NEW p \in Reader, RingCore, Sleep(p) PROVE RingCore'
<1> USE DEF RingCore, TypeOK
<1>1. /\ left' \in [Reader -> 0..MaxLen] /\ got' \in [Reader -> 0..MaxLen]
      /\ pc' \in [Reader -> {"user", "wait", "sleep"}] /\ asleep' \in [Reader -> BOOLEAN]
      /\ lock' \in Reader \cup {NoReader} /\ killed' \in [Reader -> BOOLEAN]
      /\ UNCHANGED cons
  BY DEF Sleep
<1>2. ReadersInPlace'
  BY ReaderAssumption DEF Sleep, cons, ReadersInPlace
<1> HIDE DEF RingCore, TypeOK
<1> QED  BY <1>1, <1>2, RingRests

\* Who comes back from sleep takes the lock again and looks at the ring anew.
LEMMA ResumeRingCore == ASSUME NEW p \in Reader, RingCore, Resume(p) PROVE RingCore'
<1> USE DEF RingCore, TypeOK
<1>1. /\ left' \in [Reader -> 0..MaxLen] /\ got' \in [Reader -> 0..MaxLen]
      /\ pc' \in [Reader -> {"user", "wait", "sleep"}] /\ asleep' \in [Reader -> BOOLEAN]
      /\ lock' \in Reader \cup {NoReader} /\ killed' \in [Reader -> BOOLEAN]
      /\ UNCHANGED cons
  BY DEF Resume, Goto
<1>2. ReadersInPlace'
  BY ReaderAssumption DEF Resume, Goto, cons, ReadersInPlace
<1> HIDE DEF RingCore, TypeOK
<1> QED  BY <1>1, <1>2, RingRests

\* A kill wakes its reader, and moves nothing.
LEMMA KillRingCore == ASSUME NEW p \in Reader, RingCore, Kill(p) PROVE RingCore'
<1> USE DEF RingCore, TypeOK
<1>1. /\ left' \in [Reader -> 0..MaxLen] /\ got' \in [Reader -> 0..MaxLen]
      /\ pc' \in [Reader -> {"user", "wait", "sleep"}] /\ asleep' \in [Reader -> BOOLEAN]
      /\ lock' \in Reader \cup {NoReader} /\ killed' \in [Reader -> BOOLEAN]
      /\ UNCHANGED cons
  BY DEF Kill
<1>2. ReadersInPlace'
  BY DEF Kill, cons, ReadersInPlace
<1> HIDE DEF RingCore, TypeOK
<1> QED  BY <1>1, <1>2, RingRests

\* A character less to be read: no reader is asleep, for there was one.
LEMMA RingRead ==
  ASSUME NEW p \in Reader, RingCore, pc[p] = "wait", r # w,
         r' \in {r, Plus(r, 1)}, UNCHANGED <<cbuf, w, e, asleep, killed>>,
         \/ got'[p] = got[p] /\ left'[p] = 0 /\ pc'[p] = "user" /\ lock' = NoReader
         \/ got'[p] = got[p] + 1 /\ left'[p] = 0 /\ pc'[p] = "user" /\ lock' = NoReader
         \/ /\ got'[p] = got[p] + 1 /\ left'[p] = left[p] - 1 /\ left[p] # 1
            /\ pc'[p] = "wait" /\ lock' = lock,
         got' = [got EXCEPT ![p] = got'[p]], left' = [left EXCEPT ![p] = left'[p]],
         pc' = [pc EXCEPT ![p] = pc'[p]]
  PROVE  RingCore'
<1> USE DEF RingCore
<1>1. /\ r \in Index /\ w \in Index /\ e \in Index
      /\ Minus(w, r) \in 0..INPUT_BUF_SIZE /\ Minus(e, r) \in 0..INPUT_BUF_SIZE
      /\ Minus(e, w) \in 0..INPUT_BUF_SIZE /\ Minus(w, r) <= Minus(e, r)
      /\ Minus(e, w) = Minus(e, r) - Minus(w, r)
  BY RingTypes
<1>2. /\ Plus(r, 1) \in Index /\ Minus(w, Plus(r, 1)) = Minus(w, r) - 1
      /\ Minus(e, Plus(r, 1)) = Minus(e, r) - 1
  BY RingMoves
<1>3. /\ Minus(w, r') \in Int /\ Minus(e, r') \in Int /\ r' \in Index
      /\ Minus(w, r') <= Minus(e, r') /\ Minus(e, r') <= INPUT_BUF_SIZE
      /\ r' = r \/ Minus(e, r') < INPUT_BUF_SIZE
  <2>1. CASE r' = r
    BY <1>1, <2>1, SMT
  <2>2. CASE r' = Plus(r, 1)
    BY <1>1, <1>2, <2>2, SizeAssumption, SMT
  <2> QED  BY <2>1, <2>2
<1>4. /\ got[p] \in 0..MaxLen /\ left[p] \in 0..MaxLen
      /\ left[p] + got[p] <= MaxLen /\ left[p] > 0
  BY DEF TypeOK, ReadersInPlace
<1>5. /\ got'[p] \in 0..MaxLen /\ left'[p] \in 0..MaxLen
      /\ left'[p] + got'[p] <= MaxLen /\ (pc'[p] = "wait" => left'[p] > 0)
  BY <1>4, SizeAssumption, SMT
<1>6. /\ pc'[p] \in {"user", "wait", "sleep"} /\ lock' \in Reader \cup {NoReader}
  BY DEF TypeOK
<1>7. TypeOK'
  <2>1. /\ pc' \in [Reader -> {"user", "wait", "sleep"}]
        /\ got' \in [Reader -> 0..MaxLen] /\ left' \in [Reader -> 0..MaxLen]
    BY <1>5, <1>6 DEF TypeOK
  <2>2. {r, w, e}' \subseteq 0..(Wrap - 1)
    BY <1>1, <1>3 DEF Index
  <2>3. (Minus(w, r) <= Minus(e, r) /\ Minus(e, r) <= INPUT_BUF_SIZE)'
    BY <1>3 DEF Minus
  <2> QED  BY <1>6, <2>1, <2>2, <2>3 DEF TypeOK
<1>8. NotJammed'
  <2>1. Minus(e, r') = INPUT_BUF_SIZE => r' # w
    BY <1>3, SizeAssumption, SMT
  <2> QED  BY <2>1 DEF NotJammed, Minus
<1>9. ReadersInPlace'
  <2>1. lock = p /\ \A q \in Reader : ~asleep[q]
    BY DEF ReadersInPlace
  <2>2. ASSUME NEW q \in Reader, q # p
        PROVE  /\ pc'[q] = pc[q] /\ left'[q] = left[q] /\ got'[q] = got[q]
               /\ ~asleep'[q] /\ lock' # q /\ pc[q] # "wait"
    <3>1. lock' # q
      BY <2>1, <2>2, ReaderAssumption
    <3> QED  BY <2>1, <2>2, <3>1, ReaderAssumption DEF TypeOK, ReadersInPlace
  <2>3. \/ pc'[p] = "user" /\ lock' # p
        \/ pc'[p] = "wait" /\ lock' = p
    BY <2>1, ReaderAssumption
  <2>4. ~asleep'[p]
    BY <2>1
  <2> QED  BY <1>5, <2>2, <2>3, <2>4 DEF ReadersInPlace
<1>10. LineOpen'
  BY DEF LineOpen, At, Minus, Plus
<1> QED  BY <1>7, <1>8, <1>9, <1>10

\* ^D ends a read, taken out of the ring or left for the next one.
LEMMA ReadEOFRingCore == ASSUME NEW p \in Reader, RingCore, ReadEOF(p) PROVE RingCore'
<1>1. /\ pc[p] = "wait" /\ r # w /\ UNCHANGED <<cbuf, w, e, asleep, killed>>
      /\ r' \in {r, Plus(r, 1)} /\ lock' = NoReader
  BY DEF ReadEOF, Return
<1>2. TypeOK
  BY DEF RingCore
<1>3. /\ got' = got /\ left' = [left EXCEPT ![p] = 0] /\ pc' = [pc EXCEPT ![p] = "user"]
  BY DEF ReadEOF, Return
<1>4. /\ got'[p] = got[p] /\ left'[p] = 0 /\ pc'[p] = "user"
      /\ got' = [got EXCEPT ![p] = got'[p]] /\ left' = [left EXCEPT ![p] = left'[p]]
      /\ pc' = [pc EXCEPT ![p] = pc'[p]]
  BY <1>2, <1>3 DEF TypeOK
<1> QED  BY <1>1, <1>4, RingRead

\* Another character is taken out, copied or lost.
LEMMA ReadCharRingCore == ASSUME NEW p \in Reader, RingCore, ReadChar(p) PROVE RingCore'
<1>1. /\ pc[p] = "wait" /\ r # w /\ UNCHANGED <<cbuf, w, e, asleep, killed>>
      /\ r' \in {r, Plus(r, 1)}
  BY DEF ReadChar
<1>2. TypeOK
  BY DEF RingCore
<1>3. CASE got' = got /\ Return(p)
  <2>1. /\ got'[p] = got[p] /\ left'[p] = 0 /\ pc'[p] = "user" /\ lock' = NoReader
        /\ got' = [got EXCEPT ![p] = got'[p]] /\ left' = [left EXCEPT ![p] = left'[p]]
        /\ pc' = [pc EXCEPT ![p] = pc'[p]]
    BY <1>2, <1>3 DEF TypeOK, Return
  <2> QED  BY <1>1, <2>1, RingRead
<1>4. CASE got' = [got EXCEPT ![p] = @ + 1] /\ Return(p)
  <2>1. /\ got'[p] = got[p] + 1 /\ left'[p] = 0 /\ pc'[p] = "user" /\ lock' = NoReader
        /\ got' = [got EXCEPT ![p] = got'[p]] /\ left' = [left EXCEPT ![p] = left'[p]]
        /\ pc' = [pc EXCEPT ![p] = pc'[p]]
    BY <1>2, <1>4 DEF TypeOK, Return
  <2> QED  BY <1>1, <2>1, RingRead
<1>5. CASE /\ got' = [got EXCEPT ![p] = @ + 1] /\ left' = [left EXCEPT ![p] = @ - 1]
           /\ left[p] # 1 /\ UNCHANGED <<pc, lock>>
  <2>1. /\ got'[p] = got[p] + 1 /\ left'[p] = left[p] - 1 /\ left[p] # 1
        /\ pc'[p] = "wait" /\ lock' = lock
        /\ got' = [got EXCEPT ![p] = got'[p]] /\ left' = [left EXCEPT ![p] = left'[p]]
        /\ pc' = [pc EXCEPT ![p] = pc'[p]]
    BY <1>1, <1>2, <1>5 DEF TypeOK
  <2> QED  BY <1>1, <2>1, RingRead
<1> QED  BY <1>3, <1>4, <1>5 DEF ReadChar

\* So every step keeps the ring in order.
LEMMA StepRingCore == RingCore /\ [Next]_vars => RingCore'
<1> SUFFICES ASSUME RingCore, [Next]_vars
             PROVE  RingCore'
  OBVIOUS
<1>1. CASE ConsoleIntr
  <2>1. ASSUME NEW c \in Char, Store(c)
        PROVE  RingCore'
    BY <2>1, StoreRingCore
  <2> QED  BY <1>1, <2>1, EraseCharRingCore, KillLineRingCore DEF ConsoleIntr
<1>2. ASSUME NEW p \in Reader, ReadCall(p) \/ InRead(p) \/ Kill(p)
      PROVE  RingCore'
  BY <1>2, ReadCallRingCore, ReadWaitRingCore, SleepRingCore, ResumeRingCore,
     ReadEOFRingCore, ReadCharRingCore, KillRingCore DEF InRead
<1>3. CASE UNCHANGED vars
  <2> USE DEF RingCore
  <2>1. TypeOK'
    BY <1>3 DEF vars, cons, TypeOK, Minus
  <2>2. NotJammed' /\ ReadersInPlace' /\ LineOpen'
    BY <1>3 DEF vars, cons, NotJammed, ReadersInPlace, LineOpen, At, Minus, Plus
  <2> QED  BY <2>1, <2>2
<1> QED  BY <1>1, <1>2, <1>3 DEF Next

\* It is in order always.
LEMMA RingCoreInvariant == Spec => []RingCore
<1> QED  BY InitRingCore, StepRingCore, PTL DEF Spec

\* The ring never jams, and no reader sleeps on input that has been entered, however
\* kills come between the steps of consoleread and its indices wrap (console.c:86-174).
THEOREM RingInvariant == Spec => []RingInv
<1> QED  BY RingCoreInvariant, RingCoreSuffices, PTL

-------------------------------------------------------------------------------
(* The ring is an input of lines *)

\* A stretch of the ring is a sequence of characters.
LEMMA StretchIs ==
  ASSUME TypeOK, NEW i \in Index, NEW n \in 0..INPUT_BUF_SIZE
  PROVE  /\ Stretch(i, n) \in Seq(Char) /\ Len(Stretch(i, n)) = n
         /\ DOMAIN Stretch(i, n) = 1..n
         /\ \A k \in 1..n : Stretch(i, n)[k] = At(Plus(i, k - 1))
<1>1. ASSUME NEW k \in 1..n
      PROVE  At(Plus(i, k - 1)) \in Char
  <2>1. k - 1 \in Index
    BY SizeAssumption, SMT DEF Index
  <2>2. Plus(i, k - 1) % INPUT_BUF_SIZE \in Place
    BY <2>1, PlaceOf
  <2> QED  BY <2>2 DEF At, TypeOK
<1>2. n \in Nat
  BY SMT
<1>3. Stretch(i, n) \in [1..n -> Char]
  BY <1>1 DEF Stretch
<1>4. Stretch(i, n) \in Seq(Char) /\ Len(Stretch(i, n)) = n
  BY <1>2, <1>3, SMT DEF Stretch
<1> QED  BY <1>4 DEF Stretch

\* The ring from r to e, seen from r and from w.
LEMMA RingSpan ==
  ASSUME TypeOK
  PROVE  /\ Plus(r, Minus(e, r)) = e /\ Plus(r, 0) = r
         /\ \A k \in 0..Minus(e, w) : Plus(w, k) = Plus(r, Minus(w, r) + k)
         /\ \A k \in 0..(INPUT_BUF_SIZE - 1) : Plus(Plus(r, 1), k) = Plus(r, 1 + k)
<1>1. /\ r \in Index /\ w \in Index /\ e \in Index
      /\ Minus(w, r) \in 0..INPUT_BUF_SIZE /\ Minus(e, r) \in 0..INPUT_BUF_SIZE
      /\ Minus(e, w) \in 0..INPUT_BUF_SIZE /\ Minus(w, r) <= Minus(e, r)
      /\ Minus(e, w) = Minus(e, r) - Minus(w, r)
  BY RingTypes
<1>2. Wrap \in Nat /\ INPUT_BUF_SIZE \in Nat \ {0} /\ INPUT_BUF_SIZE < Wrap
  BY SizeAssumption
<1>3. /\ Minus(w, r) = IF r <= w THEN w - r ELSE w - r + Wrap
      /\ Minus(e, r) = IF r <= e THEN e - r ELSE e - r + Wrap
  BY <1>1, IndexArithmetic
<1>4. Plus(r, Minus(e, r)) = e
  <2>1. Minus(e, r) \in Index
    BY <1>1, <1>2, SMT DEF Index
  <2>2. Plus(r, Minus(e, r)) = IF r + Minus(e, r) < Wrap THEN r + Minus(e, r)
                                                         ELSE r + Minus(e, r) - Wrap
    BY <1>1, <2>1, IndexArithmetic
  <2> QED  BY <1>1, <1>2, <1>3, <2>2, SMT DEF Index
<1>5. Plus(r, 0) = r
  <2>1. 0 \in Index
    BY <1>2, SMT DEF Index
  <2>2. Plus(r, 0) = IF r + 0 < Wrap THEN r + 0 ELSE r + 0 - Wrap
    BY <1>1, <2>1, IndexArithmetic
  <2> QED  BY <1>1, <1>2, <2>2, SMT DEF Index
<1>6. ASSUME NEW k \in 0..Minus(e, w)
      PROVE  Plus(w, k) = Plus(r, Minus(w, r) + k)
  <2>1. k \in Index /\ Minus(w, r) + k \in Index
    BY <1>1, <1>2, SMT DEF Index
  <2>2. /\ Plus(w, k) = IF w + k < Wrap THEN w + k ELSE w + k - Wrap
        /\ Plus(r, Minus(w, r) + k) = IF r + (Minus(w, r) + k) < Wrap THEN r + (Minus(w, r) + k)
                                                                 ELSE r + (Minus(w, r) + k) - Wrap
    BY <1>1, <2>1, IndexArithmetic
  <2> QED  BY <1>1, <1>2, <1>3, <2>1, <2>2, SMT DEF Index
<1>7. ASSUME NEW k \in 0..(INPUT_BUF_SIZE - 1)
      PROVE  Plus(Plus(r, 1), k) = Plus(r, 1 + k)
  <2>1. k \in Index /\ 1 + k \in Index /\ 1 \in Index
    BY <1>1, <1>2, SMT DEF Index
  <2>2. Plus(r, 1) \in Index /\ Plus(r, 1) = IF r + 1 < Wrap THEN r + 1 ELSE r + 1 - Wrap
    BY <1>1, <2>1, IndexArithmetic
  <2>3. /\ Plus(Plus(r, 1), k) = IF Plus(r, 1) + k < Wrap THEN Plus(r, 1) + k
                                                           ELSE Plus(r, 1) + k - Wrap
        /\ Plus(r, 1 + k) = IF r + (1 + k) < Wrap THEN r + (1 + k) ELSE r + (1 + k) - Wrap
    BY <1>1, <2>1, <2>2, IndexArithmetic
  <2> QED  BY <1>1, <1>2, <2>1, <2>2, <2>3, SMT DEF Index
<1> QED  BY <1>4, <1>5, <1>6, <1>7

\* The two sequences of LineInput.
LEMMA InputIs ==
  ASSUME TypeOK
  PROVE  /\ Stretch(r, Minus(w, r)) \in Seq(Char) /\ Stretch(w, Minus(e, w)) \in Seq(Char)
         /\ Len(Stretch(r, Minus(w, r))) = Minus(w, r)
         /\ Len(Stretch(w, Minus(e, w))) = Minus(e, w)
         /\ \A k \in 1..Minus(w, r) : Stretch(r, Minus(w, r))[k] = At(Plus(r, k - 1))
         /\ \A k \in 1..Minus(e, w) : Stretch(w, Minus(e, w))[k] = At(Plus(w, k - 1))
  BY RingTypes, StretchIs

\* The same one step later, with the ring's own variables primed.
LEMMA InputNext ==
  /\ Stretch(r, Minus(w, r))' = [k \in 1..Minus(w', r') |-> cbuf'[Plus(r', k - 1) % INPUT_BUF_SIZE]]
  /\ Stretch(w, Minus(e, w))' = [k \in 1..Minus(e', w') |-> cbuf'[Plus(w', k - 1) % INPUT_BUF_SIZE]]
  BY DEF Stretch, At, Minus, Plus

\* A character stored becomes the last of the line, and what is entered stays or
\* becomes longer by the line.
LEMMA StoreTypes == ASSUME NEW c \in Char, RingCore, Store(c) PROVE Input!Type(c)
<1> DEFINE m == Minus(w, r)
           n == Minus(e, w)
           entered == Stretch(r, Minus(w, r))
           line == Stretch(w, Minus(e, w))
<1>1. TypeOK /\ Minus(e, r) < INPUT_BUF_SIZE
  BY DEF RingCore, Store, Room
<1>2. /\ r \in Index /\ w \in Index /\ e \in Index
      /\ m \in Nat /\ n \in Nat /\ Minus(e, r) = m + n /\ INPUT_BUF_SIZE \in Nat
      /\ m + n \in 0..(INPUT_BUF_SIZE - 1) /\ n \in 0..(INPUT_BUF_SIZE - 1)
  <2>1. /\ r \in Index /\ w \in Index /\ e \in Index
        /\ Minus(w, r) \in 0..INPUT_BUF_SIZE /\ Minus(e, r) \in 0..INPUT_BUF_SIZE
        /\ Minus(e, w) \in 0..INPUT_BUF_SIZE /\ Minus(e, w) = Minus(e, r) - Minus(w, r)
    BY <1>1, RingTypes
  <2> QED  BY <1>1, <2>1, SizeAssumption, SMT
<1>3. /\ entered \in Seq(Char) /\ Len(entered) = m /\ line \in Seq(Char) /\ Len(line) = n
      /\ \A k \in 1..m : entered[k] = At(Plus(r, k - 1))
      /\ \A k \in 1..n : line[k] = At(Plus(w, k - 1))
  BY <1>1, InputIs
<1>4. /\ \A k \in 1..n : cbuf'[Plus(w, k - 1) % INPUT_BUF_SIZE] = At(Plus(w, k - 1))
      /\ cbuf'[Plus(w, n) % INPUT_BUF_SIZE] = c
  BY <1>1, <1>2, StoreKeeps, RingMoves
<1>5. /\ \A k \in 1..(m + n) : cbuf'[Plus(r, k - 1) % INPUT_BUF_SIZE] = At(Plus(r, k - 1))
      /\ cbuf'[Plus(r, m + n) % INPUT_BUF_SIZE] = c
  BY <1>1, <1>2, StoreKeeps, RingSpan
<1>6. /\ Minus(Plus(e, 1), r) = (m + n) + 1 /\ Minus(Plus(e, 1), w) = n + 1
      /\ e' = Plus(e, 1) /\ r' = r
  BY <1>1, <1>2, RingMoves DEF Store
<1>7. /\ Append(line, c) \in Seq(Char) /\ Len(Append(line, c)) = n + 1
      /\ \A k \in 1..n : Append(line, c)[k] = line[k]
      /\ Append(line, c)[n + 1] = c
  BY <1>3, AppendProperties
<1>8. ASSUME ~Enters(c)
      PROVE  line' = Append(line, c) /\ entered' = entered
  <2>1. w' = w
    BY <1>8 DEF Store
  <2>2. entered' = [k \in 1..m |-> cbuf'[Plus(r, k - 1) % INPUT_BUF_SIZE]]
    BY <1>6, <2>1, InputNext
  <2>3. line' = [k \in 1..(n + 1) |-> cbuf'[Plus(w, k - 1) % INPUT_BUF_SIZE]]
    BY <1>6, <2>1, InputNext
  <2> HIDE DEF m, n, entered, line
  <2>4. entered' = entered
    <3>1. \A k \in 1..m : k \in 1..(m + n)
      BY <1>2, SMT
    <3>2. entered = [k \in 1..m |-> entered[k]]
      BY <1>3, LenProperties
    <3> QED  BY <1>3, <1>5, <2>2, <3>1, <3>2
  <2>5. line' = Append(line, c)
    <3>1. Append(line, c) = [k \in 1..(n + 1) |-> Append(line, c)[k]]
      BY <1>7, LenProperties
    <3>2. ASSUME NEW k \in 1..(n + 1)
          PROVE  cbuf'[Plus(w, k - 1) % INPUT_BUF_SIZE] = Append(line, c)[k]
      <4>1. k \in 1..n \/ (k = n + 1 /\ k - 1 = n)
        BY <1>2, SMT
      <4> QED  BY <1>3, <1>4, <1>7, <4>1
    <3> QED  BY <2>3, <3>1, <3>2
  <2> QED  BY <2>4, <2>5
<1>9. ASSUME Enters(c)
      PROVE  line' = << >> /\ entered' = entered \o Append(line, c)
  <2>1. w' = Plus(e, 1)
    BY <1>6, <1>9 DEF Store
  <2>2. entered' = [k \in 1..((m + n) + 1) |-> cbuf'[Plus(r, k - 1) % INPUT_BUF_SIZE]]
    BY <1>6, <2>1, InputNext
  <2>3. line' = << >>
    <3>1. Plus(e, 1) \in Index
      BY <1>1, RingMoves
    <3>2. Minus(Plus(e, 1), Plus(e, 1)) = IF Plus(e, 1) <= Plus(e, 1) THEN Plus(e, 1) - Plus(e, 1)
                                                         ELSE Plus(e, 1) - Plus(e, 1) + Wrap
      BY <3>1, IndexArithmetic
    <3>3. Minus(Plus(e, 1), Plus(e, 1)) = 0
      BY <3>1, <3>2, SizeAssumption, SMT DEF Index
    <3>4. 1..0 = {}
      BY SMT
    <3>5. line' = [k \in {} |-> cbuf'[Plus(w', k - 1) % INPUT_BUF_SIZE]]
      BY <1>6, <2>1, <3>3, <3>4, InputNext
    <3> QED  BY <3>5, SMT
  <2>4. /\ entered \o Append(line, c) \in Seq(Char)
        /\ Len(entered \o Append(line, c)) = m + (n + 1)
        /\ \A k \in 1..(m + (n + 1)) : (entered \o Append(line, c))[k] =
              IF k <= m THEN entered[k] ELSE Append(line, c)[k - m]
    <3> HIDE DEF m, n, entered, line
    <3>1. /\ entered \o Append(line, c) \in Seq(Char)
          /\ Len(entered \o Append(line, c)) = Len(entered) + Len(Append(line, c))
          /\ \A k \in 1..(Len(entered) + Len(Append(line, c))) : (entered \o Append(line, c))[k] =
                IF k <= Len(entered) THEN entered[k] ELSE Append(line, c)[k - Len(entered)]
      <4>1. entered \in Seq(Char) /\ Append(line, c) \in Seq(Char)
        BY <1>3, <1>7
      <4> QED  BY <4>1, ConcatProperties
    <3>2. Len(entered) = m /\ Len(Append(line, c)) = n + 1
      BY <1>3, <1>7
    <3> QED  BY <3>1, <3>2
  <2>5. \A k \in 0..n : Plus(w, k) = Plus(r, m + k)
    BY <1>1, RingSpan
  <2> HIDE DEF m, n, entered, line
  <2>6. ASSUME NEW k \in 1..((m + n) + 1)
        PROVE  cbuf'[Plus(r, k - 1) % INPUT_BUF_SIZE] = (entered \o Append(line, c))[k]
    <3>0. k \in 1..(m + (n + 1))
      BY <1>2, SMT
    <3>1. CASE k <= m
      <4>1. k \in 1..m /\ k \in 1..(m + n)
        BY <1>2, <3>1, SMT
      <4> QED  BY <1>3, <1>5, <2>4, <3>0, <3>1, <4>1
    <3>2. CASE k > m /\ k # (m + n) + 1
      <4>1. /\ k - m \in 1..n /\ k \in 1..(m + n) /\ (k - m) - 1 \in 0..n
            /\ m + ((k - m) - 1) = k - 1 /\ ~(k <= m)
        BY <1>2, <3>2, SMT
      <4>2. (entered \o Append(line, c))[k] = line[k - m]
        BY <1>7, <2>4, <3>0, <4>1
      <4>3. Plus(w, (k - m) - 1) = Plus(r, k - 1)
        BY <2>5, <4>1
      <4> QED  BY <1>3, <1>5, <4>1, <4>2, <4>3
    <3>3. CASE k = (m + n) + 1
      <4>1. k - m = n + 1 /\ ~(k <= m) /\ k - 1 = m + n
        BY <1>2, <3>3, SMT
      <4> QED  BY <1>5, <1>7, <2>4, <3>0, <4>1
    <3>4. k <= m \/ (k > m /\ k # (m + n) + 1) \/ k = (m + n) + 1
      BY <1>2, SMT
    <3> QED  BY <3>1, <3>2, <3>3, <3>4
  <2>7. entered \o Append(line, c) = [k \in 1..((m + n) + 1) |-> (entered \o Append(line, c))[k]]
    <3>1. (m + n) + 1 = m + (n + 1)
      BY <1>2, SMT
    <3> QED  BY <2>4, <3>1, LenProperties
  <2> QED  BY <2>2, <2>3, <2>6, <2>7
<1>10. Len(entered) + Len(line) < INPUT_BUF_SIZE
  <2> HIDE DEF m, n, entered, line
  <2> QED  BY <1>2, <1>3, SMT
<1> QED  BY <1>8, <1>9, <1>10 DEF Input!Type

\* A character erased is the last of the line; what is entered stays.
LEMMA EraseCharErases == ASSUME RingCore, EraseChar PROVE Input!Erase
<1> DEFINE m == Minus(w, r)
           n == Minus(e, w)
           entered == Stretch(r, Minus(w, r))
           line == Stretch(w, Minus(e, w))
<1>1. TypeOK /\ e # w /\ e' = Minus(e, 1) /\ r' = r /\ w' = w /\ cbuf' = cbuf
  BY DEF RingCore, EraseChar, Erasable
<1>2. m \in Nat /\ n \in Nat /\ n > 0
  <2>1. m \in 0..INPUT_BUF_SIZE /\ n \in 0..INPUT_BUF_SIZE /\ n # 0
    BY <1>1, RingTypes, RingMoves
  <2> QED  BY <2>1, SizeAssumption, SMT
<1>3. /\ entered \in Seq(Char) /\ Len(entered) = m /\ line \in Seq(Char) /\ Len(line) = n
      /\ \A k \in 1..m : entered[k] = At(Plus(r, k - 1))
      /\ \A k \in 1..n : line[k] = At(Plus(w, k - 1))
  BY <1>1, InputIs
<1>4. Minus(Minus(e, 1), w) = n - 1
  BY <1>1, RingMoves
<1>5. /\ entered' = [k \in 1..m |-> At(Plus(r, k - 1))]
      /\ line' = [k \in 1..(n - 1) |-> At(Plus(w, k - 1))]
  BY <1>1, <1>4, InputNext DEF At
<1> HIDE DEF m, n, entered, line
<1>6. entered' = entered
  BY <1>3, <1>5, LenProperties
<1>7. line' = SubSeq(line, 1, n - 1)
  <2>1. \A k \in 1..(n - 1) : k \in 1..n
    BY <1>2, SMT
  <2>2. /\ SubSeq(line, 1, n - 1) \in Seq(Char)
        /\ Len(SubSeq(line, 1, n - 1)) = n - 1
        /\ \A k \in 1..(n - 1) : SubSeq(line, 1, n - 1)[k] = line[k]
    <3>1. \A k \in 1..(n - 1) : line[k] \in Char
      BY <1>3, <2>1, ElementOfSeq
    <3>2. 1 \in Int /\ n - 1 \in Int
      BY <1>2, SMT
    <3>3. /\ SubSeq(line, 1, n - 1) \in Seq(Char)
          /\ Len(SubSeq(line, 1, n - 1)) = IF 1 <= n - 1 THEN (n - 1) - 1 + 1 ELSE 0
          /\ \A k \in 1..((n - 1) - 1 + 1) : SubSeq(line, 1, n - 1)[k] = line[1 + k - 1]
      BY <3>1, <3>2, SubSeqProperties
    <3>4. (IF 1 <= n - 1 THEN (n - 1) - 1 + 1 ELSE 0) = n - 1 /\ (n - 1) - 1 + 1 = n - 1
      BY <1>2, SMT
    <3>5. \A k \in 1..(n - 1) : 1 + k - 1 = k
      BY <1>2, SMT
    <3> QED  BY <3>3, <3>4, <3>5
  <2>3. SubSeq(line, 1, n - 1) = [k \in 1..(n - 1) |-> SubSeq(line, 1, n - 1)[k]]
    BY <2>2, LenProperties
  <2> QED  BY <1>3, <1>5, <2>1, <2>2, <2>3
<1>8. line # << >>
  BY <1>2, <1>3, SMT
<1> QED  BY <1>3, <1>6, <1>7, <1>8 DEF Input!Erase, m, n, entered, line

\* ^U erases the line, for there is no newline in it to stop at.
LEMMA KillLineErases == ASSUME RingCore, KillLine PROVE Input!EraseLine
<1>1. TypeOK /\ e' = w /\ r' = r /\ w' = w /\ cbuf' = cbuf
  BY KillsAll DEF RingCore, KillLine
<1>2. Minus(w, w) = 0 /\ 1..0 = {}
  <2>1. w \in Index
    BY <1>1, RingTypes
  <2>2. Minus(w, w) = IF w <= w THEN w - w ELSE w - w + Wrap
    BY <2>1, IndexArithmetic
  <2> QED  BY <2>1, <2>2, SizeAssumption, SMT DEF Index
<1>3. Stretch(r, Minus(w, r))' = Stretch(r, Minus(w, r))
  BY <1>1 DEF Stretch, At, Minus, Plus
<1>4. Stretch(w, Minus(e, w))' = << >>
  <2>1. Stretch(w, Minus(e, w))' = [k \in {} |-> cbuf'[Plus(w', k - 1) % INPUT_BUF_SIZE]]
    BY <1>1, <1>2, InputNext
  <2> QED  BY <2>1, SMT
<1> QED  BY <1>3, <1>4 DEF Input!EraseLine

\* A character read is the first of what is entered.
LEMMA ReadGets ==
  ASSUME RingCore, r # w, r' = Plus(r, 1), UNCHANGED <<cbuf, w, e>>
  PROVE  Input!Get
<1> DEFINE m == Minus(w, r)
           n == Minus(e, w)
           entered == Stretch(r, Minus(w, r))
           line == Stretch(w, Minus(e, w))
<1>1. TypeOK
  BY DEF RingCore
<1>2. m \in 0..INPUT_BUF_SIZE /\ m \in Nat /\ m > 0 /\ INPUT_BUF_SIZE \in Nat
  <2>1. m \in 0..INPUT_BUF_SIZE /\ m # 0
    BY <1>1, RingTypes, RingMoves
  <2> QED  BY <2>1, SizeAssumption, SMT
<1>3. /\ entered \in Seq(Char) /\ Len(entered) = m
      /\ \A k \in 1..m : entered[k] = At(Plus(r, k - 1))
  BY <1>1, InputIs
<1>4. Minus(w, Plus(r, 1)) = m - 1
  BY <1>1, RingMoves
<1>5. entered' = [k \in 1..(m - 1) |-> At(Plus(Plus(r, 1), k - 1))]
  BY <1>4, InputNext DEF At
<1>6. line' = line
  BY DEF Stretch, At, Minus, Plus
<1>7. \A k \in 0..(INPUT_BUF_SIZE - 1) : Plus(Plus(r, 1), k) = Plus(r, 1 + k)
  BY <1>1, RingSpan
<1> HIDE DEF m, n, entered, line
<1>8. entered # << >>
  BY <1>2, <1>3, SMT
<1>9. entered' = Tail(entered)
  <2>1. /\ Tail(entered) \in Seq(Char) /\ Len(Tail(entered)) = m - 1
        /\ \A k \in 1..(m - 1) : Tail(entered)[k] = entered[k + 1]
    BY <1>3, <1>8, HeadTailProperties
  <2>2. Tail(entered) = [k \in 1..(m - 1) |-> Tail(entered)[k]]
    BY <2>1, LenProperties
  <2>3. ASSUME NEW k \in 1..(m - 1)
        PROVE  At(Plus(Plus(r, 1), k - 1)) = Tail(entered)[k]
    <3>1. k - 1 \in 0..(INPUT_BUF_SIZE - 1) /\ 1 + (k - 1) = (k + 1) - 1 /\ k + 1 \in 1..m
      BY <1>2, SMT
    <3>2. At(Plus(Plus(r, 1), k - 1)) = At(Plus(r, (k + 1) - 1))
      BY <1>7, <3>1
    <3> QED  BY <1>3, <2>1, <3>1, <3>2
  <2> QED  BY <1>5, <2>2, <2>3
<1> QED  BY <1>6, <1>8, <1>9 DEF Input!Get, entered, line

\* What leaves the ring alone leaves the input.
LEMMA OthersLeaveInput ==
  ASSUME UNCHANGED cons
  PROVE  UNCHANGED Input!vars
  BY DEF cons, Input!vars, Stretch, At, Minus, Plus

\* Each step of the console is one of the input, or none.
LEMMA StepInputs == RingCore /\ [Next]_vars => [Input!Next]_(Input!vars)
<1> SUFFICES ASSUME RingCore, [Next]_vars
             PROVE  Input!Next \/ UNCHANGED Input!vars
  OBVIOUS
<1>1. CASE ConsoleIntr
  <2>1. ASSUME NEW c \in Char, Store(c)
        PROVE  Input!Next
    BY <2>1, StoreTypes DEF Input!Next
  <2> QED  BY <1>1, <2>1, EraseCharErases, KillLineErases DEF ConsoleIntr, Input!Next
<1>2. ASSUME NEW p \in Reader, ReadEOF(p) \/ ReadChar(p)
      PROVE  Input!Next \/ UNCHANGED Input!vars
  <2>1. r # w /\ UNCHANGED <<cbuf, w, e>> /\ r' \in {r, Plus(r, 1)}
    BY <1>2 DEF ReadEOF, ReadChar
  <2>2. CASE r' = r
    BY <2>1, <2>2, OthersLeaveInput DEF cons
  <2>3. CASE r' = Plus(r, 1)
    BY <2>1, <2>3, ReadGets DEF Input!Next
  <2> QED  BY <2>1, <2>2, <2>3
<1>3. ASSUME NEW p \in Reader,
             ReadCall(p) \/ ReadWait(p) \/ Sleep(p) \/ Resume(p) \/ Kill(p)
      PROVE  UNCHANGED cons
  BY <1>3 DEF ReadCall, ReadWait, Sleep, Resume, Kill
<1>4. CASE UNCHANGED vars
  BY <1>4, OthersLeaveInput DEF vars
<1> QED  BY <1>1, <1>2, <1>3, <1>4, OthersLeaveInput DEF Next, InRead

\* An empty ring is an empty input.
LEMMA InitInputs == Init => Input!Init
<1> SUFFICES ASSUME Init
             PROVE  Input!Init
  OBVIOUS
<1>1. Minus(0, 0) = 0 /\ 1..0 = {}
  <2>1. 0 \in Index
    BY SizeAssumption, SMT DEF Index
  <2>2. Minus(0, 0) = IF 0 <= 0 THEN 0 - 0 ELSE 0 - 0 + Wrap
    BY <2>1, IndexArithmetic
  <2> QED  BY <2>2, SMT
<1>2. /\ Stretch(r, Minus(w, r)) = [k \in {} |-> At(Plus(r, k - 1))]
      /\ Stretch(w, Minus(e, w)) = [k \in {} |-> At(Plus(w, k - 1))]
  BY <1>1 DEF Init, Stretch
<1>3. Stretch(r, Minus(w, r)) = << >> /\ Stretch(w, Minus(e, w)) = << >>
  BY <1>2, SMT
<1> QED  BY <1>3 DEF Input!Init

\* Whatever is typed, erased, entered and read, in whatever order and past any wrap of
\* the indices, readers get the lines that were entered, in order, each character once.
THEOREM RingRefinement == Spec => ImplementsInput
<1> QED  BY RingCoreInvariant, StepInputs, InitInputs, PTL DEF Spec, ImplementsInput, Input!Spec

-------------------------------------------------------------------------------
(* The UART *)

\* A device that is idle, with nobody waiting for it.
LEMMA InitUart == Out!Init => UartInv
<1> SUFFICES ASSUME Out!Init
             PROVE  UartInv
  OBVIOUS
<1>1. 0 \in 0..BATCH /\ 0 \in 0..(BATCH + 1) /\ 0 \in 0..0 /\ 0 \in 0..MaxTyped /\ 0 \in 0..MaxSync
  BY UartAssumption, SMT
<1>2. Out!TypeOK
  BY <1>1, UartAssumption DEF Out!Init, Out!TypeOK
<1>3. Out!NoLostTx /\ Out!WriterSleeps /\ Out!NoLostInput
  BY UartAssumption DEF Out!Init, Out!NoLostTx, Out!WriterSleeps, Out!NoLostInput
<1> QED  BY <1>2, <1>3 DEF UartInv, Out!UartInv

\* A call begins and touches no device.
LEMMA ConsoleWriteUart == ASSUME NEW p \in Writer, UartInv, Out!ConsoleWrite(p) PROVE UartInv'
<1> USE DEF UartInv, Out!UartInv, Out!ConsoleWrite, Out!Goto
<1>1. Out!TypeOK'
  BY UartAssumption DEF Out!TypeOK
<1>2. Out!NoLostTx'
  BY DEF Out!TypeOK, Out!NoLostTx
<1>3. Out!WriterSleeps'
  BY DEF Out!TypeOK, Out!WriterSleeps
<1>4. Out!NoLostInput'
  BY UartAssumption DEF Out!TypeOK, Out!NoLostInput
<1> QED  BY <1>1, <1>2, <1>3, <1>4

\* A call ends with no character of its batch left.
LEMMA ReturnUart == ASSUME NEW p \in Writer, UartInv, Out!Return(p) PROVE UartInv'
<1> USE DEF UartInv, Out!UartInv, Out!Return, Out!Goto
<1>1. Out!TypeOK'
  BY UartAssumption DEF Out!TypeOK
<1>2. Out!NoLostTx'
  BY DEF Out!TypeOK, Out!NoLostTx
<1>3. Out!WriterSleeps'
  BY DEF Out!TypeOK, Out!WriterSleeps
<1>4. Out!NoLostInput'
  BY UartAssumption DEF Out!TypeOK, Out!NoLostInput
<1> QED  BY <1>1, <1>2, <1>3, <1>4

\* A writer takes the free lock with a batch of the call.
LEMMA WriteCallUart == ASSUME NEW p \in Writer, UartInv, Out!WriteCall(p) PROVE UartInv'
<1> USE DEF UartInv, Out!UartInv, Out!WriteCall, Out!Goto
<1>1. Out!TypeOK'
  BY UartAssumption DEF Out!TypeOK
<1>2. Out!NoLostTx'
  BY DEF Out!TypeOK, Out!NoLostTx
<1>3. Out!WriterSleeps'
  BY DEF Out!TypeOK, Out!WriterSleeps
<1>4. Out!NoLostInput'
  BY UartAssumption DEF Out!TypeOK, Out!NoLostInput
<1> QED  BY <1>1, <1>2, <1>3, <1>4

\* A writer sleeps because tx_busy is set, and gives the lock up in the same step.
LEMMA WriteSleepUart == ASSUME NEW p \in Writer, UartInv, Out!WriteSleep(p) PROVE UartInv'
<1> USE DEF UartInv, Out!UartInv, Out!WriteSleep, Out!Goto
<1>1. Out!TypeOK'
  BY UartAssumption DEF Out!TypeOK
<1>2. Out!NoLostTx'
  BY DEF Out!TypeOK, Out!NoLostTx
<1>3. Out!WriterSleeps'
  BY DEF Out!TypeOK, Out!WriterSleeps
<1>4. Out!NoLostInput'
  BY UartAssumption DEF Out!TypeOK, Out!NoLostInput
<1> QED  BY <1>1, <1>2, <1>3, <1>4

\* A writer that was woken takes the lock again.
LEMMA WriteResumeUart == ASSUME NEW p \in Writer, UartInv, Out!WriteResume(p) PROVE UartInv'
<1> USE DEF UartInv, Out!UartInv, Out!WriteResume, Out!Goto
<1>1. Out!TypeOK'
  BY UartAssumption DEF Out!TypeOK
<1>2. Out!NoLostTx'
  BY DEF Out!TypeOK, Out!NoLostTx
<1>3. Out!WriterSleeps'
  BY DEF Out!TypeOK, Out!WriterSleeps
<1>4. Out!NoLostInput'
  BY UartAssumption DEF Out!TypeOK, Out!NoLostInput
<1> QED  BY <1>1, <1>2, <1>3, <1>4

\* tx_busy is set with a character that is being sent.
LEMMA WriteCharUart == ASSUME NEW p \in Writer, UartInv, Out!WriteChar(p) PROVE UartInv'
<1> USE DEF UartInv, Out!UartInv, Out!WriteChar, Out!Goto, Out!Transmit
<1>1. Out!TypeOK'
  BY UartAssumption DEF Out!TypeOK
<1>2. Out!NoLostTx'
  BY DEF Out!TypeOK, Out!NoLostTx
<1>3. Out!WriterSleeps'
  BY DEF Out!TypeOK, Out!WriterSleeps
<1>4. Out!NoLostInput'
  BY UartAssumption DEF Out!TypeOK, Out!NoLostInput
<1> QED  BY <1>1, <1>2, <1>3, <1>4

\* A batch is written and the lock given up.
LEMMA WriteEndUart == ASSUME NEW p \in Writer, UartInv, Out!WriteEnd(p) PROVE UartInv'
<1> USE DEF UartInv, Out!UartInv, Out!WriteEnd, Out!Goto
<1>1. Out!TypeOK'
  BY UartAssumption DEF Out!TypeOK
<1>2. Out!NoLostTx'
  BY DEF Out!TypeOK, Out!NoLostTx
<1>3. Out!WriterSleeps'
  BY DEF Out!TypeOK, Out!WriterSleeps
<1>4. Out!NoLostInput'
  BY UartAssumption DEF Out!TypeOK, Out!NoLostInput
<1> QED  BY <1>1, <1>2, <1>3, <1>4

\* A kill wakes its writer, and no more.
LEMMA KillUart == ASSUME NEW p \in Writer, UartInv, Out!Kill(p) PROVE UartInv'
<1> USE DEF UartInv, Out!UartInv, Out!Kill
<1>1. Out!TypeOK'
  BY UartAssumption DEF Out!TypeOK
<1>2. Out!NoLostTx'
  BY DEF Out!TypeOK, Out!NoLostTx
<1>3. Out!WriterSleeps'
  BY DEF Out!TypeOK, Out!WriterSleeps
<1>4. Out!NoLostInput'
  BY UartAssumption DEF Out!TypeOK, Out!NoLostInput
<1> QED  BY <1>1, <1>2, <1>3, <1>4

\* uartputc_sync only looks.
LEMMA SyncPollUart == ASSUME NEW s \in Sync, UartInv, Out!SyncPoll(s) PROVE UartInv'
<1> USE DEF UartInv, Out!UartInv, Out!SyncPoll, Out!writers
<1>1. Out!TypeOK'
  BY UartAssumption DEF Out!TypeOK
<1>2. Out!NoLostTx'
  BY DEF Out!TypeOK, Out!NoLostTx
<1>3. Out!WriterSleeps'
  BY DEF Out!TypeOK, Out!WriterSleeps
<1>4. Out!NoLostInput'
  BY UartAssumption DEF Out!TypeOK, Out!NoLostInput
<1> QED  BY <1>1, <1>2, <1>3, <1>4

\* A polled character is sent too: the device takes its interrupt back at most without input.
LEMMA SyncPutUart == ASSUME NEW s \in Sync, UartInv, Out!SyncPut(s) PROVE UartInv'
<1> USE DEF UartInv, Out!UartInv, Out!SyncPut, Out!Transmit, Out!writers
<1>1. Out!TypeOK'
  <2>1. irq' \in BOOLEAN /\ sending' = TRUE
    <3>1. irq \in BOOLEAN
      BY DEF Out!TypeOK
    <3>2. irq' = irq \/ irq' = (irq /\ rx > 0)
      OBVIOUS
    <3> QED  BY <3>1, <3>2
  <2>2. puts' \in 0..MaxSync
    BY UartAssumption, SMT DEF Out!TypeOK
  <2> QED  BY <2>1, <2>2 DEF Out!TypeOK
<1>2. Out!NoLostTx'
  BY DEF Out!TypeOK, Out!NoLostTx
<1>3. Out!WriterSleeps'
  BY DEF Out!TypeOK, Out!WriterSleeps
<1>4. Out!NoLostInput'
  BY UartAssumption DEF Out!TypeOK, Out!NoLostInput
<1> QED  BY <1>1, <1>2, <1>3, <1>4

\* The end of a character is what an interrupt tells of.
LEMMA SentUart == ASSUME UartInv, Out!Sent PROVE UartInv'
<1> USE DEF UartInv, Out!UartInv, Out!Sent, Out!writers
<1>1. Out!TypeOK'
  BY UartAssumption DEF Out!TypeOK
<1>2. Out!NoLostTx'
  BY DEF Out!TypeOK, Out!NoLostTx
<1>3. Out!WriterSleeps'
  BY DEF Out!TypeOK, Out!WriterSleeps
<1>4. Out!NoLostInput'
  BY UartAssumption DEF Out!TypeOK, Out!NoLostInput
<1> QED  BY <1>1, <1>2, <1>3, <1>4

\* So is a character typed.
LEMMA TypedUart == ASSUME UartInv, Out!Typed PROVE UartInv'
<1> USE DEF UartInv, Out!UartInv, Out!Typed, Out!writers
<1>1. Out!TypeOK'
  BY UartAssumption DEF Out!TypeOK
<1>2. Out!NoLostTx'
  BY DEF Out!TypeOK, Out!NoLostTx
<1>3. Out!WriterSleeps'
  BY DEF Out!TypeOK, Out!WriterSleeps
<1>4. Out!NoLostInput'
  BY UartAssumption DEF Out!TypeOK, Out!NoLostInput
<1> QED  BY <1>1, <1>2, <1>3, <1>4

\* Who acknowledges an interrupt is going to look.
LEMMA IntrAckUart == ASSUME UartInv, Out!IntrAck PROVE UartInv'
<1> USE DEF UartInv, Out!UartInv, Out!IntrAck, Out!writers
<1>1. Out!TypeOK'
  BY UartAssumption DEF Out!TypeOK
<1>2. Out!NoLostTx'
  BY DEF Out!TypeOK, Out!NoLostTx
<1>3. Out!WriterSleeps'
  BY DEF Out!TypeOK, Out!WriterSleeps
<1>4. Out!NoLostInput'
  BY UartAssumption DEF Out!TypeOK, Out!NoLostInput
<1> QED  BY <1>1, <1>2, <1>3, <1>4

\* Whether a character is still being sent is read under tx_lock.
LEMMA IntrLookUart == ASSUME UartInv, Out!IntrLook PROVE UartInv'
<1> USE DEF UartInv, Out!UartInv, Out!IntrLook, Out!writers
<1>1. Out!TypeOK'
  BY UartAssumption DEF Out!TypeOK
<1>2. Out!NoLostTx'
  BY DEF Out!TypeOK, Out!NoLostTx
<1>3. Out!WriterSleeps'
  BY DEF Out!TypeOK, Out!WriterSleeps
<1>4. Out!NoLostInput'
  BY UartAssumption DEF Out!TypeOK, Out!NoLostInput
<1> QED  BY <1>1, <1>2, <1>3, <1>4

\* If none was, tx_busy is cleared and all writers are woken, at once.
LEMMA IntrSentUart == ASSUME UartInv, Out!IntrSent PROVE UartInv'
<1> USE DEF UartInv, Out!UartInv, Out!IntrSent, Out!writers
<1>1. Out!TypeOK'
  BY UartAssumption DEF Out!TypeOK
<1>2. Out!NoLostTx'
  BY DEF Out!TypeOK, Out!NoLostTx
<1>3. Out!WriterSleeps'
  BY DEF Out!TypeOK, Out!WriterSleeps
<1>4. Out!NoLostInput'
  BY UartAssumption DEF Out!TypeOK, Out!NoLostInput
<1> QED  BY <1>1, <1>2, <1>3, <1>4

\* A character is read.
LEMMA IntrReadUart == ASSUME UartInv, Out!IntrRead PROVE UartInv'
<1> USE DEF UartInv, Out!UartInv, Out!IntrRead, Out!writers
<1>1. Out!TypeOK'
  BY UartAssumption DEF Out!TypeOK
<1>2. Out!NoLostTx'
  BY DEF Out!TypeOK, Out!NoLostTx
<1>3. Out!WriterSleeps'
  BY DEF Out!TypeOK, Out!WriterSleeps
<1>4. Out!NoLostInput'
  BY UartAssumption DEF Out!TypeOK, Out!NoLostInput
<1> QED  BY <1>1, <1>2, <1>3, <1>4

\* The handler returns when nothing is left to be read.
LEMMA IntrEndUart == ASSUME UartInv, Out!IntrEnd PROVE UartInv'
<1> USE DEF UartInv, Out!UartInv, Out!IntrEnd, Out!writers
<1>1. Out!TypeOK'
  BY UartAssumption DEF Out!TypeOK
<1>2. Out!NoLostTx'
  BY DEF Out!TypeOK, Out!NoLostTx
<1>3. Out!WriterSleeps'
  BY DEF Out!TypeOK, Out!WriterSleeps
<1>4. Out!NoLostInput'
  BY UartAssumption DEF Out!TypeOK, Out!NoLostInput
<1> QED  BY <1>1, <1>2, <1>3, <1>4

\* So every step keeps UartInv.
LEMMA StepUart == UartInv /\ [Out!Next]_(Out!vars) => UartInv'
<1> SUFFICES ASSUME UartInv, [Out!Next]_(Out!vars)
             PROVE  UartInv'
  OBVIOUS
<1>1. ASSUME NEW p \in Writer,
             \/ Out!ConsoleWrite(p) \/ Out!Return(p) \/ Out!WriteCall(p)
             \/ Out!WriteResume(p) \/ Out!Write(p) \/ Out!Kill(p)
      PROVE  UartInv'
  BY <1>1, ConsoleWriteUart, ReturnUart, WriteCallUart, WriteSleepUart, WriteResumeUart,
     WriteCharUart, WriteEndUart, KillUart DEF Out!Write
<1>2. ASSUME NEW s \in Sync, Out!SyncPoll(s) \/ Out!SyncPut(s)
      PROVE  UartInv'
  BY <1>2, SyncPollUart, SyncPutUart
<1>3. CASE Out!Sent \/ Out!Typed \/ Out!Intr \/ Out!IntrLook
  BY <1>3, SentUart, TypedUart, IntrAckUart, IntrLookUart, IntrSentUart, IntrReadUart,
     IntrEndUart DEF Out!Intr
<1>4. CASE UNCHANGED Out!vars
  BY <1>4 DEF Out!vars, Out!writers, UartInv, Out!UartInv, Out!TypeOK, Out!NoLostTx,
              Out!WriterSleeps, Out!NoLostInput
<1> QED  BY <1>1, <1>2, <1>3, <1>4 DEF Out!Next

\* No interrupt is lost between uartwrite, uartputc_sync, which shares the device but
\* not the lock, and uartintr: tx_busy is cleared again, and what is typed is read
\* (uart.c:76-152).
THEOREM UartInvariant == Out!Spec => []UartInv
<1> QED  BY InitUart, StepUart, PTL DEF Out!Spec

-------------------------------------------------------------------------------
(* The disk driver *)

\* The sizes of sets that VirtioDisk speaks of are those of the theorems on finite sets.
LEMMA SizesAgree == \A S : Disk!Cardinality(S) = Cardinality(S)
BY DEF Disk!Cardinality, Cardinality, Disk!IsFiniteSet, IsFiniteSet

(* The two rings *)

Idx == 0..(IdxWrap - 1)
Ring == [Disk!Desc -> Disk!Desc \cup {Disk!None}]

\* The indices wrap at NUM or more.
LEMMA WrapLarge ==
  NUM \in Nat /\ NUM >= 3 /\ IdxWrap \in Nat /\ IdxWrap >= NUM /\ IdxWrap % NUM = 0
<1>1. IdxWrap = NUM * (IdxWrap \div NUM) /\ IdxWrap \div NUM \in Int
  <2>1. IdxWrap = NUM * (IdxWrap \div NUM) + (IdxWrap % NUM) /\ IdxWrap \div NUM \in Int
    BY Division, DiskAssumption
  <2> QED  BY <2>1, DiskAssumption, SMT
<1>2. IdxWrap >= NUM
  <2> DEFINE q == IdxWrap \div NUM
  <2>1. q \in Int /\ IdxWrap = NUM * q
    BY <1>1
  <2> HIDE DEF q
  <2>2. CASE q \in Nat \ {0}
    BY <2>1, <2>2, MultipleLarge, DiskAssumption, SMT
  <2>3. CASE q <= 0
    <3>1. PICK m \in Nat : q = 0 - m
      BY <2>1, <2>3, SMT
    <3>2. NUM * m \in Nat /\ IdxWrap = 0 - NUM * m
      BY <2>1, <3>1, DiskAssumption, SMT
    <3> QED  BY <3>2, DiskAssumption, SMT
  <2> QED  BY <2>1, <2>2, <2>3, SMT
<1> QED  BY <1>2, DiskAssumption

\* An index some places on, past the wrap or not, and its place in the ring.
LEMMA IndexOn ==
  ASSUME NEW i \in Idx, NEW n \in 0..(NUM - 1)
  PROVE  /\ (i + n) % IdxWrap = IF i + n < IdxWrap THEN i + n ELSE i + n - IdxWrap
         /\ (i + n) % IdxWrap \in Idx
         /\ ((i + n) % IdxWrap) % NUM = (i + n) % NUM
         /\ (i + n) % NUM \in Disk!Desc
<1>1. i + n \in Nat /\ n < IdxWrap /\ IdxWrap \in Nat \ {0} /\ NUM \in Nat \ {0}
  BY WrapLarge, SMT DEF Idx
<1>2. (i + n) % IdxWrap = IF i + n < IdxWrap THEN i + n ELSE i + n - IdxWrap
  <2>1. CASE i + n < IdxWrap
    <3>1. i + n = IdxWrap * 0 + (i + n) /\ i + n \in 0..(IdxWrap - 1) /\ 0 \in Int
      BY <1>1, <2>1, SMT
    <3> QED  BY <1>1, <2>1, <3>1, RestIsMod
  <2>2. CASE i + n >= IdxWrap
    <3>1. i + n = IdxWrap * 1 + (i + n - IdxWrap) /\ i + n - IdxWrap \in 0..(IdxWrap - 1) /\ 1 \in Int
      BY <1>1, <2>2, SMT DEF Idx
    <3>2. i + n \in Int
      BY <1>1
    <3>3. (i + n) % IdxWrap = i + n - IdxWrap
      BY ONLY <1>1, <3>1, <3>2, RestIsMod, Zenon
    <3> QED  BY <1>1, <2>2, <3>3, SMT
  <2> QED  BY <1>1, <2>1, <2>2, SMT
<1>3. (i + n) % IdxWrap \in Idx
  BY <1>1, <1>2, SMT DEF Idx
<1>4. ((i + n) % IdxWrap) % NUM = (i + n) % NUM
  <2>1. CASE i + n < IdxWrap
    BY <1>2, <2>1
  <2>2. CASE i + n >= IdxWrap
    <3>1. i + n - IdxWrap \in Nat /\ (i + n - IdxWrap) + IdxWrap = i + n
      BY <1>1, <2>2, SMT DEF Idx
    <3>2. ((i + n - IdxWrap) + IdxWrap) % NUM = (i + n - IdxWrap) % NUM
      BY <1>1, <3>1, WrapLarge, RoundKeeps
    <3> QED  BY <1>1, <1>2, <2>2, <3>1, <3>2, SMT
  <2> QED  BY <1>1, <2>1, <2>2, SMT
<1>5. (i + n) % NUM \in Disk!Desc
  BY <1>1, Division DEF Disk!Desc
<1> QED  BY <1>2, <1>3, <1>4, <1>5

\* A ring has entries at n places from i up to j.
Filled(ring, i, j, n) == /\ j = (i + n) % IdxWrap
                         /\ {d \in Disk!Desc : ring[d] # Disk!None} = Disk!Places(i, n)
                         /\ \A d, g \in Disk!Desc : ring[d] # Disk!None /\ ring[d] = ring[g] => d = g

\* One more place, and one less.
LEMMA PlacesMove ==
  ASSUME NEW i \in Idx, NEW n \in 0..(NUM - 1)
  PROVE  /\ Disk!Places(i, n) \subseteq Disk!Desc
         /\ n + 1 < NUM => /\ Disk!Places(i, n + 1) = Disk!Places(i, n) \cup {(i + n) % NUM}
                           /\ Disk!Bump((i + n) % IdxWrap) = (i + (n + 1)) % IdxWrap
         /\ (i + n) % NUM \notin Disk!Places(i, n)
         /\ n > 0 => /\ i % NUM \in Disk!Places(i, n)
                     /\ Disk!Places(Disk!Bump(i), n - 1) = Disk!Places(i, n) \ {i % NUM}
                     /\ Disk!Bump(i) \in Idx /\ (Disk!Bump(i) + (n - 1)) % IdxWrap = (i + n) % IdxWrap
         /\ (i + n) % IdxWrap = i <=> n = 0
<1>1. NUM \in Nat \ {0} /\ IdxWrap \in Nat /\ NUM <= IdxWrap /\ i \in Nat /\ NUM >= 3
  BY WrapLarge, SMT DEF Idx
<1>2. Disk!Places(i, n) \subseteq Disk!Desc
  <2>1. \A k \in 0..(n - 1) : k \in 0..(NUM - 1)
    BY <1>1, SMT
  <2> QED  BY <2>1, IndexOn DEF Disk!Places
<1>3. ASSUME n + 1 < NUM
      PROVE  /\ Disk!Places(i, n + 1) = Disk!Places(i, n) \cup {(i + n) % NUM}
             /\ Disk!Bump((i + n) % IdxWrap) = (i + (n + 1)) % IdxWrap
  <2>1. 0..((n + 1) - 1) = 0..(n - 1) \cup {n}
    BY <1>1, SMT
  <2>2. Disk!Places(i, n + 1) = Disk!Places(i, n) \cup {(i + n) % NUM}
    BY <2>1, Zenon DEF Disk!Places
  <2>3. n + 1 \in 0..(NUM - 1) /\ 1 \in 0..(NUM - 1) /\ (i + n) % IdxWrap \in Idx
    BY <1>1, <1>3, IndexOn, SMT
  <2>4. /\ (i + n) % IdxWrap = IF i + n < IdxWrap THEN i + n ELSE i + n - IdxWrap
        /\ (i + (n + 1)) % IdxWrap = IF i + (n + 1) < IdxWrap THEN i + (n + 1) ELSE i + (n + 1) - IdxWrap
    BY <2>3, IndexOn
  <2>5. Disk!Bump((i + n) % IdxWrap) = IF ((i + n) % IdxWrap) + 1 < IdxWrap THEN ((i + n) % IdxWrap) + 1
                                                            ELSE ((i + n) % IdxWrap) + 1 - IdxWrap
    BY <2>3, IndexOn DEF Disk!Bump
  <2>6. Disk!Bump((i + n) % IdxWrap) = (i + (n + 1)) % IdxWrap
    BY <1>1, <2>4, <2>5, SMT DEF Idx
  <2> QED  BY <2>2, <2>6
<1>4. ASSUME NEW k \in 0..(NUM - 1), NEW l \in 0..(NUM - 1), k < l
      PROVE  (i + k) % NUM # (i + l) % NUM
  <2>1. i + k \in Nat /\ l - k \in 1..(NUM - 1) /\ (i + k) + (l - k) = i + l
    BY <1>1, <1>4, SMT
  <2> QED  BY <1>1, <2>1, PlacesDiffer
<1>5. (i + n) % NUM \notin Disk!Places(i, n)
  <2>1. \A k \in 0..(n - 1) : k \in 0..(NUM - 1) /\ k < n
    BY <1>1, SMT
  <2> QED  BY <1>4, <2>1 DEF Disk!Places
<1>6. ASSUME n > 0
      PROVE  /\ i % NUM \in Disk!Places(i, n)
             /\ Disk!Places(Disk!Bump(i), n - 1) = Disk!Places(i, n) \ {i % NUM}
             /\ Disk!Bump(i) \in Idx /\ (Disk!Bump(i) + (n - 1)) % IdxWrap = (i + n) % IdxWrap
  <2>1. 0 \in 0..(n - 1) /\ i + 0 = i
    BY <1>1, <1>6, SMT
  <2>2. i % NUM \in Disk!Places(i, n)
    BY <2>1 DEF Disk!Places
  <2>3. 1 \in 0..(NUM - 1) /\ n - 1 \in 0..(NUM - 1)
    BY <1>1, <1>6, SMT
  <2>4. Disk!Bump(i) = (IF i + 1 < IdxWrap THEN i + 1 ELSE i + 1 - IdxWrap) /\ Disk!Bump(i) \in Idx
    BY <2>3, IndexOn DEF Disk!Bump
  <2>5. ASSUME NEW k \in 0..(n - 2)
        PROVE  (Disk!Bump(i) + k) % NUM = (i + (k + 1)) % NUM /\ k + 1 \in 1..(n - 1)
                 /\ k + 1 \in 0..(NUM - 1) /\ 0 \in 0..(NUM - 1) /\ 0 < k + 1
    <3>1. /\ k + 1 \in 1..(n - 1) /\ k \in Nat /\ Disk!Bump(i) + k \in Nat
          /\ k + 1 \in 0..(NUM - 1) /\ 0 \in 0..(NUM - 1) /\ 0 < k + 1
      BY <1>1, <2>4, SMT DEF Idx
    <3>2. CASE Disk!Bump(i) = i + 1
      <4>1. Disk!Bump(i) + k = i + (k + 1)
        BY <1>1, <3>1, <3>2, SMT
      <4> QED  BY <3>1, <4>1
    <3>3. CASE Disk!Bump(i) # i + 1
      <4>1. (Disk!Bump(i) + k) + IdxWrap = i + (k + 1)
        BY <1>1, <2>4, <3>1, <3>3, SMT
      <4>2. ((Disk!Bump(i) + k) + IdxWrap) % NUM = (Disk!Bump(i) + k) % NUM
        BY <1>1, <3>1, WrapLarge, RoundKeeps
      <4> QED  BY <3>1, <4>1, <4>2
    <3> QED  BY <3>2, <3>3
  <2>6. Disk!Places(Disk!Bump(i), n - 1) \subseteq Disk!Places(i, n) \ {i % NUM}
    <3>1. ASSUME NEW k \in 0..(n - 2) PROVE (Disk!Bump(i) + k) % NUM \in Disk!Places(i, n) \ {i % NUM}
      <4>1. k + 1 \in 0..(n - 1)
        BY <1>1, <2>5, SMT
      <4>2. (i + 0) % NUM # (i + (k + 1)) % NUM
        BY <1>4, <2>5
      <4> QED  BY <2>1, <2>5, <4>1, <4>2 DEF Disk!Places
    <3>2. (n - 1) - 1 = n - 2
      BY <1>1, SMT
    <3> QED  BY <3>1, <3>2 DEF Disk!Places
  <2>7. Disk!Places(i, n) \ {i % NUM} \subseteq Disk!Places(Disk!Bump(i), n - 1)
    <3>1. ASSUME NEW k \in 0..(n - 1), (i + k) % NUM # i % NUM
          PROVE  (i + k) % NUM \in Disk!Places(Disk!Bump(i), n - 1)
      <4>1. k # 0
        BY <2>1, <3>1
      <4>2. k - 1 \in 0..(n - 2) /\ (k - 1) + 1 = k /\ (n - 1) - 1 = n - 2
        BY <1>1, <4>1, SMT
      <4>3. (Disk!Bump(i) + (k - 1)) % NUM = (i + k) % NUM
        BY <2>5, <4>2
      <4> QED  BY <4>2, <4>3 DEF Disk!Places
    <3> QED  BY <3>1 DEF Disk!Places
  <2>8. (Disk!Bump(i) + (n - 1)) % IdxWrap = (i + n) % IdxWrap
    <3>1. /\ (Disk!Bump(i) + (n - 1)) % IdxWrap = 
               IF Disk!Bump(i) + (n - 1) < IdxWrap THEN Disk!Bump(i) + (n - 1)
                                                   ELSE Disk!Bump(i) + (n - 1) - IdxWrap
          /\ (i + n) % IdxWrap = IF i + n < IdxWrap THEN i + n ELSE i + n - IdxWrap
      BY <2>3, <2>4, IndexOn
    <3> QED  BY <1>1, <1>6, <2>4, <3>1, SMT DEF Idx
  <2> QED  BY <2>2, <2>4, <2>6, <2>7, <2>8
<1>7. (i + n) % IdxWrap = i <=> n = 0
  <2>1. (i + n) % IdxWrap = IF i + n < IdxWrap THEN i + n ELSE i + n - IdxWrap
    BY IndexOn
  <2> QED  BY <1>1, <2>1, SMT DEF Idx
<1> QED  BY <1>2, <1>3, <1>5, <1>6, <1>7

\* What becomes of a ring: an entry behind the others, or none where the first was.
Pushed(ring, new, i, j, x) == /\ Disk!Bump(j) \in Idx /\ new \in Ring /\ Disk!RingFrom(new, i, Disk!Bump(j))
                              /\ Disk!Entries(new) = Disk!Entries(ring) \cup {x}
Taken(ring, new, i, j) == /\ Disk!Bump(i) \in Idx /\ new \in Ring /\ Disk!RingFrom(new, Disk!Bump(i), j)
                          /\ i % NUM \in Disk!Desc /\ ring[i % NUM] \in Disk!Entries(ring)
                          /\ Disk!Entries(new) = Disk!Entries(ring) \ {ring[i % NUM]}

\* An entry is put at the end of a ring that has room.
LEMMA RingPush ==
  ASSUME NEW ring \in Ring, NEW i \in Idx, NEW j \in Idx, NEW n \in 0..(NUM - 2),
         Filled(ring, i, j, n), NEW x \in Disk!Desc, x \notin Disk!Entries(ring),
         NEW new, new = [ring EXCEPT ![j % NUM] = x]
  PROVE  Pushed(ring, new, i, j, x)
<1> DEFINE d == j % NUM
<1>1. n \in 0..(NUM - 1) /\ n + 1 < NUM /\ n + 1 \in 0..(NUM - 1) /\ NUM \notin Disk!Desc
  BY WrapLarge, SMT DEF Disk!Desc
<1>2. d = (i + n) % NUM /\ d \in Disk!Desc /\ d \notin Disk!Places(i, n)
  <2>1. ((i + n) % IdxWrap) % NUM = (i + n) % NUM /\ (i + n) % NUM \in Disk!Desc
    BY <1>1, IndexOn
  <2>2. (i + n) % NUM \notin Disk!Places(i, n)
    BY <1>1, PlacesMove
  <2> QED  BY <2>1, <2>2 DEF Filled
<1>3. Disk!Places(i, n + 1) = Disk!Places(i, n) \cup {d} /\ Disk!Bump(j) = (i + (n + 1)) % IdxWrap
  BY <1>1, <1>2, PlacesMove DEF Filled
<1>4. Disk!Bump(j) \in Idx
  BY <1>1, <1>3, IndexOn
<1> HIDE DEF d
<1>5. ring[d] = Disk!None
  BY <1>2 DEF Filled
<1>6. new \in Ring /\ new[d] = x /\ x # Disk!None /\ \A g \in Disk!Desc \ {d} : new[g] = ring[g]
  BY <1>1, <1>2 DEF Ring, Disk!None, d
<1>7. {g \in Disk!Desc : new[g] # Disk!None} = Disk!Places(i, n + 1)
  BY <1>2, <1>3, <1>6 DEF Filled
<1>8. \A g \in Disk!Desc : ring[g] # x
  BY <1>6 DEF Disk!Entries
<1>9. \A g, f \in Disk!Desc : new[g] # Disk!None /\ new[g] = new[f] => g = f
  BY <1>6, <1>8 DEF Filled
<1>10. Disk!Entries(new) = Disk!Entries(ring) \cup {x}
  BY <1>2, <1>5, <1>6 DEF Disk!Entries
<1>11. Disk!RingFrom(new, i, Disk!Bump(j))
  BY <1>1, <1>3, <1>7, <1>9 DEF Disk!RingFrom
<1> QED  BY <1>4, <1>6, <1>10, <1>11 DEF Pushed

\* The first entry is taken out of a ring that has one.
LEMMA RingTake ==
  ASSUME NEW ring \in Ring, NEW i \in Idx, NEW j \in Idx, Disk!RingFrom(ring, i, j), i # j,
         NEW new, new = [ring EXCEPT ![i % NUM] = Disk!None]
  PROVE  Taken(ring, new, i, j)
<1> DEFINE d == i % NUM
<1>1. PICK n \in 0..(NUM - 1) : Filled(ring, i, j, n)
  BY DEF Disk!RingFrom, Filled
<1>2. n > 0
  BY <1>1, PlacesMove, WrapLarge, SMT DEF Filled
<1>3. /\ d \in Disk!Places(i, n) /\ Disk!Places(i, n) \subseteq Disk!Desc
      /\ Disk!Places(Disk!Bump(i), n - 1) = Disk!Places(i, n) \ {d}
      /\ Disk!Bump(i) \in Idx /\ j = (Disk!Bump(i) + (n - 1)) % IdxWrap
  BY <1>1, <1>2, PlacesMove DEF Filled
<1>4. n - 1 \in 0..(NUM - 1)
  BY <1>2, WrapLarge, SMT
<1> HIDE DEF d
<1>5. d \in Disk!Desc /\ ring[d] # Disk!None
  BY <1>1, <1>3 DEF Filled
<1>6. new \in Ring /\ new[d] = Disk!None /\ \A g \in Disk!Desc \ {d} : new[g] = ring[g]
  BY <1>5 DEF Ring, d
<1>7. {g \in Disk!Desc : new[g] # Disk!None} = Disk!Places(Disk!Bump(i), n - 1)
  BY <1>1, <1>3, <1>6 DEF Filled
<1>8. \A g, f \in Disk!Desc : new[g] # Disk!None /\ new[g] = new[f] => g = f
  BY <1>1, <1>6 DEF Filled
<1>9. Disk!Entries(new) = Disk!Entries(ring) \ {ring[d]}
  BY <1>1, <1>5, <1>6 DEF Disk!Entries, Filled
<1>10. Disk!RingFrom(new, Disk!Bump(i), j)
  BY <1>3, <1>4, <1>7, <1>8 DEF Disk!RingFrom
<1>11. ring[d] \in Disk!Entries(ring)
  BY <1>5 DEF Disk!Entries
<1> QED  BY <1>3, <1>5, <1>6, <1>9, <1>10, <1>11 DEF d, Taken

\* A ring with an entry is not empty.
LEMMA RingNotEmpty ==
  ASSUME NEW ring, NEW i \in Idx, NEW j, Disk!RingFrom(ring, i, j), Disk!Entries(ring) # {}
  PROVE  i # j
<1>1. PICK n \in 0..(NUM - 1) : /\ j = (i + n) % IdxWrap
                                /\ {d \in Disk!Desc : ring[d] # Disk!None} = Disk!Places(i, n)
  BY DEF Disk!RingFrom
<1>2. n # 0
  <2>1. {d \in Disk!Desc : ring[d] # Disk!None} # {}
    BY DEF Disk!Entries
  <2>2. 0..(0 - 1) = {}
    BY SMT
  <2> QED  BY <1>1, <2>1, <2>2 DEF Disk!Places
<1> QED  BY <1>1, <1>2, PlacesMove

-------------------------------------------------------------------------------
(* Requests and their descriptors *)

\* Three that differ.
LEMMA ThreeDiffer ==
  ASSUME NEW h, NEW d, NEW s, h # d, h # s, d # s
  PROVE  IsFiniteSet({h, d, s}) /\ Cardinality({h, d, s}) = 3
<1>1. {h, d, s} = ({h} \cup {d}) \cup {s}
  OBVIOUS
<1>2. IsFiniteSet({h}) /\ Cardinality({h}) = 1
  BY FS_Singleton
<1>3. IsFiniteSet({h} \cup {d}) /\ Cardinality({h} \cup {d}) = 2
  BY <1>2, FS_AddElement
<1>4. /\ IsFiniteSet(({h} \cup {d}) \cup {s})
      /\ Cardinality(({h} \cup {d}) \cup {s}) = Cardinality({h} \cup {d}) + 1
  BY <1>3, FS_AddElement
<1> QED  BY <1>1, <1>3, <1>4

\* A chain is three descriptors.
LEMMA ChainHasThree ==
  ASSUME Disk!TypeOK, Disk!ChainsInPlace, NEW t \in Disk!Waiting
  PROVE  /\ head[t] \in Disk!Desc /\ Disk!Chain(head[t]) \subseteq Disk!Desc
         /\ head[t] \in Disk!Chain(head[t])
         /\ IsFiniteSet(Disk!Chain(head[t])) /\ Cardinality(Disk!Chain(head[t])) = 3
<1>1. /\ head[t] \in Disk!Desc /\ next[head[t]] \in Disk!Desc \ {head[t]}
      /\ next[next[head[t]]] \in Disk!Desc \ {head[t], next[head[t]]}
  BY DEF Disk!ChainsInPlace, Disk!Waiting
<1> QED  BY <1>1, ThreeDiffer DEF Disk!Chain

\* No two requests have one head, and there are at most NUM / 3 of them.
LEMMA WaitersFew ==
  ASSUME Disk!TypeOK, Disk!ChainsInPlace, Disk!DescsAccounted
  PROVE  /\ \A t, u \in Disk!Waiting : head[t] = head[u] => t = u
         /\ IsFiniteSet(Disk!Waiting) /\ Cardinality(Disk!Waiting) \in Nat
         /\ IsFiniteSet(free) /\ Cardinality(free) \in Nat
         /\ Cardinality(free) + 3 * Cardinality(Disk!Waiting) = NUM
<1>1. \A t, u \in Disk!Waiting : head[t] = head[u] => t = u
  <2> SUFFICES ASSUME NEW t \in Disk!Waiting, NEW u \in Disk!Waiting, head[t] = head[u], t # u
               PROVE  FALSE
    OBVIOUS
  <2>1. head[t] \in Disk!Chain(head[t]) /\ head[u] \in Disk!Chain(head[u])
    BY ChainHasThree
  <2> QED  BY <2>1 DEF Disk!DescsAccounted
<1>2. IsFiniteSet(Disk!Desc)
  BY FS_Interval, DiskAssumption, SMT DEF Disk!Desc
<1>3. IsFiniteSet(Disk!Waiting)
  <2>1. [t \in Disk!Waiting |-> head[t]] \in Injection(Disk!Waiting, Disk!Desc)
    BY <1>1, ChainHasThree DEF Injection, IsInjective
  <2> QED  BY <1>2, <2>1, FS_Injection
<1>4. IsFiniteSet(free)
  BY <1>2, FS_Subset DEF Disk!TypeOK
<1> QED  BY <1>1, <1>3, <1>4, SizesAgree, FS_CardinalityType DEF Disk!DescsAccounted

\* A ring of heads has at most as many entries as there are requests.
LEMMA RingCount ==
  ASSUME Disk!TypeOK, Disk!ChainsInPlace, Disk!DescsAccounted,
         NEW ring \in Ring, NEW i \in Idx, NEW j \in Idx, Disk!RingFrom(ring, i, j),
         Disk!Entries(ring) \subseteq Disk!Heads
  PROVE  \E n \in 0..(NUM - 1) : Filled(ring, i, j, n) /\ n <= Cardinality(Disk!Waiting)
<1>1. PICK n \in 0..(NUM - 1) : Filled(ring, i, j, n)
  BY DEF Disk!RingFrom, Filled
<1>2. IsFiniteSet(Disk!Waiting) /\ Cardinality(Disk!Waiting) \in Nat
  BY WaitersFew
<1>3. n \in Nat /\ NUM \in Nat \ {0}
  BY WrapLarge, SMT
<1> DEFINE S == 0..(n - 1)
           Spot(k) == (i + k) % NUM
           f == [k \in S |-> CHOOSE t \in Disk!Waiting : ring[Spot(k)] = head[t]]
<1>4. ASSUME n > Cardinality(Disk!Waiting)
      PROVE  FALSE
  <2>1. IsFiniteSet(S) /\ Cardinality(S) = n
    BY <1>3, FS_Interval, SMT
  <2>2. \A k \in S : Spot(k) \in Disk!Desc /\ ring[Spot(k)] # Disk!None
    <3>1. \A k \in S : Spot(k) \in Disk!Places(i, n)
      BY DEF Disk!Places
    <3> QED  BY <1>1, <3>1 DEF Filled
  <2>3. \A k \in S : \E t \in Disk!Waiting : ring[Spot(k)] = head[t]
    <3>1. \A k \in S : ring[Spot(k)] \in Disk!Entries(ring)
      BY <2>2 DEF Disk!Entries
    <3> QED  BY <3>1 DEF Disk!Heads
  <2>4. \A k \in S : f[k] \in Disk!Waiting /\ ring[Spot(k)] = head[f[k]]
    <3> HIDE DEF Spot
    <3> QED  BY <2>3
  <2>5. f \in [S -> Disk!Waiting]
    BY <2>4
  <2> HIDE DEF f, S
  <2>6. PICK k, l \in S : k # l /\ f[k] = f[l]
    BY <1>2, <1>4, <2>1, <2>5, FS_PigeonHole
  <2>7. Spot(k) = Spot(l)
    BY <1>1, <2>2, <2>4, <2>6 DEF Filled
  <2>8. ASSUME NEW a \in S, NEW b \in S, a < b
        PROVE  Spot(a) # Spot(b)
    <3>1. a \in Nat /\ i + a \in Nat /\ b - a \in 1..(NUM - 1) /\ (i + a) + (b - a) = i + b
      BY <1>3, <2>8, WrapLarge, SMT DEF S, Idx
    <3> QED  BY <1>3, <3>1, PlacesDiffer
  <2>9. k < l \/ l < k
    BY <1>3, <2>6, SMT DEF S
  <2> QED  BY <2>7, <2>8, <2>9
<1>5. n <= Cardinality(Disk!Waiting)
  BY <1>2, <1>3, <1>4, SMT
<1> QED  BY <1>1, <1>5

-------------------------------------------------------------------------------
(* Every step keeps the invariant *)

\* The stages of requests are left alone.
LEMMA StagesStay ==
  ASSUME Disk!StagesInPlace, Disk!Waiting' = Disk!Waiting,
         UNCHANGED <<avail, used, flight, head, status, busy>>
  PROVE  Disk!StagesInPlace'
<1>1. Disk!Heads' = Disk!Heads
  BY DEF Disk!Heads
<1> QED  BY <1>1 DEF Disk!StagesInPlace, Disk!Entries

\* A call asks for nothing yet.
LEMMA CallKeeps ==
  ASSUME NEW t \in Thread, Disk!DescsInv, Disk!Call(t)
  PROVE  Disk!DescsInv'
<1> USE DEF Disk!DescsInv, Disk!descVars, Disk!availVars, Disk!devVars
<1>1. Disk!TypeOK'
  BY DEF Disk!TypeOK, Disk!Requests, Disk!Call
<1>2. Disk!DescsAccounted'
  <2>1. Disk!Waiting' = Disk!Waiting /\ UNCHANGED <<free, next, head>>
    BY DEF Disk!Waiting, Disk!TypeOK, Disk!Call
  <2> QED  BY <2>1 DEF Disk!DescsAccounted, Disk!Chain
<1>3. Disk!NoPanic'
  BY DEF Disk!NoPanic, Disk!TypeOK, Disk!Call
<1>4. Disk!NoLostRoom'
  BY DEF Disk!NoLostRoom, Disk!TypeOK, Disk!Call, Disk!ChainsInPlace
<1>5. Disk!NoLostIntr'
  BY DEF Disk!NoLostIntr, Disk!Waiting, Disk!TypeOK, Disk!Call, Disk!ChainsInPlace
<1>6. Disk!ChainsInPlace'
  BY DEF Disk!ChainsInPlace, Disk!TypeOK, Disk!Call, Disk!ChainsInPlace
<1>7. Disk!StagesInPlace'
  <2>1. Disk!Waiting' = Disk!Waiting
    BY DEF Disk!Waiting, Disk!TypeOK, Disk!Call, Disk!ChainsInPlace
  <2> QED  BY <2>1, StagesStay DEF Disk!Call
<1>8. Disk!RingsInPlace'
  BY DEF Disk!RingsInPlace, Disk!RingFrom, Disk!TypeOK, Disk!Call, Disk!ChainsInPlace
<1> QED  BY <1>1, <1>2, <1>3, <1>4, <1>5, <1>6, <1>7, <1>8

\* Who finds too few descriptors sleeps.
LEMMA AllocSleepKeeps ==
  ASSUME NEW t \in Thread, Disk!DescsInv, Disk!AllocSleep(t)
  PROVE  Disk!DescsInv'
<1> USE DEF Disk!DescsInv, Disk!descVars, Disk!availVars, Disk!devVars
<1>1. Disk!TypeOK'
  BY DEF Disk!TypeOK, Disk!Requests, Disk!AllocSleep, Disk!Enter, Disk!WakeAllocs
<1>2. Disk!DescsAccounted'
  <2>1. Disk!Waiting' = Disk!Waiting /\ UNCHANGED <<free, next, head>>
    BY DEF Disk!Waiting, Disk!TypeOK, Disk!AllocSleep, Disk!Enter, Disk!WakeAllocs
  <2> QED  BY <2>1 DEF Disk!DescsAccounted, Disk!Chain
<1>3. Disk!NoPanic'
  BY DEF Disk!NoPanic, Disk!TypeOK, Disk!AllocSleep, Disk!Enter, Disk!WakeAllocs
<1>4. Disk!NoLostRoom'
  BY DEF Disk!NoLostRoom, Disk!TypeOK, Disk!AllocSleep, Disk!Enter, Disk!WakeAllocs
<1>5. Disk!NoLostIntr'
  BY DEF Disk!NoLostIntr, Disk!Waiting, Disk!TypeOK, Disk!AllocSleep, Disk!Enter, Disk!WakeAllocs
<1>6. Disk!ChainsInPlace'
  BY DEF Disk!ChainsInPlace, Disk!TypeOK, Disk!AllocSleep, Disk!Enter, Disk!WakeAllocs
<1>7. Disk!StagesInPlace'
  <2>1. Disk!Waiting' = Disk!Waiting
    BY DEF Disk!Waiting, Disk!TypeOK, Disk!AllocSleep, Disk!Enter, Disk!WakeAllocs
  <2> QED  BY <2>1, StagesStay DEF Disk!AllocSleep
<1>8. Disk!RingsInPlace'
  BY DEF Disk!RingsInPlace, Disk!RingFrom, Disk!TypeOK, Disk!AllocSleep, Disk!Enter, Disk!WakeAllocs
<1> QED  BY <1>1, <1>2, <1>3, <1>4, <1>5, <1>6, <1>7, <1>8

\* Who is woken too early sleeps again.
LEMMA WaitMoreKeeps ==
  ASSUME NEW t \in Thread, Disk!DescsInv, Disk!WaitMore(t)
  PROVE  Disk!DescsInv'
<1> USE DEF Disk!DescsInv, Disk!descVars, Disk!availVars, Disk!devVars
<1>1. Disk!TypeOK'
  BY DEF Disk!TypeOK, Disk!Requests, Disk!WaitMore, Disk!Enter, Disk!Done
<1>2. Disk!DescsAccounted'
  <2>1. Disk!Waiting' = Disk!Waiting /\ UNCHANGED <<free, next, head>>
    BY DEF Disk!Waiting, Disk!TypeOK, Disk!WaitMore, Disk!Enter, Disk!Done
  <2> QED  BY <2>1 DEF Disk!DescsAccounted, Disk!Chain
<1>3. Disk!NoPanic'
  BY DEF Disk!NoPanic, Disk!TypeOK, Disk!WaitMore, Disk!Enter, Disk!Done
<1>4. Disk!NoLostRoom'
  BY DEF Disk!NoLostRoom, Disk!TypeOK, Disk!WaitMore, Disk!Enter, Disk!Done
<1>5. Disk!NoLostIntr'
  BY DEF Disk!NoLostIntr, Disk!Waiting, Disk!TypeOK, Disk!WaitMore, Disk!Enter, Disk!Done
<1>6. Disk!ChainsInPlace'
  BY DEF Disk!ChainsInPlace, Disk!TypeOK, Disk!WaitMore, Disk!Enter, Disk!Done
<1>7. Disk!StagesInPlace'
  <2>1. Disk!Waiting' = Disk!Waiting
    BY DEF Disk!Waiting, Disk!TypeOK, Disk!WaitMore, Disk!Enter, Disk!Done
  <2> QED  BY <2>1, StagesStay DEF Disk!WaitMore
<1>8. Disk!RingsInPlace'
  BY DEF Disk!RingsInPlace, Disk!RingFrom, Disk!TypeOK, Disk!WaitMore, Disk!Enter, Disk!Done
<1> QED  BY <1>1, <1>2, <1>3, <1>4, <1>5, <1>6, <1>7, <1>8

\* Nobody relies on a sleep to last.
LEMMA SpuriousKeeps ==
  ASSUME NEW t \in Thread, Disk!DescsInv, Disk!Spurious(t)
  PROVE  Disk!DescsInv'
<1> USE DEF Disk!DescsInv, Disk!descVars, Disk!availVars, Disk!devVars
<1>1. Disk!TypeOK'
  BY DEF Disk!TypeOK, Disk!Requests, Disk!Spurious
<1>2. Disk!DescsAccounted'
  <2>1. Disk!Waiting' = Disk!Waiting /\ UNCHANGED <<free, next, head>>
    BY DEF Disk!Waiting, Disk!TypeOK, Disk!Spurious
  <2> QED  BY <2>1 DEF Disk!DescsAccounted, Disk!Chain
<1>3. Disk!NoPanic'
  BY DEF Disk!NoPanic, Disk!TypeOK, Disk!Spurious
<1>4. Disk!NoLostRoom'
  BY DEF Disk!NoLostRoom, Disk!TypeOK, Disk!Spurious
<1>5. Disk!NoLostIntr'
  BY DEF Disk!NoLostIntr, Disk!Waiting, Disk!TypeOK, Disk!Spurious
<1>6. Disk!ChainsInPlace'
  BY DEF Disk!ChainsInPlace, Disk!TypeOK, Disk!Spurious
<1>7. Disk!StagesInPlace'
  <2>1. Disk!Waiting' = Disk!Waiting
    BY DEF Disk!Waiting, Disk!TypeOK, Disk!Spurious
  <2> QED  BY <2>1, StagesStay DEF Disk!Spurious
<1>8. Disk!RingsInPlace'
  BY DEF Disk!RingsInPlace, Disk!RingFrom, Disk!TypeOK, Disk!Spurious
<1> QED  BY <1>1, <1>2, <1>3, <1>4, <1>5, <1>6, <1>7, <1>8

\* The handler that runs stands for the interrupt it has acknowledged.
LEMMA IntrAckKeeps ==
  ASSUME Disk!DescsInv, Disk!IntrAck
  PROVE  Disk!DescsInv'
<1> USE DEF Disk!DescsInv, Disk!descVars, Disk!availVars, Disk!devVars
<1>1. Disk!TypeOK'
  BY DEF Disk!TypeOK, Disk!Requests, Disk!IntrAck
<1>2. Disk!DescsAccounted'
  <2>1. Disk!Waiting' = Disk!Waiting /\ UNCHANGED <<free, next, head>>
    BY DEF Disk!Waiting, Disk!TypeOK, Disk!IntrAck
  <2> QED  BY <2>1 DEF Disk!DescsAccounted, Disk!Chain
<1>3. Disk!NoPanic'
  BY DEF Disk!NoPanic, Disk!TypeOK, Disk!IntrAck
<1>4. Disk!NoLostRoom'
  BY DEF Disk!NoLostRoom, Disk!TypeOK, Disk!IntrAck
<1>5. Disk!NoLostIntr'
  BY DEF Disk!NoLostIntr, Disk!Waiting, Disk!TypeOK, Disk!IntrAck
<1>6. Disk!ChainsInPlace'
  BY DEF Disk!ChainsInPlace, Disk!TypeOK, Disk!IntrAck
<1>7. Disk!StagesInPlace'
  <2>1. Disk!Waiting' = Disk!Waiting
    BY DEF Disk!Waiting, Disk!TypeOK, Disk!IntrAck
  <2> QED  BY <2>1, StagesStay DEF Disk!IntrAck
<1>8. Disk!RingsInPlace'
  BY DEF Disk!RingsInPlace, Disk!RingFrom, Disk!TypeOK, Disk!IntrAck
<1> QED  BY <1>1, <1>2, <1>3, <1>4, <1>5, <1>6, <1>7, <1>8

\* The handler ends when the used ring is empty.
LEMMA IntrEndKeeps ==
  ASSUME Disk!DescsInv, Disk!IntrEnd
  PROVE  Disk!DescsInv'
<1> USE DEF Disk!DescsInv, Disk!descVars, Disk!availVars, Disk!devVars
<1>1. Disk!TypeOK'
  BY DEF Disk!TypeOK, Disk!Requests, Disk!IntrEnd
<1>2. Disk!DescsAccounted'
  <2>1. Disk!Waiting' = Disk!Waiting /\ UNCHANGED <<free, next, head>>
    BY DEF Disk!Waiting, Disk!TypeOK, Disk!IntrEnd
  <2> QED  BY <2>1 DEF Disk!DescsAccounted, Disk!Chain
<1>3. Disk!NoPanic'
  BY DEF Disk!NoPanic, Disk!TypeOK, Disk!IntrEnd
<1>4. Disk!NoLostRoom'
  BY DEF Disk!NoLostRoom, Disk!TypeOK, Disk!IntrEnd
<1>5. Disk!NoLostIntr'
  BY DEF Disk!NoLostIntr, Disk!Waiting, Disk!TypeOK, Disk!IntrEnd
<1>6. Disk!ChainsInPlace'
  BY DEF Disk!ChainsInPlace, Disk!TypeOK, Disk!IntrEnd
<1>7. Disk!StagesInPlace'
  <2>1. Disk!Waiting' = Disk!Waiting
    BY DEF Disk!Waiting, Disk!TypeOK, Disk!IntrEnd
  <2> QED  BY <2>1, StagesStay DEF Disk!IntrEnd
<1>8. Disk!RingsInPlace'
  BY DEF Disk!RingsInPlace, Disk!RingFrom, Disk!TypeOK, Disk!IntrEnd
<1> QED  BY <1>1, <1>2, <1>3, <1>4, <1>5, <1>6, <1>7, <1>8

\* The order of the numbers, as a relation.
Less == OpToRel(<, Nat)

\* A set of descriptors that is not empty has a lowest one.
LEMMA LowestIs ==
  ASSUME NEW S \in SUBSET Disk!Desc, S # {}
  PROVE  Disk!LowestOf(S) \in S
<1>1. IsWellFoundedOn(Less, Nat)
  BY NatLessThanWellFounded, Zenon DEF Less
<1>2. Disk!Desc \subseteq Nat
  BY DiskAssumption, SMT DEF Disk!Desc
<1>3. PICK d \in S : \A g \in S : <<g, d>> \notin Less
  BY <1>1, <1>2, WFMin
<1>4. ASSUME NEW g \in S
      PROVE  d <= g
  <2>1. g \in Nat /\ d \in Nat /\ ~(g < d)
    BY <1>2, <1>3 DEF Less, OpToRel
  <2> QED  BY <2>1
<1> QED  BY <1>3, <1>4 DEF Disk!LowestOf

\* Three descriptors are taken out of three or more.
LEMMA ThreeTaken ==
  ASSUME Disk!TypeOK, Disk!ChainsInPlace, Disk!DescsAccounted, Cardinality(free) >= 3,
         NEW h, h = Disk!LowestOf(free), NEW d, d = Disk!LowestOf(free \ {h}),
         NEW s, s = Disk!LowestOf(free \ {h, d})
  PROVE  /\ h \in free /\ d \in free \ {h} /\ s \in free \ {h, d} /\ free \subseteq Disk!Desc
         /\ IsFiniteSet(free \ {h, d, s})
         /\ Cardinality(free \ {h, d, s}) = Cardinality(free) - 3
<1>1. IsFiniteSet(free) /\ Cardinality(free) \in Nat /\ free \subseteq Disk!Desc
  BY WaitersFew DEF Disk!TypeOK
<1>2. free # {}
  BY <1>1, FS_EmptySet
<1>3. h \in free
  BY <1>1, <1>2, LowestIs
<1>4. IsFiniteSet(free \ {h}) /\ Cardinality(free \ {h}) = Cardinality(free) - 1
  BY <1>1, <1>3, FS_RemoveElement
<1>5. free \ {h} # {}
  BY <1>1, <1>4, FS_EmptySet
<1>6. d \in free \ {h}
  BY <1>1, <1>5, LowestIs
<1>7. free \ {h, d} = (free \ {h}) \ {d}
  OBVIOUS
<1>8. IsFiniteSet(free \ {h, d}) /\ Cardinality(free \ {h, d}) = Cardinality(free) - 2
  <2>1. /\ IsFiniteSet((free \ {h}) \ {d})
        /\ Cardinality((free \ {h}) \ {d}) = Cardinality(free \ {h}) - 1
    BY <1>4, <1>6, FS_RemoveElement
  <2>2. /\ IsFiniteSet(free \ {h, d})
        /\ Cardinality(free \ {h, d}) = Cardinality(free \ {h}) - 1
    BY <1>7, <2>1, Zenon
  <2> QED  BY <1>1, <1>4, <2>2
<1>9. free \ {h, d} # {}
  <2>1. Cardinality(free \ {h, d}) # 0
    BY <1>1, <1>8
  <2> QED  BY <2>1, FS_EmptySet
<1>10. s \in free \ {h, d}
  BY <1>1, <1>9, LowestIs
<1>11. free \ {h, d, s} = (free \ {h, d}) \ {s}
  OBVIOUS
<1>12. /\ IsFiniteSet(free \ {h, d, s})
       /\ Cardinality(free \ {h, d, s}) = Cardinality(free) - 3
  <2>1. /\ IsFiniteSet((free \ {h, d}) \ {s})
        /\ Cardinality((free \ {h, d}) \ {s}) = Cardinality(free \ {h, d}) - 1
    BY <1>8, <1>10, FS_RemoveElement
  <2>2. /\ IsFiniteSet(free \ {h, d, s})
        /\ Cardinality(free \ {h, d, s}) = Cardinality(free \ {h, d}) - 1
    BY <1>11, <2>1, Zenon
  <2> QED  BY <1>1, <1>8, <2>2
<1> QED  BY <1>1, <1>3, <1>6, <1>10, <1>12

\* A new chain is taken from free descriptors, so it touches no other, and its head goes
\* into a place of the avail ring that is empty.
LEMMA AllocTakeKeeps ==
  ASSUME NEW t \in Thread, Disk!DescsInv, Disk!AllocTake(t)
  PROVE  Disk!DescsInv'
<1> USE DEF Disk!DescsInv, Disk!descVars, Disk!availVars, Disk!devVars
<1> DEFINE h == Disk!LowestOf(free)
           d == Disk!LowestOf(free \ {h})
           s == Disk!LowestOf(free \ {h, d})
<1>1. /\ h \in free /\ d \in free \ {h} /\ s \in free \ {h, d} /\ free \subseteq Disk!Desc
      /\ IsFiniteSet(free \ {h, d, s})
      /\ Cardinality(free \ {h, d, s}) = Cardinality(free) - 3
  BY SizesAgree, ThreeTaken DEF Disk!AllocTake
<1>2. /\ free' = free \ {h, d, s}
      /\ next' = [next EXCEPT ![h] = d, ![d] = s, ![s] = Disk!None]
      /\ addr' = [addr EXCEPT ![d] = t] /\ ops' = [ops EXCEPT ![h] = req[t]]
      /\ info_b' = [info_b EXCEPT ![h] = t] /\ status' = [status EXCEPT ![h] = FALSE]
      /\ avail' = [avail EXCEPT ![avail_idx % NUM] = h]
      /\ head' = [head EXCEPT ![t] = h]
      /\ busy' = [busy EXCEPT ![t] = TRUE] /\ dpc' = [dpc EXCEPT ![t] = "wait"]
      /\ dasleep' = [dasleep EXCEPT ![t] = TRUE] /\ avail_idx' = Disk!Bump(avail_idx)
      /\ dpc[t] = "alloc" /\ panicked' = panicked
      /\ UNCHANGED <<disk, data, Disk!devVars, used_idx, dirq, handling, req>>
  BY DEF Disk!AllocTake, Disk!Enter
<1> HIDE DEF h, d, s
<1>3. Disk!Waiting' = Disk!Waiting \cup {t} /\ t \notin Disk!Waiting
  BY <1>2 DEF Disk!Waiting, Disk!TypeOK
<1>4. /\ next'[h] = d /\ next'[d] = s /\ next'[s] = Disk!None
      /\ \A g \in Disk!Desc \ {h, d, s} : next'[g] = next[g]
  BY <1>1, <1>2 DEF Disk!TypeOK
<1>5. \A u \in Disk!Waiting : /\ u # t /\ head'[u] = head[u] /\ head[u] \in Disk!Desc
                              /\ {head[u], next[head[u]], next[next[head[u]]]} \subseteq Disk!Desc \ {h, d, s}
  <2>1. \A u \in Disk!Waiting : /\ Disk!Chain(head[u]) \subseteq Disk!Desc /\ head[u] \in Disk!Desc
                                /\ Disk!Chain(head[u]) \cap free = {}
    BY ChainHasThree DEF Disk!DescsAccounted
  <2> QED  BY <1>1, <1>2, <1>3, <2>1 DEF Disk!Chain, Disk!Waiting, Disk!TypeOK
<1>6. \A u \in Disk!Waiting : /\ next'[head'[u]] = next[head[u]]
                              /\ next'[next'[head'[u]]] = next[next[head[u]]]
  BY <1>4, <1>5
<1>7. head'[t] = h
  BY <1>2 DEF Disk!TypeOK
<1>8. h # d /\ h # s /\ d # s /\ {h, d, s} \subseteq free /\ {h, d, s} \subseteq Disk!Desc
  BY <1>1
<1>9. Disk!TypeOK' /\ Disk!ChainsInPlace'
  <2>1. Disk!TypeOK'
    <3>1. /\ free' \subseteq Disk!Desc /\ next' \in [Disk!Desc -> Disk!Desc \cup {Disk!None}]
          /\ addr' \in [Disk!Desc -> Thread \cup {NoThread}] /\ ops' \in [Disk!Desc -> Disk!Requests]
          /\ info_b' \in [Disk!Desc -> Thread \cup {NoThread}] /\ status' \in [Disk!Desc -> BOOLEAN]
          /\ avail' \in [Disk!Desc -> Disk!Desc \cup {Disk!None}]
          /\ head' \in [Thread -> Disk!Desc \cup {Disk!None}]
          /\ busy' \in [Thread -> BOOLEAN] /\ dpc' \in [Thread -> {"out", "alloc", "wait"}]
          /\ dasleep' \in [Thread -> BOOLEAN]
      BY <1>2, <1>8 DEF Disk!TypeOK
    <3>2. avail_idx' \in 0..(IdxWrap - 1)
      <4>1. avail_idx \in Idx /\ 1 \in 0..(NUM - 1)
        BY WrapLarge, SMT DEF Disk!TypeOK, Idx
      <4> QED  BY <1>2, <4>1, IndexOn DEF Disk!Bump, Idx
    <3> QED  BY <1>2, <3>1, <3>2 DEF Disk!TypeOK
  <2>2. Disk!ChainsInPlace'
    <3> SUFFICES ASSUME NEW u \in Thread
                 PROVE  /\ dpc'[u] = "wait" =>
                             /\ head'[u] \in Disk!Desc /\ info_b'[head'[u]] = u
                             /\ ops'[head'[u]] = req'[u]
                             /\ next'[head'[u]] \in Disk!Desc \ {head'[u]}
                             /\ addr'[next'[head'[u]]] = u
                             /\ next'[next'[head'[u]]] \in Disk!Desc \ {head'[u], next'[head'[u]]}
                             /\ busy'[u] \/ status'[head'[u]]
                        /\ dpc'[u] = "out" => ~dasleep'[u]
      BY DEF Disk!ChainsInPlace
    <3>1. CASE u = t
      BY <1>2, <1>4, <1>7, <1>8, <3>1 DEF Disk!TypeOK
    <3>2. CASE u # t /\ dpc[u] = "wait"
      <4>1. u \in Disk!Waiting
        BY <3>2 DEF Disk!Waiting
      <4>2. /\ head'[u] = head[u] /\ next'[head[u]] = next[head[u]]
            /\ next'[next[head[u]]] = next[next[head[u]]]
            /\ head[u] \in Disk!Desc \ {h} /\ next[head[u]] \in Disk!Desc \ {d}
        BY <1>5, <1>6, <4>1
      <4>3. /\ info_b'[head[u]] = info_b[head[u]] /\ ops'[head[u]] = ops[head[u]]
            /\ status'[head[u]] = status[head[u]] /\ addr'[next[head[u]]] = addr[next[head[u]]]
            /\ busy'[u] = busy[u] /\ req' = req /\ dpc'[u] = dpc[u]
        BY <1>2, <3>2, <4>2 DEF Disk!TypeOK
      <4> QED  BY <3>2, <4>1, <4>2, <4>3 DEF Disk!ChainsInPlace
    <3>3. CASE u # t /\ dpc[u] # "wait"
      BY <1>2, <3>3 DEF Disk!ChainsInPlace, Disk!TypeOK
    <3> QED  BY <3>1, <3>2, <3>3
  <2> QED  BY <2>1, <2>2
<1>10. Disk!DescsAccounted'
  <2>1. IsFiniteSet(Disk!Waiting) /\ Cardinality(Disk!Waiting) \in Nat /\ Cardinality(free) \in Nat
          /\ Cardinality(free) + 3 * Cardinality(Disk!Waiting) = NUM
    BY WaitersFew
  <2>2. Cardinality(Disk!Waiting') = Cardinality(Disk!Waiting) + 1
    BY <1>3, <2>1, FS_AddElement
  <2>3. Cardinality(free') + 3 * Cardinality(Disk!Waiting') = NUM
    BY <1>1, <1>2, <2>1, <2>2
  <2>4. Cardinality({h, d, s}) = 3
    BY <1>8, ThreeDiffer
  <2>5. /\ Disk!Chain(head[t])' = {h, d, s}
        /\ \A u \in Disk!Waiting : {head'[u], next'[head'[u]], next'[next'[head'[u]]]} = Disk!Chain(head[u])
    BY <1>4, <1>5, <1>6, <1>7 DEF Disk!Chain
  <2>6. \A u \in Disk!Waiting : Disk!Chain(head[u]) \cap {h, d, s} = {} /\ Disk!Chain(head[u]) \cap free' = {}
    BY <1>2, <1>8 DEF Disk!DescsAccounted
  <2>7. {h, d, s} \cap free' = {}
    BY <1>2
  <2>8. ASSUME NEW u \in Disk!Waiting, NEW v \in Disk!Waiting
        PROVE  /\ Cardinality(Disk!Chain(head[u])) = 3
               /\ u # v => Disk!Chain(head[u]) \cap Disk!Chain(head[v]) = {}
    BY SizesAgree DEF Disk!DescsAccounted
  <2>9. /\ {head'[t], next'[head'[t]], next'[next'[head'[t]]]} = {h, d, s}
        /\ \A u \in Disk!Waiting : {head'[u], next'[head'[u]], next'[next'[head'[u]]]} = Disk!Chain(head[u])
    BY <1>4, <1>7, <2>5
  <2> QED  BY <1>3, <2>3, <2>4, <2>6, <2>7, <2>8, <2>9, SizesAgree DEF Disk!DescsAccounted,
              Disk!Chain
<1>11. Disk!Entries(avail') = Disk!Entries(avail) \cup {h} /\ Disk!RingFrom(avail, dev_idx, avail_idx)'
  <2>1. avail \in Ring /\ dev_idx \in Idx /\ avail_idx \in Idx
    BY DEF Disk!TypeOK, Ring, Idx
  <2>2. PICK n \in 0..(NUM - 1) : Filled(avail, dev_idx, avail_idx, n) /\ n <= Cardinality(Disk!Waiting)
    BY <2>1, RingCount DEF Disk!StagesInPlace, Disk!RingsInPlace
  <2>3. n \in 0..(NUM - 2)
    <3>1. Cardinality(Disk!Waiting) \in Nat /\ Cardinality(free) \in Nat /\ Cardinality(free) >= 3
            /\ Cardinality(free) + 3 * Cardinality(Disk!Waiting) = NUM
      BY SizesAgree, WaitersFew DEF Disk!AllocTake
    <3> QED  BY <2>2, <3>1, WrapLarge, SMT
  <2>4. h \notin Disk!Entries(avail)
    <3>1. h \notin Disk!Heads
      BY <1>5 DEF Disk!Heads
    <3> QED  BY <3>1 DEF Disk!StagesInPlace
  <2>5. dev_idx' = dev_idx
    BY <1>2
  <2>6. /\ h \in Disk!Desc /\ Filled(avail, dev_idx, avail_idx, n)
        /\ avail' = [avail EXCEPT ![avail_idx % NUM] = h]
    BY <1>2, <1>8, <2>2
  <2>7. /\ Disk!RingFrom(avail', dev_idx, Disk!Bump(avail_idx))
        /\ Disk!Entries(avail') = Disk!Entries(avail) \cup {h}
    <3>1. Pushed(avail, avail', dev_idx, avail_idx, h)
      BY <2>1, <2>3, <2>4, <2>6, RingPush
    <3> QED  BY <3>1 DEF Pushed
  <2> QED  BY <1>2, <2>5, <2>7 DEF Disk!RingFrom
<1>12. Disk!StagesInPlace'
  <2>1. Disk!Heads' = Disk!Heads \cup {h}
    BY <1>3, <1>5, <1>7 DEF Disk!Heads
  <2>2. h \notin Disk!Heads /\ flight' = flight /\ used' = used
    BY <1>2, <1>5 DEF Disk!Heads
  <2>3. \A u \in Disk!Waiting : /\ head'[u] = head[u] /\ status'[head[u]] = status[head[u]]
                                /\ busy'[u] = busy[u] /\ head[u] # h
    BY <1>2, <1>3, <1>5 DEF Disk!TypeOK, Disk!Waiting
  <2>4. ~status'[h] /\ h \notin Disk!Entries(used)
    BY <1>2, <1>8, <2>2 DEF Disk!TypeOK, Disk!StagesInPlace
  <2>5. Disk!Entries(used)' = Disk!Entries(used) /\ Disk!Entries(avail)' = Disk!Entries(avail) \cup {h}
    BY <1>11, <2>2 DEF Disk!Entries
  <2> QED  BY <1>3, <1>7, <2>1, <2>2, <2>3, <2>4, <2>5 DEF Disk!StagesInPlace
<1>13. Disk!NoPanic' /\ Disk!NoLostRoom' /\ Disk!NoLostIntr' /\ Disk!RingsInPlace'
  <2>1. Disk!NoPanic'
    BY <1>2 DEF Disk!NoPanic
  <2>2. Disk!NoLostRoom'
    <3>1. Cardinality(free) \in Nat /\ Cardinality(free') = Cardinality(free) - 3
      BY <1>1, <1>2, WaitersFew
    <3> QED  BY <1>2, <3>1, SizesAgree DEF Disk!NoLostRoom, Disk!TypeOK
  <2>3. Disk!NoLostIntr'
    BY <1>2, <1>3, <1>5, <1>7, <1>8 DEF Disk!NoLostIntr, Disk!TypeOK
  <2>4. Disk!RingsInPlace'
    BY <1>2, <1>11 DEF Disk!RingsInPlace, Disk!RingFrom
  <2> QED  BY <2>1, <2>2, <2>3, <2>4
<1> QED  BY <1>9, <1>10, <1>12, <1>13

\* The chain of a finished request goes back whole, and nothing else is free of it: the
\* request is in no ring, and free_desc does not panic.
LEMMA FinishKeeps ==
  ASSUME NEW t \in Thread, Disk!DescsInv, Disk!Finish(t)
  PROVE  Disk!DescsInv'
<1> USE DEF Disk!DescsInv, Disk!descVars, Disk!availVars, Disk!devVars
<1> DEFINE h == head[t]
           C == Disk!Chain(h)
<1>1. /\ panicked' = (C \cap free # {}) /\ free' = free \cup C
      /\ info_b' = [info_b EXCEPT ![h] = NoThread] /\ ops' = [ops EXCEPT ![h] = Disk!NoRequest]
      /\ next' = [g \in Disk!Desc |-> IF g \in C THEN Disk!None ELSE next[g]]
      /\ addr' = [g \in Disk!Desc |-> IF g \in C THEN NoThread ELSE addr[g]]
      /\ dasleep' = Disk!WakeAllocs(Thread) /\ dpc' = [dpc EXCEPT ![t] = "out"]
      /\ req' = [req EXCEPT ![t] = Disk!NoRequest] /\ head' = [head EXCEPT ![t] = Disk!None]
      /\ dpc[t] = "wait" /\ ~dasleep[t] /\ ~busy[t]
      /\ UNCHANGED <<disk, data, busy, status, Disk!availVars, Disk!devVars, used_idx, dirq, handling>>
  BY DEF Disk!Finish, Disk!Enter, Disk!Done, Disk!Freed
<1>2. t \in Disk!Waiting /\ Disk!Waiting' = Disk!Waiting \ {t}
  BY <1>1 DEF Disk!Waiting, Disk!TypeOK
<1>3. /\ h \in Disk!Desc /\ h \in C /\ C \subseteq Disk!Desc
      /\ IsFiniteSet(C) /\ Cardinality(C) = 3 /\ C \cap free = {}
  BY <1>2, ChainHasThree DEF Disk!DescsAccounted
<1>4. status[h] /\ h \notin Disk!Entries(avail) \cup flight \cup Disk!Entries(used)
  BY <1>1, <1>2 DEF Disk!ChainsInPlace, Disk!StagesInPlace, Disk!Waiting
<1>5. \A u \in Disk!Waiting' : /\ u \in Disk!Waiting /\ u # t /\ head'[u] = head[u] /\ head[u] \in Disk!Desc
                               /\ {head[u], next[head[u]], next[next[head[u]]]} \subseteq Disk!Desc \ C
  <2>1. \A u \in Disk!Waiting : u # t => Disk!Chain(head[u]) \subseteq Disk!Desc \ C /\ head[u] \in Disk!Desc
    BY <1>2, ChainHasThree DEF Disk!DescsAccounted
  <2> QED  BY <1>1, <1>2, <2>1 DEF Disk!Chain, Disk!Waiting, Disk!TypeOK
<1> HIDE DEF h, C
<1>6. \A u \in Disk!Waiting' : /\ next'[head'[u]] = next[head[u]]
                               /\ next'[next'[head'[u]]] = next[next[head[u]]]
                               /\ addr'[next[head[u]]] = addr[next[head[u]]]
                               /\ {head'[u], next'[head'[u]], next'[next'[head'[u]]]} = Disk!Chain(head[u])
  BY <1>1, <1>5 DEF Disk!Chain
<1>7. Disk!TypeOK'
  <2>1. Disk!NoRequest \in Disk!Requests
    BY DiskAssumption DEF Disk!NoRequest, Disk!Requests
  <2>2. /\ free' \subseteq Disk!Desc /\ next' \in [Disk!Desc -> Disk!Desc \cup {Disk!None}]
        /\ addr' \in [Disk!Desc -> Thread \cup {NoThread}] /\ ops' \in [Disk!Desc -> Disk!Requests]
        /\ info_b' \in [Disk!Desc -> Thread \cup {NoThread}] /\ req' \in [Thread -> Disk!Requests]
        /\ head' \in [Thread -> Disk!Desc \cup {Disk!None}] /\ panicked' \in BOOLEAN
        /\ dpc' \in [Thread -> {"out", "alloc", "wait"}] /\ dasleep' \in [Thread -> BOOLEAN]
    BY <1>1, <1>3, <2>1 DEF Disk!TypeOK, Disk!WakeAllocs
  <2> QED  BY <1>1, <2>2 DEF Disk!TypeOK
<1>8. Disk!DescsAccounted'
  <2>1. IsFiniteSet(Disk!Waiting) /\ Cardinality(Disk!Waiting) \in Nat /\ Cardinality(free) \in Nat
          /\ IsFiniteSet(free) /\ Cardinality(free) + 3 * Cardinality(Disk!Waiting) = NUM
    BY WaitersFew
  <2>2. Cardinality(Disk!Waiting') = Cardinality(Disk!Waiting) - 1
    BY <1>2, <2>1, FS_RemoveElement
  <2>3. Cardinality(free') = Cardinality(free) + 3
    <3>1. Cardinality(free \cap C) = 0
      BY <1>3, FS_EmptySet
    <3>2. Cardinality(free \cup C) = Cardinality(free) + Cardinality(C) - Cardinality(free \cap C)
      BY <1>3, <2>1, FS_Union
    <3> QED  BY <1>1, <1>3, <2>1, <3>1, <3>2
  <2>4. Cardinality(free') + 3 * Cardinality(Disk!Waiting') = NUM
    BY <2>1, <2>2, <2>3
  <2>5. \A u, v \in Disk!Waiting : /\ Cardinality(Disk!Chain(head[u])) = 3 /\ Disk!Chain(head[u]) \cap free = {}
                                   /\ u # v => Disk!Chain(head[u]) \cap Disk!Chain(head[v]) = {}
    BY SizesAgree DEF Disk!DescsAccounted
  <2>6. \A u \in Disk!Waiting' : Disk!Chain(head[u]) \cap C = {}
    BY <1>5 DEF Disk!Chain
  <2>7. \A u \in Disk!Waiting' : Disk!Chain(head[u])' = Disk!Chain(head[u]) /\ head'[u] = head[u]
    BY <1>5, <1>6 DEF Disk!Chain
  <2>8. free' = free \cup C
    BY <1>1
  <2>9. \A u \in Disk!Waiting' : /\ Cardinality(Disk!Chain(head[u])') = 3
                                 /\ Disk!Chain(head[u])' \cap free' = {}
    BY <1>5, <2>5, <2>6, <2>7, <2>8
  <2>10. \A u, v \in Disk!Waiting' : u # v => Disk!Chain(head[u])' \cap Disk!Chain(head[v])' = {}
    BY <1>5, <2>5, <2>7
  <2> QED  BY <2>4, <2>9, <2>10, SizesAgree DEF Disk!DescsAccounted
<1>9. Disk!NoPanic' /\ Disk!NoLostRoom' /\ Disk!NoLostIntr'
  BY <1>1, <1>3, <1>5 DEF Disk!NoPanic, Disk!NoLostRoom, Disk!NoLostIntr, Disk!TypeOK,
     Disk!WakeAllocs
<1>10. Disk!ChainsInPlace'
  <2> SUFFICES ASSUME NEW u \in Thread
               PROVE  /\ dpc'[u] = "wait" =>
                           /\ head'[u] \in Disk!Desc /\ info_b'[head'[u]] = u
                           /\ ops'[head'[u]] = req'[u]
                           /\ next'[head'[u]] \in Disk!Desc \ {head'[u]}
                           /\ addr'[next'[head'[u]]] = u
                           /\ next'[next'[head'[u]]] \in Disk!Desc \ {head'[u], next'[head'[u]]}
                           /\ busy'[u] \/ status'[head'[u]]
                      /\ dpc'[u] = "out" => ~dasleep'[u]
    BY DEF Disk!ChainsInPlace
  <2>1. CASE dpc'[u] = "wait"
    <3>1. u \in Disk!Waiting' /\ u # t
      BY <1>1, <2>1 DEF Disk!Waiting, Disk!TypeOK
    <3>2. /\ head'[u] = head[u] /\ next'[head[u]] = next[head[u]]
          /\ next'[next[head[u]]] = next[next[head[u]]] /\ addr'[next[head[u]]] = addr[next[head[u]]]
          /\ head[u] \in Disk!Desc \ {h} /\ u \in Disk!Waiting
      BY <1>3, <1>5, <1>6, <3>1
    <3>3. /\ info_b'[head[u]] = info_b[head[u]] /\ ops'[head[u]] = ops[head[u]]
          /\ req'[u] = req[u] /\ status' = status /\ busy' = busy
      BY <1>1, <3>1, <3>2 DEF Disk!TypeOK
    <3> QED  BY <2>1, <3>2, <3>3 DEF Disk!ChainsInPlace, Disk!Waiting
  <2>2. CASE dpc'[u] # "wait"
    BY <1>1, <2>2 DEF Disk!ChainsInPlace, Disk!TypeOK, Disk!WakeAllocs
  <2> QED  BY <2>1, <2>2
<1>11. Disk!StagesInPlace'
  <2>1. Disk!Heads' = Disk!Heads \ {h}
    <3>1. \A u \in Disk!Waiting : head[u] = head[t] => u = t
      BY <1>2, WaitersFew
    <3> QED  BY <1>2, <1>5, <3>1 DEF Disk!Heads, h
  <2>2. /\ Disk!Entries(avail)' = Disk!Entries(avail) /\ Disk!Entries(used)' = Disk!Entries(used)
        /\ flight' = flight
    BY <1>1 DEF Disk!Entries
  <2> QED  BY <1>1, <1>4, <1>5, <2>1, <2>2 DEF Disk!StagesInPlace
<1>12. Disk!RingsInPlace'
  BY <1>1 DEF Disk!RingsInPlace, Disk!RingFrom
<1> QED  BY <1>7, <1>8, <1>9, <1>10, <1>11, <1>12

\* The handler finds the request it is told of, whose thread it wakes.
LEMMA IntrEntryKeeps ==
  ASSUME Disk!DescsInv, Disk!IntrEntry
  PROVE  Disk!DescsInv'
<1> USE DEF Disk!DescsInv, Disk!descVars, Disk!availVars, Disk!devVars
<1> DEFINE h == used[used_idx % NUM]
<1>1. used \in Ring /\ used_idx \in Idx /\ used_end \in Idx /\ used_idx # used_end
        /\ used' = [used EXCEPT ![used_idx % NUM] = Disk!None] /\ Disk!RingFrom(used, used_idx, used_end)
  BY DEF Disk!IntrEntry, Disk!TypeOK, Ring, Idx, Disk!RingsInPlace
<1>2. Taken(used, used', used_idx, used_end)
  BY <1>1, RingTake
<1>3. h \in Disk!Entries(used) /\ Disk!Entries(used') = Disk!Entries(used) \ {h}
  BY <1>2 DEF Taken
<1>4. PICK t \in Disk!Waiting : h = head[t]
  BY <1>3 DEF Disk!StagesInPlace, Disk!Heads
<1>5. status[h] /\ busy[t] /\ info_b[h] = t /\ t \in Thread /\ t # NoThread
  BY <1>3, <1>4, DiskAssumption DEF Disk!StagesInPlace, Disk!ChainsInPlace, Disk!Waiting
<1>6. /\ panicked' = FALSE /\ busy' = [busy EXCEPT ![t] = FALSE] /\ dasleep' = [dasleep EXCEPT ![t] = FALSE]
      /\ used_idx' = Disk!Bump(used_idx) /\ handling
      /\ UNCHANGED <<disk, data, Disk!descVars, status, Disk!availVars, used_end, flight, dev_idx, dirq,
                     handling, dpc, req, head>>
  BY <1>5 DEF Disk!IntrEntry
<1>7. Disk!Waiting' = Disk!Waiting /\ Disk!Heads' = Disk!Heads
  BY <1>6 DEF Disk!Waiting, Disk!Heads
<1> HIDE DEF h
<1>8. Disk!TypeOK'
  BY <1>2, <1>6 DEF Disk!TypeOK, Taken, Ring, Idx
<1>9. Disk!DescsAccounted'
  BY <1>6, <1>7 DEF Disk!DescsAccounted, Disk!Chain
<1>10. Disk!NoPanic' /\ Disk!NoLostRoom'
  BY <1>6 DEF Disk!NoPanic, Disk!NoLostRoom, Disk!TypeOK
<1>11. Disk!ChainsInPlace'
  BY <1>4, <1>5, <1>6 DEF Disk!ChainsInPlace, Disk!TypeOK
<1>12. Disk!StagesInPlace'
  <2>1. Disk!Entries(used)' = Disk!Entries(used) \ {h} /\ Disk!Entries(avail)' = Disk!Entries(avail)
    BY <1>3, <1>6 DEF Disk!Entries
  <2>2. \A u \in Disk!Waiting : (u = t <=> head[u] = h)
    BY <1>4, WaitersFew
  <2>3. \A u \in Disk!Waiting : busy'[u] = (IF u = t THEN FALSE ELSE busy[u])
    BY <1>5, <1>6 DEF Disk!TypeOK, Disk!Waiting
  <2> QED  BY <1>3, <1>6, <1>7, <2>1, <2>2, <2>3 DEF Disk!StagesInPlace
<1>13. Disk!RingsInPlace'
  BY <1>2, <1>6 DEF Disk!RingsInPlace, Disk!RingFrom, Taken
<1>14. Disk!NoLostIntr'
  <2> SUFFICES ASSUME NEW u \in Disk!Waiting', status'[head'[u]], busy'[u]
               PROVE  (dirq' \/ handling') /\ used_idx' # used_end'
    BY DEF Disk!NoLostIntr
  <2>1. head'[u] \in Disk!Entries(used)'
    BY <1>12 DEF Disk!StagesInPlace
  <2>2. Disk!RingFrom(used', used_idx', used_end') /\ used_idx' \in Idx /\ Disk!Entries(used') # {}
    BY <1>2, <1>6, <1>13, <2>1 DEF Disk!RingsInPlace, Disk!RingFrom, Taken, Disk!Entries
  <2>3. used_idx' # used_end'
    BY <2>2, RingNotEmpty
  <2> QED  BY <1>6, <2>3
<1> QED  BY <1>8, <1>9, <1>10, <1>11, <1>12, <1>13, <1>14

\* The device takes the first request announced.
LEMMA DeviceTakeKeeps ==
  ASSUME Disk!DescsInv, Disk!DeviceTake
  PROVE  Disk!DescsInv'
<1> USE DEF Disk!DescsInv, Disk!descVars, Disk!availVars, Disk!devVars
<1> DEFINE h == avail[dev_idx % NUM]
<1>1. avail \in Ring /\ dev_idx \in Idx /\ avail_idx \in Idx /\ dev_idx # avail_idx
        /\ avail' = [avail EXCEPT ![dev_idx % NUM] = Disk!None] /\ Disk!RingFrom(avail, dev_idx, avail_idx)
  BY DEF Disk!DeviceTake, Disk!TypeOK, Ring, Idx, Disk!RingsInPlace
<1>2. Taken(avail, avail', dev_idx, avail_idx)
  BY <1>1, RingTake
<1>3. h \in Disk!Entries(avail) /\ Disk!Entries(avail') = Disk!Entries(avail) \ {h}
  BY <1>2 DEF Taken
<1>4. h \in Disk!Desc
  BY <1>1, <1>2 DEF Taken, Disk!Entries, Ring
<1>5. /\ flight' = flight \cup {h} /\ dev_idx' = Disk!Bump(dev_idx)
      /\ UNCHANGED <<disk, data, busy, Disk!descVars, status, avail_idx, used, used_end, used_idx, dirq,
                     handling, dpc, dasleep, req, head, panicked>>
  BY DEF Disk!DeviceTake
<1>6. Disk!Waiting' = Disk!Waiting /\ Disk!Heads' = Disk!Heads
  BY <1>5 DEF Disk!Waiting, Disk!Heads
<1> HIDE DEF h
<1>7. Disk!TypeOK'
  BY <1>2, <1>4, <1>5 DEF Disk!TypeOK, Taken, Ring, Idx
<1>8. Disk!DescsAccounted'
  BY <1>5, <1>6 DEF Disk!DescsAccounted, Disk!Chain
<1>9. Disk!NoPanic' /\ Disk!NoLostRoom' /\ Disk!NoLostIntr' /\ Disk!ChainsInPlace'
  BY <1>5, <1>6 DEF Disk!NoPanic, Disk!NoLostRoom, Disk!NoLostIntr, Disk!ChainsInPlace
<1>10. Disk!StagesInPlace'
  <2>1. Disk!Entries(avail)' = Disk!Entries(avail) \ {h} /\ Disk!Entries(used)' = Disk!Entries(used)
    BY <1>3, <1>5 DEF Disk!Entries
  <2> QED  BY <1>3, <1>5, <1>6, <2>1 DEF Disk!StagesInPlace
<1>11. Disk!RingsInPlace'
  BY <1>2, <1>5 DEF Disk!RingsInPlace, Disk!RingFrom, Taken
<1> QED  BY <1>7, <1>8, <1>9, <1>10, <1>11

\* A request in flight is carried out, and its head goes into the used ring, which has room.
LEMMA DeviceDoKeeps ==
  ASSUME NEW h \in Disk!Desc, Disk!DescsInv, Disk!DeviceDo(h)
  PROVE  Disk!DescsInv'
<1> USE DEF Disk!DescsInv, Disk!descVars, Disk!availVars, Disk!devVars
<1>1. PICK t \in Disk!Waiting : h = head[t]
  BY DEF Disk!DeviceDo, Disk!StagesInPlace, Disk!Heads
<1>2. t \in Thread /\ addr[next[h]] = t /\ ops[h] \in Disk!Requests /\ ~status[h] /\ h \notin Disk!Entries(used)
  BY <1>1 DEF Disk!DeviceDo, Disk!StagesInPlace, Disk!ChainsInPlace, Disk!Waiting, Disk!TypeOK
<1>3. /\ disk' = IF ops[h].write THEN [disk EXCEPT ![ops[h].block] = data[t]] ELSE disk
      /\ data' = IF ops[h].write THEN data ELSE [data EXCEPT ![t] = disk[ops[h].block]]
      /\ status' = [status EXCEPT ![h] = TRUE] /\ used' = [used EXCEPT ![used_end % NUM] = h]
      /\ used_end' = Disk!Bump(used_end) /\ flight' = flight \ {h} /\ dirq' = TRUE /\ h \in flight
      /\ UNCHANGED <<busy, Disk!descVars, Disk!availVars, used_idx, dev_idx, handling, dpc, dasleep, req,
                     head, panicked>>
  BY <1>2 DEF Disk!DeviceDo
<1>4. Pushed(used, used', used_idx, used_end, h)
  <2>1. used \in Ring /\ used_idx \in Idx /\ used_end \in Idx
    BY DEF Disk!TypeOK, Ring, Idx
  <2>2. PICK n \in 0..(NUM - 1) : Filled(used, used_idx, used_end, n) /\ n <= Cardinality(Disk!Waiting)
    BY <2>1, RingCount DEF Disk!StagesInPlace, Disk!RingsInPlace
  <2>3. n \in 0..(NUM - 2)
    <3>1. Cardinality(Disk!Waiting) \in Nat /\ Cardinality(free) \in Nat
            /\ Cardinality(free) + 3 * Cardinality(Disk!Waiting) = NUM
      BY WaitersFew
    <3> QED  BY <2>2, <3>1, WrapLarge, SMT
  <2> QED  BY <1>2, <1>3, <2>1, <2>2, <2>3, RingPush
<1>5. Disk!Waiting' = Disk!Waiting /\ Disk!Heads' = Disk!Heads
  BY <1>3 DEF Disk!Waiting, Disk!Heads
<1>6. Disk!TypeOK'
  <2>1. disk' \in [Block -> Val] /\ data' \in [Thread -> Val]
    BY <1>2, <1>3 DEF Disk!TypeOK, Disk!Requests
  <2>2. used' \in [Disk!Desc -> Disk!Desc \cup {Disk!None}] /\ used_end' \in 0..(IdxWrap - 1)
    BY <1>3, <1>4 DEF Pushed, Ring, Idx
  <2> QED  BY <1>3, <2>1, <2>2 DEF Disk!TypeOK
<1>7. Disk!DescsAccounted'
  BY <1>3, <1>5 DEF Disk!DescsAccounted, Disk!Chain
<1>8. Disk!NoPanic' /\ Disk!NoLostRoom' /\ Disk!ChainsInPlace'
  BY <1>3 DEF Disk!NoPanic, Disk!NoLostRoom, Disk!ChainsInPlace, Disk!TypeOK
<1>9. Disk!StagesInPlace'
  <2>1. Disk!Entries(used)' = Disk!Entries(used) \cup {h} /\ Disk!Entries(avail)' = Disk!Entries(avail)
    BY <1>3, <1>4 DEF Disk!Entries, Pushed
  <2>2. \A u \in Disk!Waiting : (u = t <=> head[u] = h) /\ head[u] \in Disk!Desc
    BY <1>1, WaitersFew, ChainHasThree
  <2>3. \A u \in Disk!Waiting : status'[head[u]] = (IF u = t THEN TRUE ELSE status[head[u]])
    BY <1>3, <2>2 DEF Disk!TypeOK
  <2>4. busy[t]
    BY <1>1, <1>2 DEF Disk!ChainsInPlace, Disk!Waiting
  <2>5. h \in Disk!Heads /\ h \notin Disk!Entries(avail)
    BY <1>1, <1>3 DEF Disk!Heads, Disk!StagesInPlace
  <2> QED  BY <1>3, <1>5, <2>1, <2>2, <2>3, <2>4, <2>5 DEF Disk!StagesInPlace
<1>10. Disk!RingsInPlace'
  BY <1>3, <1>4 DEF Disk!RingsInPlace, Disk!RingFrom, Pushed
<1>11. Disk!NoLostIntr'
  <2>1. Disk!RingFrom(used', used_idx, used_end') /\ used_idx \in Idx /\ Disk!Entries(used') # {}
    BY <1>3, <1>4 DEF Pushed, Disk!TypeOK, Idx
  <2>2. used_idx' # used_end'
    BY <1>3, <2>1, RingNotEmpty
  <2> QED  BY <1>3, <2>2 DEF Disk!NoLostIntr
<1> QED  BY <1>6, <1>7, <1>8, <1>9, <1>10, <1>11

-------------------------------------------------------------------------------
(* The theorems *)

\* All descriptors are free, and the rings empty.
LEMMA InitDescs == Disk!Init => Disk!DescsInv
<1> SUFFICES ASSUME Disk!Init PROVE Disk!DescsInv
  OBVIOUS
<1> USE DEF Disk!Init
<1>1. Disk!Waiting = {} /\ Disk!Entries(avail) = {} /\ Disk!Entries(used) = {}
  BY DEF Disk!Waiting, Disk!Entries
<1>2. Disk!TypeOK
  <2>1. Disk!NoRequest \in Disk!Requests
    BY DiskAssumption DEF Disk!NoRequest, Disk!Requests
  <2>2. 0 \in 0..(IdxWrap - 1)
    BY WrapLarge, SMT
  <2> QED  BY <2>1, <2>2 DEF Disk!TypeOK
<1>3. Disk!DescsAccounted
  <2>1. Cardinality(free) = NUM
    BY FS_Interval, DiskAssumption, SMT DEF Disk!Desc
  <2>2. Cardinality(Disk!Waiting) = 0
    BY <1>1, FS_EmptySet
  <2> QED  BY <1>1, <2>1, <2>2, SizesAgree, DiskAssumption DEF Disk!DescsAccounted
<1>4. Disk!NoPanic /\ Disk!NoLostRoom /\ Disk!NoLostIntr /\ Disk!ChainsInPlace
  BY <1>1 DEF Disk!NoPanic, Disk!NoLostRoom, Disk!NoLostIntr, Disk!ChainsInPlace
<1>5. Disk!StagesInPlace
  BY <1>1 DEF Disk!StagesInPlace
<1>6. Disk!RingsInPlace
  <2>1. 0 \in 0..(NUM - 1) /\ 0 \in Idx /\ 0..(0 - 1) = {} /\ 0 + 0 = 0
    BY WrapLarge, SMT DEF Idx
  <2>2. (0 + 0) % IdxWrap = 0
    BY <2>1, PlacesMove
  <2>3. Disk!Places(0, 0) = {}
    BY <2>1 DEF Disk!Places
  <2>4. Disk!RingFrom(avail, 0, 0) /\ Disk!RingFrom(used, 0, 0)
    BY <2>1, <2>2, <2>3 DEF Disk!RingFrom
  <2> QED  BY <2>4 DEF Disk!RingsInPlace
<1> QED  BY <1>2, <1>3, <1>4, <1>5, <1>6 DEF Disk!DescsInv

\* So every step keeps the invariant.
LEMMA StepDescs ==
  Disk!DescsInv /\ [Disk!Next]_(Disk!vars) => Disk!DescsInv'
<1> SUFFICES ASSUME Disk!DescsInv, [Disk!Next]_(Disk!vars) PROVE Disk!DescsInv'
  OBVIOUS
<1>1. CASE Disk!Next
  <2>1. CASE \E t \in Thread : Disk!Call(t) \/ Disk!Run(t) \/ Disk!Spurious(t)
    BY <2>1, CallKeeps, AllocTakeKeeps, AllocSleepKeeps, WaitMoreKeeps, FinishKeeps, SpuriousKeeps
       DEF Disk!Run
  <2>2. CASE Disk!Intr
    BY <2>2, IntrAckKeeps, IntrEntryKeeps, IntrEndKeeps DEF Disk!Intr
  <2>3. CASE Disk!Device
    BY <2>3, DeviceTakeKeeps, DeviceDoKeeps DEF Disk!Device
  <2> QED  BY <1>1, <2>1, <2>2, <2>3 DEF Disk!Next
<1>2. CASE UNCHANGED Disk!vars
  <2>1. Disk!Waiting' = Disk!Waiting
    BY <1>2 DEF Disk!vars, Disk!Waiting
  <2>2. Disk!StagesInPlace'
    BY <1>2, <2>1, StagesStay DEF Disk!vars, Disk!DescsInv, Disk!availVars, Disk!devVars
  <2>3. Disk!TypeOK' /\ Disk!NoPanic' /\ Disk!NoLostRoom' /\ Disk!ChainsInPlace' /\ Disk!RingsInPlace'
    BY <1>2 DEF Disk!vars, Disk!descVars, Disk!availVars, Disk!devVars, Disk!DescsInv, Disk!TypeOK,
       Disk!NoPanic, Disk!NoLostRoom, Disk!ChainsInPlace, Disk!RingsInPlace, Disk!RingFrom
  <2>4. Disk!DescsAccounted' /\ Disk!NoLostIntr'
    BY <1>2, <2>1 DEF Disk!vars, Disk!descVars, Disk!availVars, Disk!devVars, Disk!DescsInv,
       Disk!DescsAccounted, Disk!Chain, Disk!NoLostIntr
  <2> QED  BY <2>2, <2>3, <2>4 DEF Disk!DescsInv
<1> QED  BY <1>1, <1>2

\* DescsInv of VirtioDisk, for any threads and any number of descriptors: each is free or
\* in one request's chain, each request is in one place on its way through the rings, the
\* driver's panics are not reached, and no wakeup for descriptors or for a finished
\* request is lost, whatever the device does first and past any wrap of the indices.
THEOREM DescsInvariant == Disk!Spec => []DescsInv
BY InitDescs, StepDescs, PTL DEF Disk!Spec, DescsInv

-------------------------------------------------------------------------------
(* Refinement *)

\* The request as the service sees it.
Seen(t) == IF dpc[t] = "out" THEN [phase |-> "idle"]
           ELSE [phase |-> IF dpc[t] = "wait" /\ status[head[t]] THEN "done" ELSE "asked",
                 write |-> req[t].write, block |-> req[t].block]
Seens == [t \in Thread |-> Seen(t)]

\* A step that moves no data and changes no request leaves the service alone.
LEMMA SeenSame ==
  ASSUME UNCHANGED <<disk, data>>, \A t \in Thread : Seen(t)' = Seen(t)
  PROVE  UNCHANGED Disk!Service!vars
BY DEF Disk!Service!vars, Seen

\* Nothing is asked for at first.
LEMMA InitService == Disk!Init => Disk!Service!Init
BY DEF Disk!Init, Disk!Service!Init, Disk!Service!Idle

\* A call is the request of the service: a caller that writes has filled its buffer.
LEMMA CallAsks ==
  ASSUME NEW t \in Thread, Disk!DescsInv, Disk!Call(t)
  PROVE  Disk!Service!Ask(t)
<1>1. PICK rq \in Disk!Requests, v \in Val :
             /\ req' = [req EXCEPT ![t] = rq]
             /\ data' = IF rq.write THEN [data EXCEPT ![t] = v] ELSE data
  BY DEF Disk!Call
<1>2. dpc[t] = "out" /\ dpc' = [dpc EXCEPT ![t] = "alloc"] /\ UNCHANGED <<disk, status, head>>
  BY DEF Disk!Call
<1>3. Seen(t) = Disk!Service!Idle
  BY <1>2 DEF Seen, Disk!Service!Idle
<1>4. /\ Seen(t)' = Disk!Service!Request("asked", rq.write, rq.block) 
      /\ rq.write \in BOOLEAN /\ rq.block \in Block
  BY <1>1, <1>2 DEF Seen, Disk!Service!Request, Disk!DescsInv, Disk!TypeOK, Disk!Requests
<1>5. \A u \in Thread : u # t => Seen(u)' = Seen(u)
  BY <1>1, <1>2 DEF Seen, Disk!DescsInv, Disk!TypeOK
<1>6. Seens' = [Seens EXCEPT ![t] = Disk!Service!Request("asked", rq.write, rq.block)]
  BY <1>4, <1>5 DEF Seens
<1>7. \E x \in Val : data' = [data EXCEPT ![t] = x]
  <2>1. data' = [data EXCEPT ![t] = IF rq.write THEN v ELSE data[t]] /\ data[t] \in Val
    BY <1>1 DEF Disk!DescsInv, Disk!TypeOK
  <2> QED  BY <2>1
<1> QED  BY <1>2, <1>3, <1>4, <1>6, <1>7 DEF Disk!Service!Ask, Seens, Seen, Disk!Service!Idle

\* The device moves the block that the request's own descriptors name, as they were never reused.
LEMMA DeviceDoDoes ==
  ASSUME NEW h \in Disk!Desc, Disk!DescsInv, Disk!DeviceDo(h)
  PROVE  \E t \in Thread : Disk!Service!Do(t)
<1>1. PICK t \in Disk!Waiting : h = head[t]
  BY DEF Disk!DeviceDo, Disk!StagesInPlace, Disk!Heads, Disk!DescsInv
<1>2. /\ t \in Thread /\ dpc[t] = "wait" /\ addr[next[h]] = t
      /\ ops[h] = req[t] /\ ~status[h] /\ req[t] \in Disk!Requests
  BY <1>1 DEF Disk!DeviceDo, Disk!StagesInPlace, Disk!ChainsInPlace, Disk!Waiting, Disk!TypeOK,
     Disk!DescsInv
<1>3. /\ disk' = IF req[t].write THEN [disk EXCEPT ![req[t].block] = data[t]] ELSE disk
      /\ data' = IF req[t].write THEN data ELSE [data EXCEPT ![t] = disk[req[t].block]]
      /\ status' = [status EXCEPT ![h] = TRUE] /\ UNCHANGED <<dpc, req, head>>
  BY <1>2 DEF Disk!DeviceDo
<1>4. req[t].write \in BOOLEAN /\ req[t].block \in Block
  BY <1>2 DEF Disk!Requests
<1>5. Seen(t) = Disk!Service!Request("asked", req[t].write, req[t].block)
  BY <1>1, <1>2 DEF Seen, Disk!Service!Request
<1>6. Seen(t)' = Disk!Service!Request("done", req[t].write, req[t].block)
  BY <1>1, <1>2, <1>3 DEF Seen, Disk!Service!Request, Disk!DescsInv, Disk!TypeOK
<1>7. \A u \in Thread : u # t => Seen(u)' = Seen(u)
  <2>1. \A u \in Thread : u # t /\ dpc[u] = "wait" => head[u] # h
    BY <1>1, WaitersFew DEF Disk!Waiting, Disk!DescsInv
  <2> QED  BY <1>3, <2>1 DEF Seen, Disk!DescsInv, Disk!TypeOK
<1>8. Seens' = [Seens EXCEPT ![t] = Disk!Service!Request("done", req[t].write, req[t].block)]
  BY <1>2, <1>6, <1>7 DEF Seens
<1> QED  BY <1>2, <1>3, <1>4, <1>5, <1>8 DEF Disk!Service!Do, Seens, Seen

\* Who returns has been served.
LEMMA FinishReturns ==
  ASSUME NEW t \in Thread, Disk!DescsInv, Disk!Finish(t)
  PROVE  Disk!Service!Return(t)
<1>1. /\ dpc' = [dpc EXCEPT ![t] = "out"] /\ head' = [head EXCEPT ![t] = Disk!None]
      /\ req' = [req EXCEPT ![t] = Disk!NoRequest]
      /\ dpc[t] = "wait" /\ ~busy[t] /\ UNCHANGED <<disk, data, status>>
  BY DEF Disk!Finish, Disk!Enter, Disk!Done
<1>2. status[head[t]] /\ req[t].write \in BOOLEAN /\ req[t].block \in Block
  BY <1>1 DEF Disk!DescsInv, Disk!ChainsInPlace, Disk!TypeOK, Disk!Requests
<1>3. Seen(t) = Disk!Service!Request("done", req[t].write, req[t].block)
  BY <1>1, <1>2 DEF Seen, Disk!Service!Request
<1>4. Seen(t)' = Disk!Service!Idle
  BY <1>1 DEF Seen, Disk!Service!Idle, Disk!DescsInv, Disk!TypeOK
<1>5. \A u \in Thread : u # t => Seen(u)' = Seen(u)
  BY <1>1 DEF Seen, Disk!DescsInv, Disk!TypeOK
<1>6. Seens' = [Seens EXCEPT ![t] = Disk!Service!Idle]
  BY <1>4, <1>5 DEF Seens
<1> QED  BY <1>1, <1>2, <1>3, <1>6 DEF Disk!Service!Return, Seens, Seen

\* To announce a request, whose status byte may be left over from another, serves none.
LEMMA AllocTakeStays ==
  ASSUME NEW t \in Thread, Disk!DescsInv, Disk!AllocTake(t)
  PROVE  UNCHANGED Disk!Service!vars
<1> DEFINE h == Disk!LowestOf(free)
<1>1. h \in free /\ h \in Disk!Desc
  BY SizesAgree, ThreeTaken DEF Disk!AllocTake, Disk!DescsInv
<1>2. /\ status' = [status EXCEPT ![h] = FALSE] /\ head' = [head EXCEPT ![t] = h]
      /\ dpc[t] = "alloc" /\ dpc' = [dpc EXCEPT ![t] = "wait"] /\ UNCHANGED <<disk, data, req>>
  BY DEF Disk!AllocTake, Disk!Enter
<1> HIDE DEF h
<1>3. \A u \in Disk!Waiting : head[u] # h /\ u # t
  BY <1>1, <1>2, ChainHasThree DEF Disk!DescsInv, Disk!DescsAccounted, Disk!Waiting
<1>4. \A u \in Thread : Seen(u)' = Seen(u)
  BY <1>1, <1>2, <1>3 DEF Seen, Disk!Waiting, Disk!DescsInv, Disk!TypeOK
<1> QED  BY <1>2, <1>4, SeenSame

\* So every step is a step of the service or leaves it alone.
LEMMA StepServes ==
  Disk!DescsInv /\ [Disk!Next]_(Disk!vars) => [Disk!Service!Next]_(Disk!Service!vars)
<1> SUFFICES ASSUME Disk!DescsInv, [Disk!Next]_(Disk!vars)
             PROVE  [Disk!Service!Next]_(Disk!Service!vars)
  OBVIOUS
<1>1. CASE \E t \in Thread : Disk!Call(t)
  BY <1>1, CallAsks DEF Disk!Service!Next
<1>2. CASE \E t \in Thread : Disk!AllocTake(t)
  BY <1>2, AllocTakeStays
<1>3. CASE \E t \in Thread : Disk!Finish(t)
  BY <1>3, FinishReturns DEF Disk!Service!Next
<1>4. CASE \E h \in Disk!Desc : Disk!DeviceDo(h)
  BY <1>4, DeviceDoDoes DEF Disk!Service!Next
<1>5. CASE \/ \E t \in Thread : Disk!AllocSleep(t) \/ Disk!WaitMore(t) \/ Disk!Spurious(t)
           \/ Disk!Intr \/ Disk!DeviceTake \/ UNCHANGED Disk!vars
  <2>1. UNCHANGED <<disk, data, dpc, status, head, req>>
    BY <1>5 DEF Disk!AllocSleep, Disk!WaitMore, Disk!Spurious, Disk!Intr, Disk!IntrAck,
       Disk!IntrEntry, Disk!IntrEnd, Disk!DeviceTake, Disk!vars
  <2>2. \A t \in Thread : Seen(t)' = Seen(t)
    BY <2>1 DEF Seen
  <2> QED  BY <2>1, <2>2, SeenSame
<1> QED  BY <1>1, <1>2, <1>3, <1>4, <1>5 DEF Disk!Next, Disk!Run, Disk!Device

\* Descriptors reused, completions out of order and several in one interrupt: each request
\* still moves its own block to or from its own buffer, once, as DiskService says.
THEOREM DiskRefinement == Disk!Spec => ImplementsService
<1>1. Disk!Spec => Disk!Service!Init /\ [][Disk!Service!Next]_(Disk!Service!vars)
  BY InitService, InitDescs, StepDescs, StepServes, PTL DEF Disk!Spec
<1> QED  BY <1>1 DEF ImplementsService, Disk!ImplementsService, Disk!Service!Spec

-------------------------------------------------------------------------------
(* The file table *)

\* The sizes of sets that Descriptors speaks of, too.
LEMMA SizesOfFiles == \A S : Files!Cardinality(S) = Cardinality(S)
BY DEF Files!Cardinality, Cardinality, Files!IsFiniteSet, IsFiniteSet

\* A set of numbers that is not empty has a least one.
LEMMA LeastIn ==
  ASSUME NEW S \in SUBSET Nat, S # {}
  PROVE  Files!Min(S) \in S /\ \A y \in S : Files!Min(S) <= y
<1>1. IsWellFoundedOn(Less, Nat)
  BY NatLessThanWellFounded, Zenon DEF Less
<1>2. PICK x \in S : \A y \in S : <<y, x>> \notin Less
  BY <1>1, WFMin
<1>3. ASSUME NEW y \in S
      PROVE  x <= y
  <2>1. ~(y < x)
    BY <1>2, Zenon DEF Less, OpToRel
  <2> QED  BY <2>1
<1> QED  BY <1>3 DEF Files!Min

\* Numbering the members of a set does not change how many there are.
LEMMA PairsCount ==
  ASSUME NEW p, NEW S, IsFiniteSet(S)
  PROVE  IsFiniteSet({p} \X S) /\ Cardinality({p} \X S) = Cardinality(S)
<1>1. IsFiniteSet({p}) /\ Cardinality({p}) = 1 /\ Cardinality(S) \in Nat
  BY FS_Singleton, FS_CardinalityType
<1> QED  BY <1>1, FS_Product

\* When only p's set changes, the count changes by what that set does; and p's set is
\* no larger than the count.
LEMMA CountStep ==
  ASSUME NEW A, NEW B, NEW p \in Proc, \A q \in Proc : IsFiniteSet(A[q]), IsFiniteSet(B[p]),
         \A q \in Proc : q # p => B[q] = A[q]
  PROVE  /\ Files!Count(A) \in Nat /\ Files!Count(B) \in Nat
         /\ Cardinality(A[p]) \in Nat /\ Cardinality(B[p]) \in Nat
         /\ Cardinality(A[p]) <= Files!Count(A)
         /\ Files!Count(B) = Files!Count(A) - Cardinality(A[p]) + Cardinality(B[p])
<1> DEFINE R == UNION {{q} \X A[q] : q \in Proc \ {p}}
           X == {p} \X A[p]
           Y == {p} \X B[p]
<1>1. IsFiniteSet(X) /\ Cardinality(X) = Cardinality(A[p]) /\ Cardinality(X) \in Nat
  BY PairsCount, FS_CardinalityType
<1>2. IsFiniteSet(Y) /\ Cardinality(Y) = Cardinality(B[p]) /\ Cardinality(Y) \in Nat
  BY PairsCount, FS_CardinalityType
<1>3. UNION {{q} \X A[q] : q \in Proc} = R \cup X /\ UNION {{q} \X B[q] : q \in Proc} = R \cup Y
  OBVIOUS
<1>4. R \cap X = {} /\ R \cap Y = {}
  OBVIOUS
<1>5. IsFiniteSet(R) /\ Cardinality(R) \in Nat
  <2> DEFINE f == [q \in Proc |-> {q} \X A[q]]
             I == {f[q] : q \in Proc}
  <2>1. f \in Surjection(Proc, I)
    BY DEF Surjection
  <2>2. IsFiniteSet(I)
    BY <2>1, FS_Surjection, FilesAssumption
  <2>3. ASSUME NEW T \in I
        PROVE  IsFiniteSet(T)
    <3>1. PICK q \in Proc : T = {q} \X A[q]
      OBVIOUS
    <3> QED  BY <3>1, PairsCount
  <2>4. R \subseteq UNION I
    OBVIOUS
  <2> HIDE DEF I, R
  <2>5. IsFiniteSet(UNION I)
    BY <2>2, <2>3, FS_UNION
  <2> QED  BY <2>4, <2>5, FS_Subset, FS_CardinalityType
<1>6. Cardinality(UNION {{q} \X A[q] : q \in Proc}) = Cardinality(R) + Cardinality(X)
  <2> HIDE DEF R, X
  <2>1. Cardinality(R \cup X) = Cardinality(R) + Cardinality(X) - Cardinality({})
    BY <1>1, <1>4, <1>5, FS_Union
  <2>2. Cardinality(R \cup X) = Cardinality(R) + Cardinality(X)
    BY <1>1, <1>5, <2>1, FS_EmptySet
  <2> QED  BY <1>3, <2>2, Zenon
<1>7. Cardinality(UNION {{q} \X B[q] : q \in Proc}) = Cardinality(R) + Cardinality(Y)
  <2> HIDE DEF R, Y
  <2>1. Cardinality(R \cup Y) = Cardinality(R) + Cardinality(Y) - Cardinality({})
    BY <1>2, <1>4, <1>5, FS_Union
  <2>2. Cardinality(R \cup Y) = Cardinality(R) + Cardinality(Y)
    BY <1>2, <1>5, <2>1, FS_EmptySet
  <2> QED  BY <1>3, <2>2, Zenon
<1>8. /\ Files!Count(A) = Cardinality(R) + Cardinality(X)
      /\ Files!Count(B) = Cardinality(R) + Cardinality(Y)
  BY <1>6, <1>7, Zenon, SizesOfFiles DEF Files!Count
<1> HIDE DEF R, X, Y
<1> QED  BY <1>1, <1>2, <1>5, <1>8

\* Equal sets are counted alike.
LEMMA CountSame ==
  ASSUME NEW A, NEW B, \A q \in Proc : B[q] = A[q]
  PROVE  Files!Count(B) = Files!Count(A)
<1>1. {{q} \X A[q] : q \in Proc} = {{q} \X B[q] : q \in Proc}
  OBVIOUS
<1> QED  BY <1>1, SizesOfFiles DEF Files!Count

\* The sets of two processes are counted both.
LEMMA CountTwo ==
  ASSUME NEW A, NEW p \in Proc, NEW q \in Proc, p # q, \A rp \in Proc : IsFiniteSet(A[rp])
  PROVE  /\ Files!Count(A) \in Nat /\ Cardinality(A[p]) \in Nat /\ Cardinality(A[q]) \in Nat
         /\ Cardinality(A[p]) + Cardinality(A[q]) <= Files!Count(A)
<1> DEFINE E == [rp \in Proc |-> IF rp = p THEN {} ELSE A[rp]]
<1>1. IsFiniteSet({}) /\ Cardinality({}) = 0
  BY FS_EmptySet
<1>2. /\ Files!Count(E) = Files!Count(A) - Cardinality(A[p]) + 0 /\ Files!Count(A) \in Nat
      /\ Cardinality(A[p]) \in Nat
  <2>1. \A rp \in Proc : rp # p => E[rp] = A[rp]
    OBVIOUS
  <2>2. E[p] = {}
    OBVIOUS
  <2>3. IsFiniteSet(E[p]) /\ Cardinality(E[p]) = 0
    BY <1>1, <2>2
  <2> HIDE DEF E
  <2>4. /\ Files!Count(E) = Files!Count(A) - Cardinality(A[p]) + Cardinality(E[p])
        /\ Files!Count(A) \in Nat /\ Cardinality(A[p]) \in Nat
    BY <2>1, <2>3, CountStep
  <2> QED  BY <2>3, <2>4
<1>3. Cardinality(A[q]) <= Files!Count(E) /\ Cardinality(A[q]) \in Nat
  <2>1. \A rp \in Proc : IsFiniteSet(E[rp])
    BY <1>1
  <2>2. E[q] = A[q]
    OBVIOUS
  <2> HIDE DEF E
  <2> QED  BY <2>1, <2>2, CountStep
<1> QED  BY <1>2, <1>3

\* Two sets that differ in one element at most.
LEMMA SetStep ==
  ASSUME NEW S, IsFiniteSet(S), NEW T, NEW x, T \ {x} = S \ {x}
  PROVE  /\ IsFiniteSet(T) /\ Cardinality(S) \in Nat /\ Cardinality(T) \in Nat
         /\ Cardinality(T)
              = Cardinality(S) - (IF x \in S THEN 1 ELSE 0) + (IF x \in T THEN 1 ELSE 0)
<1> DEFINE R == S \ {x}
<1>1. /\ IsFiniteSet(R) /\ Cardinality(R) \in Nat /\ Cardinality(S) \in Nat
      /\ Cardinality(R) = IF x \in S THEN Cardinality(S) - 1 ELSE Cardinality(S)
  BY FS_RemoveElement, FS_CardinalityType
<1>2. x \notin R /\ T \subseteq R \cup {x} /\ R \subseteq T
  OBVIOUS
<1> HIDE DEF R
<1>3. CASE x \in T
  <2>1. T = R \cup {x}
    BY <1>2, <1>3
  <2>2. IsFiniteSet(T) /\ Cardinality(T) = Cardinality(R) + 1
    BY <1>1, <1>2, <2>1, FS_AddElement
  <2> QED  BY <1>1, <1>3, <2>2
<1>4. CASE x \notin T
  <2>1. T = R
    BY <1>2, <1>4
  <2> QED  BY <1>1, <1>4, <2>1
<1> QED  BY <1>3, <1>4

\* A sequence has x at finitely many places.
LEMMA PlacesFinite ==
  ASSUME NEW S, NEW t \in Seq(S), NEW x
  PROVE  IsFiniteSet(Files!Places(t, x)) /\ Cardinality(Files!Places(t, x)) \in Nat
<1>1. IsFiniteSet(1..Len(t)) /\ Files!Places(t, x) \subseteq 1..Len(t)
  BY FS_Interval DEF Files!Places
<1> QED  BY <1>1, FS_Subset, FS_CardinalityType

\* Without its first element it has x once less, if that is x.
LEMMA PlacesTail ==
  ASSUME NEW S, NEW t \in Seq(S), t # << >>, NEW x
  PROVE  Cardinality(Files!Places(t, x))
           = Cardinality(Files!Places(Tail(t), x)) + (IF Head(t) = x THEN 1 ELSE 0)
<1> DEFINE L == Files!Places(t, x) \ {1}
           R == Files!Places(Tail(t), x)
           f == [k \in R |-> k + 1]
<1>1. Tail(t) \in Seq(S) /\ Len(Tail(t)) = Len(t) - 1 /\ Len(t) \in Nat \ {0}
      /\ \A k \in 1..(Len(t) - 1) : Tail(t)[k] = t[k + 1]
  OBVIOUS
<1>2. f \in Bijection(R, L)
  <2>1. \A k \in R : k \in Nat \ {0} /\ f[k] \in L
    BY <1>1 DEF Files!Places
  <2>2. \A k \in L : k - 1 \in R /\ f[k - 1] = k
    BY <1>1 DEF Files!Places
  <2>3. \A k, n \in R : f[k] = f[n] => k = n
    BY <2>1
  <2> QED  BY <2>1, <2>2, <2>3 DEF Bijection, Injection, Surjection, IsInjective
<1>3. IsFiniteSet(R) /\ Cardinality(R) \in Nat
  BY <1>1, PlacesFinite
<1>4. Cardinality(L) = Cardinality(R)
  BY <1>2, <1>3, FS_Bijection DEF ExistsBijection
<1>5. IsFiniteSet(Files!Places(t, x)) /\ Cardinality(Files!Places(t, x)) \in Nat
  BY PlacesFinite
<1>6. 1 \in Files!Places(t, x) <=> Head(t) = x
  BY <1>1 DEF Files!Places
<1> HIDE DEF R, f
<1>7. Cardinality(L)
        = IF 1 \in Files!Places(t, x) THEN Cardinality(Files!Places(t, x)) - 1
          ELSE Cardinality(Files!Places(t, x))
  BY <1>5, FS_RemoveElement
<1> HIDE DEF L
<1> QED  BY <1>3, <1>4, <1>5, <1>6, <1>7 DEF R

\* One element more in front.
LEMMA PlacesMore ==
  ASSUME NEW S, NEW t \in Seq(S), NEW a \in S, NEW x
  PROVE  /\ <<a>> \o t \in Seq(S)
         /\ Cardinality(Files!Places(<<a>> \o t, x))
              = Cardinality(Files!Places(t, x)) + (IF a = x THEN 1 ELSE 0)
<1> DEFINE u == <<a>> \o t
<1>1. u \in Seq(S) /\ u # << >> /\ Head(u) = a /\ Tail(u) = t
  <2>1. u \in Seq(S) /\ Len(u) = Len(t) + 1 /\ u[1] = a /\ \A k \in 1..Len(t) : u[k + 1] = t[k]
    OBVIOUS
  <2> HIDE DEF u
  <2>2. Tail(u) \in Seq(S) /\ Len(Tail(u)) = Len(t) /\ \A k \in 1..Len(t) : Tail(u)[k] = t[k]
    BY <2>1
  <2>3. Tail(u) = t
    BY <2>2
  <2> QED  BY <2>1, <2>3
<1> HIDE DEF u
<1>2. Cardinality(Files!Places(u, x)) = Cardinality(Files!Places(t, x)) + (IF a = x THEN 1 ELSE 0)
  BY <1>1, PlacesTail
<1> QED  BY <1>1, <1>2 DEF u

\* Where x is in a sequence of none, or of one.
LEMMA PlacesShort ==
  ASSUME NEW a, NEW x
  PROVE  Files!Places(<< >>, x) = {} /\ Files!Places(<<a>>, x) = IF a = x THEN {1} ELSE {}
BY DEF Files!Places

-------------------------------------------------------------------------------
(* The invariant *)

Openings == {Files!InOpen(i) : i \in Opens}
Job == {Files!FileClose(s) : s \in Files!Slot}
         \cup {Files!PipeClose(pg, wr) : pg \in Page, wr \in BOOLEAN}
       \cup {Files!Iput(i) : i \in Inum}
Row == [Files!Fd -> Files!Slot \cup {0}]
Entry == [ref : Nat, type : {"none", "pipe", "inode"}, obj : Page \cup Inum, writable : BOOLEAN]

FdTypeOK ==
  /\ file \in [Files!Slot -> Entry]
  /\ ofile \in [Proc -> Row] /\ cwd \in [Proc -> Inum]
  /\ at \in [Proc -> {Files!None, Files!User, Files!InPipe, Files!Exiting} \cup Openings]
  /\ made \in [Proc -> Seq(Files!Slot)] /\ todo \in [Proc -> Seq(Job)]
  /\ pipe \in [Page -> SUBSET {"r", "w"}] /\ iref \in [Inum -> Int]

\* A call has the entries it has asked for; nothing is left to close before it.
CallsInPlace == \A p \in Proc :
  /\ at[p] = Files!InPipe => Len(made[p]) \in 1..2 /\ todo[p] = << >>
  /\ at[p] \in Openings => Len(made[p]) \in 0..1 /\ todo[p] = << >>
  /\ at[p] \in {Files!None, Files!User, Files!Exiting} => made[p] = << >>
  /\ Len(made[p]) = 2 => made[p][1] # made[p][2]
  /\ at[p] = Files!None => ofile[p] = Files!Closed

\* An entry that is free or that a call has just been given is of no type.
EntriesInPlace == \A s \in Files!Slot :
  /\ file[s].ref = 0 => file[s].type = "none"
  /\ file[s].type = "pipe" => file[s].obj \in Page
  /\ file[s].type = "inode" => file[s].obj \in Inum
  /\ \A p \in Proc : s \in Files!ToSet(made[p]) => file[s].ref = 1 /\ file[s].type = "none"

FdInv == FdTypeOK /\ CallsInPlace /\ EntriesInPlace /\ Files!DescInv

\* What p does for the count of s.
Share(p, s) == Cardinality(Files!Stand(p, s)) + Cardinality(Files!Places(made[p], s))
               + Cardinality(Files!Places(todo[p], Files!FileClose(s)))
Shows(f, type, x, wr) == f.ref > 0 /\ f.type = type /\ f.obj = x /\ f.writable = wr

\* Places of processes, jobs and types are told apart.
LEMMA Apart ==
  /\ Files!User # Files!InPipe /\ Files!User # Files!Exiting /\ Files!InPipe # Files!Exiting
  /\ Files!None # Files!User /\ Files!None # Files!InPipe
  /\ Files!None # Files!Exiting
  /\ \A i : Files!InOpen(i) \notin {Files!None, Files!User, Files!InPipe, Files!Exiting}
  /\ \A i, j : Files!InOpen(i) = Files!InOpen(j) => i = j
<1>1. /\ Len(<<"pipe">>) = 1 /\ \A i : Len(<<"open", i>>) = 2 /\ <<"open", i>>[2] = i
  OBVIOUS
<1>2. \A i : \A x \in {<<"none">>, <<"user">>, <<"pipe">>, <<"exit">>} : <<"open", i>> # x
  OBVIOUS
<1> QED  BY <1>1, <1>2 DEF Files!None, Files!User, Files!InPipe, Files!Exiting, Files!InOpen

\* What is left to close is told apart by what it is and of what.
LEMMA JobsApart ==
  /\ \A s, u : Files!FileClose(s) = Files!FileClose(u) <=> s = u
  /\ \A s, pg, wr : Files!FileClose(s) # Files!PipeClose(pg, wr)
  /\ \A s, i : Files!FileClose(s) # Files!Iput(i)
  /\ \A i, pg, wr : Files!Iput(i) # Files!PipeClose(pg, wr)
  /\ \A i, j : Files!Iput(i) = Files!Iput(j) <=> i = j
  /\ \A pg, wr, pf, v : Files!PipeClose(pg, wr) = Files!PipeClose(pf, v) <=> pg = pf /\ wr = v
  /\ \A s : Files!FileClose(s).do = "fileclose" /\ Files!FileClose(s).obj = s
  /\ \A pg, wr :
        /\ Files!PipeClose(pg, wr).do = "pipe" /\ Files!PipeClose(pg, wr).obj = pg
        /\ Files!PipeClose(pg, wr).writable = wr
  /\ \A i : Files!Iput(i).do = "inode" /\ Files!Iput(i).obj = i
BY DEF Files!FileClose, Files!PipeClose, Files!Iput

\* The descriptors that stand for s.
FdsFor(f, s) == {fd \in Files!Fd : f[fd] = s}

\* The descriptors of a process are finitely many.
LEMMA StandFinite ==
  ASSUME NEW f, NEW s
  PROVE  IsFiniteSet(FdsFor(f, s)) /\ Cardinality(FdsFor(f, s)) \in Nat
<1>1. IsFiniteSet(Files!Fd)
  BY FilesAssumption, FS_Interval DEF Files!Fd
<1>2. FdsFor(f, s) \in SUBSET Files!Fd
  BY DEF FdsFor
<1> QED  BY <1>1, <1>2, FS_Subset, FS_CardinalityType

SameBut(f, g, fd) == \A n \in Files!Fd \ {fd} : g[n] = f[n]

\* A descriptor that is set anew stands for another entry.
LEMMA StandStep ==
  ASSUME NEW f, NEW g, NEW fd \in Files!Fd, SameBut(f, g, fd), NEW s
  PROVE  Cardinality(FdsFor(g, s))
         = Cardinality(FdsFor(f, s)) - (IF f[fd] = s THEN 1 ELSE 0) + (IF g[fd] = s THEN 1 ELSE 0)
<1> DEFINE S == FdsFor(f, s)
           T == FdsFor(g, s)
<1>1. T \ {fd} = S \ {fd} /\ (fd \in S <=> f[fd] = s) /\ (fd \in T <=> g[fd] = s)
  BY DEF FdsFor, SameBut
<1>2. IsFiniteSet(S)
  BY StandFinite
<1> HIDE DEF S, T
<1>3. Cardinality(T) = Cardinality(S) - (IF fd \in S THEN 1 ELSE 0) + (IF fd \in T THEN 1 ELSE 0)
  BY <1>1, <1>2, SetStep
<1> QED  BY <1>1, <1>3 DEF S, T

\* fdalloc makes one more descriptor stand for s, and one less free.
LEMMA FdallocIs ==
  ASSUME NEW f \in Row, Files!FreeFds(f) # {}, NEW s \in Files!Slot
  PROVE  /\ Files!Fdalloc(f, s) \in Row /\ Files!Min(Files!FreeFds(f)) \in Files!Fd
         /\ f[Files!Min(Files!FreeFds(f))] = 0
         /\ Files!FreeFds(Files!Fdalloc(f, s)) = Files!FreeFds(f) \ {Files!Min(Files!FreeFds(f))}
         /\ Cardinality(Files!FreeFds(Files!Fdalloc(f, s))) = Cardinality(Files!FreeFds(f)) - 1
         /\ \A u \in Files!Slot : Cardinality(FdsFor(Files!Fdalloc(f, s), u))
                            = Cardinality(FdsFor(f, u)) + (IF u = s THEN 1 ELSE 0)
<1> DEFINE m == Files!Min(Files!FreeFds(f))
<1>1. m \in Files!FreeFds(f)
  BY LeastIn, FilesAssumption DEF Files!FreeFds, Files!Fd
<1> HIDE DEF m
<1>2. m \in Files!Fd /\ f[m] = 0 /\ Files!Fdalloc(f, s) = [f EXCEPT ![m] = s] /\ 0 \notin Files!Slot
  BY <1>1 DEF Files!FreeFds, Files!Fdalloc, m, Files!Slot
<1>3. Files!Fdalloc(f, s) \in Row /\ Files!FreeFds(Files!Fdalloc(f, s)) = Files!FreeFds(f) \ {m}
  BY <1>2 DEF Row, Files!FreeFds
<1>4. Cardinality(Files!FreeFds(f) \ {m}) = Cardinality(Files!FreeFds(f)) - 1
  <2>1. Files!FreeFds(f) = FdsFor(f, 0)
    BY DEF Files!FreeFds, FdsFor
  <2>2. IsFiniteSet(Files!FreeFds(f))
    BY <2>1, StandFinite
  <2> QED  BY <1>1, <2>2, FS_RemoveElement
<1>5. ASSUME NEW u \in Files!Slot
      PROVE  Cardinality(FdsFor(Files!Fdalloc(f, s), u))
             = Cardinality(FdsFor(f, u)) + (IF u = s THEN 1 ELSE 0)
  <2> DEFINE g == Files!Fdalloc(f, s)
  <2>3. g[m] = s /\ SameBut(f, g, m)
    BY <1>2 DEF Row, SameBut
  <2> HIDE DEF g
  <2>4. Cardinality(FdsFor(g, u))
        = Cardinality(FdsFor(f, u)) - (IF f[m] = u THEN 1 ELSE 0) + (IF s = u THEN 1 ELSE 0)
    BY <1>2, <2>3, StandStep
  <2>2. Cardinality(FdsFor(f, u)) \in Nat /\ f[m] # u
    BY <1>2, StandFinite
  <2> QED  BY <2>2, <2>4 DEF g
<1> QED  BY <1>2, <1>3, <1>4, <1>5 DEF m

\* The sets that are counted are finite.
LEMMA Finite ==
  ASSUME FdTypeOK, NEW p \in Proc, NEW s, NEW x
  PROVE  /\ IsFiniteSet(Files!Stand(p, s)) /\ Cardinality(Files!Stand(p, s)) \in Nat
         /\ IsFiniteSet(Files!Places(made[p], s)) /\ Cardinality(Files!Places(made[p], s)) \in Nat
         /\ IsFiniteSet(Files!Places(todo[p], x)) /\ Cardinality(Files!Places(todo[p], x)) \in Nat
<1>1. made[p] \in Seq(Files!Slot) /\ todo[p] \in Seq(Job)
  BY DEF FdTypeOK
<1> QED  BY <1>1, StandFinite, PlacesFinite DEF Files!Stand, FdsFor

\* A step of p changes the counts as it changes p's share.
LEMMA RefStep ==
  ASSUME FdTypeOK, FdTypeOK', Files!RefExact, NEW p \in Proc,
         \A q \in Proc : q # p => ofile'[q] = ofile[q] /\ made'[q] = made[q] /\ todo'[q] = todo[q],
         \A s \in Files!Slot : file'[s].ref = file[s].ref - Share(p, s) + Share(p, s)'
  PROVE  Files!RefExact'
<1> SUFFICES ASSUME NEW s \in Files!Slot
             PROVE  file'[s].ref = Files!Count([q \in Proc |-> Files!Stand(q, s)])'
                                   + Files!Count([q \in Proc |-> Files!Places(made[q], s)])'
                                     + Files!Todo(Files!FileClose(s))'
  BY DEF Files!RefExact
<1> DEFINE A == [q \in Proc |-> Files!Stand(q, s)]
           B == [q \in Proc |-> Files!Places(made[q], s)]
           C == [q \in Proc |-> Files!Places(todo[q], Files!FileClose(s))]
<1>1. \A q \in Proc : IsFiniteSet(A[q]) /\ IsFiniteSet(B[q]) /\ IsFiniteSet(C[q])
  BY Finite
<1>2. IsFiniteSet(A'[p]) /\ IsFiniteSet(B'[p]) /\ IsFiniteSet(C'[p])
  <2>1. IsFiniteSet(Files!Stand(p, s))' /\ IsFiniteSet(Files!Places(made[p], s))'
        /\ IsFiniteSet(Files!Places(todo[p], Files!FileClose(s)))'
    <3>1. made'[p] \in Seq(Files!Slot) /\ todo'[p] \in Seq(Job)
      BY DEF FdTypeOK
    <3>2. Files!Stand(p, s)' = FdsFor(ofile'[p], s)
      BY DEF Files!Stand, FdsFor
    <3>3. /\ IsFiniteSet(Files!Places(made'[p], s))
          /\ IsFiniteSet(Files!Places(todo'[p], Files!FileClose(s)))
      BY <3>1, PlacesFinite
    <3>4. IsFiniteSet(FdsFor(ofile'[p], s))
      BY StandFinite
    <3> QED  BY <3>2, <3>3, <3>4 DEF Files!Places, Files!FileClose
  <2> QED  BY <2>1
<1>3. \A q \in Proc : q # p => A'[q] = A[q] /\ B'[q] = B[q] /\ C'[q] = C[q]
  BY DEF Files!Stand
<1>4. /\ A[p] = Files!Stand(p, s) /\ B[p] = Files!Places(made[p], s)
      /\ C[p] = Files!Places(todo[p], Files!FileClose(s))
      /\ A'[p] = Files!Stand(p, s)' /\ B'[p] = Files!Places(made'[p], s)
      /\ C'[p] = Files!Places(todo'[p], Files!FileClose(s))
  OBVIOUS
<1>5. /\ Files!Count(C) = Files!Todo(Files!FileClose(s))
      /\ Files!Count(C') = Files!Todo(Files!FileClose(s))'
  BY SizesOfFiles DEF Files!Todo, Files!Count
<1>6. file[s].ref = Files!Count(A) + Files!Count(B) + Files!Count(C)
  BY <1>5 DEF Files!RefExact
<1>7. Files!Count(A)' = Files!Count(A') /\ Files!Count(B)' = Files!Count(B')
  BY SizesOfFiles DEF Files!Count
<1> HIDE DEF A, B, C
<1>8. /\ Files!Count(A) \in Nat
      /\ Files!Count(A') = Files!Count(A) - Cardinality(A[p]) + Cardinality(A'[p])
      /\ Cardinality(A[p]) \in Nat /\ Cardinality(A'[p]) \in Nat
  BY <1>1, <1>2, <1>3, CountStep
<1>9. /\ Files!Count(B) \in Nat
      /\ Files!Count(B') = Files!Count(B) - Cardinality(B[p]) + Cardinality(B'[p])
      /\ Cardinality(B[p]) \in Nat /\ Cardinality(B'[p]) \in Nat
  BY <1>1, <1>2, <1>3, CountStep
<1>10. /\ Files!Count(C) \in Nat
       /\ Files!Count(C') = Files!Count(C) - Cardinality(C[p]) + Cardinality(C'[p])
       /\ Cardinality(C[p]) \in Nat /\ Cardinality(C'[p]) \in Nat
  BY <1>1, <1>2, <1>3, CountStep
<1>11. /\ Share(p, s) = Cardinality(A[p]) + Cardinality(B[p]) + Cardinality(C[p])
       /\ Share(p, s)' = Cardinality(A'[p]) + Cardinality(B'[p]) + Cardinality(C'[p])
  BY <1>4 DEF Share
<1>12. file'[s].ref = Files!Count(A') + Files!Count(B') + Files!Count(C')
  BY <1>6, <1>8, <1>9, <1>10, <1>11
<1> QED  BY <1>5, <1>7, <1>12 DEF A, B, C

\* The same for what is left to be done.
LEMMA TodoStep ==
  ASSUME FdTypeOK, FdTypeOK', NEW p \in Proc, \A q \in Proc : q # p => todo'[q] = todo[q], NEW x
  PROVE  /\ Files!Todo(x) \in Nat /\ Files!Todo(x)' \in Nat
         /\ Cardinality(Files!Places(todo[p], x)) \in Nat
         /\ Cardinality(Files!Places(todo'[p], x)) \in Nat
         /\ Cardinality(Files!Places(todo[p], x)) <= Files!Todo(x)
         /\ Files!Todo(x)'
              = Files!Todo(x) - Cardinality(Files!Places(todo[p], x))
                + Cardinality(Files!Places(todo'[p], x))
<1> DEFINE C == [q \in Proc |-> Files!Places(todo[q], x)]
<1>1. \A q \in Proc : IsFiniteSet(C[q])
  BY Finite
<1>2. IsFiniteSet(C'[p])
  <2>1. todo'[p] \in Seq(Job)
    BY DEF FdTypeOK
  <2> QED  BY <2>1, PlacesFinite
<1>3. \A q \in Proc : q # p => C'[q] = C[q]
  OBVIOUS
<1>4. C[p] = Files!Places(todo[p], x) /\ C'[p] = Files!Places(todo'[p], x)
  OBVIOUS
<1>5. Files!Count(C) = Files!Todo(x) /\ Files!Count(C') = Files!Todo(x)'
  BY SizesOfFiles DEF Files!Todo, Files!Count
<1> HIDE DEF C
<1>6. /\ Files!Count(C) \in Nat /\ Files!Count(C') \in Nat
      /\ Cardinality(C[p]) \in Nat /\ Cardinality(C'[p]) \in Nat
      /\ Cardinality(C[p]) <= Files!Count(C)
      /\ Files!Count(C') = Files!Count(C) - Cardinality(C[p]) + Cardinality(C'[p])
  BY <1>1, <1>2, <1>3, CountStep
<1> QED  BY <1>4, <1>5, <1>6

\* Nothing to do that was not there.
LEMMA TodoSame ==
  ASSUME todo' = todo, NEW x
  PROVE  Files!Todo(x)' = Files!Todo(x)
BY SizesOfFiles DEF Files!Todo, Files!Count

\* One entry changes: so does what is shown by it.
LEMMA EntriesStep ==
  ASSUME NEW s \in Files!Slot, \A u \in Files!Slot : u # s => file'[u] = file[u], NEW type, NEW x,
         NEW wr
  PROVE  /\ Files!Entries(type, x, wr) \in Nat /\ Files!Entries(type, x, wr)' \in Nat
         /\ Files!Entries(type, x, wr)'
              = Files!Entries(type, x, wr) - (IF Shows(file[s], type, x, wr) THEN 1 ELSE 0)
                                   + (IF Shows(file'[s], type, x, wr) THEN 1 ELSE 0)
<1> DEFINE S == {u \in Files!Slot : file[u].ref > 0 /\ file[u].type = type /\ file[u].obj
                 = x /\ file[u].writable = wr}
           T == {u \in Files!Slot : file'[u].ref > 0 /\ file'[u].type = type /\ file'[u].obj
                 = x /\ file'[u].writable = wr}
<1>1. IsFiniteSet(S)
  <2>1. IsFiniteSet(Files!Slot) /\ S \in SUBSET Files!Slot
    BY FilesAssumption, FS_Interval DEF Files!Slot
  <2> QED  BY <2>1, FS_Subset
<1>2. T \ {s} = S \ {s}
  OBVIOUS
<1>3. (s \in S <=> Shows(file[s], type, x, wr)) /\ (s \in T <=> Shows(file'[s], type, x, wr))
  BY DEF Shows
<1>4. Files!Entries(type, x, wr) = Cardinality(S) /\ Files!Entries(type, x, wr)' = Cardinality(T)
  BY SizesOfFiles DEF Files!Entries
<1> HIDE DEF S, T
<1>5. /\ Cardinality(S) \in Nat /\ Cardinality(T) \in Nat
      /\ Cardinality(T) = Cardinality(S) - (IF s \in S THEN 1 ELSE 0) + (IF s \in T THEN 1 ELSE 0)
  BY <1>1, <1>2, SetStep
<1> QED  BY <1>3, <1>4, <1>5

\* Entries that show what they did are counted alike.
LEMMA EntriesSame ==
  ASSUME NEW type, NEW x, NEW wr,
         \A s \in Files!Slot : Shows(file'[s], type, x, wr) <=> Shows(file[s], type, x, wr)
  PROVE  Files!Entries(type, x, wr)' = Files!Entries(type, x, wr)
<1>1. {s \in Files!Slot : Shows(file[s], type, x, wr)}
        = {s \in Files!Slot : Shows(file'[s], type, x, wr)}
  OBVIOUS
<1> QED  BY <1>1, SizesOfFiles DEF Files!Entries, Shows

\* What is counted is a number.
LEMMA EntriesNat ==
  ASSUME NEW type, NEW x, NEW wr
  PROVE  Files!Entries(type, x, wr) \in Nat /\ Files!Entries(type, x, wr)' \in Nat
<1> DEFINE S == {u \in Files!Slot : /\ file[u].ref > 0 /\ file[u].type = type
                             /\ file[u].obj = x /\ file[u].writable = wr}
           T == {u \in Files!Slot : /\ file'[u].ref > 0 /\ file'[u].type = type
                             /\ file'[u].obj = x /\ file'[u].writable = wr}
<1>1. IsFiniteSet(Files!Slot) /\ S \in SUBSET Files!Slot /\ T \in SUBSET Files!Slot
  BY FilesAssumption, FS_Interval DEF Files!Slot
<1>2. Files!Entries(type, x, wr) = Cardinality(S) /\ Files!Entries(type, x, wr)' = Cardinality(T)
  BY SizesOfFiles DEF Files!Entries
<1> HIDE DEF S, T
<1>3. Cardinality(S) \in Nat /\ Cardinality(T) \in Nat
  BY <1>1, FS_Subset, FS_CardinalityType
<1> QED  BY <1>2, <1>3

\* What p does is part of what there is: a reference of p's is a reference.
LEMMA ShareBound ==
  ASSUME FdTypeOK, Files!RefExact, NEW p \in Proc, NEW s \in Files!Slot
  PROVE  Share(p, s) \in Nat /\ Share(p, s) <= file[s].ref /\ file[s].ref \in Nat
<1> DEFINE A == [q \in Proc |-> Files!Stand(q, s)]
           B == [q \in Proc |-> Files!Places(made[q], s)]
           C == [q \in Proc |-> Files!Places(todo[q], Files!FileClose(s))]
<1>1. \A q \in Proc : IsFiniteSet(A[q]) /\ IsFiniteSet(B[q]) /\ IsFiniteSet(C[q])
  BY Finite
<1>2. /\ A[p] = Files!Stand(p, s) /\ B[p] = Files!Places(made[p], s)
      /\ C[p] = Files!Places(todo[p], Files!FileClose(s))
  OBVIOUS
<1>3. file[s].ref = Files!Count(A) + Files!Count(B) + Files!Count(C)
  BY DEF Files!RefExact, Files!Todo
<1> HIDE DEF A, B, C
<1>4. Files!Count(A) \in Nat /\ Cardinality(A[p]) \in Nat /\ Cardinality(A[p]) <= Files!Count(A)
  BY <1>1, CountStep
<1>5. Files!Count(B) \in Nat /\ Cardinality(B[p]) \in Nat /\ Cardinality(B[p]) <= Files!Count(B)
  BY <1>1, CountStep
<1>6. Files!Count(C) \in Nat /\ Cardinality(C[p]) \in Nat /\ Cardinality(C[p]) <= Files!Count(C)
  BY <1>1, CountStep
<1> QED  BY <1>2, <1>3, <1>4, <1>5, <1>6 DEF Share

\* Two processes have two references.
LEMMA SharesAdd ==
  ASSUME FdTypeOK, Files!RefExact, NEW p \in Proc, NEW q \in Proc, p # q, NEW s \in Files!Slot
  PROVE  Share(p, s) + Share(q, s) <= file[s].ref /\ Share(p, s) \in Nat /\ Share(q, s) \in Nat
<1> DEFINE A == [rp \in Proc |-> Files!Stand(rp, s)]
           B == [rp \in Proc |-> Files!Places(made[rp], s)]
           C == [rp \in Proc |-> Files!Places(todo[rp], Files!FileClose(s))]
<1>1. \A rp \in Proc : IsFiniteSet(A[rp]) /\ IsFiniteSet(B[rp]) /\ IsFiniteSet(C[rp])
  BY Finite
<1>2. /\ A[p] = Files!Stand(p, s) /\ B[p] = Files!Places(made[p], s)
      /\ C[p] = Files!Places(todo[p], Files!FileClose(s))
      /\ A[q] = Files!Stand(q, s) /\ B[q] = Files!Places(made[q], s)
      /\ C[q] = Files!Places(todo[q], Files!FileClose(s))
  OBVIOUS
<1>3. file[s].ref = Files!Count(A) + Files!Count(B) + Files!Count(C)
  BY DEF Files!RefExact, Files!Todo
<1> HIDE DEF A, B, C
<1>4. /\ Files!Count(A) \in Nat /\ Cardinality(A[p]) \in Nat /\ Cardinality(A[q]) \in Nat
      /\ Cardinality(A[p]) + Cardinality(A[q]) <= Files!Count(A)
  BY <1>1, CountTwo
<1>5. /\ Files!Count(B) \in Nat /\ Cardinality(B[p]) \in Nat /\ Cardinality(B[q]) \in Nat
      /\ Cardinality(B[p]) + Cardinality(B[q]) <= Files!Count(B)
  BY <1>1, CountTwo
<1>6. /\ Files!Count(C) \in Nat /\ Cardinality(C[p]) \in Nat /\ Cardinality(C[q]) \in Nat
      /\ Cardinality(C[p]) + Cardinality(C[q]) <= Files!Count(C)
  BY <1>1, CountTwo
<1> QED  BY <1>2, <1>3, <1>4, <1>5, <1>6 DEF Share

\* One element more at the end.
LEMMA PlacesLast ==
  ASSUME NEW S, NEW t \in Seq(S), NEW a \in S, NEW x
  PROVE  /\ Append(t, a) \in Seq(S)
         /\ Cardinality(Files!Places(Append(t, a), x))
              = Cardinality(Files!Places(t, x)) + (IF a = x THEN 1 ELSE 0)
<1> DEFINE u == Append(t, a)
           n == Len(t) + 1
<1>1. u \in Seq(S) /\ DOMAIN u = 1..n /\ u[n] = a /\ n \in Nat /\ (\A k \in 1..Len(t) : u[k] = t[k])
  OBVIOUS
<1>2. /\ Files!Places(u, x) \ {n} = Files!Places(t, x) \ {n} /\ n \notin Files!Places(t, x)
      /\ (n \in Files!Places(u, x) <=> a = x)
  BY <1>1 DEF Files!Places
<1>3. IsFiniteSet(Files!Places(t, x))
  BY PlacesFinite
<1> HIDE DEF u, n
<1>4. /\ Cardinality(Files!Places(t, x)) \in Nat
      /\ Cardinality(Files!Places(u, x))
           = Cardinality(Files!Places(t, x)) - (IF n \in Files!Places(t, x) THEN 1 ELSE 0)
                                     + (IF n \in Files!Places(u, x) THEN 1 ELSE 0)
  BY <1>2, <1>3, SetStep
<1> QED  BY <1>1, <1>2, <1>4 DEF u

\* How often x is in the shortest sequences.
LEMMA PlacesNone ==
  ASSUME NEW x
  PROVE  Cardinality(Files!Places(<< >>, x)) = 0
BY FS_EmptySet DEF Files!Places

\* How often x is in a sequence of one.
LEMMA PlacesOne ==
  ASSUME NEW a, NEW x
  PROVE  Cardinality(Files!Places(<<a>>, x)) = IF a = x THEN 1 ELSE 0
BY PlacesShort, FS_EmptySet, FS_Singleton

\* An element that is there is counted.
LEMMA PlacesIn ==
  ASSUME NEW S, NEW t \in Seq(S), NEW k \in DOMAIN t
  PROVE  Cardinality(Files!Places(t, t[k])) \in Nat /\ Cardinality(Files!Places(t, t[k])) >= 1
<1> DEFINE P == Files!Places(t, t[k])
<1>1. IsFiniteSet(P) /\ Cardinality(P) \in Nat /\ P # {}
  BY PlacesFinite DEF Files!Places
<1> HIDE DEF P
<1>2. Cardinality(P) # 0
  BY <1>1, FS_EmptySet
<1> QED  BY <1>1, <1>2 DEF P

\* An entry that a call has just been given is that call's alone; and so is nobody's
\* one that is free.
LEMMA MadeAlone ==
  ASSUME FdInv, NEW rp \in Proc, NEW s \in Files!ToSet(made[rp])
  PROVE  /\ Share(rp, s) = 1 /\ Cardinality(Files!Stand(rp, s)) = 0
         /\ Cardinality(Files!Places(made[rp], s)) = 1
         /\ Cardinality(Files!Places(todo[rp], Files!FileClose(s))) = 0
         /\ \A p \in Proc \ {rp} : Share(p, s) = 0
<1>1. PICK k \in DOMAIN made[rp] : made[rp][k] = s
  BY DEF Files!ToSet
<1>2. made[rp] \in Seq(Files!Slot) /\ s \in Files!Slot
  BY <1>1 DEF FdInv, FdTypeOK
<1>3. Cardinality(Files!Places(made[rp], s)) >= 1 /\ Cardinality(Files!Places(made[rp], s)) \in Nat
  BY <1>1, <1>2, PlacesIn
<1>4. file[s].ref = 1
  BY <1>2 DEF FdInv, EntriesInPlace
<1>5. FdTypeOK /\ Files!RefExact
  BY DEF FdInv, Files!DescInv
<1>6. /\ Cardinality(Files!Stand(rp, s)) \in Nat
      /\ Cardinality(Files!Places(todo[rp], Files!FileClose(s))) \in Nat
      /\ Share(rp, s) <= file[s].ref
  BY <1>2, <1>5, Finite, ShareBound
<1>7. \A p \in Proc \ {rp} : Share(rp, s) + Share(p, s) <= file[s].ref /\ Share(p, s) \in Nat
  BY <1>2, <1>5, SharesAdd
<1>8. Share(rp, s) = Cardinality(Files!Stand(rp, s)) + Cardinality(Files!Places(made[rp], s))
                    + Cardinality(Files!Places(todo[rp], Files!FileClose(s)))
  BY DEF Share
<1> QED  BY <1>3, <1>4, <1>6, <1>7, <1>8

\* What a process stands for, or has to close, no call has just been given.
LEMMA NotMade ==
  ASSUME FdInv, NEW p \in Proc, NEW s \in Files!Slot,
         Cardinality(Files!Stand(p, s)) + Cardinality(Files!Places(todo[p], Files!FileClose(s))) > 0
  PROVE  \A rp \in Proc : s \notin Files!ToSet(made[rp])
<1> SUFFICES ASSUME NEW rp \in Proc, s \in Files!ToSet(made[rp])
             PROVE  FALSE
  OBVIOUS
<1>1. /\ Cardinality(Files!Stand(p, s)) \in Nat
      /\ Cardinality(Files!Places(todo[p], Files!FileClose(s))) \in Nat
      /\ Cardinality(Files!Places(made[p], s)) \in Nat
  BY Finite DEF FdInv
<1>2. CASE p = rp
  BY <1>1, <1>2, MadeAlone
<1>3. CASE p # rp
  <2>1. Share(p, s) = 0
    BY <1>3, MadeAlone
  <2> QED  BY <1>1, <2>1 DEF Share
<1> QED  BY <1>2, <1>3

\* A descriptor of p that is open is a reference of p's.
LEMMA OpenStands ==
  ASSUME FdTypeOK, NEW p \in Proc, NEW fd \in Files!Fd, ofile[p][fd] # 0
  PROVE  /\ ofile[p][fd] \in Files!Slot /\ Cardinality(Files!Stand(p, ofile[p][fd])) \in Nat
         /\ Cardinality(Files!Stand(p, ofile[p][fd])) > 0
<1> DEFINE s == ofile[p][fd]
<1>1. s \in Files!Slot /\ fd \in Files!Stand(p, s)
  BY DEF FdTypeOK, Row, Files!Stand
<1> HIDE DEF s
<1>2. IsFiniteSet(Files!Stand(p, s)) /\ Cardinality(Files!Stand(p, s)) \in Nat
  BY Finite
<1>3. Cardinality(Files!Stand(p, s)) # 0
  BY <1>1, <1>2, FS_EmptySet
<1> QED  BY <1>1, <1>2, <1>3 DEF s

\* The entry that filealloc gives was free.
LEMMA FreeIs ==
  ASSUME Files!FreeSlots # {}
  PROVE  Files!Min(Files!FreeSlots) \in Files!Slot /\ file[Files!Min(Files!FreeSlots)].ref = 0
<1>1. Files!FreeSlots \in SUBSET Nat
  BY FilesAssumption DEF Files!FreeSlots, Files!Slot
<1>2. Files!Min(Files!FreeSlots) \in Files!FreeSlots
  BY <1>1, LeastIn
<1> QED  BY <1>2 DEF Files!FreeSlots

\* Giving back the entries of a call: each is closed once.
Closes(t) == [k \in DOMAIN t |-> Files!FileClose(t[k])]

\* They are jobs, and as many closes of s as the call has of s.
LEMMA GiveBackIs ==
  ASSUME NEW t \in Seq(Files!Slot)
  PROVE  /\ Closes(t) \in Seq(Job)
         /\ \A s : Files!Places(Closes(t), Files!FileClose(s)) = Files!Places(t, s)
         /\ \A pg, wr : Files!Places(Closes(t), Files!PipeClose(pg, wr)) = {}
         /\ \A i : Files!Places(Closes(t), Files!Iput(i)) = {}
<1> DEFINE g == Closes(t)
<1>1. DOMAIN g = DOMAIN t /\ \A k \in DOMAIN t : g[k] = Files!FileClose(t[k]) /\ t[k] \in Files!Slot
  BY DEF Closes
<1>2. g \in Seq(Job)
  <2>1. g = [k \in 1..Len(t) |-> Files!FileClose(t[k])] /\ Len(t) \in Nat
    BY DEF Closes
  <2>2. \A k \in 1..Len(t) : Files!FileClose(t[k]) \in Job
    BY DEF Job
  <2> QED  BY <2>1, <2>2
<1>3. \A s : Files!Places(g, Files!FileClose(s)) = Files!Places(t, s)
  BY <1>1, JobsApart DEF Files!Places
<1>4. \A pg, wr : Files!Places(g, Files!PipeClose(pg, wr)) = {}
  BY <1>1, JobsApart DEF Files!Places
<1>5. \A i : Files!Places(g, Files!Iput(i)) = {}
  BY <1>1, JobsApart DEF Files!Places
<1> QED  BY <1>2, <1>3, <1>4, <1>5

\* The descriptors that open and pipe give stand for the entries of the call.
LEMMA GivenIs ==
  ASSUME FdTypeOK, NEW p \in Proc, Files!HasRoom(p), Len(made[p]) \in 1..2
  PROVE  /\ Files!Given(p) \in [Proc -> Row] /\ \A q \in Proc \ {p} : Files!Given(p)[q] = ofile[q]
         /\ \A s \in Files!Slot : Cardinality(FdsFor(Files!Given(p)[p], s))
                            = Cardinality(Files!Stand(p, s)) + Cardinality(Files!Places(made[p], s))
<1> DEFINE f == ofile[p]
           t == made[p]
           a == t[1]
           g == Files!Fdalloc(f, a)
           b == t[2]
           h == Files!Fdalloc(g, b)
<1>1. f \in Row /\ t \in Seq(Files!Slot) /\ a \in Files!Slot /\ ofile \in [Proc -> Row]
      /\ Cardinality(Files!FreeFds(f)) >= Len(t)
  BY SizesOfFiles DEF FdTypeOK, Files!HasRoom
<1>2. IsFiniteSet(Files!FreeFds(f)) /\ Cardinality(Files!FreeFds(f)) \in Nat
  BY StandFinite DEF FdsFor, Files!FreeFds
<1>3. Files!FreeFds(f) # {}
  BY <1>1, <1>2, FS_EmptySet
<1>4. \A s \in Files!Slot : Cardinality(FdsFor(f, s)) \in Nat /\ Cardinality(FdsFor(g, s)) \in Nat
                      /\ Files!Stand(p, s) = FdsFor(f, s)
  BY StandFinite DEF Files!Stand, FdsFor
<1>5. /\ g \in Row /\ Cardinality(Files!FreeFds(g)) = Cardinality(Files!FreeFds(f)) - 1
      /\ \A s \in Files!Slot :
            Cardinality(FdsFor(g, s)) = Cardinality(FdsFor(f, s)) + (IF s = a THEN 1 ELSE 0)
  <2> HIDE DEF f, a
  <2> QED  BY <1>1, <1>3, FdallocIs
<1>6. CASE Len(t) = 1
  <2>1. t = <<a>> /\ Files!Given(p) = [ofile EXCEPT ![p] = g]
    BY <1>1, <1>6 DEF Files!Given
  <2>2. \A s \in Files!Slot : Cardinality(Files!Places(t, s)) = IF a = s THEN 1 ELSE 0
    <3> HIDE DEF t, a
    <3> QED  BY <2>1, PlacesOne
  <2> HIDE DEF f, a, g
  <2>3. Files!Given(p)[p] = g
    BY <1>1, <2>1
  <2> QED  BY <1>1, <1>4, <1>5, <2>1, <2>2, <2>3
<1>7. CASE Len(t) = 2
  <2>1. /\ t = Append(<<a>>, b) /\ Files!Given(p) = [ofile EXCEPT ![p] = h] /\ b \in Files!Slot
        /\ <<a>> \in Seq(Files!Slot)
    BY <1>1, <1>7 DEF Files!Given
  <2>2. \A s \in Files!Slot :
           Cardinality(Files!Places(t, s)) = (IF a = s THEN 1 ELSE 0) + (IF b = s THEN 1 ELSE 0)
    <3> TAKE s \in Files!Slot
    <3> HIDE DEF t, a, b
    <3>1. Cardinality(Files!Places(<<a>>, s)) = IF a = s THEN 1 ELSE 0
      BY PlacesOne
    <3>2. Cardinality(Files!Places(Append(<<a>>, b), s))
            = Cardinality(Files!Places(<<a>>, s)) + (IF b = s THEN 1 ELSE 0)
      <4> DEFINE u == <<a>>
      <4>1. u \in Seq(Files!Slot) /\ b \in Files!Slot
        BY <2>1
      <4> HIDE DEF u
      <4>2. Cardinality(Files!Places(Append(u, b), s))
              = Cardinality(Files!Places(u, s)) + (IF b = s THEN 1 ELSE 0)
        BY <4>1, PlacesLast
      <4> QED  BY <4>2 DEF u
    <3> QED  BY <2>1, <3>1, <3>2
  <2>3. Files!FreeFds(g) # {}
    <3>1. Cardinality(Files!FreeFds(g)) # 0
      <4> HIDE DEF f, g
      <4> QED  BY <1>1, <1>2, <1>5, <1>7
    <3> HIDE DEF g
    <3> QED  BY <3>1, FS_EmptySet
  <2>4. /\ h \in Row
        /\ \A s \in Files!Slot :
              Cardinality(FdsFor(h, s)) = Cardinality(FdsFor(g, s)) + (IF s = b THEN 1 ELSE 0)
    <3> HIDE DEF g, b
    <3> QED  BY <1>5, <2>1, <2>3, FdallocIs
  <2> HIDE DEF f, a, g, b, h
  <2>5. Files!Given(p)[p] = h
    BY <1>1, <2>1
  <2> QED  BY <1>1, <1>4, <1>5, <2>1, <2>2, <2>4, <2>5
<1> QED  BY <1>6, <1>7

-------------------------------------------------------------------------------
(* The counts after a step *)

\* What the pipes are counted by, when their open ends stay as they are.
LEMMA EndsStep ==
  ASSUME FdTypeOK, FdTypeOK', Files!EndsExact, pipe' = pipe, NEW p \in Proc,
         \A q \in Proc : q # p => todo'[q] = todo[q],
         \A pg \in Page, wr \in BOOLEAN :
           Files!Entries("pipe", pg, wr)'
             + Cardinality(Files!Places(todo'[p], Files!PipeClose(pg, wr)))
           = Files!Entries("pipe", pg, wr)
             + Cardinality(Files!Places(todo[p], Files!PipeClose(pg, wr)))
  PROVE  Files!EndsExact'
<1> SUFFICES ASSUME NEW pg \in Page, NEW wr \in BOOLEAN
             PROVE  Files!Entries("pipe", pg, wr)' + Files!Todo(Files!PipeClose(pg, wr))'
                      = IF Files!End(wr) \in pipe[pg] THEN 1 ELSE 0
  BY DEF Files!EndsExact, Files!End
<1> DEFINE x == Files!PipeClose(pg, wr)
           es == Files!Entries("pipe", pg, wr)
<1>1. /\ Files!Todo(x) \in Nat /\ Cardinality(Files!Places(todo[p], x)) \in Nat
      /\ Cardinality(Files!Places(todo'[p], x)) \in Nat
      /\ Files!Todo(x)'
           = Files!Todo(x) - Cardinality(Files!Places(todo[p], x))
             + Cardinality(Files!Places(todo'[p], x))
  <2> HIDE DEF x
  <2> QED  BY TodoStep
<1>2. es + Files!Todo(x) = IF Files!End(wr) \in pipe[pg] THEN 1 ELSE 0
  BY DEF Files!EndsExact
<1>3. es' + Cardinality(Files!Places(todo'[p], x)) = es + Cardinality(Files!Places(todo[p], x))
  OBVIOUS
<1>4. es \in Nat /\ es' \in Nat
  BY EntriesNat
<1> HIDE DEF x, es
<1>5. es' + Files!Todo(x)' = IF Files!End(wr) \in pipe[pg] THEN 1 ELSE 0
  BY <1>1, <1>2, <1>3, <1>4
<1> QED  BY <1>5 DEF x, es

\* What a process does for the count of an inode, and what the entries do.
Held(p, i) == Cardinality(Files!Places(todo[p], Files!Iput(i)))
                + (IF at[p] = Files!InOpen(i) THEN 1 ELSE 0)
              + (IF at[p] # Files!None /\ cwd[p] = i THEN 1 ELSE 0)
Shown(i) == Files!Entries("inode", i, FALSE) + Files!Entries("inode", i, TRUE)

\* Sums of numbers of things.
LEMMA NatPlus ==
  ASSUME NEW m \in Nat, NEW n \in Nat
  PROVE  m + n \in Nat
OBVIOUS

\* What the entries show of an inode is a number.
LEMMA ShownNat ==
  ASSUME NEW i
  PROVE  Shown(i) \in Nat /\ Shown(i)' \in Nat
<1>1. Shown(i) \in Nat
  <2>1. Files!Entries("inode", i, FALSE) \in Nat /\ Files!Entries("inode", i, TRUE) \in Nat
    BY EntriesNat
  <2> QED  BY <2>1, NatPlus, Zenon DEF Shown
<1>2. Shown(i)' \in Nat
  <2>1. Files!Entries("inode", i, FALSE)' \in Nat /\ Files!Entries("inode", i, TRUE)' \in Nat
    BY EntriesNat
  <2> QED  BY <2>1, NatPlus, Zenon DEF Shown
<1> QED  BY <1>1, <1>2

\* When the references to each inode change by what p and the entries do, they stay exact.
LEMMA InodesStep ==
  ASSUME FdTypeOK, FdTypeOK', Files!InodesExact, NEW p \in Proc,
         \A q \in Proc : q # p => todo'[q] = todo[q] /\ at'[q] = at[q] /\ cwd'[q] = cwd[q],
         \A i \in Inum : iref'[i] = iref[i] - Shown(i) + Shown(i)' - Held(p, i) + Held(p, i)'
  PROVE  Files!InodesExact'
<1> SUFFICES ASSUME NEW i \in Inum
             PROVE  iref'[i] = Shown(i)' + Files!Todo(Files!Iput(i))'
                      + Cardinality({q \in Proc : at'[q] = Files!InOpen(i)})
                               + Cardinality({q \in Proc : at'[q] # Files!None /\ cwd'[q] = i})
  BY SizesOfFiles DEF Files!InodesExact, Shown
<1> DEFINE x == Files!Iput(i)
           S == {q \in Proc : at[q] = Files!InOpen(i)}
           T == {q \in Proc : at'[q] = Files!InOpen(i)}
           C == {q \in Proc : at[q] # Files!None /\ cwd[q] = i}
           D == {q \in Proc : at'[q] # Files!None /\ cwd'[q] = i}
<1>1. /\ Files!Todo(x) \in Nat /\ Cardinality(Files!Places(todo[p], x)) \in Nat
      /\ Cardinality(Files!Places(todo'[p], x)) \in Nat
      /\ Files!Todo(x)'
           = Files!Todo(x) - Cardinality(Files!Places(todo[p], x))
             + Cardinality(Files!Places(todo'[p], x))
  <2> HIDE DEF x
  <2> QED  BY TodoStep
<1>2. IsFiniteSet(S) /\ IsFiniteSet(C)
  <2>1. IsFiniteSet(Proc) /\ S \in SUBSET Proc /\ C \in SUBSET Proc
    BY FilesAssumption
  <2> HIDE DEF S, C
  <2> QED  BY <2>1, FS_Subset
<1>3. T \ {p} = S \ {p} /\ D \ {p} = C \ {p}
  OBVIOUS
<1>4. /\ (p \in S <=> at[p] = Files!InOpen(i)) /\ (p \in T <=> at'[p] = Files!InOpen(i))
      /\ (p \in C <=> at[p] # Files!None /\ cwd[p] = i)
      /\ (p \in D <=> at'[p] # Files!None /\ cwd'[p] = i)
  OBVIOUS
<1>5. iref[i] = Shown(i) + Files!Todo(x) + Cardinality(S) + Cardinality(C)
  BY SizesOfFiles DEF Files!InodesExact, Shown
<1>6. Shown(i) \in Nat /\ Shown(i)' \in Nat
  BY ShownNat
<1>7. /\ Held(p, i) = Cardinality(Files!Places(todo[p], x))
           + (IF p \in S THEN 1 ELSE 0) + (IF p \in C THEN 1 ELSE 0)
      /\ Held(p, i)' = Cardinality(Files!Places(todo'[p], x))
           + (IF p \in T THEN 1 ELSE 0) + (IF p \in D THEN 1 ELSE 0)
  <2> HIDE DEF S, T, C, D
  <2> QED  BY <1>4 DEF Held, Files!InOpen, Files!None, Files!Iput
<1> HIDE DEF S, T, C, D, x
<1>8. /\ Cardinality(S) \in Nat /\ Cardinality(T) \in Nat
      /\ Cardinality(T) = Cardinality(S) - (IF p \in S THEN 1 ELSE 0) + (IF p \in T THEN 1 ELSE 0)
  BY <1>2, <1>3, SetStep
<1>9. /\ Cardinality(C) \in Nat /\ Cardinality(D) \in Nat
      /\ Cardinality(D) = Cardinality(C) - (IF p \in C THEN 1 ELSE 0) + (IF p \in D THEN 1 ELSE 0)
  BY <1>2, <1>3, SetStep
<1>10. iref'[i] = Shown(i)' + Files!Todo(x)' + Cardinality(T) + Cardinality(D)
  <2>1. iref'[i] = iref[i] - Shown(i) + Shown(i)' - Held(p, i) + Held(p, i)'
    OBVIOUS
  <2>2. iref'[i] = Shown(i)'
          + (Files!Todo(x) - Cardinality(Files!Places(todo[p], x))
             + Cardinality(Files!Places(todo'[p], x)))
          + (Cardinality(S) - (IF p \in S THEN 1 ELSE 0) + (IF p \in T THEN 1 ELSE 0))
          + (Cardinality(C) - (IF p \in C THEN 1 ELSE 0) + (IF p \in D THEN 1 ELSE 0))
    BY <1>1, <1>5, <1>6, <1>7, <1>8, <1>9, <2>1
  <2> QED  BY <1>1, <1>8, <1>9, <2>2
<1> QED  BY <1>10 DEF T, D, x

\* Entries that show what they did.
LEMMA ShownSame ==
  ASSUME \A s \in Files!Slot : /\ file'[s].type = file[s].type /\ file'[s].obj = file[s].obj
                               /\ file'[s].writable = file[s].writable
                               /\ (file'[s].ref > 0 <=> file[s].ref > 0) \/ file[s].type = "none"
  PROVE  /\ \A pg, wr : Files!Entries("pipe", pg, wr)' = Files!Entries("pipe", pg, wr)
         /\ \A i : Shown(i)' = Shown(i)
<1>1. ASSUME NEW type \in {"pipe", "inode"}, NEW x, NEW wr
      PROVE  Files!Entries(type, x, wr)' = Files!Entries(type, x, wr)
  <2>1. \A s \in Files!Slot : Shows(file'[s], type, x, wr) <=> Shows(file[s], type, x, wr)
    BY DEF Shows
  <2> QED  BY <2>1, EntriesSame
<1> QED  BY <1>1 DEF Shown

\* The entries and what is left to close in the inodes' and the pipes' counts, when
\* only one's own descriptors change.
LEMMA HeldSame ==
  ASSUME NEW p \in Proc, at'[p] = at[p], cwd'[p] = cwd[p], NEW i,
         Cardinality(Files!Places(todo'[p], Files!Iput(i)))
           = Cardinality(Files!Places(todo[p], Files!Iput(i)))
  PROVE  Held(p, i)' = Held(p, i)
BY DEF Held, Files!InOpen, Files!None, Files!Iput

-------------------------------------------------------------------------------
(* The steps *)

\* The conjuncts of the invariant, and of DescInv.
LEMMA Parts ==
  ASSUME FdInv
  PROVE  /\ FdTypeOK /\ CallsInPlace /\ EntriesInPlace /\ Files!RefExact /\ Files!EndsExact
         /\ Files!InodesExact
BY DEF FdInv, Files!DescInv

\* They make it, after the step.
LEMMA Whole ==
  ASSUME FdTypeOK', CallsInPlace', EntriesInPlace', Files!RefExact', Files!EndsExact',
         Files!InodesExact'
  PROVE  FdInv'
BY DEF FdInv, Files!DescInv

\* p's share, in sets that a step changes.
LEMMA ShareIs ==
  ASSUME FdTypeOK, FdTypeOK', NEW p \in Proc, NEW s \in Files!Slot
  PROVE  /\ Share(p, s) = Cardinality(FdsFor(ofile[p], s)) + Cardinality(Files!Places(made[p], s))
                          + Cardinality(Files!Places(todo[p], Files!FileClose(s)))
         /\ Share(p, s)'
              = Cardinality(FdsFor(ofile'[p], s)) + Cardinality(Files!Places(made'[p], s))
                           + Cardinality(Files!Places(todo'[p], Files!FileClose(s)))
         /\ Cardinality(FdsFor(ofile[p], s)) \in Nat /\ Cardinality(FdsFor(ofile'[p], s)) \in Nat
         /\ Cardinality(Files!Places(made[p], s)) \in Nat
         /\ Cardinality(Files!Places(made'[p], s)) \in Nat
         /\ Cardinality(Files!Places(todo[p], Files!FileClose(s))) \in Nat
         /\ Cardinality(Files!Places(todo'[p], Files!FileClose(s))) \in Nat
         /\ Share(p, s) \in Nat /\ Share(p, s)' \in Nat /\ file[s].ref \in Nat
<1>1. /\ made[p] \in Seq(Files!Slot) /\ todo[p] \in Seq(Job) /\ made'[p] \in Seq(Files!Slot)
      /\ todo'[p] \in Seq(Job)
  BY DEF FdTypeOK
<1>2. /\ Cardinality(FdsFor(ofile[p], s)) \in Nat /\ Cardinality(FdsFor(ofile'[p], s)) \in Nat
      /\ Cardinality(Files!Places(made[p], s)) \in Nat
      /\ Cardinality(Files!Places(made'[p], s)) \in Nat
      /\ Cardinality(Files!Places(todo[p], Files!FileClose(s))) \in Nat
      /\ Cardinality(Files!Places(todo'[p], Files!FileClose(s))) \in Nat
  BY <1>1, StandFinite, PlacesFinite
<1>3. Share(p, s) = Cardinality(FdsFor(ofile[p], s)) + Cardinality(Files!Places(made[p], s))
                    + Cardinality(Files!Places(todo[p], Files!FileClose(s)))
  BY DEF Share, Files!Stand, FdsFor
<1>4. Share(p, s)' = Cardinality(FdsFor(ofile'[p], s)) + Cardinality(Files!Places(made'[p], s))
                     + Cardinality(Files!Places(todo'[p], Files!FileClose(s)))
  BY DEF Share, Files!Stand, FdsFor, Files!FileClose
<1>5. file[s].ref \in Nat
  BY DEF FdTypeOK, Entry
<1> QED  BY <1>2, <1>3, <1>4, <1>5

\* A descriptor that is closed stands for nothing.
LEMMA StandLess ==
  ASSUME NEW f, NEW g, NEW fd \in Files!Fd, SameBut(f, g, fd), NEW u, g[fd] # u
  PROVE  Cardinality(FdsFor(g, u)) = Cardinality(FdsFor(f, u)) - (IF f[fd] = u THEN 1 ELSE 0)
<1>1. FdsFor(g, u) = FdsFor(f, u) \ {fd} /\ (fd \in FdsFor(f, u) <=> f[fd] = u)
  BY DEF FdsFor, SameBut
<1>2. IsFiniteSet(FdsFor(f, u))
  BY StandFinite
<1>3. Cardinality(FdsFor(f, u) \ {fd})
        = IF fd \in FdsFor(f, u) THEN Cardinality(FdsFor(f, u)) - 1 ELSE Cardinality(FdsFor(f, u))
  BY <1>2, FS_RemoveElement
<1>4. Cardinality(FdsFor(f, u)) \in Nat
  BY StandFinite
<1> QED  BY <1>1, <1>3, <1>4

\* A descriptor is let go of, and its entry is left to close.
LEMMA ClosesFd ==
  ASSUME FdInv, NEW p \in Proc, NEW fd \in Files!Fd, at[p] \in {Files!User, Files!Exiting},
         todo[p] = << >>,
         ofile[p][fd] # 0, ofile' = [ofile EXCEPT ![p][fd] = 0],
         todo' = [todo EXCEPT ![p] = <<Files!FileClose(ofile[p][fd])>>],
         UNCHANGED <<file, cwd, at, made, pipe, iref>>
  PROVE  FdInv'
<1> DEFINE s == ofile[p][fd]
           f == ofile[p]
           g == ofile'[p]
<1>1. /\ FdTypeOK /\ CallsInPlace /\ EntriesInPlace /\ Files!RefExact /\ Files!EndsExact
      /\ Files!InodesExact
  BY Parts
<1>2. s \in Files!Slot /\ 0 \notin Files!Slot
  BY <1>1, OpenStands DEF Files!Slot
<1>3. /\ todo' = [todo EXCEPT ![p] = <<Files!FileClose(s)>>] /\ todo'[p] = <<Files!FileClose(s)>>
      /\ \A q \in Proc : q # p => ofile'[q] = ofile[q] /\ todo'[q] = todo[q]
      /\ g[fd] = 0 /\ f[fd] = s /\ \A n \in Files!Fd \ {fd} : g[n] = f[n]
  BY <1>1 DEF FdTypeOK, Row
<1>4. FdTypeOK'
  <2>1. Files!FileClose(s) \in Job
    BY <1>2 DEF Job
  <2>2. todo' \in [Proc -> Seq(Job)]
    BY <1>1, <1>3, <2>1 DEF FdTypeOK
  <2>3. ofile' \in [Proc -> Row]
    BY <1>1 DEF FdTypeOK, Row
  <2> QED  BY <1>1, <2>2, <2>3 DEF FdTypeOK
<1>5. CallsInPlace'
  <2>1. at[p] # Files!InPipe /\ at[p] # Files!None /\ at[p] \notin Openings
    BY Apart DEF Openings
  <2> QED  BY <1>1, <1>3, <2>1 DEF CallsInPlace, Openings, Files!InOpen, Files!User,
              Files!None, Files!InPipe, Files!Exiting, Files!Closed
<1>6. EntriesInPlace'
  BY <1>1 DEF EntriesInPlace
<1>7. Files!RefExact'
  <2> SUFFICES ASSUME NEW u \in Files!Slot
               PROVE  Share(p, u)' = Share(p, u) /\ Share(p, u) \in Nat /\ file[u].ref \in Nat
    BY <1>1, <1>3, <1>4, RefStep
  <2>1. Cardinality(FdsFor(g, u)) = Cardinality(FdsFor(f, u)) - (IF s = u THEN 1 ELSE 0)
    <3>1. g[fd] # u /\ f[fd] = s /\ SameBut(f, g, fd)
      BY <1>2, <1>3 DEF SameBut
    <3> HIDE DEF f, g, s
    <3> QED  BY <3>1, StandLess
  <2>2. Cardinality(Files!Places(todo[p], Files!FileClose(u))) = 0
    BY PlacesNone
  <2>3. Cardinality(Files!Places(todo'[p], Files!FileClose(u))) = IF s = u THEN 1 ELSE 0
    BY <1>3, PlacesOne, JobsApart
  <2>4. /\ Share(p, u) = Cardinality(FdsFor(f, u)) + Cardinality(Files!Places(made[p], u))
                          + Cardinality(Files!Places(todo[p], Files!FileClose(u)))
        /\ Share(p, u)' = Cardinality(FdsFor(g, u)) + Cardinality(Files!Places(made'[p], u))
                           + Cardinality(Files!Places(todo'[p], Files!FileClose(u)))
        /\ Cardinality(FdsFor(f, u)) \in Nat /\ Cardinality(Files!Places(made[p], u)) \in Nat
        /\ Share(p, u) \in Nat /\ file[u].ref \in Nat
    BY <1>1, <1>4, ShareIs
  <2>5. made'[p] = made[p]
    OBVIOUS
  <2> HIDE DEF s, f, g
  <2> QED  BY <2>1, <2>2, <2>3, <2>4, <2>5
<1>8. Files!EndsExact'
  <2> SUFFICES ASSUME NEW pg \in Page, NEW wr \in BOOLEAN
               PROVE  /\ Files!Entries("pipe", pg, wr)' = Files!Entries("pipe", pg, wr)
                      /\ Cardinality(Files!Places(todo'[p], Files!PipeClose(pg, wr)))
                         = Cardinality(Files!Places(todo[p], Files!PipeClose(pg, wr)))
    BY <1>1, <1>3, <1>4, EndsStep
  <2>1. Cardinality(Files!Places(todo'[p], Files!PipeClose(pg, wr))) = 0
    BY <1>3, PlacesOne, JobsApart
  <2>2. Cardinality(Files!Places(todo[p], Files!PipeClose(pg, wr))) = 0
    BY PlacesNone
  <2> QED  BY <2>1, <2>2, ShownSame
<1>9. Files!InodesExact'
  <2>1. ASSUME NEW i \in Inum
        PROVE  /\ Held(p, i)' = Held(p, i) /\ Shown(i)' = Shown(i) /\ iref[i] \in Int
               /\ Held(p, i) \in Nat
               /\ Shown(i) \in Nat
    <3>1. Cardinality(Files!Places(todo'[p], Files!Iput(i))) = 0
      BY <1>3, PlacesOne, JobsApart
    <3>2. Cardinality(Files!Places(todo[p], Files!Iput(i))) = 0
      BY PlacesNone
    <3>3. Held(p, i)' = Held(p, i)
      BY <3>1, <3>2, HeldSame
    <3>4. Held(p, i) \in Nat
      BY <3>2 DEF Held
    <3> QED  BY <1>1, <3>3, <3>4, ShownSame, ShownNat DEF FdTypeOK
  <2> QED  BY <1>1, <1>3, <1>4, <2>1, InodesStep
<1> QED  BY <1>4, <1>5, <1>6, <1>7, <1>8, <1>9, Whole

\* A step that leaves the table and the descriptors as they are.
LEMMA QuietRef ==
  ASSUME FdTypeOK, FdTypeOK', Files!RefExact, UNCHANGED <<file, ofile, made>>, NEW p \in Proc,
         \A q \in Proc : q # p => todo'[q] = todo[q],
         \A u \in Files!Slot :
            Cardinality(Files!Places(todo'[p], Files!FileClose(u)))
              = Cardinality(Files!Places(todo[p], Files!FileClose(u)))
  PROVE  Files!RefExact'
<1>1. ASSUME NEW u \in Files!Slot
      PROVE  Share(p, u)' = Share(p, u) /\ Share(p, u) \in Nat /\ file[u].ref \in Nat
  <2>1. ofile'[p] = ofile[p] /\ made'[p] = made[p]
    OBVIOUS
  <2> QED  BY <2>1, ShareIs
<1> QED  BY <1>1, RefStep

\* What p does for an inode, spelled out.
LEMMA HeldNat ==
  ASSUME FdTypeOK, FdTypeOK', NEW p \in Proc, NEW i \in Inum
  PROVE  /\ Held(p, i) \in Nat /\ Held(p, i)' \in Nat /\ iref[i] \in Int
         /\ Held(p, i) = Cardinality(Files!Places(todo[p], Files!Iput(i)))
              + (IF at[p] = Files!InOpen(i) THEN 1 ELSE 0)
                         + (IF at[p] # Files!None /\ cwd[p] = i THEN 1 ELSE 0)
         /\ Held(p, i)' = Cardinality(Files!Places(todo'[p], Files!Iput(i)))
              + (IF at'[p] = Files!InOpen(i) THEN 1 ELSE 0)
                          + (IF at'[p] # Files!None /\ cwd'[p] = i THEN 1 ELSE 0)
         /\ Cardinality(Files!Places(todo[p], Files!Iput(i))) \in Nat
         /\ Cardinality(Files!Places(todo'[p], Files!Iput(i))) \in Nat
<1>1. todo[p] \in Seq(Job) /\ todo'[p] \in Seq(Job) /\ iref[i] \in Int
  BY DEF FdTypeOK
<1>2. /\ Cardinality(Files!Places(todo[p], Files!Iput(i))) \in Nat
      /\ Cardinality(Files!Places(todo'[p], Files!Iput(i))) \in Nat
  BY <1>1, PlacesFinite
<1>3. Held(p, i) = Cardinality(Files!Places(todo[p], Files!Iput(i)))
        + (IF at[p] = Files!InOpen(i) THEN 1 ELSE 0)
                   + (IF at[p] # Files!None /\ cwd[p] = i THEN 1 ELSE 0)
  BY DEF Held
<1>4. Held(p, i)' = Cardinality(Files!Places(todo'[p], Files!Iput(i)))
        + (IF at'[p] = Files!InOpen(i) THEN 1 ELSE 0)
                    + (IF at'[p] # Files!None /\ cwd'[p] = i THEN 1 ELSE 0)
  BY DEF Held, Files!Iput, Files!InOpen, Files!None
<1> QED  BY <1>1, <1>2, <1>3, <1>4

\* Exit only goes somewhere.
LEMMA ExitInv ==
  ASSUME FdInv, NEW p \in Proc, Files!Exit(p)
  PROVE  FdInv'
<1>1. /\ FdTypeOK /\ CallsInPlace /\ EntriesInPlace /\ Files!RefExact /\ Files!EndsExact
      /\ Files!InodesExact
  BY Parts
<1>2. /\ at[p] = Files!User /\ todo[p] = << >> /\ at' = [at EXCEPT ![p] = Files!Exiting]
      /\ UNCHANGED <<file, ofile, cwd, made, todo, pipe, iref>>
  BY DEF Files!Exit, Files!Syscall, Files!Goto
<1>3. at'[p] = Files!Exiting /\ \A q \in Proc : q # p => at'[q] = at[q]
  BY <1>1, <1>2 DEF FdTypeOK
<1>4. FdTypeOK'
  <2>1. at' \in [Proc -> {Files!None, Files!User, Files!InPipe, Files!Exiting} \cup Openings]
    BY <1>1, <1>2 DEF FdTypeOK
  <2> QED  BY <1>1, <1>2, <2>1 DEF FdTypeOK
<1>5. CallsInPlace'
  <2>1. Files!Exiting # Files!InPipe /\ Files!Exiting # Files!None /\ Files!Exiting \notin Openings
    BY Apart DEF Openings
  <2> QED  BY <1>1, <1>2, <1>3, <2>1 DEF CallsInPlace
<1>6. EntriesInPlace'
  BY <1>1, <1>2 DEF EntriesInPlace
<1>7. Files!RefExact'
  BY <1>1, <1>2, <1>4, QuietRef
<1>8. Files!EndsExact'
  BY <1>1, <1>2, TodoSame, ShownSame, <1>4, EndsStep
<1>9. Files!InodesExact'
  <2>1. ASSUME NEW i \in Inum
        PROVE  Held(p, i)' = Held(p, i) /\ Shown(i)' = Shown(i)
    <3>1. /\ at[p] # Files!InOpen(i) /\ at'[p] # Files!InOpen(i) /\ at[p] # Files!None
          /\ at'[p] # Files!None
      BY <1>2, <1>3, Apart
    <3>2. Held(p, i)' = Held(p, i)
      BY <1>1, <1>2, <1>4, <3>1, HeldNat
    <3> QED  BY <1>2, <3>2, ShownSame
  <2> QED  BY <1>1, <1>2, <1>3, <1>4, <2>1, HeldNat, ShownNat, InodesStep
<1> QED  BY <1>4, <1>5, <1>6, <1>7, <1>8, <1>9, Whole

\* exit lets go of the directory: what held it, a process, now is an iput to come.
LEMMA ExitEndInv ==
  ASSUME FdInv, NEW p \in Proc, Files!ExitEnd(p)
  PROVE  FdInv'
<1> DEFINE c == cwd[p]
<1>1. /\ FdTypeOK /\ CallsInPlace /\ EntriesInPlace /\ Files!RefExact /\ Files!EndsExact
      /\ Files!InodesExact
  BY Parts
<1>2. /\ at[p] = Files!Exiting /\ todo[p] = << >> /\ at' = [at EXCEPT ![p] = Files!None]
      /\ ofile[p] = Files!Closed
      /\ todo' = [todo EXCEPT ![p] = <<Files!Iput(c)>>] /\ c \in Inum
      /\ UNCHANGED <<file, ofile, cwd, made, pipe, iref>>
  BY <1>1 DEF Files!ExitEnd, Files!Goto, FdTypeOK
<1>3. /\ at'[p] = Files!None /\ todo'[p] = <<Files!Iput(c)>>
      /\ \A q \in Proc : q # p => at'[q] = at[q] /\ todo'[q] = todo[q]
  BY <1>1, <1>2 DEF FdTypeOK
<1>4. FdTypeOK'
  <2>1. at' \in [Proc -> {Files!None, Files!User, Files!InPipe, Files!Exiting} \cup Openings]
    BY <1>1, <1>2 DEF FdTypeOK
  <2>2. todo' \in [Proc -> Seq(Job)]
    <3>1. Files!Iput(c) \in Job
      BY <1>2 DEF Job
    <3> HIDE DEF c
    <3> QED  BY <1>1, <1>2, <3>1 DEF FdTypeOK
  <2> QED  BY <1>1, <1>2, <2>1, <2>2 DEF FdTypeOK
<1>5. CallsInPlace'
  <2>1. /\ Files!None # Files!InPipe /\ Files!None # Files!User /\ Files!None # Files!Exiting
        /\ Files!Exiting # Files!User /\ Files!None \notin Openings
    BY Apart DEF Openings
  <2> QED  BY <1>1, <1>2, <1>3, <2>1 DEF CallsInPlace
<1>6. EntriesInPlace'
  BY <1>1, <1>2 DEF EntriesInPlace
<1>7. Files!RefExact'
  <2>1. \A u \in Files!Slot : /\ Cardinality(Files!Places(todo'[p], Files!FileClose(u))) = 0
                              /\ Cardinality(Files!Places(todo[p], Files!FileClose(u))) = 0
    BY <1>2, <1>3, PlacesNone, PlacesOne, JobsApart
  <2> QED  BY <1>1, <1>2, <1>3, <1>4, <2>1, QuietRef
<1>8. Files!EndsExact'
  <2>1. \A pg \in Page, wr \in BOOLEAN :
           /\ Cardinality(Files!Places(todo'[p], Files!PipeClose(pg, wr))) = 0
                                         /\ Cardinality(Files!Places(todo[p],
                                                                     Files!PipeClose(pg, wr))) = 0
    BY <1>2, <1>3, PlacesNone, PlacesOne, JobsApart
  <2> QED  BY <1>1, <1>2, <1>3, <1>4, <2>1, ShownSame, EndsStep
<1>9. Files!InodesExact'
  <2>1. ASSUME NEW i \in Inum
        PROVE  Held(p, i)' = Held(p, i) /\ Shown(i)' = Shown(i)
    <3>1. at[p] # Files!InOpen(i) /\ at'[p] # Files!InOpen(i) /\ at[p] # Files!None
      BY <1>2, <1>3, Apart
    <3>2. /\ Cardinality(Files!Places(todo'[p], Files!Iput(i))) = IF c = i THEN 1 ELSE 0
          /\ Cardinality(Files!Places(todo[p], Files!Iput(i))) = 0
      BY <1>2, <1>3, PlacesNone, PlacesOne, JobsApart
    <3>3. Held(p, i)' = Held(p, i)
      BY <1>1, <1>2, <1>3, <1>4, <3>1, <3>2, HeldNat
    <3> QED  BY <1>2, <3>3, ShownSame
  <2> QED  BY <1>1, <1>2, <1>3, <1>4, <2>1, HeldNat, ShownNat, InodesStep
<1> QED  BY <1>4, <1>5, <1>6, <1>7, <1>8, <1>9, Whole

\* open holds the inode that it has found.
LEMMA OpenCallInv ==
  ASSUME FdInv, NEW p \in Proc, NEW j \in Opens, Files!OpenCall(p, j)
  PROVE  FdInv'
<1>1. /\ FdTypeOK /\ CallsInPlace /\ EntriesInPlace /\ Files!RefExact /\ Files!EndsExact
      /\ Files!InodesExact
  BY Parts
<1>2. /\ at[p] = Files!User /\ todo[p] = << >> /\ at' = [at EXCEPT ![p] = Files!InOpen(j)]
      /\ iref' = [iref EXCEPT ![j] = @ + 1] /\ j \in Inum
      /\ UNCHANGED <<file, ofile, cwd, made, todo, pipe>>
  BY FilesAssumption DEF Files!OpenCall, Files!Goto, Files!Syscall
<1>3. /\ at'[p] = Files!InOpen(j) /\ \A q \in Proc : q # p => at'[q] = at[q]
      /\ \A i \in Inum : iref[i] \in Int /\ iref'[i] = iref[i] + (IF i = j THEN 1 ELSE 0)
  BY <1>1, <1>2 DEF FdTypeOK
<1>4. FdTypeOK'
  <2>1. at' \in [Proc -> {Files!None, Files!User, Files!InPipe, Files!Exiting} \cup Openings]
    BY <1>1, <1>2 DEF FdTypeOK, Openings
  <2>2. iref' \in [Inum -> Int]
    BY <1>1, <1>2 DEF FdTypeOK
  <2> QED  BY <1>1, <1>2, <2>1, <2>2 DEF FdTypeOK
<1>5. CallsInPlace'
  <2>1. /\ Files!InOpen(j) \notin {Files!None, Files!User, Files!Exiting, Files!InPipe}
        /\ Files!User # Files!None /\ Files!User # Files!InPipe
    BY Apart
  <2>2. made[p] = << >> /\ todo[p] = << >>
    BY <1>1, <1>2 DEF CallsInPlace
  <2> QED  BY <1>1, <1>2, <1>3, <2>1, <2>2 DEF CallsInPlace
<1>6. EntriesInPlace'
  BY <1>1, <1>2 DEF EntriesInPlace
<1>7. Files!RefExact'
  BY <1>1, <1>2, <1>4, QuietRef
<1>8. Files!EndsExact'
  BY <1>1, <1>2, ShownSame, <1>4, EndsStep
<1>9. Files!InodesExact'
  <2>1. ASSUME NEW i \in Inum
        PROVE  Held(p, i)' = Held(p, i) + (IF i = j THEN 1 ELSE 0) /\ Shown(i)' = Shown(i)
    <3>1. /\ at[p] # Files!InOpen(i) /\ at[p] # Files!None /\ at'[p] # Files!None
          /\ (at'[p] = Files!InOpen(i) <=> i = j)
      BY <1>2, <1>3, Apart
    <3>2. Held(p, i)' = Held(p, i) + (IF i = j THEN 1 ELSE 0)
      BY <1>1, <1>2, <1>4, <3>1, HeldNat
    <3> QED  BY <1>2, <3>2, ShownSame
  <2>2. \A i \in Inum : iref'[i] = iref[i] - Shown(i) + Shown(i)' - Held(p, i) + Held(p, i)'
    BY <1>1, <1>3, <1>4, <2>1, HeldNat, ShownNat
  <2> QED  BY <1>1, <1>2, <1>3, <1>4, <2>2, InodesStep
<1> QED  BY <1>4, <1>5, <1>6, <1>7, <1>8, <1>9, Whole

\* chdir holds one directory more and has one to put, the old one or what was none.
LEMMA ChdirInv ==
  ASSUME FdInv, NEW p \in Proc, NEW j \in Inum, Files!Chdir(p, j)
  PROVE  FdInv'
<1> DEFINE c == cwd[p]
           d == IF j \in Dir THEN j ELSE c
           es == IF j \in Dir THEN c ELSE j
<1>1. /\ FdTypeOK /\ CallsInPlace /\ EntriesInPlace /\ Files!RefExact /\ Files!EndsExact
      /\ Files!InodesExact
  BY Parts
<1>2. /\ at[p] = Files!User /\ todo[p] = << >> /\ cwd' = [cwd EXCEPT ![p] = d]
      /\ iref' = [iref EXCEPT ![j] = @ + 1] /\ todo' = [todo EXCEPT ![p] = <<Files!Iput(es)>>]
      /\ c \in Inum /\ d \in Inum /\ es \in Inum
      /\ UNCHANGED <<file, ofile, at, made, pipe>>
  BY <1>1 DEF Files!Chdir, Files!Syscall, FdTypeOK
<1>3. /\ cwd'[p] = d /\ todo'[p] = <<Files!Iput(es)>>
      /\ \A q \in Proc : q # p => cwd'[q] = cwd[q] /\ todo'[q] = todo[q]
      /\ \A i \in Inum : iref[i] \in Int /\ iref'[i] = iref[i] + (IF i = j THEN 1 ELSE 0)
  <2> HIDE DEF d, es
  <2> QED  BY <1>1, <1>2 DEF FdTypeOK
<1>4. FdTypeOK'
  <2>1. cwd' \in [Proc -> Inum] /\ iref' \in [Inum -> Int]
    <3> HIDE DEF d
    <3> QED  BY <1>1, <1>2 DEF FdTypeOK
  <2>2. todo' \in [Proc -> Seq(Job)]
    <3>1. Files!Iput(es) \in Job
      BY <1>2 DEF Job
    <3> HIDE DEF es
    <3> QED  BY <1>1, <1>2, <3>1 DEF FdTypeOK
  <2> QED  BY <1>1, <1>2, <2>1, <2>2 DEF FdTypeOK
<1>5. CallsInPlace'
  <2>1. Files!User # Files!InPipe /\ Files!User # Files!None /\ Files!User \notin Openings
    BY Apart DEF Openings
  <2> QED  BY <1>1, <1>2, <1>3, <2>1 DEF CallsInPlace
<1>6. EntriesInPlace'
  BY <1>1, <1>2 DEF EntriesInPlace
<1>7. Files!RefExact'
  <2>1. \A u \in Files!Slot : /\ Cardinality(Files!Places(todo'[p], Files!FileClose(u))) = 0
                              /\ Cardinality(Files!Places(todo[p], Files!FileClose(u))) = 0
    BY <1>2, <1>3, PlacesNone, PlacesOne, JobsApart
  <2> QED  BY <1>1, <1>2, <1>3, <1>4, <2>1, QuietRef
<1>8. Files!EndsExact'
  <2>1. \A pg \in Page, wr \in BOOLEAN :
           /\ Cardinality(Files!Places(todo'[p], Files!PipeClose(pg, wr))) = 0
                                         /\ Cardinality(Files!Places(todo[p],
                                                                     Files!PipeClose(pg, wr))) = 0
    BY <1>2, <1>3, PlacesNone, PlacesOne, JobsApart
  <2> QED  BY <1>1, <1>2, <1>3, <1>4, <2>1, ShownSame, EndsStep
<1>9. Files!InodesExact'
  <2>1. ASSUME NEW i \in Inum
        PROVE  Held(p, i)' = Held(p, i) + (IF i = j THEN 1 ELSE 0) /\ Shown(i)' = Shown(i)
    <3>1. /\ at[p] # Files!InOpen(i) /\ at'[p] # Files!InOpen(i) /\ at[p] # Files!None
          /\ at'[p] # Files!None
      BY <1>2, <1>3, Apart
    <3>2. /\ Cardinality(Files!Places(todo'[p], Files!Iput(i))) = IF es = i THEN 1 ELSE 0
          /\ Cardinality(Files!Places(todo[p], Files!Iput(i))) = 0
      <4> HIDE DEF es
      <4> QED  BY <1>2, <1>3, PlacesNone, PlacesOne, JobsApart
    <3>3. /\ Held(p, i) = IF c = i THEN 1 ELSE 0
          /\ Held(p, i)' = (IF es = i THEN 1 ELSE 0) + (IF d = i THEN 1 ELSE 0)
      <4>1. /\ Held(p, i) = Cardinality(Files!Places(todo[p], Files!Iput(i))) + 0
                 + (IF c = i THEN 1 ELSE 0)
            /\ Held(p, i)' = Cardinality(Files!Places(todo'[p], Files!Iput(i))) + 0
                 + (IF cwd'[p] = i THEN 1 ELSE 0)
        BY <1>1, <1>4, <3>1, HeldNat
      <4>2. cwd'[p] = d
        BY <1>3
      <4> HIDE DEF c, d, es
      <4> QED  BY <3>2, <4>1, <4>2
    <3> QED  BY <1>2, <3>3, ShownSame
  <2>2. \A i \in Inum : iref'[i] = iref[i] - Shown(i) + Shown(i)' - Held(p, i) + Held(p, i)'
    BY <1>1, <1>3, <1>4, <2>1, HeldNat, ShownNat
  <2> QED  BY <1>1, <1>2, <1>3, <1>4, <2>2, InodesStep
<1> QED  BY <1>4, <1>5, <1>6, <1>7, <1>8, <1>9, Whole

\* What comes after the last close of an entry.
LEMMA CloseEndInv ==
  ASSUME FdInv, NEW p \in Proc, Files!CloseEnd(p)
  PROVE  FdInv'
<1> DEFINE t == todo[p]
           x == Head(t)
<1>1. /\ FdTypeOK /\ CallsInPlace /\ EntriesInPlace /\ Files!RefExact /\ Files!EndsExact
      /\ Files!InodesExact
  BY Parts
<1>2. /\ t \in Seq(Job) /\ t # << >> /\ x.do # "fileclose" /\ todo' = [todo EXCEPT ![p] = Tail(t)]
      /\ UNCHANGED <<file, ofile, cwd, at, made>>
      /\ IF x.do = "pipe"
           THEN pipe' = [pipe EXCEPT ![x.obj] = @ \ {Files!End(x.writable)}] /\ iref' = iref
         ELSE iref' = [iref EXCEPT ![x.obj] = @ - 1] /\ pipe' = pipe
  BY <1>1 DEF Files!CloseEnd, FdTypeOK
<1>3. x \in Job /\ Tail(t) \in Seq(Job)
  BY <1>2
<1>4. todo'[p] = Tail(t) /\ \A q \in Proc : q # p => todo'[q] = todo[q]
  BY <1>1, <1>2 DEF FdTypeOK
<1>5. \A y :
         Cardinality(Files!Places(t, y))
           = Cardinality(Files!Places(todo'[p], y)) + (IF x = y THEN 1 ELSE 0)
  <2> TAKE y
  <2> HIDE DEF t
  <2>1. Cardinality(Files!Places(t, y))
          = Cardinality(Files!Places(Tail(t), y)) + (IF x = y THEN 1 ELSE 0)
    BY <1>2, PlacesTail
  <2> QED  BY <1>4, <2>1
<1>6. \/ \E pg \in Page, wr \in BOOLEAN : x = Files!PipeClose(pg, wr)
      \/ \E i \in Inum : x = Files!Iput(i)
  <2> HIDE DEF x, t
  <2> QED  BY <1>2, <1>3, JobsApart DEF Job
<1>7. FdTypeOK'
  <2>1. todo' \in [Proc -> Seq(Job)]
    BY <1>1, <1>2, <1>3 DEF FdTypeOK
  <2>2. pipe' \in [Page -> SUBSET {"r", "w"}] /\ iref' \in [Inum -> Int]
    <3>1. CASE \E pg \in Page, wr \in BOOLEAN : x = Files!PipeClose(pg, wr)
      <4>1. PICK pg \in Page, wr \in BOOLEAN : x = Files!PipeClose(pg, wr)
        BY <3>1
      <4>2. iref' = iref /\ pipe' = [pipe EXCEPT ![pg] = @ \ {Files!End(wr)}]
        <5>1. x.do = "pipe" /\ x.obj = pg /\ x.writable = wr
          BY <4>1, JobsApart
        <5> HIDE DEF x
        <5> QED  BY <1>2, <5>1
      <4> QED  BY <1>1, <4>2 DEF FdTypeOK
    <3>2. CASE \E i \in Inum : x = Files!Iput(i)
      <4>1. PICK i \in Inum : x = Files!Iput(i)
        BY <3>2
      <4>2. pipe' = pipe /\ iref' = [iref EXCEPT ![i] = @ - 1]
        <5>1. x.do = "inode" /\ x.obj = i
          BY <4>1, JobsApart
        <5> HIDE DEF x
        <5> QED  BY <1>2, <5>1
      <4> QED  BY <1>1, <4>2 DEF FdTypeOK
    <3> HIDE DEF x
    <3> QED  BY <1>6, <3>1, <3>2
  <2> QED  BY <1>1, <1>2, <2>1, <2>2 DEF FdTypeOK
<1>8. CallsInPlace'
  <2>1. at[p] # Files!InPipe /\ at[p] \notin Openings
    BY <1>1, <1>2 DEF CallsInPlace
  <2> QED  BY <1>1, <1>2, <1>4, <2>1 DEF CallsInPlace
<1>9. EntriesInPlace'
  BY <1>1, <1>2 DEF EntriesInPlace
<1>10. \A y :
          Cardinality(Files!Places(t, y)) \in Nat /\ Cardinality(Files!Places(todo'[p], y)) \in Nat
  BY <1>2, <1>3, <1>4, PlacesFinite
<1>11. Files!RefExact'
  <2>1. \A u \in Files!Slot : x # Files!FileClose(u)
    BY <1>2, JobsApart
  <2>2. \A u \in Files!Slot :
           Cardinality(Files!Places(todo'[p], Files!FileClose(u)))
             = Cardinality(Files!Places(todo[p], Files!FileClose(u)))
    <3> HIDE DEF x
    <3> QED  BY <1>5, <1>10, <2>1
  <2> QED  BY <1>1, <1>2, <1>4, <1>7, <2>2, QuietRef
<1>12. CASE \E pg \in Page, wr \in BOOLEAN : x = Files!PipeClose(pg, wr)
  <2>1. PICK pg \in Page, wr \in BOOLEAN : x = Files!PipeClose(pg, wr)
    BY <1>12
  <2>2. x.do = "pipe" /\ x.obj = pg /\ x.writable = wr
    BY <2>1, JobsApart
  <2>3. /\ iref' = iref /\ \A pf \in Page : pf # pg => pipe'[pf] = pipe[pf]
        /\ pipe'[pg] = pipe[pg] \ {Files!End(wr)}
    <3> HIDE DEF x
    <3> QED  BY <1>1, <1>2, <2>2 DEF FdTypeOK
  <2>4. Files!InodesExact'
    <3>1. ASSUME NEW i \in Inum
          PROVE  Held(p, i)' = Held(p, i) /\ Shown(i)' = Shown(i)
      <4>1. x # Files!Iput(i)
        BY <2>1, JobsApart
      <4>2. Cardinality(Files!Places(todo'[p], Files!Iput(i)))
              = Cardinality(Files!Places(todo[p], Files!Iput(i)))
        <5> HIDE DEF x
        <5> QED  BY <1>5, <1>10, <4>1
      <4> QED  BY <1>2, <4>2, HeldSame, ShownSame
    <3>2. \A i \in Inum : iref'[i] = iref[i] - Shown(i) + Shown(i)' - Held(p, i) + Held(p, i)'
      BY <1>1, <1>7, <2>3, <3>1, HeldNat, ShownNat
    <3> QED  BY <1>1, <1>2, <1>4, <1>7, <3>2, InodesStep
  <2>5. Files!EndsExact'
    <3> SUFFICES ASSUME NEW pf \in Page, NEW v \in BOOLEAN
                 PROVE  Files!Entries("pipe", pf, v)' + Files!Todo(Files!PipeClose(pf, v))'
                          = IF Files!End(v) \in pipe'[pf] THEN 1 ELSE 0
      BY DEF Files!EndsExact, Files!End
    <3> DEFINE z == Files!PipeClose(pf, v)
               es == Files!Entries("pipe", pf, v)
    <3>1. z = x <=> pf = pg /\ v = wr
      BY <2>1, JobsApart
    <3>2. es' = es /\ es \in Nat
      BY <1>2, ShownSame, EntriesNat
    <3>3. es + Files!Todo(z) = IF Files!End(v) \in pipe[pf] THEN 1 ELSE 0
      BY <1>1 DEF Files!EndsExact
    <3>4. /\ Files!Todo(z) \in Nat /\ Files!Todo(z)' \in Nat
          /\ Cardinality(Files!Places(t, z)) <= Files!Todo(z)
          /\ Files!Todo(z)'
               = Files!Todo(z) - Cardinality(Files!Places(t, z))
                 + Cardinality(Files!Places(todo'[p], z))
      <4> HIDE DEF z
      <4> QED  BY <1>1, <1>4, <1>7, TodoStep
    <3>5. Cardinality(Files!Places(t, z))
            = Cardinality(Files!Places(todo'[p], z)) + (IF x = z THEN 1 ELSE 0)
          /\ Cardinality(Files!Places(t, z)) \in Nat
          /\ Cardinality(Files!Places(todo'[p], z)) \in Nat
      BY <1>5, <1>10
    <3>6. (Files!End(v) \in pipe'[pf]) = (Files!End(v) \in pipe[pf] /\ ~(pf = pg /\ v = wr))
      BY <2>3 DEF Files!End
    <3> HIDE DEF z, es, x, t
    <3>7. es' + Files!Todo(z)' = IF Files!End(v) \in pipe'[pf] THEN 1 ELSE 0
      <4>1. CASE x = z
        BY <3>1, <3>2, <3>3, <3>4, <3>5, <3>6, <4>1
      <4>2. CASE x # z
        BY <3>1, <3>2, <3>3, <3>4, <3>5, <3>6, <4>2
      <4> QED  BY <4>1, <4>2
    <3> QED  BY <3>7 DEF z, es
  <2> QED  BY <1>7, <1>8, <1>9, <1>11, <2>4, <2>5, Whole
<1>13. CASE \E i \in Inum : x = Files!Iput(i)
  <2>1. PICK j \in Inum : x = Files!Iput(j)
    BY <1>13
  <2>2. x.do = "inode" /\ x.obj = j
    BY <2>1, JobsApart
  <2>3. /\ pipe' = pipe
        /\ \A i \in Inum : iref[i] \in Int /\ iref'[i] = iref[i] - (IF i = j THEN 1 ELSE 0)
    <3> HIDE DEF x
    <3> QED  BY <1>1, <1>2, <2>2 DEF FdTypeOK
  <2>4. Files!EndsExact'
    <3>1. ASSUME NEW pg \in Page, NEW wr \in BOOLEAN
          PROVE  Cardinality(Files!Places(todo'[p], Files!PipeClose(pg, wr)))
                   = Cardinality(Files!Places(todo[p], Files!PipeClose(pg, wr)))
      <4>1. x # Files!PipeClose(pg, wr)
        BY <2>1, JobsApart
      <4> HIDE DEF x
      <4> QED  BY <1>5, <1>10, <4>1
    <3> QED  BY <1>1, <1>2, <1>4, <1>7, <2>3, <3>1, ShownSame, EndsStep
  <2>5. Files!InodesExact'
    <3>1. ASSUME NEW i \in Inum
          PROVE  Held(p, i)' = Held(p, i) - (IF i = j THEN 1 ELSE 0) /\ Shown(i)' = Shown(i)
      <4>1. x = Files!Iput(i) <=> i = j
        BY <2>1, JobsApart
      <4>2. Cardinality(Files!Places(todo[p], Files!Iput(i)))
              = Cardinality(Files!Places(todo'[p], Files!Iput(i)))
                                                    + (IF i = j THEN 1 ELSE 0)
        <5> HIDE DEF x
        <5> QED  BY <1>5, <4>1
      <4>3. Held(p, i)' = Held(p, i) - (IF i = j THEN 1 ELSE 0)
        BY <1>1, <1>2, <1>7, <4>2, HeldNat
      <4> QED  BY <1>2, <4>3, ShownSame
    <3>2. \A i \in Inum : iref'[i] = iref[i] - Shown(i) + Shown(i)' - Held(p, i) + Held(p, i)'
      BY <1>1, <1>7, <2>3, <3>1, HeldNat, ShownNat
    <3> QED  BY <1>1, <1>2, <1>4, <1>7, <3>2, InodesStep
  <2> QED  BY <1>7, <1>8, <1>9, <1>11, <2>4, <2>5, Whole
<1> QED  BY <1>6, <1>12, <1>13

\* filedup adds to the count, and changes nothing else.
LEMMA FiledupIs ==
  ASSUME NEW f \in Entry, NEW n \in Nat
  PROVE  /\ Files!Filedup(f, n) \in Entry /\ Files!Filedup(f, n).ref = f.ref + n /\ f.ref \in Nat
         /\ Files!Filedup(f, n).type = f.type /\ Files!Filedup(f, n).obj = f.obj
         /\ Files!Filedup(f, n).writable = f.writable
BY DEF Files!Filedup, Entry

\* A reference more, for a descriptor more.
LEMMA DupInv ==
  ASSUME FdInv, NEW p \in Proc, NEW fd \in Files!Fd, Files!Dup(p, fd)
  PROVE  FdInv'
<1> DEFINE s == ofile[p][fd]
           f == ofile[p]
           g == ofile'[p]
<1>1. /\ FdTypeOK /\ CallsInPlace /\ EntriesInPlace /\ Files!RefExact /\ Files!EndsExact
      /\ Files!InodesExact
  BY Parts
<1>2. /\ at[p] = Files!User /\ todo[p] = << >> /\ s # 0 /\ Files!FreeFds(f) # {} /\ f \in Row
      /\ ofile' = [ofile EXCEPT ![p] = Files!Fdalloc(f, s)]
      /\ file' = [file EXCEPT ![s] = Files!Filedup(file[s], 1)]
      /\ UNCHANGED <<cwd, at, made, todo, pipe, iref>>
  BY <1>1 DEF Files!Dup, Files!Syscall, FdTypeOK
<1>3. /\ s \in Files!Slot /\ Cardinality(Files!Stand(p, s)) \in Nat
      /\ Cardinality(Files!Stand(p, s)) > 0
  BY <1>1, <1>2, OpenStands
<1>4. g = Files!Fdalloc(f, s) /\ \A q \in Proc : q # p => ofile'[q] = ofile[q]
  <2> HIDE DEF s
  <2> QED  BY <1>1, <1>2 DEF FdTypeOK
<1>5. /\ g \in Row
      /\ \A u \in Files!Slot :
            Cardinality(FdsFor(g, u)) = Cardinality(FdsFor(f, u)) + (IF u = s THEN 1 ELSE 0)
  <2>1. \A v : v \in Files!Slot => Files!Fdalloc(f, v) \in Row /\ \A u \in Files!Slot :
                 Cardinality(FdsFor(Files!Fdalloc(f, v), u))
                   = Cardinality(FdsFor(f, u)) + (IF u = v THEN 1 ELSE 0)
    <3> HIDE DEF f
    <3> QED  BY <1>2, FdallocIs
  <2> HIDE DEF f, g, s
  <2> QED  BY <1>3, <1>4, <2>1
<1>6. /\ file'[s] = Files!Filedup(file[s], 1) /\ \A u \in Files!Slot : u # s => file'[u] = file[u]
      /\ file[s].ref \in Nat /\ file[s].ref > 0 /\ file'[s].ref = file[s].ref + 1
      /\ file'[s].type = file[s].type /\ file'[s].obj = file[s].obj
      /\ file'[s].writable = file[s].writable
  <2>1. file[s].ref >= 1 /\ file[s].ref \in Nat
    <3> HIDE DEF s
    <3>1. Share(p, s) <= file[s].ref /\ file[s].ref \in Nat
      BY <1>1, <1>3, ShareBound
    <3>2. /\ Cardinality(Files!Places(made[p], s)) \in Nat
          /\ Cardinality(Files!Places(todo[p], Files!FileClose(s))) \in Nat
      BY <1>1, Finite
    <3> QED  BY <1>3, <3>1, <3>2 DEF Share
  <2> HIDE DEF s
  <2>2. /\ file'[s] = Files!Filedup(file[s], 1)
        /\ (\A u \in Files!Slot : u # s => file'[u] = file[u]) /\ file[s] \in Entry
    BY <1>1, <1>2, <1>3 DEF FdTypeOK
  <2> DEFINE es == file[s]
             h == Files!Filedup(es, 1)
  <2>3. h.ref = es.ref + 1 /\ h.type = es.type /\ h.obj = es.obj /\ h.writable = es.writable
    <3> HIDE DEF es
    <3> QED  BY <2>2, FiledupIs DEF es
  <2> HIDE DEF h
  <2>4. file'[s] = h
    BY <2>2 DEF h
  <2> QED  BY <2>1, <2>2, <2>3, <2>4 DEF h
<1>7. FdTypeOK'
  <2>1. ofile' \in [Proc -> Row]
    <3> HIDE DEF f, g, s
    <3> QED  BY <1>1, <1>2, <1>4, <1>5 DEF FdTypeOK
  <2>2. file' \in [Files!Slot -> Entry]
    <3> HIDE DEF s
    <3>1. Files!Filedup(file[s], 1) \in Entry
      BY <1>1, <1>3, FiledupIs DEF FdTypeOK
    <3> QED  BY <1>1, <1>2, <1>3, <3>1 DEF FdTypeOK
  <2> QED  BY <1>1, <1>2, <2>1, <2>2 DEF FdTypeOK
<1>8. CallsInPlace'
  <2>1. Files!User # Files!None
    BY Apart
  <2> HIDE DEF f, g, s
  <2> QED  BY <1>1, <1>2, <1>4, <2>1 DEF CallsInPlace
<1>9. EntriesInPlace'
  <2>1. \A rp \in Proc : s \notin Files!ToSet(made[rp])
    <3>1. Cardinality(Files!Places(todo[p], Files!FileClose(s))) \in Nat
      BY <1>1, Finite
    <3> HIDE DEF s
    <3> QED  BY <1>3, <3>1, NotMade
  <2> HIDE DEF s
  <2> QED  BY <1>1, <1>2, <1>3, <1>6, <2>1 DEF EntriesInPlace
<1>10. Files!RefExact'
  <2>1. ASSUME NEW u \in Files!Slot
        PROVE  file'[u].ref = file[u].ref - Share(p, u) + Share(p, u)'
    <3>1. file'[u].ref = file[u].ref + (IF u = s THEN 1 ELSE 0)
      <4> HIDE DEF s
      <4> QED  BY <1>1, <1>6 DEF FdTypeOK, Entry
    <3>2. Cardinality(FdsFor(g, u)) = Cardinality(FdsFor(f, u)) + (IF u = s THEN 1 ELSE 0)
      BY <1>5
    <3>3. /\ Share(p, u)' = Share(p, u) - Cardinality(FdsFor(f, u)) + Cardinality(FdsFor(g, u))
          /\ Share(p, u) \in Nat /\ Cardinality(FdsFor(f, u)) \in Nat /\ file[u].ref \in Nat
      <4>1. made'[p] = made[p] /\ todo'[p] = todo[p]
        BY <1>2
      <4> QED  BY <1>1, <1>7, <4>1, ShareIs
    <3> HIDE DEF f, g, s
    <3> QED  BY <3>1, <3>2, <3>3
  <2> QED  BY <1>1, <1>2, <1>4, <1>7, <2>1, RefStep
<1>11. /\ \A pg, wr : Files!Entries("pipe", pg, wr)' = Files!Entries("pipe", pg, wr)
       /\ \A i : Shown(i)' = Shown(i)
  <2>1. \A u \in Files!Slot : /\ file'[u].type = file[u].type /\ file'[u].obj = file[u].obj
                              /\ file'[u].writable = file[u].writable
                              /\ (file'[u].ref > 0 <=> file[u].ref > 0)
    <3> HIDE DEF s
    <3> QED  BY <1>6
  <2> QED  BY <2>1, ShownSame
<1>12. Files!EndsExact'
  BY <1>1, <1>2, <1>7, <1>11, EndsStep
<1>13. Files!InodesExact'
  <2>1. \A i \in Inum : iref'[i] = iref[i] - Shown(i) + Shown(i)' - Held(p, i) + Held(p, i)'
    <3> TAKE i \in Inum
    <3>1. Held(p, i)' = Held(p, i) /\ iref'[i] = iref[i] /\ Shown(i)' = Shown(i)
      BY <1>2, <1>11, HeldSame
    <3> QED  BY <1>1, <1>7, <3>1, HeldNat, ShownNat
  <2> QED  BY <1>1, <1>2, <1>7, <2>1, InodesStep
<1> QED  BY <1>7, <1>8, <1>9, <1>10, <1>12, <1>13, Whole

\* The child has a reference for each of the parent's descriptors.
LEMMA ForkInv ==
  ASSUME FdInv, NEW p \in Proc, NEW q \in Proc, Files!Fork(p, q)
  PROVE  FdInv'
<1> DEFINE n(s) == Cardinality(Files!Stand(p, s))
           c == cwd[p]
<1>1. /\ FdTypeOK /\ CallsInPlace /\ EntriesInPlace /\ Files!RefExact /\ Files!EndsExact
      /\ Files!InodesExact
  BY Parts
<1>2. /\ at[p] = Files!User /\ todo[p] = << >> /\ at[q] = Files!None /\ todo[q] = << >>
      /\ c \in Inum
      /\ at' = [at EXCEPT ![q] = Files!User] /\ ofile' = [ofile EXCEPT ![q] = ofile[p]]
      /\ cwd' = [cwd EXCEPT ![q] = c] /\ iref' = [iref EXCEPT ![c] = @ + 1]
      /\ file' = [s \in Files!Slot |-> Files!Filedup(file[s], n(s))]
      /\ UNCHANGED <<made, todo, pipe>>
  BY <1>1, SizesOfFiles DEF Files!Fork, Files!Syscall, FdTypeOK
<1>3. p # q /\ made[p] = << >> /\ made[q] = << >> /\ ofile[q] = Files!Closed
  BY <1>1, <1>2, Apart DEF CallsInPlace
<1>4. /\ at'[q] = Files!User /\ ofile'[q] = ofile[p] /\ cwd'[q] = c
      /\ \A rp \in Proc : rp # q => at'[rp] = at[rp] /\ ofile'[rp] = ofile[rp] /\ cwd'[rp] = cwd[rp]
  BY <1>1, <1>2 DEF FdTypeOK
<1>5. \A s \in Files!Slot : n(s) \in Nat /\ n(s) <= file[s].ref /\ file[s].ref \in Nat
  <2> TAKE s \in Files!Slot
  <2>1. /\ n(s) \in Nat /\ Cardinality(Files!Places(made[p], s)) \in Nat
        /\ Cardinality(Files!Places(todo[p], Files!FileClose(s))) \in Nat
    BY <1>1, Finite
  <2>2. Share(p, s) <= file[s].ref /\ file[s].ref \in Nat
    BY <1>1, ShareBound
  <2>3. Share(p, s) = n(s) + Cardinality(Files!Places(made[p], s))
          + Cardinality(Files!Places(todo[p], Files!FileClose(s)))
    BY DEF Share
  <2> HIDE DEF n
  <2> QED  BY <2>1, <2>2, <2>3
<1>6. \A s \in Files!Slot : /\ file'[s].ref = file[s].ref + n(s) /\ file'[s].type = file[s].type
                            /\ file'[s].obj = file[s].obj /\ file'[s].writable = file[s].writable
                            /\ (file'[s].ref > 0 <=> file[s].ref > 0)
  <2> TAKE s \in Files!Slot
  <2> HIDE DEF n
  <2>1. file'[s] = Files!Filedup(file[s], n(s))
        /\ file[s] \in Entry
    BY <1>1, <1>2 DEF FdTypeOK
  <2>2. file'[s].ref = file[s].ref + n(s) /\ file'[s].type = file[s].type
        /\ file'[s].obj = file[s].obj /\ file'[s].writable = file[s].writable
    BY <1>5, <2>1, FiledupIs
  <2> QED  BY <1>5, <2>2
<1>7. FdTypeOK'
  <2>1. ofile' \in [Proc -> Row] /\ cwd' \in [Proc -> Inum]
    BY <1>1, <1>2 DEF FdTypeOK
  <2>2. at' \in [Proc -> {Files!None, Files!User, Files!InPipe, Files!Exiting} \cup Openings]
    BY <1>1, <1>2 DEF FdTypeOK
  <2>3. iref' \in [Inum -> Int]
    BY <1>1, <1>2 DEF FdTypeOK
  <2>4. file' \in [Files!Slot -> Entry]
    <3>1. ASSUME NEW s \in Files!Slot
          PROVE  Files!Filedup(file[s], n(s))
                   \in Entry
      <4>1. file[s] \in Entry
            /\ n(s) \in Nat
        BY <1>1, <1>5 DEF FdTypeOK
      <4> HIDE DEF n
      <4> QED  BY <4>1, FiledupIs
    <3> HIDE DEF n
    <3> QED  BY <1>2, <3>1
  <2> QED  BY <1>1, <1>2, <2>1, <2>2, <2>3, <2>4 DEF FdTypeOK
<1>8. CallsInPlace'
  <2>1. Files!User # Files!None /\ Files!User # Files!InPipe /\ Files!User \notin Openings
    BY Apart DEF Openings
  <2> QED  BY <1>1, <1>2, <1>3, <1>4, <2>1 DEF CallsInPlace
<1>9. EntriesInPlace'
  <2>1. ASSUME NEW s \in Files!Slot, NEW rp \in Proc, s \in Files!ToSet(made[rp])
        PROVE  n(s) = 0
    <3> SUFFICES ASSUME n(s) > 0
                 PROVE  FALSE
      BY <1>5
    <3>1. Cardinality(Files!Places(todo[p], Files!FileClose(s))) \in Nat
      BY <1>1, Finite
    <3> QED  BY <1>5, <2>1, <3>1, NotMade
  <2> HIDE DEF n
  <2> QED  BY <1>1, <1>2, <1>5, <1>6, <2>1 DEF EntriesInPlace
<1>10. Files!RefExact'
  <2>1. ASSUME NEW u \in Files!Slot
        PROVE  file'[u].ref = file[u].ref - Share(q, u) + Share(q, u)'
    <3>1. Cardinality(FdsFor(ofile[q], u)) = 0
      <4>1. FdsFor(Files!Closed, u) = {}
        BY DEF FdsFor, Files!Closed, Files!Slot
      <4> QED  BY <1>3, <4>1, FS_EmptySet
    <3>2. Cardinality(FdsFor(ofile'[q], u)) = n(u)
      BY <1>4 DEF FdsFor, Files!Stand
    <3>3. /\ Share(q, u)'
               = Share(q, u) - Cardinality(FdsFor(ofile[q], u)) + Cardinality(FdsFor(ofile'[q], u))
          /\ Share(q, u) \in Nat /\ Cardinality(FdsFor(ofile[q], u)) \in Nat
      <4>1. made'[q] = made[q] /\ todo'[q] = todo[q]
        BY <1>2
      <4> QED  BY <1>1, <1>7, <4>1, ShareIs
    <3> HIDE DEF n
    <3> QED  BY <1>5, <1>6, <3>1, <3>2, <3>3
  <2> QED  BY <1>1, <1>2, <1>4, <1>7, <2>1, RefStep
<1>11. /\ \A pg, wr : Files!Entries("pipe", pg, wr)' = Files!Entries("pipe", pg, wr)
       /\ \A i : Shown(i)' = Shown(i)
  <2> HIDE DEF n
  <2> QED  BY <1>6, ShownSame
<1>12. Files!EndsExact'
  BY <1>1, <1>2, <1>7, <1>11, EndsStep
<1>13. Files!InodesExact'
  <2>1. \A i \in Inum : iref'[i] = iref[i] - Shown(i) + Shown(i)' - Held(q, i) + Held(q, i)'
    <3> TAKE i \in Inum
    <3>1. /\ at[q] # Files!InOpen(i) /\ at'[q] # Files!InOpen(i) /\ at[q] = Files!None
          /\ at'[q] # Files!None
      BY <1>2, <1>4, Apart
    <3>2. /\ Held(q, i) = Cardinality(Files!Places(todo[q], Files!Iput(i))) + 0 + 0
          /\ Held(q, i)' = Cardinality(Files!Places(todo'[q], Files!Iput(i))) + 0
               + (IF c = i THEN 1 ELSE 0)
          /\ Cardinality(Files!Places(todo[q], Files!Iput(i))) \in Nat
      BY <1>1, <1>4, <1>7, <3>1, HeldNat
    <3>3. todo'[q] = todo[q]
      BY <1>2
    <3>4. iref[i] \in Int /\ iref'[i] = iref[i] + (IF c = i THEN 1 ELSE 0)
      BY <1>1, <1>2 DEF FdTypeOK
    <3>5. Shown(i)' = Shown(i) /\ Shown(i) \in Nat
      BY <1>11, ShownNat
    <3> HIDE DEF c
    <3> QED  BY <3>2, <3>3, <3>4, <3>5
  <2> QED  BY <1>1, <1>2, <1>4, <1>7, <2>1, InodesStep
<1> QED  BY <1>7, <1>8, <1>9, <1>10, <1>12, <1>13, Whole

\* What the last close of an entry leaves to do is an end of a pipe or an inode.
LEMMA EndingIs ==
  ASSUME NEW es \in Entry, es.type = "pipe" => es.obj \in Page, es.type = "inode" => es.obj \in Inum
  PROVE  /\ Files!Ending(es) \in Seq(Job) /\ Len(Files!Ending(es)) \in 0..1
         /\ \A u : Cardinality(Files!Places(Files!Ending(es), Files!FileClose(u))) = 0
         /\ \A pg \in Page, wr \in BOOLEAN :
               Cardinality(Files!Places(Files!Ending(es), Files!PipeClose(pg, wr)))
                        = IF es.type = "pipe" /\ es.obj = pg /\ es.writable = wr THEN 1 ELSE 0
         /\ \A i \in Inum :
               Cardinality(Files!Places(Files!Ending(es), Files!Iput(i)))
                 = IF es.type = "inode" /\ es.obj = i THEN 1 ELSE 0
<1>1. es.type \in {"none", "pipe", "inode"} /\ es.writable \in BOOLEAN
  BY DEF Entry
<1>2. CASE es.type = "none"
  <2>1. Files!Ending(es) = << >>
    BY <1>2 DEF Files!Ending
  <2>2. \A x : Cardinality(Files!Places(Files!Ending(es), x)) = 0
    BY <2>1, PlacesNone
  <2> QED  BY <1>2, <2>1, <2>2
<1>3. CASE es.type = "pipe"
  <2>1. /\ Files!Ending(es) = <<Files!PipeClose(es.obj, es.writable)>>
        /\ Files!PipeClose(es.obj, es.writable) \in Job
    BY <1>1, <1>3 DEF Files!Ending, Job
  <2>2. \A x :
           Cardinality(Files!Places(Files!Ending(es), x))
             = IF Files!PipeClose(es.obj, es.writable) = x THEN 1 ELSE 0
    BY <2>1, PlacesOne
  <2>3. /\ \A u : Files!FileClose(u) # Files!PipeClose(es.obj, es.writable)
        /\ \A i : Files!Iput(i) # Files!PipeClose(es.obj, es.writable)
        /\ \A pg, wr :
              Files!PipeClose(pg, wr) = Files!PipeClose(es.obj, es.writable) <=>
                pg = es.obj /\ wr = es.writable
    BY JobsApart
  <2> QED  BY <1>3, <2>1, <2>2, <2>3
<1>4. CASE es.type = "inode"
  <2>1. Files!Ending(es) = <<Files!Iput(es.obj)>> /\ Files!Iput(es.obj) \in Job
    BY <1>4 DEF Files!Ending, Job
  <2>2. \A x :
           Cardinality(Files!Places(Files!Ending(es), x)) = IF Files!Iput(es.obj) = x THEN 1 ELSE 0
    BY <2>1, PlacesOne
  <2>3. /\ \A u : Files!FileClose(u) # Files!Iput(es.obj)
        /\ \A pg, wr : Files!Iput(es.obj) # Files!PipeClose(pg, wr)
        /\ \A i : Files!Iput(i) = Files!Iput(es.obj) <=> i = es.obj
    BY JobsApart
  <2> QED  BY <1>4, <2>1, <2>2, <2>3
<1> QED  BY <1>1, <1>2, <1>3, <1>4

\* Adding a sequence of one element at most in front.
LEMMA PlacesFront ==
  ASSUME NEW S, NEW t \in Seq(S), NEW u \in Seq(S), Len(u) \in 0..1, NEW x
  PROVE  /\ u \o t \in Seq(S)
         /\ Cardinality(Files!Places(u \o t, x))
              = Cardinality(Files!Places(u, x)) + Cardinality(Files!Places(t, x))
<1>1. Cardinality(Files!Places(t, x)) \in Nat
  BY PlacesFinite
<1>2. CASE Len(u) = 0
  <2>1. u = << >> /\ u \o t = t
    BY <1>2
  <2> QED  BY <1>1, <2>1, PlacesNone
<1>3. CASE Len(u) = 1
  <2> DEFINE a == u[1]
  <2>1. u = <<a>> /\ a \in S
    BY <1>3
  <2> HIDE DEF a
  <2>2. /\ <<a>> \o t \in Seq(S)
        /\ Cardinality(Files!Places(<<a>> \o t, x))
             = Cardinality(Files!Places(t, x)) + (IF a = x THEN 1 ELSE 0)
    BY <2>1, PlacesMore
  <2>3. Cardinality(Files!Places(<<a>>, x)) = IF a = x THEN 1 ELSE 0
    BY PlacesOne
  <2> QED  BY <1>1, <2>1, <2>2, <2>3
<1> QED  BY <1>2, <1>3

\* fileclose lets go of one reference; the last one leaves the object to be closed.
LEMMA CloseFileInv ==
  ASSUME FdInv, NEW p \in Proc, Files!CloseFile(p)
  PROVE  FdInv'
<1> DEFINE t == todo[p]
           s == Head(t).obj
           last == file[s].ref = 1
           u == IF last THEN Files!Ending(file[s]) ELSE << >>
<1>1. /\ FdTypeOK /\ CallsInPlace /\ EntriesInPlace /\ Files!RefExact /\ Files!EndsExact
      /\ Files!InodesExact
  BY Parts
<1>2. /\ t \in Seq(Job) /\ t # << >> /\ Head(t).do = "fileclose"
      /\ todo' = [todo EXCEPT ![p] = u \o Tail(t)]
      /\ file' = [file EXCEPT ![s]
                  = IF last THEN Files!Emptied(file[s]) ELSE Files!Dropped(file[s])]
      /\ UNCHANGED <<ofile, cwd, at, made, pipe, iref>>
  <2>1. t \in Seq(Job)
    BY <1>1 DEF FdTypeOK
  <2>2. /\ t # << >> /\ Head(t).do = "fileclose" /\ todo' = [todo EXCEPT ![p] = u \o Tail(t)]
        /\ UNCHANGED <<ofile, cwd, at, made, pipe, iref>>
    BY DEF Files!CloseFile
  <2>3. file' = [file EXCEPT ![s] = IF last THEN Files!Emptied(file[s]) ELSE Files!Dropped(file[s])]
    BY DEF Files!CloseFile
  <2> QED  BY <2>1, <2>2, <2>3
<1>3. Head(t) = Files!FileClose(s) /\ s \in Files!Slot /\ Tail(t) \in Seq(Job)
  <2>1. Head(t) \in Job /\ Tail(t) \in Seq(Job)
    BY <1>2
  <2> HIDE DEF t
  <2>2. PICK v \in Files!Slot : Head(t) = Files!FileClose(v)
    BY <1>2, <2>1, JobsApart DEF Job
  <2> QED  BY <2>1, <2>2, JobsApart
<1>4. \A y :
         /\ Cardinality(Files!Places(t, y))
              = Cardinality(Files!Places(Tail(t), y)) + (IF Files!FileClose(s) = y THEN 1 ELSE 0)
             /\ Cardinality(Files!Places(t, y)) \in Nat
             /\ Cardinality(Files!Places(Tail(t), y)) \in Nat
  <2> TAKE y
  <2>1. Cardinality(Files!Places(t, y))
          = Cardinality(Files!Places(Tail(t), y)) + (IF Head(t) = y THEN 1 ELSE 0)
    <3> HIDE DEF t
    <3> QED  BY <1>2, PlacesTail
  <2>2. Cardinality(Files!Places(t, y)) \in Nat /\ Cardinality(Files!Places(Tail(t), y)) \in Nat
    BY <1>2, <1>3, PlacesFinite
  <2> HIDE DEF t, s
  <2> QED  BY <1>3, <2>1, <2>2
<1>5. file[s].ref \in Nat /\ file[s].ref >= 1 /\ file[s] \in Entry
  <2>1. Cardinality(Files!Places(t, Files!FileClose(s))) >= 1
    BY <1>4
  <2>2. /\ Cardinality(Files!Stand(p, s)) \in Nat /\ Cardinality(Files!Places(made[p], s)) \in Nat
        /\ Cardinality(Files!Places(t, Files!FileClose(s))) \in Nat
    BY <1>1, Finite
  <2>3. Share(p, s) <= file[s].ref /\ file[s].ref \in Nat
    BY <1>1, <1>3, ShareBound
  <2>4. Share(p, s) = Cardinality(Files!Stand(p, s)) + Cardinality(Files!Places(made[p], s))
                      + Cardinality(Files!Places(t, Files!FileClose(s)))
    BY DEF Share
  <2>5. file[s] \in Entry
    BY <1>1, <1>3 DEF FdTypeOK
  <2> HIDE DEF s, t
  <2> QED  BY <2>1, <2>2, <2>3, <2>4, <2>5
<1>6. /\ file'[s] = (IF last THEN Files!Emptied(file[s]) ELSE Files!Dropped(file[s]))
      /\ \A v \in Files!Slot : v # s => file'[v] = file[v]
      /\ todo'[p] = u \o Tail(t) /\ \A q \in Proc : q # p => todo'[q] = todo[q]
  <2> HIDE DEF s, t, last, u
  <2> QED  BY <1>1, <1>2, <1>3 DEF FdTypeOK
<1>7. /\ file'[s] \in Entry /\ file'[s].ref = file[s].ref - 1
      /\ last => file'[s].ref = 0 /\ file'[s].type = "none"
      /\ ~last => /\ file'[s].ref > 0 /\ file'[s].type = file[s].type /\ file'[s].obj = file[s].obj
                  /\ file'[s].writable = file[s].writable
  <2> HIDE DEF s, t, u
  <2>1. CASE last
    BY <1>5, <1>6, <2>1, FilesAssumption DEF Files!Emptied, Files!Unused, Entry
  <2>2. CASE ~last
    <3>1. file'[s] = Files!Dropped(file[s])
      BY <1>6, <2>2
    <3> HIDE DEF last
    <3>2. file[s].ref - 1 \in Nat /\ file[s].ref - 1 > 0
      BY <1>5, <2>2 DEF last
    <3> QED  BY <1>5, <2>2, <3>1, <3>2 DEF Entry, Files!Dropped
  <2> QED  BY <2>1, <2>2
<1>8. /\ u \in Seq(Job) /\ Len(u) \in 0..1
      /\ \A v : Cardinality(Files!Places(u, Files!FileClose(v))) = 0
      /\ \A pg \in Page, wr \in BOOLEAN : Cardinality(Files!Places(u, Files!PipeClose(pg, wr)))
                  = IF last /\ file[s].type = "pipe" /\ file[s].obj = pg /\ file[s].writable = wr
                    THEN 1 ELSE 0
      /\ \A i \in Inum :
            Cardinality(Files!Places(u, Files!Iput(i)))
              = IF last /\ file[s].type = "inode" /\ file[s].obj = i
                                                          THEN 1 ELSE 0
  <2>1. CASE last
    <3>1. /\ (file[s].type = "pipe" => file[s].obj \in Page)
          /\ (file[s].type = "inode" => file[s].obj \in Inum)
      BY <1>1, <1>3 DEF EntriesInPlace
    <3>2. u = Files!Ending(file[s])
      BY <2>1
    <3> HIDE DEF s, u, last
    <3> QED  BY <1>5, <2>1, <3>1, <3>2, EndingIs
  <2>2. CASE ~last
    <3>1. u = << >>
      BY <2>2
    <3>2. \A y : Cardinality(Files!Places(u, y)) = 0
      BY <3>1, PlacesNone
    <3> HIDE DEF s, u, last
    <3> QED  BY <2>2, <3>1, <3>2
  <2> QED  BY <2>1, <2>2
<1>9. /\ todo'[p] \in Seq(Job)
      /\ \A y :
            Cardinality(Files!Places(todo'[p], y))
              = Cardinality(Files!Places(u, y)) + Cardinality(Files!Places(Tail(t), y))
  <2> DEFINE v == Tail(t)
  <2>1. v \in Seq(Job) /\ u \in Seq(Job) /\ Len(u) \in 0..1 /\ todo'[p] = u \o v
    BY <1>3, <1>6, <1>8
  <2> HIDE DEF s, u, t, v, last
  <2>2. u \o v \in Seq(Job)
        /\ \A y :
              Cardinality(Files!Places(u \o v, y))
                = Cardinality(Files!Places(u, y)) + Cardinality(Files!Places(v, y))
    BY <2>1, PlacesFront
  <2> QED  BY <2>1, <2>2 DEF v
<1>10. FdTypeOK'
  <2>1. file' \in [Files!Slot -> Entry]
    <3>1. file' = [file EXCEPT ![s] = file'[s]]
      <4> HIDE DEF s, u, t, last
      <4> QED  BY <1>1, <1>2, <1>3, <1>6 DEF FdTypeOK
    <3> HIDE DEF s, u, t, last
    <3> QED  BY <1>1, <1>3, <1>7, <3>1 DEF FdTypeOK
  <2>2. todo' \in [Proc -> Seq(Job)]
    <3>1. u \o Tail(t) \in Seq(Job)
      BY <1>6, <1>9
    <3> HIDE DEF s, u, t, last
    <3> QED  BY <1>1, <1>2, <3>1 DEF FdTypeOK
  <2> QED  BY <1>1, <1>2, <2>1, <2>2 DEF FdTypeOK
<1>11. CallsInPlace'
  <2>1. at[p] # Files!InPipe /\ at[p] \notin Openings
    BY <1>1, <1>2 DEF CallsInPlace
  <2> HIDE DEF s, u, t, last
  <2> QED  BY <1>1, <1>2, <1>6, <2>1 DEF CallsInPlace
<1>12. EntriesInPlace'
  <2>1. \A rp \in Proc : s \notin Files!ToSet(made[rp])
    <3>1. /\ Cardinality(Files!Stand(p, s)) \in Nat
          /\ Cardinality(Files!Places(t, Files!FileClose(s))) \in Nat
          /\ Cardinality(Files!Places(t, Files!FileClose(s))) >= 1
      BY <1>1, <1>4, Finite
    <3>2. Cardinality(Files!Stand(p, s)) + Cardinality(Files!Places(t, Files!FileClose(s))) > 0
      <4> HIDE DEF s, t
      <4> QED  BY <3>1
    <3> HIDE DEF s
    <3> QED  BY <1>3, <3>2, NotMade
  <2> SUFFICES ASSUME NEW v \in Files!Slot
               PROVE  /\ file'[v].ref = 0 => file'[v].type = "none"
                      /\ file'[v].type = "pipe" => file'[v].obj \in Page
                      /\ file'[v].type = "inode" => file'[v].obj \in Inum
                      /\ \A rp \in Proc :
                            v \in Files!ToSet(made'[rp]) =>
                              file'[v].ref = 1 /\ file'[v].type = "none"
    BY DEF EntriesInPlace
  <2> HIDE DEF s, u, t, last
  <2>2. CASE v = s
    <3>1. CASE last
      BY <1>2, <1>7, <2>1, <2>2, <3>1
    <3>2. CASE ~last
      BY <1>1, <1>2, <1>3, <1>7, <2>1, <2>2, <3>2 DEF EntriesInPlace
    <3> QED  BY <3>1, <3>2
  <2>3. CASE v # s
    BY <1>1, <1>2, <1>6, <2>3 DEF EntriesInPlace
  <2> QED  BY <2>2, <2>3
<1>13. Files!RefExact'
  <2>1. ASSUME NEW v \in Files!Slot
        PROVE  file'[v].ref = file[v].ref - Share(p, v) + Share(p, v)'
    <3>1. file'[v].ref = file[v].ref - (IF v = s THEN 1 ELSE 0) /\ file[v].ref \in Nat
      <4> HIDE DEF s, u, t, last
      <4> QED  BY <1>1, <1>6, <1>7 DEF FdTypeOK, Entry
    <3>2. /\ Share(p, v)' = Share(p, v) - Cardinality(Files!Places(todo[p], Files!FileClose(v)))
                            + Cardinality(Files!Places(todo'[p], Files!FileClose(v)))
          /\ Share(p, v) \in Nat
          /\ Cardinality(Files!Places(todo[p], Files!FileClose(v))) \in Nat
          /\ Cardinality(Files!Places(todo'[p], Files!FileClose(v))) \in Nat
      <4>1. ofile'[p] = ofile[p] /\ made'[p] = made[p]
        BY <1>2
      <4> QED  BY <1>1, <1>10, <4>1, ShareIs
    <3>3. Files!FileClose(s) = Files!FileClose(v) <=> s = v
      BY JobsApart
    <3>4. /\ Cardinality(Files!Places(todo'[p], Files!FileClose(v)))
               = 0 + Cardinality(Files!Places(Tail(t), Files!FileClose(v)))
          /\ Cardinality(Files!Places(t, Files!FileClose(v)))
               = Cardinality(Files!Places(Tail(t), Files!FileClose(v))) + (IF s = v THEN 1 ELSE 0)
          /\ Cardinality(Files!Places(Tail(t), Files!FileClose(v))) \in Nat
      <4> HIDE DEF s, u, t, last
      <4> QED  BY <1>4, <1>8, <1>9, <3>3
    <3> HIDE DEF s, u, last
    <3> QED  BY <3>1, <3>2, <3>4
  <2> QED  BY <1>1, <1>2, <1>6, <1>10, <2>1, RefStep
<1>14. ASSUME NEW type \in {"pipe", "inode"}, NEW x, NEW wr
       PROVE  /\ Files!Entries(type, x, wr)' = Files!Entries(type, x, wr)
                   - (IF last /\ file[s].type = type /\ file[s].obj = x /\ file[s].writable = wr
                      THEN 1 ELSE 0)
              /\ Files!Entries(type, x, wr) \in Nat /\ Files!Entries(type, x, wr)' \in Nat
  <2>1. Shows(file[s], type, x, wr) <=>
          file[s].type = type /\ file[s].obj = x /\ file[s].writable = wr
    <3> HIDE DEF s, last
    <3> QED  BY <1>5 DEF Shows
  <2>2. Shows(file'[s], type, x, wr) <=> ~last /\ Shows(file[s], type, x, wr)
    <3> HIDE DEF s, last
    <3> QED  BY <1>5, <1>7 DEF Shows
  <2>3. /\ Files!Entries(type, x, wr) \in Nat /\ Files!Entries(type, x, wr)' \in Nat
        /\ Files!Entries(type, x, wr)'
             = Files!Entries(type, x, wr) - (IF Shows(file[s], type, x, wr) THEN 1 ELSE 0)
                                  + (IF Shows(file'[s], type, x, wr) THEN 1 ELSE 0)
    <3> HIDE DEF s, u, t, last
    <3> QED  BY <1>3, <1>6, EntriesStep
  <2> HIDE DEF s, u, t, last
  <2> QED  BY <2>1, <2>2, <2>3
<1>15. Files!EndsExact'
  <2>1. ASSUME NEW pg \in Page, NEW wr \in BOOLEAN
        PROVE  Files!Entries("pipe", pg, wr)'
                 + Cardinality(Files!Places(todo'[p], Files!PipeClose(pg, wr)))
               = Files!Entries("pipe", pg, wr)
                 + Cardinality(Files!Places(todo[p], Files!PipeClose(pg, wr)))
    <3> DEFINE b == IF last /\ file[s].type = "pipe" /\ file[s].obj = pg /\ file[s].writable = wr
                      THEN 1 ELSE 0
               es == Files!Entries("pipe", pg, wr)
    <3>1. es' = es - b /\ es \in Nat /\ es' \in Nat /\ b \in 0..1
      BY <1>14
    <3>2. Files!FileClose(s) # Files!PipeClose(pg, wr)
      BY JobsApart
    <3>3. /\ Cardinality(Files!Places(todo'[p], Files!PipeClose(pg, wr)))
               = b + Cardinality(Files!Places(Tail(t), Files!PipeClose(pg, wr)))
          /\ Cardinality(Files!Places(t, Files!PipeClose(pg, wr)))
               = Cardinality(Files!Places(Tail(t), Files!PipeClose(pg, wr)))
          /\ Cardinality(Files!Places(Tail(t), Files!PipeClose(pg, wr))) \in Nat
      <4>1. Cardinality(Files!Places(u, Files!PipeClose(pg, wr))) = b
        BY <1>8
      <4> HIDE DEF s, u, t, last, b
      <4> QED  BY <1>4, <1>9, <3>2, <4>1
    <3> HIDE DEF s, u, last, b
    <3>4. es' + Cardinality(Files!Places(todo'[p], Files!PipeClose(pg, wr)))
            = es + Cardinality(Files!Places(t, Files!PipeClose(pg, wr)))
      <4> HIDE DEF es, t
      <4> QED  BY <3>1, <3>3
    <3> QED  BY <3>4
  <2> QED  BY <1>1, <1>2, <1>6, <1>10, <2>1, EndsStep
<1>16. Files!InodesExact'
  <2>1. ASSUME NEW i \in Inum
        PROVE  iref'[i] = iref[i] - Shown(i) + Shown(i)' - Held(p, i) + Held(p, i)'
    <3> DEFINE b == IF last /\ file[s].type = "inode" /\ file[s].obj = i THEN 1 ELSE 0
    <3>1. Shown(i)' = Shown(i) - b /\ b \in 0..1
      <4> DEFINE es == Files!Entries("inode", i, FALSE)
                 f == Files!Entries("inode", i, TRUE)
                 bf == IF last /\ file[s].type = "inode" /\ file[s].obj = i /\ file[s].writable
                         = FALSE THEN 1 ELSE 0
                 bt == IF last /\ file[s].type = "inode" /\ file[s].obj = i /\ file[s].writable
                         = TRUE THEN 1 ELSE 0
      <4>1. es' = es - bf /\ es \in Nat /\ es' \in Nat
        BY <1>14
      <4>2. f' = f - bt /\ f \in Nat /\ f' \in Nat
        BY <1>14
      <4>3. b = bf + bt /\ b \in 0..1
        <5>1. file[s].writable \in BOOLEAN
          BY <1>5 DEF Entry
        <5> HIDE DEF s, last
        <5> QED  BY <5>1
      <4>4. Shown(i) = es + f /\ Shown(i)' = es' + f'
        BY DEF Shown
      <4>5. bf \in 0..1 /\ bt \in 0..1
        OBVIOUS
      <4> HIDE DEF es, f, b, bf, bt
      <4> QED  BY <4>1, <4>2, <4>3, <4>4, <4>5
    <3>2. Files!FileClose(s) # Files!Iput(i)
      BY JobsApart
    <3>3. Held(p, i)' = Held(p, i) + b
      <4>1. Cardinality(Files!Places(u, Files!Iput(i))) = b
        BY <1>8
      <4>2. /\ Cardinality(Files!Places(todo'[p], Files!Iput(i)))
                 = Cardinality(Files!Places(t, Files!Iput(i))) + b
            /\ Cardinality(Files!Places(t, Files!Iput(i))) \in Nat
        <5> HIDE DEF s, u, t, last, b
        <5> QED  BY <1>4, <1>9, <3>1, <3>2, <4>1
      <4>3. at'[p] = at[p] /\ cwd'[p] = cwd[p]
        BY <1>2
      <4> HIDE DEF s, u, last, b
      <4> QED  BY <1>1, <1>10, <3>1, <4>2, <4>3, HeldNat
    <3>4. iref'[i] = iref[i] /\ iref[i] \in Int /\ Shown(i) \in Nat /\ Held(p, i) \in Nat
      BY <1>1, <1>2, <1>10, HeldNat, ShownNat
    <3> HIDE DEF b
    <3> QED  BY <3>1, <3>3, <3>4
  <2> QED  BY <1>1, <1>2, <1>6, <1>10, <2>1, InodesStep
<1> QED  BY <1>10, <1>11, <1>12, <1>13, <1>15, <1>16, Whole

\* A call is given an entry that nobody has.
LEMMA GetsFile ==
  ASSUME FdInv, NEW p \in Proc, Files!FreeSlots # {}, Files!Filealloc(p), todo[p] = << >>,
         UNCHANGED <<ofile, cwd, todo, pipe, iref>>,
         \/ at' = at /\ at[p] \in Openings /\ made[p] = << >>
         \/ /\ at' = [at EXCEPT ![p] = Files!InPipe] /\ at[p] \in {Files!User, Files!InPipe}
            /\ Len(made[p]) < 2
  PROVE  FdInv'
<1> DEFINE m == Files!Min(Files!FreeSlots)
           t == made[p]
<1>1. /\ FdTypeOK /\ CallsInPlace /\ EntriesInPlace /\ Files!RefExact /\ Files!EndsExact
      /\ Files!InodesExact
  BY Parts
<1>2. m \in Files!Slot /\ file[m].ref = 0
  BY FreeIs
<1>3. made' = [made EXCEPT ![p] = Append(t, m)] /\ file' = [file EXCEPT ![m].ref = 1]
  BY DEF Files!Filealloc
<1> HIDE DEF m
<1>4. /\ t \in Seq(Files!Slot) /\ Append(t, m) \in Seq(Files!Slot) /\ file[m] \in Entry
      /\ file[m].type = "none"
  BY <1>1, <1>2 DEF FdTypeOK, EntriesInPlace
<1>5. /\ file'[m].ref = 1 /\ file'[m].type = "none" /\ file'[m] \in Entry
      /\ file'[m].obj = file[m].obj /\ file'[m].writable = file[m].writable
      /\ \A s \in Files!Slot : s # m => file'[s] = file[s]
  BY <1>1, <1>2, <1>3, <1>4 DEF FdTypeOK, Entry
<1>6. made'[p] = Append(t, m) /\ \A q \in Proc : q # p => made'[q] = made[q]
  BY <1>1, <1>3 DEF FdTypeOK
<1>7. /\ \A q \in Proc : q # p => at'[q] = at[q]
      /\ \/ at'[p] = at[p] /\ at[p] \in Openings /\ t = << >>
         \/ at'[p] = Files!InPipe /\ at[p] \in {Files!User, Files!InPipe} /\ Len(t) < 2
      /\ at' \in [Proc -> {Files!None, Files!User, Files!InPipe, Files!Exiting} \cup Openings]
  <2>1. CASE at' = at /\ at[p] \in Openings /\ made[p] = << >>
    BY <1>1, <2>1 DEF FdTypeOK
  <2>2. CASE /\ at' = [at EXCEPT ![p] = Files!InPipe] /\ at[p] \in {Files!User, Files!InPipe}
             /\ Len(made[p]) < 2
    BY <1>1, <2>2 DEF FdTypeOK
  <2> QED  BY <2>1, <2>2
<1>8. FdTypeOK'
  <2>1. file' \in [Files!Slot -> Entry]
    <3>1. file' = [file EXCEPT ![m] = file'[m]]
      BY <1>1, <1>2, <1>3, <1>5 DEF FdTypeOK
    <3> QED  BY <1>1, <1>2, <1>5, <3>1 DEF FdTypeOK
  <2>2. made' \in [Proc -> Seq(Files!Slot)]
    BY <1>1, <1>3, <1>4 DEF FdTypeOK
  <2> QED  BY <1>1, <1>7, <2>1, <2>2 DEF FdTypeOK
<1>9. \A q \in Proc : m \notin Files!ToSet(made[q])
  BY <1>1, <1>2 DEF EntriesInPlace
<1>10. CallsInPlace'
  <2>1. /\ Files!InPipe # Files!None /\ Files!InPipe # Files!User /\ Files!InPipe # Files!Exiting
        /\ Files!InPipe \notin Openings
        /\ \A x \in Openings : x \notin {Files!None, Files!User, Files!InPipe, Files!Exiting}
    BY Apart DEF Openings
  <2> DEFINE u == Append(t, m)
  <2>2. /\ Len(u) = Len(t) + 1 /\ Len(t) \in Nat /\ (Len(t) = 0 <=> t = << >>)
        /\ u[Len(t) + 1] = m /\ \A k \in 1..Len(t) : u[k] = t[k] /\ t[k] \in Files!ToSet(t)
    <3> HIDE DEF t
    <3> QED  BY <1>4 DEF Files!ToSet
  <2>3. Len(u) = 2 => u[1] # u[2]
    <3>1. m \notin Files!ToSet(t)
      BY <1>9
    <3> DEFINE k == Len(t)
               n == Len(u)
    <3>2. /\ n = k + 1 /\ k \in Nat /\ u[k + 1] = m
          /\ \A j \in 1..k : u[j] = t[j] /\ t[j] \in Files!ToSet(t)
      BY <2>2
    <3> HIDE DEF t, u, k, n
    <3>3. n = 2 => u[1] # u[2]
      BY <3>1, <3>2
    <3> QED  BY <3>3 DEF n
  <2>4. ASSUME NEW q \in Proc, q # p
        PROVE  /\ at'[q] = Files!InPipe => Len(made'[q]) \in 1..2 /\ todo'[q] = << >>
               /\ at'[q] \in Openings => Len(made'[q]) \in 0..1 /\ todo'[q] = << >>
               /\ at'[q] \in {Files!None, Files!User, Files!Exiting} => made'[q] = << >>
               /\ Len(made'[q]) = 2 => made'[q][1] # made'[q][2]
               /\ at'[q] = Files!None => ofile'[q] = Files!Closed
    BY <1>1, <1>6, <1>7, <2>4 DEF CallsInPlace
  <2>5. /\ made'[p] = u /\ Len(u) \in 1..2 /\ (Len(u) = 2 => u[1] # u[2])
        /\ (at'[p] \in Openings => Len(u) \in 0..1)
    <3>1. made'[p] = u
      BY <1>6
    <3> HIDE DEF t, u
    <3> QED  BY <1>7, <2>1, <2>2, <2>3, <3>1
  <2>6. at'[p] \notin {Files!None, Files!User, Files!Exiting} /\ todo'[p] = << >>
    BY <1>7, <2>1
  <2> HIDE DEF u
  <2>7. /\ at'[p] = Files!InPipe => Len(made'[p]) \in 1..2 /\ todo'[p] = << >>
        /\ at'[p] \in Openings => Len(made'[p]) \in 0..1 /\ todo'[p] = << >>
        /\ at'[p] \in {Files!None, Files!User, Files!Exiting} => made'[p] = << >>
        /\ Len(made'[p]) = 2 => made'[p][1] # made'[p][2]
        /\ at'[p] = Files!None => ofile'[p] = Files!Closed
    BY <2>5, <2>6
  <2>8. \A q \in Proc :
          /\ at'[q] = Files!InPipe => Len(made'[q]) \in 1..2 /\ todo'[q] = << >>
          /\ at'[q] \in Openings => Len(made'[q]) \in 0..1 /\ todo'[q] = << >>
          /\ at'[q] \in {Files!None, Files!User, Files!Exiting} => made'[q] = << >>
          /\ Len(made'[q]) = 2 => made'[q][1] # made'[q][2]
          /\ at'[q] = Files!None => ofile'[q] = Files!Closed
    BY <2>4, <2>7
  <2> QED  BY <2>8 DEF CallsInPlace
<1>11. EntriesInPlace'
  <2>1. \A q \in Proc : Files!ToSet(made'[q]) \subseteq Files!ToSet(made[q]) \cup {m}
    <3> TAKE q \in Proc
    <3>1. CASE q = p
      BY <1>4, <1>6, <3>1 DEF Files!ToSet
    <3>2. CASE q # p
      BY <1>6, <3>2
    <3> QED  BY <3>1, <3>2
  <2>2. \A s \in Files!Slot :
          /\ file'[s].ref = 0 => file'[s].type = "none"
          /\ file'[s].type = "pipe" => file'[s].obj \in Page
          /\ file'[s].type = "inode" => file'[s].obj \in Inum
          /\ \A q \in Proc :
                s \in Files!ToSet(made'[q]) => file'[s].ref = 1 /\ file'[s].type = "none"
    <3> TAKE s \in Files!Slot
    <3>1. CASE s = m
      BY <1>5, <3>1
    <3>2. CASE s # m
      BY <1>1, <1>5, <2>1, <3>2 DEF EntriesInPlace
    <3> QED  BY <3>1, <3>2
  <2> QED  BY <2>2 DEF EntriesInPlace
<1>12. Files!RefExact'
  <2>1. ASSUME NEW s \in Files!Slot
        PROVE  file'[s].ref = file[s].ref - Share(p, s) + Share(p, s)'
    <3>1. file'[s].ref = file[s].ref + (IF m = s THEN 1 ELSE 0) /\ file[s].ref \in Nat
      BY <1>1, <1>2, <1>5 DEF FdTypeOK, Entry
    <3>2. Cardinality(Files!Places(made'[p], s))
            = Cardinality(Files!Places(made[p], s)) + (IF m = s THEN 1 ELSE 0)
      BY <1>2, <1>4, <1>6, PlacesLast
    <3>3. /\ Share(p, s)'
               = Share(p, s) - Cardinality(Files!Places(made[p], s))
                 + Cardinality(Files!Places(made'[p], s))
          /\ Share(p, s) \in Nat /\ Cardinality(Files!Places(made[p], s)) \in Nat
      <4>1. ofile'[p] = ofile[p] /\ todo'[p] = todo[p]
        OBVIOUS
      <4> QED  BY <1>1, <1>8, <4>1, ShareIs
    <3> QED  BY <3>1, <3>2, <3>3
  <2> QED  BY <1>1, <1>6, <1>8, <2>1, RefStep
<1>13. /\ \A pg, wr : Files!Entries("pipe", pg, wr)' = Files!Entries("pipe", pg, wr)
       /\ \A i : Shown(i)' = Shown(i)
  <2>1. \A s \in Files!Slot : /\ file'[s].type = file[s].type /\ file'[s].obj = file[s].obj
                              /\ file'[s].writable = file[s].writable
                              /\ (file'[s].ref > 0 <=> file[s].ref > 0) \/ file[s].type = "none"
    BY <1>4, <1>5
  <2> QED  BY <2>1, ShownSame
<1>14. Files!EndsExact'
  BY <1>1, <1>8, <1>13, EndsStep
<1>15. Files!InodesExact'
  <2>1. \A i \in Inum : iref'[i] = iref[i] - Shown(i) + Shown(i)' - Held(p, i) + Held(p, i)'
    <3> TAKE i \in Inum
    <3>1. Held(p, i)' = Held(p, i)
      <4>1. CASE at'[p] = at[p]
        BY <4>1, HeldSame
      <4>2. CASE at'[p] = Files!InPipe /\ at[p] \in {Files!User, Files!InPipe}
        <5>1. /\ at[p] # Files!InOpen(i) /\ at'[p] # Files!InOpen(i) /\ at[p] # Files!None
              /\ at'[p] # Files!None
          BY <4>2, Apart
        <5>2. todo'[p] = todo[p] /\ cwd'[p] = cwd[p]
          OBVIOUS
        <5> QED  BY <1>1, <1>8, <5>1, <5>2, HeldNat
      <4> QED  BY <1>7, <4>1, <4>2
    <3>2. iref'[i] = iref[i] /\ Shown(i)' = Shown(i)
      BY <1>13
    <3> QED  BY <1>1, <1>8, <3>1, <3>2, HeldNat, ShownNat
  <2> QED  BY <1>1, <1>7, <1>8, <2>1, InodesStep
<1> QED  BY <1>8, <1>10, <1>11, <1>12, <1>14, <1>15, Whole

\* open is given an entry.
LEMMA OpenAllocInv ==
  ASSUME FdInv, NEW p \in Proc, NEW i \in Opens, Files!OpenAlloc(p, i)
  PROVE  FdInv'
<1>1. at[p] \in Openings /\ made[p] = << >> /\ Files!FreeSlots # {} /\ Files!Filealloc(p)
      /\ UNCHANGED <<ofile, cwd, at, todo, pipe, iref>>
  BY DEF Files!OpenAlloc, Openings
<1>2. todo[p] = << >>
  BY <1>1 DEF FdInv, CallsInPlace
<1> QED  BY <1>1, <1>2, GetsFile

\* pipealloc is given one.
LEMMA PipeFileInv ==
  ASSUME FdInv, NEW p \in Proc, Files!PipeFile(p)
  PROVE  FdInv'
<1>1. /\ (at[p] = Files!User /\ todo[p] = << >>) \/ (at[p] = Files!InPipe /\ Len(made[p]) < 2)
      /\ Files!FreeSlots # {} /\ Files!Filealloc(p) /\ at' = [at EXCEPT ![p] = Files!InPipe]
      /\ UNCHANGED <<ofile, cwd, todo, pipe, iref>>
  BY DEF Files!PipeFile, Files!Syscall
<1>2. todo[p] = << >> /\ at[p] \in {Files!User, Files!InPipe} /\ Len(made[p]) < 2
  <2>1. at[p] = Files!InPipe => todo[p] = << >>
    BY DEF FdInv, CallsInPlace
  <2>2. at[p] = Files!User => made[p] = << >>
    BY DEF FdInv, CallsInPlace
  <2> QED  BY <1>1, <2>1, <2>2
<1> QED  BY <1>1, <1>2, GetsFile

-------------------------------------------------------------------------------
(* The ends of a call: descriptors, or nothing *)

\* No entry is in the hands of two calls.
LEMMA MadeOnce ==
  ASSUME FdInv, NEW p \in Proc, NEW q \in Proc, p # q, NEW s \in Files!ToSet(made[p])
  PROVE  s \notin Files!ToSet(made[q])
<1>1. Share(p, s) = 1
  BY MadeAlone
<1>2. s \in Files!ToSet(made[q]) => Share(p, s) = 0
  BY MadeAlone
<1> QED  BY <1>1, <1>2

\* What a call that fails leaves to close.
LEMMA BackIs ==
  ASSUME NEW t \in Seq(Files!Slot), NEW others,
         others = << >> \/ \E i \in Inum : others = <<Files!Iput(i)>>
  PROVE  /\ Closes(t) \o others \in Seq(Job)
         /\ \A s \in Files!Slot :
               Cardinality(Files!Places(Closes(t) \o others, Files!FileClose(s)))
                 = Cardinality(Files!Places(t, s))
         /\ \A pg, wr : Cardinality(Files!Places(Closes(t) \o others, Files!PipeClose(pg, wr))) = 0
         /\ \A i :
               Cardinality(Files!Places(Closes(t) \o others, Files!Iput(i)))
                 = IF others = <<Files!Iput(i)>> THEN 1 ELSE 0
<1> DEFINE g == Closes(t)
<1>1. /\ g \in Seq(Job) /\ \A s : Files!Places(g, Files!FileClose(s)) = Files!Places(t, s)
      /\ \A pg, wr : Cardinality(Files!Places(g, Files!PipeClose(pg, wr))) = 0
      /\ \A i : Cardinality(Files!Places(g, Files!Iput(i))) = 0
  <2>1. /\ g \in Seq(Job) /\ \A s : Files!Places(g, Files!FileClose(s)) = Files!Places(t, s)
        /\ \A pg, wr : Files!Places(g, Files!PipeClose(pg, wr)) = {}
        /\ \A i : Files!Places(g, Files!Iput(i)) = {}
    BY GiveBackIs
  <2> QED  BY <2>1, FS_EmptySet
<1> HIDE DEF g
<1>2. CASE others = << >>
  <2>1. g \o others = g
    BY <1>1, <1>2
  <2>2. \A i : others # <<Files!Iput(i)>>
    BY <1>2
  <2>3. Closes(t) \o others = g
    BY <2>1 DEF g
  <2> QED  BY <1>1, <2>2, <2>3
<1>3. CASE \E i \in Inum : others = <<Files!Iput(i)>>
  <2>1. PICK j \in Inum : others = <<Files!Iput(j)>>
    BY <1>3
  <2> DEFINE x == Files!Iput(j)
             u == Append(g, x)
  <2>2. g \o others = u /\ x \in Job
    BY <1>1, <2>1 DEF Job
  <2>3. /\ u \in Seq(Job)
        /\ \A y :
              Cardinality(Files!Places(u, y))
                = Cardinality(Files!Places(g, y)) + (IF x = y THEN 1 ELSE 0)
    <3>1. \A y :
             /\ u \in Seq(Job)
             /\ Cardinality(Files!Places(u, y))
                  = Cardinality(Files!Places(g, y)) + (IF x = y THEN 1 ELSE 0)
      <4> HIDE DEF x
      <4> QED  BY <1>1, <2>2, PlacesLast
    <3> QED  BY <3>1
  <2>4. /\ \A s : Files!FileClose(s) # x
        /\ \A pg, wr : Files!PipeClose(pg, wr) # x
        /\ \A i : x = Files!Iput(i) <=> i = j
    BY JobsApart
  <2>5. \A i : others = <<Files!Iput(i)>> <=> x = Files!Iput(i)
    BY <2>1
  <2>6. \A s \in Files!Slot : Cardinality(Files!Places(t, s)) \in Nat
    BY PlacesFinite
  <2> HIDE DEF x, u
  <2>7. \A s \in Files!Slot :
           Cardinality(Files!Places(u, Files!FileClose(s))) = Cardinality(Files!Places(t, s))
    BY <1>1, <2>3, <2>4, <2>6
  <2>8. \A pg, wr : Cardinality(Files!Places(u, Files!PipeClose(pg, wr))) = 0
    BY <1>1, <2>3, <2>4
  <2>9. \A i :
           Cardinality(Files!Places(u, Files!Iput(i))) = IF others = <<Files!Iput(i)>> THEN 1 ELSE 0
    <3> TAKE i
    <3>1. Cardinality(Files!Places(u, Files!Iput(i))) = IF x = Files!Iput(i) THEN 1 ELSE 0
      BY <1>1, <2>3
    <3>2. others = <<Files!Iput(i)>> <=> x = Files!Iput(i)
      BY <2>5
    <3> QED  BY <3>1, <3>2
  <2>10. u \in Seq(Job) /\ Closes(t) \o others = u
    BY <2>2, <2>3 DEF g
  <2> QED  BY <2>7, <2>8, <2>9, <2>10
<1> QED  BY <1>2, <1>3 DEF g

\* The changes of GiveBack.
LEMMA GiveBackStep ==
  ASSUME FdTypeOK, NEW p \in Proc, NEW others, Files!GiveBack(p, others),
         others = << >> \/ \E i \in Inum : others = <<Files!Iput(i)>>
  PROVE  /\ made' \in [Proc -> Seq(Files!Slot)] /\ todo' \in [Proc -> Seq(Job)] /\ made'[p] = << >>
         /\ \A q \in Proc : q # p => made'[q] = made[q] /\ todo'[q] = todo[q]
         /\ \A s \in Files!Slot :
               Cardinality(Files!Places(todo'[p], Files!FileClose(s)))
                 = Cardinality(Files!Places(made[p], s))
         /\ \A pg, wr : Cardinality(Files!Places(todo'[p], Files!PipeClose(pg, wr))) = 0
         /\ \A i :
               Cardinality(Files!Places(todo'[p], Files!Iput(i)))
                 = IF others = <<Files!Iput(i)>> THEN 1 ELSE 0
<1> DEFINE t == made[p]
           u == Closes(t) \o others
<1>1. t \in Seq(Files!Slot) /\ made \in [Proc -> Seq(Files!Slot)] /\ todo \in [Proc -> Seq(Job)]
  BY DEF FdTypeOK
<1>2. todo' = [todo EXCEPT ![p] = u] /\ made' = [made EXCEPT ![p] = << >>]
  BY DEF Files!GiveBack, Closes
<1>3. /\ u \in Seq(Job)
      /\ \A s \in Files!Slot :
            Cardinality(Files!Places(u, Files!FileClose(s))) = Cardinality(Files!Places(t, s))
      /\ \A pg, wr : Cardinality(Files!Places(u, Files!PipeClose(pg, wr))) = 0
      /\ \A i :
            Cardinality(Files!Places(u, Files!Iput(i)))
              = IF others = <<Files!Iput(i)>> THEN 1 ELSE 0
  BY <1>1, BackIs
<1> HIDE DEF u
<1>4. /\ todo'[p] = u /\ \A q \in Proc : q # p => made'[q] = made[q] /\ todo'[q] = todo[q]
      /\ made'[p] = << >> /\ made' \in [Proc -> Seq(Files!Slot)] /\ todo' \in [Proc -> Seq(Job)]
  BY <1>1, <1>2, <1>3
<1> QED  BY <1>3, <1>4

\* Giving back what a call has leaves what p does for each entry as it was.
LEMMA GiveBackShare ==
  ASSUME FdTypeOK, FdTypeOK', NEW p \in Proc, NEW others, Files!GiveBack(p, others),
         others = << >> \/ \E i \in Inum : others = <<Files!Iput(i)>>, todo[p] = << >>, ofile'
           = ofile
  PROVE  \A s \in Files!Slot :
            Share(p, s)' = Share(p, s) /\ Share(p, s) \in Nat /\ file[s].ref \in Nat
<1> TAKE s \in Files!Slot
<1>1. /\ Cardinality(Files!Places(todo'[p], Files!FileClose(s)))
           = Cardinality(Files!Places(made[p], s))
      /\ made'[p] = << >>
  BY GiveBackStep
<1>2. /\ Cardinality(Files!Places(todo[p], Files!FileClose(s))) = 0
      /\ Cardinality(Files!Places(made'[p], s)) = 0
  BY <1>1, PlacesNone
<1>3. ofile'[p] = ofile[p]
  OBVIOUS
<1> QED  BY <1>1, <1>2, <1>3, ShareIs

\* So does giving it descriptors: each entry now has one.
LEMMA GivenShare ==
  ASSUME FdTypeOK, FdTypeOK', NEW p \in Proc, Files!HasRoom(p), Len(made[p]) \in 1..2,
         ofile' = Files!Given(p),
         made' = [made EXCEPT ![p] = << >>], todo' = todo
  PROVE  /\ \A s \in Files!Slot :
               Share(p, s)' = Share(p, s) /\ Share(p, s) \in Nat /\ file[s].ref \in Nat
         /\ made'[p] = << >>
         /\ \A q \in Proc :
               q # p => ofile'[q] = ofile[q] /\ made'[q] = made[q] /\ todo'[q] = todo[q]
<1>1. /\ \A q \in Proc \ {p} : ofile'[q] = ofile[q]
      /\ \A s \in Files!Slot :
            Cardinality(FdsFor(ofile'[p], s))
              = Cardinality(Files!Stand(p, s)) + Cardinality(Files!Places(made[p], s))
  BY GivenIs
<1>2. /\ made'[p] = << >> /\ todo'[p] = todo[p]
      /\ \A q \in Proc : q # p => made'[q] = made[q] /\ todo'[q] = todo[q]
  BY DEF FdTypeOK
<1>3. ASSUME NEW s \in Files!Slot
      PROVE  Share(p, s)' = Share(p, s) /\ Share(p, s) \in Nat /\ file[s].ref \in Nat
  <2>1. Cardinality(Files!Places(made'[p], s)) = 0
    BY <1>2, PlacesNone
  <2>2. Cardinality(Files!Stand(p, s)) = Cardinality(FdsFor(ofile[p], s))
    BY DEF Files!Stand, FdsFor
  <2> QED  BY <1>1, <1>2, <2>1, <2>2, ShareIs
<1> QED  BY <1>1, <1>2, <1>3

\* A call gives its entries back.
LEMMA FailInv ==
  ASSUME FdInv, NEW p \in Proc, NEW others, Files!GiveBack(p, others),
         UNCHANGED <<file, ofile, cwd, pipe, iref>>,
         at' = [at EXCEPT ![p] = Files!User],
         \/ at[p] = Files!InPipe /\ others = << >>
         \/ \E i \in Opens : at[p] = Files!InOpen(i) /\ others = <<Files!Iput(i)>>
  PROVE  FdInv'
<1>1. /\ FdTypeOK /\ CallsInPlace /\ EntriesInPlace /\ Files!RefExact /\ Files!EndsExact
      /\ Files!InodesExact
  BY Parts
<1>2. /\ (others = << >> \/ \E i \in Inum : others = <<Files!Iput(i)>>)
      /\ (at[p] = Files!InPipe \/ at[p] \in Openings)
  BY FilesAssumption DEF Openings
<1>3. todo[p] = << >>
  BY <1>1, <1>2 DEF CallsInPlace
<1>4. at'[p] = Files!User /\ (\A q \in Proc : q # p => at'[q] = at[q])
      /\ at' \in [Proc -> {Files!None, Files!User, Files!InPipe, Files!Exiting} \cup Openings]
  BY <1>1 DEF FdTypeOK
<1>5. /\ made' \in [Proc -> Seq(Files!Slot)] /\ todo' \in [Proc -> Seq(Job)] /\ made'[p] = << >>
      /\ \A q \in Proc : q # p => made'[q] = made[q] /\ todo'[q] = todo[q]
      /\ \A pg, wr : Cardinality(Files!Places(todo'[p], Files!PipeClose(pg, wr))) = 0
      /\ \A i :
            Cardinality(Files!Places(todo'[p], Files!Iput(i)))
              = IF others = <<Files!Iput(i)>> THEN 1 ELSE 0
  BY <1>1, <1>2, GiveBackStep
<1>6. FdTypeOK'
  BY <1>1, <1>4, <1>5 DEF FdTypeOK
<1>7. CallsInPlace'
  <2>1. Files!User # Files!InPipe /\ Files!User # Files!None /\ Files!User \notin Openings
    BY Apart DEF Openings
  <2>2. Len(<< >>) # 2
    OBVIOUS
  <2> QED  BY <1>1, <1>4, <1>5, <2>1, <2>2 DEF CallsInPlace
<1>8. EntriesInPlace'
  <2>1. \A q \in Proc : Files!ToSet(made'[q]) \subseteq Files!ToSet(made[q])
    <3> TAKE q \in Proc
    <3>1. CASE q = p
      BY <1>5, <3>1 DEF Files!ToSet
    <3>2. CASE q # p
      BY <1>5, <3>2
    <3> QED  BY <3>1, <3>2
  <2> QED  BY <1>1, <2>1 DEF EntriesInPlace
<1>9. Files!RefExact'
  <2>1. \A s \in Files!Slot :
           Share(p, s)' = Share(p, s) /\ Share(p, s) \in Nat /\ file[s].ref \in Nat
    BY <1>1, <1>2, <1>3, <1>6, GiveBackShare
  <2>2. \A s \in Files!Slot : file'[s].ref = file[s].ref - Share(p, s) + Share(p, s)'
    BY <2>1
  <2> QED  BY <1>1, <1>5, <1>6, <2>2, RefStep
<1>10. Files!EndsExact'
  <2>1. \A pg \in Page, wr \in BOOLEAN :
           Cardinality(Files!Places(todo[p], Files!PipeClose(pg, wr))) = 0
    BY <1>3, PlacesNone
  <2> QED  BY <1>1, <1>5, <1>6, <2>1, ShownSame, EndsStep
<1>11. Files!InodesExact'
  <2>1. \A i \in Inum : iref'[i] = iref[i] - Shown(i) + Shown(i)' - Held(p, i) + Held(p, i)'
    <3> TAKE i \in Inum
    <3>1. Cardinality(Files!Places(todo[p], Files!Iput(i))) = 0
      BY <1>3, PlacesNone
    <3>2. others = <<Files!Iput(i)>> <=> at[p] = Files!InOpen(i)
      <4>1. CASE at[p] = Files!InPipe /\ others = << >>
        BY <4>1, Apart
      <4>2. CASE \E j \in Opens : at[p] = Files!InOpen(j) /\ others = <<Files!Iput(j)>>
        <5>1. PICK j \in Opens : at[p] = Files!InOpen(j) /\ others = <<Files!Iput(j)>>
          BY <4>2
        <5>2. others = <<Files!Iput(i)>> <=> Files!Iput(j) = Files!Iput(i)
          BY <5>1
        <5> QED  BY <5>1, <5>2, Apart, JobsApart
      <4> QED  BY <4>1, <4>2
    <3>3. at'[p] # Files!InOpen(i) /\ at'[p] # Files!None /\ at[p] # Files!None
      BY <1>2, <1>4, Apart DEF Openings
    <3>4. cwd'[p] = cwd[p] /\ iref'[i] = iref[i] /\ Shown(i)' = Shown(i)
      BY ShownSame
    <3>5. Held(p, i)' = Held(p, i)
      <4>1. Cardinality(Files!Places(todo'[p], Files!Iput(i)))
              = IF at[p] = Files!InOpen(i) THEN 1 ELSE 0
        BY <1>5, <3>2
      <4> QED  BY <1>1, <1>6, <3>1, <3>3, <3>4, <4>1, HeldNat
    <3> QED  BY <1>1, <1>6, <3>4, <3>5, HeldNat, ShownNat
  <2> QED  BY <1>1, <1>4, <1>5, <1>6, <2>1, InodesStep
<1> QED  BY <1>6, <1>7, <1>8, <1>9, <1>10, <1>11, Whole

\* open fails and gives back the entry, if it has one, and the inode.
LEMMA OpenFailInv ==
  ASSUME FdInv, NEW p \in Proc, NEW i \in Opens, Files!OpenFail(p, i)
  PROVE  FdInv'
BY FailInv DEF Files!OpenFail, Files!Goto

\* pipealloc fails and gives back the entries that it has.
LEMMA PipeFailInv ==
  ASSUME FdInv, NEW p \in Proc, Files!PipeFail(p)
  PROVE  FdInv'
BY FailInv DEF Files!PipeFail, Files!Goto

\* open succeeds: its hold of the inode goes to the entry.
LEMMA OpenDoneInv ==
  ASSUME FdInv, NEW p \in Proc, NEW j \in Opens, Files!OpenDone(p, j)
  PROVE  FdInv'
<1> DEFINE m == Head(made[p])
           t == made[p]
<1>1. /\ FdTypeOK /\ CallsInPlace /\ EntriesInPlace /\ Files!RefExact /\ Files!EndsExact
      /\ Files!InodesExact
  BY Parts
<1>2. /\ at[p] = Files!InOpen(j) /\ at' = [at EXCEPT ![p] = Files!User] /\ t # << >>
      /\ Files!HasRoom(p)
      /\ ofile' = Files!Given(p) /\ made' = [made EXCEPT ![p] = << >>] /\ j \in Inum
      /\ UNCHANGED <<cwd, todo, pipe, iref>>
  BY FilesAssumption DEF Files!OpenDone, Files!Goto
<1>3. PICK wr \in BOOLEAN : file'
        = [file EXCEPT ![m] = [@ EXCEPT !.type = "inode", !.obj = j, !.writable = wr]]
  BY DEF Files!OpenDone
<1>4. todo[p] = << >> /\ Len(t) = 1 /\ t \in Seq(Files!Slot)
  <2>1. at[p] \in Openings
    BY <1>2 DEF Openings
  <2>2. Len(t) \in 0..1 /\ todo[p] = << >> /\ t \in Seq(Files!Slot)
    BY <1>1, <2>1 DEF CallsInPlace, FdTypeOK
  <2> QED  BY <1>2, <2>2
<1>5. m \in Files!ToSet(t) /\ m \in Files!Slot
  <2> HIDE DEF t
  <2> QED  BY <1>4 DEF t, Files!ToSet
<1> HIDE DEF m
<1>6. file[m] \in Entry /\ file[m].ref = 1 /\ file[m].type = "none"
  BY <1>1, <1>5 DEF EntriesInPlace, FdTypeOK
<1>7. /\ file'[m] \in Entry /\ file'[m].ref = 1 /\ file'[m].type = "inode" /\ file'[m].obj = j
      /\ file'[m].writable = wr
      /\ \A s \in Files!Slot : s # m => file'[s] = file[s]
  <2> DEFINE es == file[m]
             h == [es EXCEPT !.type = "inode", !.obj = j, !.writable = wr]
  <2>1. h \in Entry /\ h.ref = 1 /\ h.type = "inode" /\ h.obj = j /\ h.writable = wr
    <3> HIDE DEF es
    <3> QED  BY <1>2, <1>6 DEF Entry, es
  <2>2. file'[m] = h /\ \A s \in Files!Slot : s # m => file'[s] = file[s]
    BY <1>1, <1>3, <1>5 DEF FdTypeOK
  <2> HIDE DEF h
  <2> QED  BY <2>1, <2>2
<1>8. FdTypeOK'
  <2>1. file' \in [Files!Slot -> Entry]
    <3>1. file' = [file EXCEPT ![m] = file'[m]]
      BY <1>1, <1>3, <1>5, <1>7 DEF FdTypeOK
    <3> QED  BY <1>1, <1>5, <1>7, <3>1 DEF FdTypeOK
  <2>2. ofile' \in [Proc -> Row]
    BY <1>1, <1>2, <1>4, GivenIs
  <2>3. /\ at' \in [Proc -> {Files!None, Files!User, Files!InPipe, Files!Exiting} \cup Openings]
        /\ made' \in [Proc -> Seq(Files!Slot)]
    BY <1>1, <1>2 DEF FdTypeOK
  <2> QED  BY <1>1, <1>2, <2>1, <2>2, <2>3 DEF FdTypeOK
<1>9. at'[p] = Files!User /\ \A q \in Proc : q # p => at'[q] = at[q]
  BY <1>1, <1>2 DEF FdTypeOK
<1>10. /\ \A s \in Files!Slot :
             Share(p, s)' = Share(p, s) /\ Share(p, s) \in Nat /\ file[s].ref \in Nat
       /\ made'[p] = << >>
       /\ \A q \in Proc : q # p => ofile'[q] = ofile[q] /\ made'[q] = made[q] /\ todo'[q] = todo[q]
  <2>1. /\ Files!HasRoom(p) /\ Len(made[p]) \in 1..2 /\ ofile' = Files!Given(p)
        /\ made' = [made EXCEPT ![p] = << >>] /\ todo' = todo
    BY <1>2, <1>4
  <2> HIDE DEF t
  <2> QED  BY <1>1, <1>8, <2>1, GivenShare
<1>11. CallsInPlace'
  <2>1. Files!User # Files!InPipe /\ Files!User # Files!None /\ Files!User \notin Openings
    BY Apart DEF Openings
  <2>2. Len(<< >>) # 2
    OBVIOUS
  <2> QED  BY <1>1, <1>2, <1>9, <1>10, <2>1, <2>2 DEF CallsInPlace
<1>12. EntriesInPlace'
  <2>1. \A q \in Proc : Files!ToSet(made'[q]) \subseteq Files!ToSet(made[q]) \ {m}
    <3> TAKE q \in Proc
    <3>1. CASE q = p
      BY <1>10, <3>1 DEF Files!ToSet
    <3>2. CASE q # p
      BY <1>5, <1>10, <3>2, MadeOnce
    <3> QED  BY <3>1, <3>2
  <2>2. \A s \in Files!Slot :
          /\ file'[s].ref = 0 => file'[s].type = "none"
          /\ file'[s].type = "pipe" => file'[s].obj \in Page
          /\ file'[s].type = "inode" => file'[s].obj \in Inum
          /\ \A q \in Proc :
                s \in Files!ToSet(made'[q]) => file'[s].ref = 1 /\ file'[s].type = "none"
    <3> TAKE s \in Files!Slot
    <3>1. CASE s = m
      <4>1. \A q \in Proc : s \notin Files!ToSet(made'[q])
        BY <2>1, <3>1
      <4>2. file'[s].ref = 1 /\ file'[s].type = "inode" /\ file'[s].obj \in Inum
        BY <1>2, <1>7, <3>1
      <4> QED  BY <4>1, <4>2
    <3>2. CASE s # m
      BY <1>1, <1>7, <2>1, <3>2 DEF EntriesInPlace
    <3> QED  BY <3>1, <3>2
  <2> QED  BY <2>2 DEF EntriesInPlace
<1>13. Files!RefExact'
  <2>1. \A s \in Files!Slot : file'[s].ref = file[s].ref - Share(p, s) + Share(p, s)'
    <3> TAKE s \in Files!Slot
    <3>1. file'[s].ref = file[s].ref
      BY <1>6, <1>7
    <3> QED  BY <1>10, <3>1
  <2> QED  BY <1>1, <1>8, <1>10, <2>1, RefStep
<1>14. ASSUME NEW type \in {"pipe", "inode"}, NEW x, NEW v
       PROVE  /\ Files!Entries(type, x, v)' = Files!Entries(type, x, v)
                   + (IF type = "inode" /\ x = j /\ v = wr THEN 1 ELSE 0)
              /\ Files!Entries(type, x, v) \in Nat /\ Files!Entries(type, x, v)' \in Nat
  <2>1. ~Shows(file[m], type, x, v)
    BY <1>6 DEF Shows
  <2>2. Shows(file'[m], type, x, v) <=> type = "inode" /\ x = j /\ v = wr
    BY <1>7 DEF Shows
  <2>3. /\ Files!Entries(type, x, v) \in Nat /\ Files!Entries(type, x, v)' \in Nat
        /\ Files!Entries(type, x, v)'
             = Files!Entries(type, x, v) - (IF Shows(file[m], type, x, v) THEN 1 ELSE 0)
                                  + (IF Shows(file'[m], type, x, v) THEN 1 ELSE 0)
    BY <1>5, <1>7, EntriesStep
  <2> QED  BY <2>1, <2>2, <2>3
<1>15. Files!EndsExact'
  <2>1. \A pg \in Page, v \in BOOLEAN :
          Files!Entries("pipe", pg, v)'
            + Cardinality(Files!Places(todo'[p], Files!PipeClose(pg, v)))
          = Files!Entries("pipe", pg, v)
            + Cardinality(Files!Places(todo[p], Files!PipeClose(pg, v)))
    <3> TAKE pg \in Page, v \in BOOLEAN
    <3>1. /\ Files!Entries("pipe", pg, v)' = Files!Entries("pipe", pg, v) + 0
          /\ Files!Entries("pipe", pg, v) \in Nat
      BY <1>14
    <3>2. todo'[p] = todo[p]
      BY <1>2
    <3> QED  BY <3>1, <3>2
  <2> QED  BY <1>1, <1>2, <1>8, <1>10, <2>1, EndsStep
<1>16. Files!InodesExact'
  <2>1. \A i \in Inum : iref'[i] = iref[i] - Shown(i) + Shown(i)' - Held(p, i) + Held(p, i)'
    <3> TAKE i \in Inum
    <3>1. Shown(i)' = Shown(i) + (IF i = j THEN 1 ELSE 0)
      <4> DEFINE es == Files!Entries("inode", i, FALSE)
                 f == Files!Entries("inode", i, TRUE)
                 bf == IF i = j /\ wr = FALSE THEN 1 ELSE 0
                 bt == IF i = j /\ wr = TRUE THEN 1 ELSE 0
                 b == IF i = j THEN 1 ELSE 0
      <4>1. es' = es + bf /\ es \in Nat /\ es' \in Nat
        BY <1>14
      <4>2. f' = f + bt /\ f \in Nat /\ f' \in Nat
        BY <1>14
      <4>3. b = bf + bt /\ bf \in 0..1 /\ bt \in 0..1
        OBVIOUS
      <4>4. Shown(i) = es + f /\ Shown(i)' = es' + f'
        BY DEF Shown
      <4> HIDE DEF es, f, b, bf, bt
      <4>5. Shown(i)' = Shown(i) + b
        BY <4>1, <4>2, <4>3, <4>4
      <4> QED  BY <4>5 DEF b
    <3>2. Held(p, i) = Held(p, i)' + (IF i = j THEN 1 ELSE 0)
      <4>1. /\ (at[p] = Files!InOpen(i) <=> i = j) /\ at'[p] # Files!InOpen(i)
            /\ at'[p] # Files!None /\ at[p] # Files!None
        BY <1>2, <1>9, Apart
      <4>2. todo'[p] = todo[p] /\ cwd'[p] = cwd[p]
        BY <1>2
      <4> QED  BY <1>1, <1>8, <4>1, <4>2, HeldNat
    <3>3. iref'[i] = iref[i]
      BY <1>2
    <3> QED  BY <1>1, <1>8, <3>1, <3>2, <3>3, HeldNat, ShownNat
  <2> QED  BY <1>1, <1>2, <1>8, <1>9, <2>1, InodesStep
<1> QED  BY <1>8, <1>11, <1>12, <1>13, <1>15, <1>16, Whole

\* None shows what is counted as none.
LEMMA EntriesZero ==
  ASSUME NEW type, NEW x, NEW wr, Files!Entries(type, x, wr) = 0
  PROVE  \A s \in Files!Slot : ~Shows(file[s], type, x, wr)
<1> DEFINE S == {u \in Files!Slot : /\ file[u].ref > 0 /\ file[u].type = type
                             /\ file[u].obj = x /\ file[u].writable = wr}
<1>1. IsFiniteSet(Files!Slot) /\ S \in SUBSET Files!Slot
  BY FilesAssumption, FS_Interval DEF Files!Slot
<1>2. /\ Files!Entries(type, x, wr) = Cardinality(S)
      /\ \A s \in Files!Slot : Shows(file[s], type, x, wr) => s \in S
  BY SizesOfFiles DEF Files!Entries, Shows
<1> HIDE DEF S
<1>3. S = {}
  BY <1>1, <1>2, FS_Subset, FS_EmptySet
<1> QED  BY <1>2, <1>3

\* One shows what is counted once.
LEMMA EntriesOne ==
  ASSUME NEW type, NEW x, NEW wr, NEW a \in Files!Slot,
         \A s \in Files!Slot : Shows(file'[s], type, x, wr) <=> s = a
  PROVE  Files!Entries(type, x, wr)' = 1
<1>1. {s \in Files!Slot : Shows(file'[s], type, x, wr)} = {a}
  OBVIOUS
<1>2. Files!Entries(type, x, wr)' = Cardinality({s \in Files!Slot : Shows(file'[s], type, x, wr)})
  BY SizesOfFiles DEF Files!Entries, Shows
<1> QED  BY <1>1, <1>2, FS_Singleton

\* Either way, a pipe's two ends are opened, and each by one entry.
LEMMA PipeDoneInv ==
  ASSUME FdInv, NEW p \in Proc, NEW pg \in Page, Files!PipeDone(p, pg)
  PROVE  FdInv'
<1> DEFINE t == made[p]
           a == t[1]
           b == t[2]
<1>1. /\ FdTypeOK /\ CallsInPlace /\ EntriesInPlace /\ Files!RefExact /\ Files!EndsExact
      /\ Files!InodesExact
  BY Parts
<1>2. /\ at[p] = Files!InPipe /\ at' = [at EXCEPT ![p] = Files!User] /\ Len(t) = 2 /\ pipe[pg] = {}
      /\ pipe' = [pipe EXCEPT ![pg] = {"r", "w"}]
      /\ file' = [file EXCEPT ![a] = Files!PipeEnd(@, pg, FALSE), ![b] = Files!PipeEnd(@, pg, TRUE)]
      /\ UNCHANGED <<cwd, iref>>
  BY DEF Files!PipeDone, Files!Goto
<1>3. \/ /\ Files!HasRoom(p) /\ ofile' = Files!Given(p) /\ made' = [made EXCEPT ![p] = << >>]
         /\ todo' = todo
      \/ Files!GiveBack(p, << >>) /\ ofile' = ofile
  BY DEF Files!PipeDone
<1>4. todo[p] = << >> /\ a # b /\ t \in Seq(Files!Slot)
  BY <1>1, <1>2 DEF CallsInPlace, FdTypeOK
<1>5. a \in Files!ToSet(t) /\ b \in Files!ToSet(t) /\ a \in Files!Slot /\ b \in Files!Slot
  <2> HIDE DEF t
  <2> QED  BY <1>2, <1>4 DEF Files!ToSet
<1> HIDE DEF a, b
<1>6. /\ file[a] \in Entry /\ file[a].ref = 1 /\ file[a].type = "none"
      /\ file[b] \in Entry /\ file[b].ref = 1 /\ file[b].type = "none"
  BY <1>1, <1>5 DEF EntriesInPlace, FdTypeOK
<1>7. /\ file'[a] \in Entry /\ file'[a].ref = 1 /\ file'[a].type = "pipe" /\ file'[a].obj = pg
      /\ file'[a].writable = FALSE
      /\ file'[b] \in Entry /\ file'[b].ref = 1 /\ file'[b].type = "pipe" /\ file'[b].obj = pg
      /\ file'[b].writable = TRUE
      /\ \A s \in Files!Slot : s # a /\ s # b => file'[s] = file[s]
  <2> DEFINE es == Files!PipeEnd(file[a], pg, FALSE)
             h == Files!PipeEnd(file[b], pg, TRUE)
  <2>1. /\ es \in Entry /\ es.ref = 1 /\ es.type = "pipe" /\ es.obj = pg /\ es.writable = FALSE
        /\ h \in Entry /\ h.ref = 1 /\ h.type = "pipe" /\ h.obj = pg /\ h.writable = TRUE
    BY <1>6 DEF Entry, Files!PipeEnd
  <2>2. file'[a] = es /\ file'[b] = h /\ \A s \in Files!Slot : s # a /\ s # b => file'[s] = file[s]
    BY <1>1, <1>2, <1>4, <1>5 DEF FdTypeOK
  <2> HIDE DEF es, h
  <2> QED  BY <2>1, <2>2
<1>8. at'[p] = Files!User /\ (\A q \in Proc : q # p => at'[q] = at[q])
      /\ at' \in [Proc -> {Files!None, Files!User, Files!InPipe, Files!Exiting} \cup Openings]
  BY <1>1, <1>2 DEF FdTypeOK
<1>9. FdTypeOK'
  <2>1. file' \in [Files!Slot -> Entry]
    <3>1. file' = [file EXCEPT ![a] = file'[a], ![b] = file'[b]]
      BY <1>1, <1>2, <1>4, <1>5, <1>7 DEF FdTypeOK
    <3> QED  BY <1>1, <1>4, <1>5, <1>7, <3>1 DEF FdTypeOK
  <2>2. /\ ofile' \in [Proc -> Row] /\ made' \in [Proc -> Seq(Files!Slot)]
        /\ todo' \in [Proc -> Seq(Job)]
    <3>1. CASE /\ Files!HasRoom(p) /\ ofile' = Files!Given(p)
               /\ made' = [made EXCEPT ![p] = << >>] /\ todo' = todo
      <4>1. ofile' \in [Proc -> Row]
        <5>1. Len(made[p]) \in 1..2
          BY <1>2
        <5> QED  BY <1>1, <3>1, <5>1, GivenIs
      <4>2. /\ made \in [Proc -> Seq(Files!Slot)] /\ todo \in [Proc -> Seq(Job)]
            /\ << >> \in Seq(Files!Slot)
        BY <1>1 DEF FdTypeOK
      <4>3. made' \in [Proc -> Seq(Files!Slot)]
        BY <3>1, <4>2
      <4> QED  BY <3>1, <4>1, <4>2, <4>3
    <3>2. CASE Files!GiveBack(p, << >>) /\ ofile' = ofile
      BY <1>1, <3>2, GiveBackStep DEF FdTypeOK
    <3> QED  BY <1>3, <3>1, <3>2
  <2>3. pipe' \in [Page -> SUBSET {"r", "w"}]
    BY <1>1, <1>2 DEF FdTypeOK
  <2> QED  BY <1>1, <1>2, <1>8, <2>1, <2>2, <2>3 DEF FdTypeOK
<1>10. /\ \A s \in Files!Slot :
             Share(p, s)' = Share(p, s) /\ Share(p, s) \in Nat /\ file[s].ref \in Nat
       /\ made'[p] = << >>
       /\ \A q \in Proc : q # p => ofile'[q] = ofile[q] /\ made'[q] = made[q] /\ todo'[q] = todo[q]
  <2>1. CASE /\ Files!HasRoom(p) /\ ofile' = Files!Given(p) /\ made' = [made EXCEPT ![p] = << >>]
             /\ todo' = todo
    <3>1. Len(made[p]) \in 1..2
      BY <1>2
    <3> QED  BY <1>1, <1>9, <2>1, <3>1, GivenShare
  <2>2. CASE Files!GiveBack(p, << >>) /\ ofile' = ofile
    <3>1. \A s \in Files!Slot :
             Share(p, s)' = Share(p, s) /\ Share(p, s) \in Nat /\ file[s].ref \in Nat
      BY <1>1, <1>4, <1>9, <2>2, GiveBackShare
    <3>2. made'[p] = << >> /\ \A q \in Proc : q # p => made'[q] = made[q] /\ todo'[q] = todo[q]
      BY <1>1, <2>2, GiveBackStep
    <3> QED  BY <2>2, <3>1, <3>2
  <2> QED  BY <1>3, <2>1, <2>2
<1>11. /\ \A pf, v : Cardinality(Files!Places(todo'[p], Files!PipeClose(pf, v))) = 0
       /\ \A i : Cardinality(Files!Places(todo'[p], Files!Iput(i))) = 0
       /\ \A y : Cardinality(Files!Places(todo[p], y)) = 0
  <2>1. \A y : Cardinality(Files!Places(todo[p], y)) = 0
    BY <1>4, PlacesNone
  <2>2. CASE todo' = todo
    BY <2>1, <2>2
  <2>3. CASE Files!GiveBack(p, << >>)
    <3>1. \A i : << >> # <<Files!Iput(i)>>
      OBVIOUS
    <3> DEFINE n == << >>
    <3>2. /\ \A pf, v : Cardinality(Files!Places(todo'[p], Files!PipeClose(pf, v))) = 0
          /\ \A i :
                Cardinality(Files!Places(todo'[p], Files!Iput(i)))
                  = IF n = <<Files!Iput(i)>> THEN 1 ELSE 0
      <4>1. Files!GiveBack(p, n) /\ n = << >>
        BY <2>3
      <4> HIDE DEF n
      <4> QED  BY <1>1, <4>1, GiveBackStep
    <3> QED  BY <2>1, <3>1, <3>2
  <2> QED  BY <1>3, <2>2, <2>3
<1>12. CallsInPlace'
  <2>1. Files!User # Files!InPipe /\ Files!User # Files!None /\ Files!User \notin Openings
    BY Apart DEF Openings
  <2>2. Len(<< >>) # 2
    OBVIOUS
  <2> QED  BY <1>1, <1>8, <1>10, <2>1, <2>2 DEF CallsInPlace
<1>13. EntriesInPlace'
  <2>1. \A q \in Proc : Files!ToSet(made'[q]) \subseteq Files!ToSet(made[q]) \ {a, b}
    <3> TAKE q \in Proc
    <3>1. CASE q = p
      BY <1>10, <3>1 DEF Files!ToSet
    <3>2. CASE q # p
      BY <1>5, <1>10, <3>2, MadeOnce
    <3> QED  BY <3>1, <3>2
  <2>2. \A s \in Files!Slot :
          /\ file'[s].ref = 0 => file'[s].type = "none"
          /\ file'[s].type = "pipe" => file'[s].obj \in Page
          /\ file'[s].type = "inode" => file'[s].obj \in Inum
          /\ \A q \in Proc :
                s \in Files!ToSet(made'[q]) => file'[s].ref = 1 /\ file'[s].type = "none"
    <3> TAKE s \in Files!Slot
    <3>1. CASE s \in {a, b}
      BY <1>7, <2>1, <3>1
    <3>2. CASE s \notin {a, b}
      BY <1>1, <1>7, <2>1, <3>2 DEF EntriesInPlace
    <3> QED  BY <3>1, <3>2
  <2> QED  BY <2>2 DEF EntriesInPlace
<1>14. Files!RefExact'
  <2>1. \A s \in Files!Slot : file'[s].ref = file[s].ref - Share(p, s) + Share(p, s)'
    <3> TAKE s \in Files!Slot
    <3>1. file'[s].ref = file[s].ref
      BY <1>6, <1>7
    <3> QED  BY <1>10, <3>1
  <2> QED  BY <1>1, <1>9, <1>10, <2>1, RefStep
<1>15. \A x, v : x # pg => Files!Entries("pipe", x, v)' = Files!Entries("pipe", x, v)
  <2> SUFFICES ASSUME NEW x, NEW v, x # pg
               PROVE  \A s \in Files!Slot :
                         Shows(file'[s], "pipe", x, v) <=> Shows(file[s], "pipe", x, v)
    BY EntriesSame
  <2> TAKE s \in Files!Slot
  <2>1. CASE s \in {a, b}
    BY <1>6, <1>7, <2>1 DEF Shows
  <2>2. CASE s \notin {a, b}
    BY <1>7, <2>2
  <2> QED  BY <2>1, <2>2
<1>16. ASSUME NEW v \in BOOLEAN
       PROVE  Files!Entries("pipe", pg, v)' = 1 /\ Files!Todo(Files!PipeClose(pg, v)) = 0
  <2> DEFINE es == Files!Entries("pipe", pg, v)
             d == Files!Todo(Files!PipeClose(pg, v))
  <2>1. es + d = 0
    BY <1>1, <1>2 DEF Files!EndsExact
  <2>2. es \in Nat /\ d \in Nat
    BY <1>1, <1>9, <1>10, EntriesNat, TodoStep
  <2>3. es = 0 /\ d = 0
    <3> HIDE DEF es, d
    <3> QED  BY <2>1, <2>2
  <2>4. \A s \in Files!Slot : ~Shows(file[s], "pipe", pg, v)
    BY <2>3, EntriesZero
  <2>5. CASE v = FALSE
    <3>1. \A s \in Files!Slot : Shows(file'[s], "pipe", pg, FALSE) <=> s = a
      <4> TAKE s \in Files!Slot
      <4>1. CASE s = a
        BY <1>7, <4>1 DEF Shows
      <4>2. CASE s = b
        BY <1>4, <1>7, <4>2 DEF Shows
      <4>3. CASE s # a /\ s # b
        BY <1>7, <2>4, <2>5, <4>3
      <4> QED  BY <4>1, <4>2, <4>3
    <3> QED  BY <1>5, <2>3, <2>5, <3>1, EntriesOne
  <2>6. CASE v = TRUE
    <3>1. \A s \in Files!Slot : Shows(file'[s], "pipe", pg, TRUE) <=> s = b
      <4> TAKE s \in Files!Slot
      <4>1. CASE s = b
        BY <1>7, <4>1 DEF Shows
      <4>2. CASE s = a
        BY <1>4, <1>7, <4>2 DEF Shows
      <4>3. CASE s # a /\ s # b
        BY <1>7, <2>4, <2>6, <4>3
      <4> QED  BY <4>1, <4>2, <4>3
    <3> QED  BY <1>5, <2>3, <2>6, <3>1, EntriesOne
  <2> QED  BY <2>5, <2>6
<1>17. Files!EndsExact'
  <2> SUFFICES ASSUME NEW pf \in Page, NEW v \in BOOLEAN
               PROVE  Files!Entries("pipe", pf, v)' + Files!Todo(Files!PipeClose(pf, v))'
                        = IF Files!End(v) \in pipe'[pf] THEN 1 ELSE 0
    BY DEF Files!EndsExact, Files!End
  <2> DEFINE es == Files!Entries("pipe", pf, v)
             d == Files!Todo(Files!PipeClose(pf, v))
  <2>1. d' = d /\ d \in Nat
    <3>1. /\ Cardinality(Files!Places(todo'[p], Files!PipeClose(pf, v))) = 0
          /\ Cardinality(Files!Places(todo[p], Files!PipeClose(pf, v))) = 0
      BY <1>11
    <3>2. /\ d \in Nat /\ d' \in Nat
          /\ d' = d - Cardinality(Files!Places(todo[p], Files!PipeClose(pf, v)))
                    + Cardinality(Files!Places(todo'[p], Files!PipeClose(pf, v)))
      BY <1>1, <1>9, <1>10, TodoStep
    <3> HIDE DEF d
    <3> QED  BY <3>1, <3>2
  <2>2. CASE pf = pg
    <3>1. Files!End(v) \in pipe'[pf]
      BY <1>1, <1>2, <2>2 DEF Files!End, FdTypeOK
    <3>2. es' = 1 /\ d = 0
      BY <1>16, <2>2
    <3> QED  BY <2>1, <3>1, <3>2
  <2>3. CASE pf # pg
    <3>1. pipe'[pf] = pipe[pf]
      BY <1>1, <1>2, <2>3 DEF FdTypeOK
    <3>2. es + d = IF Files!End(v) \in pipe[pf] THEN 1 ELSE 0
      BY <1>1 DEF Files!EndsExact
    <3>3. es' = es
      BY <1>15, <2>3
    <3> QED  BY <2>1, <3>1, <3>2, <3>3
  <2> QED  BY <2>2, <2>3
<1>18. Files!InodesExact'
  <2>1. \A i : Shown(i)' = Shown(i)
    <3>1. \A i, v : Files!Entries("inode", i, v)' = Files!Entries("inode", i, v)
      <4> SUFFICES ASSUME NEW i, NEW v
                   PROVE  \A s \in Files!Slot :
                             Shows(file'[s], "inode", i, v) <=> Shows(file[s], "inode", i, v)
        BY EntriesSame
      <4> TAKE s \in Files!Slot
      <4>1. CASE s \in {a, b}
        BY <1>6, <1>7, <4>1 DEF Shows
      <4>2. CASE s \notin {a, b}
        BY <1>7, <4>2
      <4> QED  BY <4>1, <4>2
    <3> QED  BY <3>1 DEF Shown
  <2>2. \A i \in Inum : iref'[i] = iref[i] - Shown(i) + Shown(i)' - Held(p, i) + Held(p, i)'
    <3> TAKE i \in Inum
    <3>1. /\ at[p] # Files!InOpen(i) /\ at'[p] # Files!InOpen(i) /\ at[p] # Files!None
          /\ at'[p] # Files!None
      BY <1>2, <1>8, Apart
    <3>2. /\ Cardinality(Files!Places(todo'[p], Files!Iput(i)))
               = Cardinality(Files!Places(todo[p], Files!Iput(i)))
          /\ cwd'[p] = cwd[p] /\ iref'[i] = iref[i]
      BY <1>2, <1>11
    <3>3. Held(p, i)' = Held(p, i)
      BY <1>1, <1>9, <3>1, <3>2, HeldNat
    <3> QED  BY <1>1, <1>9, <2>1, <3>2, <3>3, HeldNat, ShownNat
  <2> QED  BY <1>1, <1>2, <1>8, <1>9, <1>10, <2>2, InodesStep
<1> QED  BY <1>9, <1>12, <1>13, <1>14, <1>17, <1>18, Whole

\* All entries are free, and one process has its directory.
LEMMA FdInit == Files!Init => FdInv
<1> SUFFICES ASSUME Files!Init
             PROVE  FdInv
  OBVIOUS
<1>1. FdTypeOK
  BY FilesAssumption DEF Files!Init, FdTypeOK, Entry, Row, Files!Unused, Files!Closed,
     Openings, Files!Slot, Files!Fd
<1>2. \A q \in Proc :
         /\ made[q] = << >> /\ todo[q] = << >> /\ ofile[q] = Files!Closed
         /\ at[q] \in {Files!None, Files!User}
  BY DEF Files!Init
<1>3. CallsInPlace
  <2>1. /\ Files!User # Files!InPipe /\ Files!None # Files!InPipe /\ Files!User \notin Openings
        /\ Files!None \notin Openings /\ Len(<< >>) # 2
    BY Apart DEF Openings
  <2> QED  BY <1>2, <2>1 DEF CallsInPlace
<1>4. \A s \in Files!Slot : file[s].ref = 0 /\ file[s].type = "none"
  BY DEF Files!Init, Files!Unused
<1>5. EntriesInPlace
  <2>1. \A q \in Proc : Files!ToSet(made[q]) = {}
    BY <1>2 DEF Files!ToSet
  <2> QED  BY <1>4, <2>1 DEF EntriesInPlace
<1>6. \A A : (\A q \in Proc : A[q] = {}) => Files!Count(A) = 0
  <2> TAKE A
  <2> HAVE \A q \in Proc : A[q] = {}
  <2>1. UNION {{q} \X A[q] : q \in Proc} = {}
    OBVIOUS
  <2> QED  BY <2>1, FS_EmptySet, SizesOfFiles DEF Files!Count
<1>7. \A x : Files!Todo(x) = 0
  <2> TAKE x
  <2>1. \A q \in Proc : [rp \in Proc |-> Files!Places(todo[rp], x)][q] = {}
    BY <1>2 DEF Files!Places
  <2> QED  BY <1>6, <2>1 DEF Files!Todo
<1>8. Files!RefExact
  <2> SUFFICES ASSUME NEW s \in Files!Slot
               PROVE  file[s].ref = Files!Count([q \in Proc |-> Files!Stand(q, s)])
                                    + Files!Count([q \in Proc |-> Files!Places(made[q], s)])
                                      + Files!Todo(Files!FileClose(s))
    BY DEF Files!RefExact
  <2>1. \A q \in Proc : [rp \in Proc |-> Files!Stand(rp, s)][q] = {}
    BY <1>2 DEF Files!Stand, Files!Closed, Files!Slot
  <2>2. \A q \in Proc : [rp \in Proc |-> Files!Places(made[rp], s)][q] = {}
    BY <1>2 DEF Files!Places
  <2>3. /\ Files!Count([q \in Proc |-> Files!Stand(q, s)]) = 0
        /\ Files!Count([q \in Proc |-> Files!Places(made[q], s)]) = 0
    BY <1>6, <2>1, <2>2
  <2> QED  BY <1>4, <1>7, <2>3
<1>9. \A type, x, wr : Files!Entries(type, x, wr) = 0
  <2> TAKE type, x, wr
  <2>1. {s \in Files!Slot : /\ file[s].ref > 0 /\ file[s].type = type
                            /\ file[s].obj = x /\ file[s].writable = wr} = {}
    BY <1>4
  <2> QED  BY <2>1, FS_EmptySet, SizesOfFiles DEF Files!Entries
<1>10. Files!EndsExact
  <2>1. \A pg \in Page : pipe[pg] = {}
    BY DEF Files!Init
  <2> QED  BY <1>7, <1>9, <2>1 DEF Files!EndsExact
<1>11. Files!InodesExact
  <2> SUFFICES ASSUME NEW i \in Inum
               PROVE  iref[i] = Shown(i) + Files!Todo(Files!Iput(i))
                        + Cardinality({q \in Proc : at[q] = Files!InOpen(i)})
                                + Cardinality({q \in Proc : at[q] # Files!None /\ cwd[q] = i})
    BY SizesOfFiles DEF Files!InodesExact, Shown
  <2>1. {q \in Proc : at[q] = Files!InOpen(i)} = {}
    BY <1>2, Apart
  <2>2. {q \in Proc : at[q] # Files!None /\ cwd[q] = i} = IF i = Root THEN {First} ELSE {}
    BY FilesAssumption, Apart DEF Files!Init
  <2>3. Cardinality({q \in Proc : at[q] # Files!None /\ cwd[q] = i}) = IF i = Root THEN 1 ELSE 0
    BY <2>2, FS_EmptySet, FS_Singleton
  <2>4. Cardinality({q \in Proc : at[q] = Files!InOpen(i)}) = 0
    BY <2>1, FS_EmptySet
  <2>5. iref[i] = IF i = Root THEN 1 ELSE 0
    BY DEF Files!Init
  <2>6. Shown(i) = 0 /\ Files!Todo(Files!Iput(i)) = 0
    <3> DEFINE es == Files!Entries("inode", i, FALSE)
               f == Files!Entries("inode", i, TRUE)
    <3>1. Shown(i) = es + f /\ es = 0 /\ f = 0
      BY <1>9 DEF Shown
    <3> HIDE DEF es, f
    <3>2. Shown(i) = 0
      BY <3>1
    <3> QED  BY <1>7, <3>2
  <2>7. CASE i = Root
    BY <2>3, <2>4, <2>5, <2>6, <2>7
  <2>8. CASE i # Root
    BY <2>3, <2>4, <2>5, <2>6, <2>8
  <2> QED  BY <2>7, <2>8
<1> QED  BY <1>1, <1>3, <1>5, <1>8, <1>10, <1>11 DEF FdInv, Files!DescInv

\* Stuttering changes nothing.
LEMMA FdSame == FdInv /\ UNCHANGED Files!descVars => FdInv'
<1> SUFFICES ASSUME FdInv, UNCHANGED Files!descVars
             PROVE  FdInv'
  OBVIOUS
<1>1. file' = file /\ ofile' = ofile /\ cwd' = cwd /\ at' = at /\ made' = made /\ todo' = todo
      /\ pipe' = pipe /\ iref' = iref
  BY DEF Files!descVars
<1>2. FdTypeOK'
  BY <1>1 DEF FdInv, FdTypeOK
<1>3. CallsInPlace' /\ EntriesInPlace'
  BY <1>1 DEF FdInv, CallsInPlace, EntriesInPlace
<1>4. Files!RefExact'
  BY <1>1, <1>2, QuietRef, FilesAssumption, Parts
<1>5. Files!EndsExact'
  BY <1>1, <1>2, ShownSame, EndsStep, FilesAssumption, Parts
<1>6. Files!InodesExact'
  <2>1. \A i \in Inum : iref'[i] = iref[i] - Shown(i) + Shown(i)' - Held(First, i) + Held(First, i)'
    <3> TAKE i \in Inum
    <3>1. Shown(i)' = Shown(i) /\ Held(First, i)' = Held(First, i)
      BY <1>1, ShownSame, HeldSame, FilesAssumption
    <3> QED  BY <1>1, <1>2, <3>1, HeldNat, ShownNat, FilesAssumption, Parts
  <2> QED  BY <1>1, <1>2, <2>1, InodesStep, FilesAssumption, Parts
<1> QED  BY <1>2, <1>3, <1>4, <1>5, <1>6, Whole

\* Each step keeps the invariant.
LEMMA FdNext == FdInv /\ [Files!Next]_(Files!descVars) => FdInv'
<1> SUFFICES ASSUME FdInv, Files!Next
             PROVE  FdInv'
  BY FdSame
<1>1. PICK p \in Proc : \/ Files!CloseFile(p) \/ Files!CloseEnd(p) \/ Files!Exit(p)
                        \/ Files!ExitEnd(p)
                        \/ \E fd \in Files!Fd :
                              Files!Dup(p, fd) \/ Files!Close(p, fd) \/ Files!ExitClose(p, fd)
                        \/ \E q \in Proc : Files!Fork(p, q)
                        \/ \E i \in Inum : Files!Chdir(p, i)
                        \/ \E i \in Opens : \/ Files!OpenCall(p, i) \/ Files!OpenAlloc(p, i)
                                            \/ Files!OpenDone(p, i) \/ Files!OpenFail(p, i)
                        \/ Files!PipeFile(p) \/ Files!PipeFail(p)
                        \/ \E pg \in Page : Files!PipeDone(p, pg)
  BY DEF Files!Next
<1>2. CASE \E fd \in Files!Fd : Files!Close(p, fd)
  BY <1>2, ClosesFd DEF Files!Close, Files!Syscall
<1>3. CASE \E fd \in Files!Fd : Files!ExitClose(p, fd)
  BY <1>3, ClosesFd DEF Files!ExitClose
<1>4. CASE Files!CloseFile(p) \/ Files!CloseEnd(p) \/ Files!Exit(p) \/ Files!ExitEnd(p)
  BY <1>4, CloseFileInv, CloseEndInv, ExitInv, ExitEndInv
<1>5. CASE \/ \E fd \in Files!Fd : Files!Dup(p, fd)
           \/ \E q \in Proc : Files!Fork(p, q)
           \/ \E i \in Inum : Files!Chdir(p, i)
  BY <1>5, DupInv, ForkInv, ChdirInv
<1>6. CASE \E i \in Opens :
              Files!OpenCall(p, i) \/ Files!OpenAlloc(p, i) \/ Files!OpenDone(p, i)
                                   \/ Files!OpenFail(p, i)
  BY <1>6, OpenCallInv, OpenAllocInv, OpenDoneInv, OpenFailInv
<1>7. CASE Files!PipeFile(p) \/ Files!PipeFail(p) \/ \E pg \in Page : Files!PipeDone(p, pg)
  BY <1>7, PipeFileInv, PipeFailInv, PipeDoneInv
<1> QED  BY <1>1, <1>2, <1>3, <1>4, <1>5, <1>6, <1>7

\* Whatever the processes do, however many they, entries and descriptors are, no reference
\* to an open file, to a pipe's end or to an inode is lost or counted twice (filedup,
\* fileclose, fork, exit).
THEOREM DescInvariant == Files!Spec => []DescInv
<1>1. FdInv => DescInv
  BY DEF FdInv, DescInv
<1> QED  BY <1>1, FdInit, FdNext, PTL DEF Files!Spec

-------------------------------------------------------------------------------
(* The objects behind the descriptors *)

ObjsOf(f) == [s \in Files!Slot |-> [type |-> f[s].type, obj |-> f[s].obj,
                                    writable |-> f[s].writable]]
Objs == ObjsOf(file)
Look(h, f) == [fd \in Files!Fd \ Files!FreeFds(f) |-> h[f[fd]]]
View == [p \in Proc |-> [fd \in Files!Fd \ Files!FreeFds(ofile[p]) |-> Files!Object(ofile[p][fd])]]

\* fdalloc opens the lowest number for the entry's object.
LEMMA LookOpened ==
  ASSUME NEW h, NEW f \in Row, Files!FreeFds(f) # {}, NEW s \in Files!Slot
  PROVE  Look(h, Files!Fdalloc(f, s)) = Files!Numbers!Opened(Look(h, f), h[s])
<1> DEFINE m == Files!Min(Files!FreeFds(f))
           g == Files!Fdalloc(f, s)
<1>1. /\ m \in Files!FreeFds(f) /\ m \in Files!Fd /\ g \in Row /\ g = [f EXCEPT ![m] = s]
      /\ Files!FreeFds(g) = Files!FreeFds(f) \ {m}
  BY FdallocIs DEF Files!FreeFds, Files!Fdalloc
<1>2. /\ DOMAIN Look(h, f) = Files!Fd \ Files!FreeFds(f)
      /\ Files!Fd \ DOMAIN Look(h, f) = Files!FreeFds(f)
  BY DEF Look, Files!FreeFds
<1> HIDE DEF m, g
<1>3. Files!Numbers!Opened(Look(h, f), h[s])
        = [fd \in {m} \cup (Files!Fd \ Files!FreeFds(f)) |-> IF fd = m THEN h[s] ELSE h[f[fd]]]
  <2> DEFINE L == Look(h, f)
             v == h[s]
  <2>1. Files!Numbers!Opened(L, v) = [x \in {m} \cup DOMAIN L |-> IF x = m THEN v ELSE L[x]]
    <3>1. Files!Min(Files!Fd \ DOMAIN L) = m /\ Files!Numbers!Min(Files!Fd \ DOMAIN L) = m
      BY <1>2 DEF m, Files!Min, Files!Numbers!Min
    <3> HIDE DEF L, v
    <3> QED  BY <3>1 DEF Files!Numbers!Opened
  <2>3. \A x \in Files!Fd \ Files!FreeFds(f) : L[x] = h[f[x]]
    BY DEF Look
  <2>4. DOMAIN L = Files!Fd \ Files!FreeFds(f)
    BY <1>2
  <2> HIDE DEF L, v
  <2>5. Files!Numbers!Opened(L, v)
          = [x \in {m} \cup (Files!Fd \ Files!FreeFds(f)) |-> IF x = m THEN v ELSE h[f[x]]]
    BY <2>1, <2>3, <2>4
  <2> QED  BY <2>5 DEF L, v
<1>4. Look(h, g) = [fd \in {m} \cup (Files!Fd \ Files!FreeFds(f)) |-> IF fd = m THEN h[s]
                    ELSE h[f[fd]]]
  <2>1. Files!Fd \ Files!FreeFds(g) = {m} \cup (Files!Fd \ Files!FreeFds(f))
    BY <1>1
  <2>2. \A fd \in Files!Fd : g[fd] = IF fd = m THEN s ELSE f[fd]
    BY <1>1 DEF Row
  <2> QED  BY <2>1, <2>2 DEF Look
<1> QED  BY <1>3, <1>4 DEF g

\* Clearing a descriptor closes that number.
LEMMA LookClosed ==
  ASSUME NEW h, NEW f \in Row, NEW fd \in Files!Fd, f[fd] # 0
  PROVE  Look(h, [f EXCEPT ![fd] = 0]) = Files!Restrict(Look(h, f), DOMAIN Look(h, f) \ {fd})
<1> DEFINE g == [f EXCEPT ![fd] = 0]
<1>1. Files!FreeFds(g) = Files!FreeFds(f) \cup {fd} /\ \A n \in Files!Fd : n # fd => g[n] = f[n]
  BY DEF Files!FreeFds, Row
<1> HIDE DEF g
<1>2. Files!Restrict(Look(h, f), DOMAIN Look(h, f) \ {fd})
        = [n \in (Files!Fd \ Files!FreeFds(f)) \ {fd} |-> h[f[n]]]
  BY DEF Look, Files!Restrict
<1>3. Look(h, g) = [n \in (Files!Fd \ Files!FreeFds(f)) \ {fd} |-> h[f[n]]]
  <2>1. Files!Fd \ Files!FreeFds(g) = (Files!Fd \ Files!FreeFds(f)) \ {fd}
    BY <1>1
  <2> QED  BY <1>1, <2>1 DEF Look
<1> QED  BY <1>2, <1>3 DEF g

\* Descriptors of the same objects look the same.
LEMMA LookSame ==
  ASSUME NEW h, NEW k, NEW f, \A fd \in Files!Fd : f[fd] # 0 => k[f[fd]] = h[f[fd]]
  PROVE  Look(k, f) = Look(h, f)
BY DEF Look, Files!FreeFds

\* Without descriptors there is nothing to see.
LEMMA LookNone ==
  ASSUME NEW h
  PROVE  Look(h, Files!Closed) = << >>
<1>1. Files!Fd \ Files!FreeFds(Files!Closed) = {}
  BY DEF Files!FreeFds, Files!Closed
<1>2. DOMAIN Look(h, Files!Closed) = {}
  BY <1>1 DEF Look
<1> QED  BY <1>1, <1>2 DEF Look

\* What FdTable sees of the state.
Views(f, o) == [p \in Proc |-> [fd \in Files!Fd \ Files!FreeFds(o[p]) |->
                 [type |-> f[o[p][fd]].type, obj |-> f[o[p][fd]].obj,
                  writable |-> f[o[p][fd]].writable]]]

\* The view is made of what each process sees.
LEMMA ViewOf ==
  ASSUME NEW f, NEW o \in [Proc -> Row]
  PROVE  Views(f, o) = [p \in Proc |-> Look(ObjsOf(f), o[p])]
<1>1. ASSUME NEW p \in Proc
      PROVE  [fd \in Files!Fd \ Files!FreeFds(o[p]) |->
                [type |-> f[o[p][fd]].type, obj |-> f[o[p][fd]].obj,
                 writable |-> f[o[p][fd]].writable]]
             = Look(ObjsOf(f), o[p])
  <2>1. \A fd \in Files!Fd \ Files!FreeFds(o[p]) : o[p][fd] \in Files!Slot
    BY DEF Row, Files!FreeFds
  <2> QED  BY <2>1 DEF Look, ObjsOf
<1> QED  BY <1>1 DEF Views

\* So it is of the state,
LEMMA ViewIs ==
  ASSUME FdTypeOK
  PROVE  View = [p \in Proc |-> Look(Objs, ofile[p])]
<1>1. View = Views(file, ofile)
  BY DEF View, Views, Files!Object
<1> QED  BY <1>1, ViewOf DEF FdTypeOK, Objs

\* and of the next one.
LEMMA ViewNextIs ==
  ASSUME FdTypeOK'
  PROVE  View' = [p \in Proc |-> Look(Objs', ofile'[p])]
<1>1. ofile' \in [Proc -> Row]
  BY DEF FdTypeOK, Row
<1>2. View' = Views(file', ofile')
  BY DEF View, Views, Files!Object, Files!FreeFds
<1>3. Objs' = ObjsOf(file')
  BY DEF Objs, ObjsOf
<1> QED  BY <1>1, <1>2, <1>3, ViewOf

\* The objects of the entries that descriptors stand for are not changed.
Same(s) == /\ file'[s].type = file[s].type /\ file'[s].obj = file[s].obj
           /\ file'[s].writable = file[s].writable
Kept == \A q \in Proc, s \in Files!Slot : Files!Stand(q, s) # {} => Same(s)

\* A process that does nothing sees nothing change.
LEMMA LookKept ==
  ASSUME FdTypeOK, Kept, NEW q \in Proc
  PROVE  Look(Objs', ofile[q]) = Look(Objs, ofile[q])
<1>1. ASSUME NEW fd \in Files!Fd, ofile[q][fd] # 0
      PROVE  Objs'[ofile[q][fd]] = Objs[ofile[q][fd]]
  <2> DEFINE s == ofile[q][fd]
  <2>1. s \in Files!Slot /\ fd \in Files!Stand(q, s)
    BY <1>1 DEF FdTypeOK, Row, Files!Stand
  <2> HIDE DEF s
  <2>2. Same(s)
    BY <2>1 DEF Kept
  <2>3. Objs' = ObjsOf(file') /\ Objs = ObjsOf(file)
    BY DEF Objs, ObjsOf
  <2> QED  BY <2>1, <2>2, <2>3 DEF s, ObjsOf, Same
<1> QED  BY <1>1, LookSame

\* Nobody sees anything change when no descriptor is set,
LEMMA ViewStays ==
  ASSUME FdTypeOK, FdTypeOK', Kept, ofile' = ofile
  PROVE  View' = View
<1>1. /\ View = [p \in Proc |-> Look(Objs, ofile[p])]
      /\ View' = [p \in Proc |-> Look(Objs', ofile'[p])]
  BY ViewIs, ViewNextIs
<1>2. \A p \in Proc : Look(Objs', ofile'[p]) = Look(Objs, ofile[p])
  BY LookKept
<1> QED  BY <1>1, <1>2

\* and only p when only p's are.
LEMMA ViewSet ==
  ASSUME FdTypeOK, FdTypeOK', Kept, NEW p \in Proc, \A q \in Proc \ {p} : ofile'[q] = ofile[q]
  PROVE  /\ View' = [View EXCEPT ![p] = Look(Objs', ofile'[p])]
         /\ View[p] = Look(Objs, ofile[p]) /\ Look(Objs', ofile[p]) = Look(Objs, ofile[p])
<1>1. /\ View = [q \in Proc |-> Look(Objs, ofile[q])]
      /\ View' = [q \in Proc |-> Look(Objs', ofile'[q])]
  BY ViewIs, ViewNextIs
<1>2. \A q \in Proc \ {p} : Look(Objs', ofile'[q]) = Look(Objs, ofile[q])
  BY LookKept
<1>3. Look(Objs', ofile[p]) = Look(Objs, ofile[p])
  BY LookKept
<1> QED  BY <1>1, <1>2, <1>3

\* Nobody has a descriptor for an entry of a call, or for one whose last reference is
\* being closed.
LEMMA MadeUnseen ==
  ASSUME FdInv, NEW p \in Proc, NEW s \in Files!ToSet(made[p]), NEW q \in Proc
  PROVE  Files!Stand(q, s) = {}
<1>1. Cardinality(Files!Stand(q, s)) = 0
  <2>1. CASE q = p
    BY <2>1, MadeAlone
  <2>2. CASE q # p
    <3>1. Share(q, s) = 0
      BY <2>2, MadeAlone
    <3>2. /\ Cardinality(Files!Stand(q, s)) \in Nat /\ Cardinality(Files!Places(made[q], s)) \in Nat
          /\ Cardinality(Files!Places(todo[q], Files!FileClose(s))) \in Nat
      BY Finite DEF FdInv
    <3> QED  BY <3>1, <3>2 DEF Share
  <2> QED  BY <2>1, <2>2
<1>2. IsFiniteSet(Files!Stand(q, s))
  BY Finite DEF FdInv
<1> QED  BY <1>1, <1>2, FS_EmptySet

\* The same of an entry whose last reference is a close to come.
LEMMA LastUnseen ==
  ASSUME FdInv, NEW p \in Proc, NEW s \in Files!Slot, file[s].ref = 1, todo[p] # << >>,
         Head(todo[p]) = Files!FileClose(s), NEW q \in Proc
  PROVE  Files!Stand(q, s) = {}
<1>1. FdTypeOK /\ Files!RefExact
  BY Parts
<1>2. Cardinality(Files!Places(todo[p], Files!FileClose(s))) >= 1
  <2> DEFINE t == todo[p]
  <2>1. t \in Seq(Job) /\ t # << >> /\ Head(t) = Files!FileClose(s)
    BY <1>1 DEF FdTypeOK
  <2> HIDE DEF t
  <2>2. 1 \in DOMAIN t /\ t[1] = Files!FileClose(s)
    BY <2>1
  <2>3. Cardinality(Files!Places(t, Files!FileClose(s))) >= 1
    BY <2>1, <2>2, PlacesIn
  <2> QED  BY <2>3 DEF t
<1>3. /\ Cardinality(Files!Stand(q, s)) \in Nat /\ Cardinality(Files!Places(made[q], s)) \in Nat
      /\ Cardinality(Files!Places(todo[q], Files!FileClose(s))) \in Nat
      /\ IsFiniteSet(Files!Stand(q, s))
      /\ Cardinality(Files!Stand(p, s)) \in Nat /\ Cardinality(Files!Places(made[p], s)) \in Nat
      /\ Cardinality(Files!Places(todo[p], Files!FileClose(s))) \in Nat
  BY <1>1, Finite
<1>4. /\ Share(q, s) = Cardinality(Files!Stand(q, s)) + Cardinality(Files!Places(made[q], s))
                       + Cardinality(Files!Places(todo[q], Files!FileClose(s)))
      /\ Share(p, s) = Cardinality(Files!Stand(p, s)) + Cardinality(Files!Places(made[p], s))
                       + Cardinality(Files!Places(todo[p], Files!FileClose(s)))
  BY DEF Share
<1>5. Cardinality(Files!Stand(q, s)) = 0
  <2>1. CASE q = p
    <3>1. Share(p, s) <= file[s].ref
      BY <1>1, ShareBound
    <3> QED  BY <1>2, <1>3, <1>4, <2>1, <3>1
  <2>2. CASE q # p
    <3>1. Share(p, s) + Share(q, s) <= file[s].ref
      BY <1>1, <2>2, SharesAdd
    <3> QED  BY <1>2, <1>3, <1>4, <3>1
  <2> QED  BY <2>1, <2>2
<1> QED  BY <1>3, <1>5, FS_EmptySet

\* An entry whose object is changed is one that nobody has.
Unseen(S) == \A s \in S, q \in Proc : Files!Stand(q, s) = {}

\* Changing the objects of entries that nobody has is not seen.
LEMMA KeptBut ==
  ASSUME NEW S, Unseen(S), \A s \in Files!Slot \ S : Same(s)
  PROVE  Kept
BY DEF Kept, Unseen

\* Nor is a step that changes no object.
LEMMA KeptAll ==
  ASSUME \A s \in Files!Slot : Same(s)
  PROVE  Kept
BY DEF Kept

\* Every step keeps the objects of entries that have descriptors: those of filealloc,
\* fileclose, sys_open and pipealloc change only entries that have none.
LEMMA AllKept ==
  ASSUME FdInv, NEW p \in Proc,
         \/ Files!CloseFile(p) \/ Files!CloseEnd(p) \/ Files!Exit(p) \/ Files!ExitEnd(p)
         \/ Files!PipeFile(p) \/ Files!PipeFail(p)
         \/ \E fd \in Files!Fd : Files!Dup(p, fd) \/ Files!Close(p, fd) \/ Files!ExitClose(p, fd)
         \/ \E q \in Proc : Files!Fork(p, q)
         \/ \E i \in Inum : Files!Chdir(p, i)
         \/ \E i \in Opens :
               Files!OpenCall(p, i) \/ Files!OpenAlloc(p, i) \/ Files!OpenDone(p, i)
                                    \/ Files!OpenFail(p, i)
         \/ \E pg \in Page : Files!PipeDone(p, pg)
  PROVE  Kept
<1>1. FdTypeOK
  BY Parts
<1>2. CASE file' = file
  BY <1>2, KeptAll DEF Same
<1>3. CASE Files!CloseFile(p)
  <2> DEFINE t == todo[p]
             s == Head(t).obj
  <2>1. t \in Seq(Job) /\ t # << >> /\ Head(t).do = "fileclose"
    BY <1>1, <1>3 DEF Files!CloseFile, FdTypeOK
  <2>2. Head(t) = Files!FileClose(s) /\ s \in Files!Slot
    <3> HIDE DEF t
    <3>1. Head(t) \in Job
      BY <2>1
    <3>2. PICK v \in Files!Slot : Head(t) = Files!FileClose(v)
      BY <2>1, <3>1, JobsApart DEF Job
    <3> QED  BY <3>2, JobsApart
  <2>3. CASE file[s].ref = 1
    <3>1. file' = [file EXCEPT ![s] = Files!Emptied(file[s])]
      BY <1>3, <2>3 DEF Files!CloseFile
    <3>2. \A q \in Proc : Files!Stand(q, s) = {}
      <4> HIDE DEF s
      <4> QED  BY <2>1, <2>2, <2>3, LastUnseen
    <3> HIDE DEF s
    <3>3. \A u \in Files!Slot \ {s} : file'[u] = file[u]
      BY <1>1, <3>1 DEF FdTypeOK
    <3>4. Unseen({s})
      BY <3>2 DEF Unseen
    <3> QED  BY <3>3, <3>4, KeptBut DEF Same
  <2>4. CASE file[s].ref # 1
    <3>1. file' = [file EXCEPT ![s] = Files!Dropped(file[s])]
      BY <1>3, <2>4 DEF Files!CloseFile
    <3> HIDE DEF s
    <3>2. /\ file'[s] = Files!Dropped(file[s])
          /\ (\A u \in Files!Slot : u # s => file'[u] = file[u]) /\ file[s] \in Entry
      BY <1>1, <2>2, <3>1 DEF FdTypeOK
    <3>3. \A u \in Files!Slot : Same(u)
      BY <3>2 DEF Files!Dropped, Entry, Same
    <3> QED  BY <3>3, KeptAll
  <2> QED  BY <2>3, <2>4
<1>4. CASE Files!PipeFile(p) \/ \E i \in Opens : Files!OpenAlloc(p, i)
  <2> DEFINE m == Files!Min(Files!FreeSlots)
  <2>1. Files!FreeSlots # {} /\ file' = [file EXCEPT ![m].ref = 1]
    BY <1>4 DEF Files!PipeFile, Files!OpenAlloc, Files!Filealloc
  <2>2. m \in Files!Slot
    BY <2>1, FreeIs
  <2> HIDE DEF m
  <2>3. \A u \in Files!Slot : Same(u)
    BY <1>1, <2>1, <2>2 DEF FdTypeOK, Entry, Same
  <2> QED  BY <2>3, KeptAll
<1>5. CASE \E fd \in Files!Fd : Files!Dup(p, fd)
  <2>1. PICK fd \in Files!Fd : Files!Dup(p, fd)
    BY <1>5
  <2> DEFINE s == ofile[p][fd]
  <2>2. file' = [file EXCEPT ![s] = Files!Filedup(file[s], 1)] /\ s \in Files!Slot
    BY <1>1, <2>1, OpenStands DEF Files!Dup
  <2> HIDE DEF s
  <2>3. /\ file'[s] = Files!Filedup(file[s], 1)
        /\ (\A u \in Files!Slot : u # s => file'[u] = file[u]) /\ file[s] \in Entry
    BY <1>1, <2>2 DEF FdTypeOK
  <2>4. \A u \in Files!Slot : Same(u)
    BY <2>3 DEF Files!Filedup, Entry, Same
  <2> QED  BY <2>4, KeptAll
<1>6. CASE \E q \in Proc : Files!Fork(p, q)
  <2>1. file' = [s \in Files!Slot |-> Files!Filedup(file[s], Cardinality(Files!Stand(p, s)))]
    BY <1>6, SizesOfFiles DEF Files!Fork
  <2>2. \A u \in Files!Slot : Same(u)
    <3> TAKE u \in Files!Slot
    <3> DEFINE n == Cardinality(Files!Stand(p, u))
    <3>1. file'[u] = Files!Filedup(file[u], n) /\ file[u] \in Entry
      BY <1>1, <2>1 DEF FdTypeOK
    <3> HIDE DEF n
    <3> QED  BY <3>1 DEF Files!Filedup, Entry, Same
  <2> QED  BY <2>2, KeptAll
<1>7. CASE \E i \in Opens : Files!OpenDone(p, i)
  <2> DEFINE t == made[p]
             m == Head(t)
  <2>1. PICK i \in Opens : Files!OpenDone(p, i)
    BY <1>7
  <2>2. t \in Seq(Files!Slot) /\ t # << >>
    BY <1>1, <2>1 DEF Files!OpenDone, FdTypeOK
  <2>3. m \in Files!ToSet(t) /\ m \in Files!Slot
    <3> HIDE DEF t
    <3> QED  BY <2>2 DEF Files!ToSet
  <2>4. \A u \in Files!Slot \ {m} : file'[u] = file[u]
    <3>1. PICK wr \in BOOLEAN : file'
            = [file EXCEPT ![m] = [@ EXCEPT !.type = "inode", !.obj = i, !.writable = wr]]
      BY <2>1 DEF Files!OpenDone
    <3> HIDE DEF m
    <3> QED  BY <1>1, <3>1 DEF FdTypeOK
  <2>5. Unseen({m})
    <3> HIDE DEF m
    <3> QED  BY <2>3, MadeUnseen DEF Unseen
  <2> HIDE DEF m
  <2> QED  BY <2>4, <2>5, KeptBut DEF Same
<1>8. CASE \E pg \in Page : Files!PipeDone(p, pg)
  <2> DEFINE t == made[p]
             a == t[1]
             b == t[2]
  <2>1. PICK pg \in Page : Files!PipeDone(p, pg)
    BY <1>8
  <2>2. t \in Seq(Files!Slot) /\ Len(t) = 2
    BY <1>1, <2>1 DEF Files!PipeDone, FdTypeOK
  <2>3. a \in Files!ToSet(t) /\ b \in Files!ToSet(t) /\ a \in Files!Slot /\ b \in Files!Slot
    <3> HIDE DEF t
    <3>1. 1 \in DOMAIN t /\ 2 \in DOMAIN t
      BY <2>2
    <3>4. \A k \in 1..Len(t) : t[k] \in Files!Slot
      BY <2>2, ElementOfSeq
    <3>2. a \in Files!Slot /\ b \in Files!Slot
      BY <2>2, <3>4
    <3>3. a \in Files!ToSet(t) /\ b \in Files!ToSet(t)
      BY <3>1 DEF Files!ToSet
    <3> QED  BY <3>2, <3>3
  <2>4. \A u \in Files!Slot \ {a, b} : file'[u] = file[u]
    <3>1. file' = [file EXCEPT ![a] = Files!PipeEnd(@, pg, FALSE), ![b]
                   = Files!PipeEnd(@, pg, TRUE)]
      BY <2>1 DEF Files!PipeDone
    <3> HIDE DEF a, b
    <3> QED  BY <1>1, <3>1 DEF FdTypeOK
  <2>5. Unseen({a, b})
    <3> HIDE DEF a, b
    <3> QED  BY <2>3, MadeUnseen DEF Unseen
  <2> HIDE DEF a, b
  <2> QED  BY <2>4, <2>5, KeptBut DEF Same
<1>9. CASE \/ Files!CloseEnd(p) \/ Files!Exit(p) \/ Files!ExitEnd(p) \/ Files!PipeFail(p)
           \/ \E fd \in Files!Fd : Files!Close(p, fd) \/ Files!ExitClose(p, fd)
           \/ \E i \in Inum : Files!Chdir(p, i)
           \/ \E i \in Opens : Files!OpenCall(p, i) \/ Files!OpenFail(p, i)
  <2>1. file' = file
    BY <1>9 DEF Files!CloseEnd, Files!Exit, Files!ExitEnd, Files!PipeFail, Files!Close,
       Files!ExitClose, Files!Chdir, Files!OpenCall, Files!OpenFail
  <2> QED  BY <1>2, <2>1
<1> QED  BY <1>3, <1>4, <1>5, <1>6, <1>7, <1>8, <1>9

-------------------------------------------------------------------------------
(* What each step does to the objects behind the descriptors *)

\* Free numbers are those of no object.
LEMMA FreeOf ==
  ASSUME NEW h, NEW f
  PROVE  /\ Files!Fd \ DOMAIN Look(h, f) = Files!FreeFds(f)
         /\ DOMAIN Look(h, f) = Files!Fd \ Files!FreeFds(f)
BY DEF Look, Files!FreeFds

\* close and exit close a number.
LEMMA ClosesIs ==
  ASSUME FdInv, FdInv', NEW p \in Proc, NEW fd \in Files!Fd,
         Files!Close(p, fd) \/ Files!ExitClose(p, fd)
  PROVE  View' = [View EXCEPT ![p] = Files!Restrict(@, DOMAIN @ \ {fd})]
<1> DEFINE f == ofile[p]
           g == [f EXCEPT ![fd] = 0]
<1>1. FdTypeOK /\ FdTypeOK' /\ f \in Row /\ f[fd] # 0
  BY Parts DEF FdInv, FdTypeOK, Files!Close, Files!ExitClose
<1>2. Kept
  BY AllKept
<1>3. ofile'[p] = g /\ \A q \in Proc \ {p} : ofile'[q] = ofile[q]
  BY <1>1 DEF Files!Close, Files!ExitClose, FdTypeOK
<1>4. /\ View' = [View EXCEPT ![p] = Look(Objs', ofile'[p])]
      /\ View[p] = Look(Objs, f) /\ Look(Objs', f) = Look(Objs, f)
  BY <1>1, <1>2, <1>3, ViewSet
<1>5. Look(Objs', g) = Files!Restrict(Look(Objs', f), DOMAIN Look(Objs', f) \ {fd})
  <2> HIDE DEF f
  <2> QED  BY <1>1, LookClosed
<1> HIDE DEF f, g
<1> QED  BY <1>3, <1>4, <1>5

\* dup opens the lowest one for the same object.
LEMMA DupIs ==
  ASSUME FdInv, FdInv', NEW p \in Proc, NEW fd \in Files!Fd, Files!Dup(p, fd)
  PROVE  /\ Files!Fd \ DOMAIN View[p] # {} /\ fd \in DOMAIN View[p]
         /\ View' = [View EXCEPT ![p] = Files!Numbers!Opened(@, @[fd])]
<1> DEFINE f == ofile[p]
           s == f[fd]
           g == Files!Fdalloc(f, s)
<1>1. FdTypeOK /\ FdTypeOK' /\ f \in Row /\ s # 0 /\ s \in Files!Slot /\ Files!FreeFds(f) # {}
  BY Parts DEF FdInv, FdTypeOK, Files!Dup, Row
<1>2. Kept
  BY AllKept
<1>3. ofile'[p] = g /\ \A q \in Proc \ {p} : ofile'[q] = ofile[q]
  BY <1>1 DEF Files!Dup, FdTypeOK
<1>4. /\ View' = [View EXCEPT ![p] = Look(Objs', ofile'[p])]
      /\ View[p] = Look(Objs, f) /\ Look(Objs', f) = Look(Objs, f)
  BY <1>1, <1>2, <1>3, ViewSet
<1>5. Look(Objs', g) = Files!Numbers!Opened(Look(Objs', f), Objs'[s])
  <2> HIDE DEF f, s
  <2> QED  BY <1>1, LookOpened DEF g
<1>6. /\ Look(Objs', f)[fd] = Objs'[s] /\ fd \in DOMAIN Look(Objs, f)
      /\ Files!Fd \ DOMAIN Look(Objs, f) = Files!FreeFds(f)
  BY <1>1 DEF Look, Files!FreeFds
<1> HIDE DEF f, g, s
<1>7. Look(Objs', g) = Files!Numbers!Opened(View[p], View[p][fd])
  BY <1>4, <1>5, <1>6
<1> QED  BY <1>1, <1>3, <1>4, <1>6, <1>7

\* fork gives the child, which has none, the numbers of its parent.
LEMMA ForkIs ==
  ASSUME FdInv, FdInv', NEW p \in Proc, NEW q \in Proc, Files!Fork(p, q)
  PROVE  View[q] = << >> /\ View' = [View EXCEPT ![q] = View[p]]
<1>1. FdTypeOK /\ FdTypeOK' /\ ofile[q] = Files!Closed /\ p # q
  BY Parts, Apart, SizesOfFiles DEF FdInv, CallsInPlace, Files!Fork, Files!Syscall
<1>2. Kept
  BY AllKept
<1>3. ofile'[q] = ofile[p] /\ \A rp \in Proc \ {q} : ofile'[rp] = ofile[rp]
  BY <1>1, SizesOfFiles DEF Files!Fork, FdTypeOK
<1>4. /\ View' = [View EXCEPT ![q] = Look(Objs', ofile'[q])]
      /\ View[q] = Look(Objs, ofile[q])
  BY <1>1, <1>2, <1>3, ViewSet
<1>5. Look(Objs', ofile[p]) = Look(Objs, ofile[p]) /\ View[p] = Look(Objs, ofile[p])
  BY <1>1, <1>2, LookKept, ViewIs
<1>6. Look(Objs, Files!Closed) = << >>
  BY LookNone
<1> QED  BY <1>1, <1>3, <1>4, <1>5, <1>6

\* What open may find, and the two ends of each pipe.
Found == {[type |-> "inode", obj |-> n, writable |-> wr] : n \in Inum, wr \in BOOLEAN}
EndOf(pg, wr) == [type |-> "pipe", obj |-> pg, writable |-> wr]
BothEnds == {[r |-> [type |-> "pipe", obj |-> pg, writable |-> FALSE],
              w |-> [type |-> "pipe", obj |-> pg, writable |-> TRUE]] : pg \in Page}
Gets(p, x) == View' = [View EXCEPT ![p] = Files!Numbers!Opened(@, x)]
GetsTwo(p, rp, wr) == View' = [View EXCEPT ![p]
                               = Files!Numbers!Opened(Files!Numbers!Opened(@, rp), wr)]

\* open opens a number for the inode that it has found.
LEMMA OpenIs ==
  ASSUME FdInv, FdInv', NEW p \in Proc, NEW i \in Opens, Files!OpenDone(p, i)
  PROVE  /\ Files!Fd \ DOMAIN View[p] # {}
         /\ \E x \in Found : Gets(p, x)
<1> DEFINE f == ofile[p]
           t == made[p]
           m == Head(t)
           g == Files!Fdalloc(f, m)
<1>1. FdTypeOK /\ FdTypeOK' /\ f \in Row /\ t \in Seq(Files!Slot) /\ Len(t) = 1 /\ t # << >>
  <2>1. FdTypeOK /\ CallsInPlace /\ at[p] = Files!InOpen(i) /\ t # << >>
    BY Parts DEF Files!OpenDone, Files!Goto
  <2>2. Len(t) \in 0..1 /\ t \in Seq(Files!Slot)
    BY <2>1 DEF CallsInPlace, Openings, FdTypeOK
  <2>3. FdTypeOK' /\ f \in Row
    BY <2>1 DEF FdInv, FdTypeOK
  <2> HIDE DEF t, f
  <2> QED  BY <2>1, <2>2, <2>3
<1>2. Kept
  BY AllKept
<1>3. m \in Files!Slot /\ m = t[1]
  <2> HIDE DEF t
  <2> QED  BY <1>1
<1>4. Files!FreeFds(f) # {}
  <2>1. Cardinality(Files!FreeFds(f)) >= Len(t)
    BY SizesOfFiles DEF Files!OpenDone, Files!HasRoom
  <2> HIDE DEF f, t
  <2>2. Files!FreeFds(f) = FdsFor(f, 0)
    BY DEF Files!FreeFds, FdsFor
  <2>3. Cardinality(Files!FreeFds(f)) \in Nat /\ IsFiniteSet(Files!FreeFds(f))
    BY <2>2, StandFinite
  <2> QED  BY <1>1, <2>1, <2>3, FS_EmptySet
<1>5. ofile' = [ofile EXCEPT ![p] = g]
  BY <1>1, <1>3 DEF Files!OpenDone, Files!Given
<1>6. ofile'[p] = g /\ \A q \in Proc \ {p} : ofile'[q] = ofile[q]
  BY <1>1, <1>5 DEF FdTypeOK
<1>7. /\ View' = [View EXCEPT ![p] = Look(Objs', ofile'[p])]
      /\ View[p] = Look(Objs, f) /\ Look(Objs', f) = Look(Objs, f)
  BY <1>1, <1>2, <1>6, ViewSet
<1>8. Look(Objs', g) = Files!Numbers!Opened(Look(Objs', f), Objs'[m])
  <2> HIDE DEF f, m
  <2> QED  BY <1>1, <1>3, <1>4, LookOpened DEF g
<1>9. PICK wr \in BOOLEAN : Objs'[m] = [type |-> "inode", obj |-> i, writable |-> wr]
  <2>1. PICK wr \in BOOLEAN : file'
          = [file EXCEPT ![m] = [@ EXCEPT !.type = "inode", !.obj = i, !.writable = wr]]
    BY DEF Files!OpenDone
  <2> HIDE DEF m
  <2>2. /\ file[m] \in Entry
        /\ file'[m] = [file[m] EXCEPT !.type = "inode", !.obj = i, !.writable = wr]
    BY <1>1, <1>3, <2>1 DEF FdTypeOK
  <2>3. file'[m].type = "inode" /\ file'[m].obj = i /\ file'[m].writable = wr
    BY <2>2 DEF Entry
  <2>4. Objs' = ObjsOf(file')
    BY DEF Objs, ObjsOf
  <2> QED  BY <1>3, <2>3, <2>4 DEF ObjsOf
<1>10. Files!Fd \ DOMAIN Look(Objs, f) = Files!FreeFds(f)
  BY FreeOf
<1> HIDE DEF f, t, m, g
<1>11. Files!Fd \ DOMAIN View[p] # {} /\ Gets(p, Objs'[m])
  BY <1>4, <1>6, <1>7, <1>8, <1>10 DEF Gets
<1>12. Objs'[m] \in Found
  <2>1. i \in Inum
    BY FilesAssumption
  <2> QED  BY <1>9, <2>1 DEF Found
<1> QED  BY <1>11, <1>12

\* What is left to do of a kind is a number.
LEMMA TodoNat ==
  ASSUME FdTypeOK, NEW x
  PROVE  Files!Todo(x) \in Nat
<1> DEFINE C == [q \in Proc |-> Files!Places(todo[q], x)]
<1>1. \A q \in Proc : IsFiniteSet(C[q])
  BY Finite
<1>2. Files!Count(C) = Files!Todo(x)
  BY DEF Files!Todo
<1> HIDE DEF C
<1>3. Files!Count(C) \in Nat
  BY <1>1, CountStep, FilesAssumption
<1> QED  BY <1>2, <1>3

\* The ends of a pipe in a page that holds none are nobody's.
LEMMA EndsUnseen ==
  ASSUME FdInv, NEW pg \in Page, pipe[pg] = {}, NEW v \in BOOLEAN, NEW q \in Proc,
         NEW fd \in Files!Fd,
         ofile[q][fd] # 0
  PROVE  Objs[ofile[q][fd]] # EndOf(pg, v)
<1> DEFINE s == ofile[q][fd]
<1>1. FdTypeOK /\ Files!EndsExact /\ Files!RefExact
  BY Parts
<1>2. \A u \in Files!Slot : ~Shows(file[u], "pipe", pg, v)
  <2> DEFINE es == Files!Entries("pipe", pg, v)
             d == Files!Todo(Files!PipeClose(pg, v))
  <2>1. es + d = 0
    BY <1>1 DEF Files!EndsExact
  <2>2. es \in Nat /\ d \in Nat
    BY <1>1, EntriesNat, TodoNat
  <2>3. es = 0
    <3> HIDE DEF es, d
    <3> QED  BY <2>1, <2>2
  <2> QED  BY <2>3, EntriesZero
<1>3. /\ s \in Files!Slot /\ Cardinality(Files!Stand(q, s)) \in Nat
      /\ Cardinality(Files!Stand(q, s)) > 0
  BY <1>1, OpenStands
<1> HIDE DEF s
<1>4. file[s].ref > 0
  <2> DEFINE a == Cardinality(Files!Stand(q, s))
             b == Cardinality(Files!Places(made[q], s))
             c == Cardinality(Files!Places(todo[q], Files!FileClose(s)))
  <2>1. /\ a \in Nat /\ a > 0 /\ b \in Nat /\ c \in Nat /\ Share(q, s) <= file[s].ref
        /\ file[s].ref \in Nat
    BY <1>1, <1>3, Finite, ShareBound DEF FdTypeOK, Entry
  <2>2. Share(q, s) = a + b + c
    BY DEF Share
  <2> HIDE DEF a, b, c
  <2> QED  BY <2>1, <2>2
<1>5. ~(file[s].type = "pipe" /\ file[s].obj = pg /\ file[s].writable = v)
  BY <1>2, <1>3, <1>4 DEF Shows
<1>6. Objs[s] = [type |-> file[s].type, obj |-> file[s].obj, writable |-> file[s].writable]
  BY <1>3 DEF Objs, ObjsOf
<1> QED  BY <1>5, <1>6 DEF s, EndOf

\* pipe opens two numbers for ends that nobody has, the read end at the lower one.
LEMMA PipeIs ==
  ASSUME FdInv, FdInv', NEW p \in Proc, NEW pg \in Page, Files!PipeDone(p, pg),
         Files!HasRoom(p), ofile' = Files!Given(p)
  PROVE  /\ Cardinality(Files!Fd \ DOMAIN View[p]) > 1
         /\ \A q \in Proc, v \in BOOLEAN : EndOf(pg, v) \notin Files!Range(View[q])
         /\ GetsTwo(p, EndOf(pg, FALSE), EndOf(pg, TRUE))
<1> DEFINE f == ofile[p]
           t == made[p]
           a == t[1]
           b == t[2]
           g == Files!Fdalloc(f, a)
           h == Files!Fdalloc(g, b)
<1>1. /\ FdTypeOK /\ FdTypeOK' /\ CallsInPlace /\ EntriesInPlace /\ f \in Row
      /\ t \in Seq(Files!Slot) /\ Len(t) = 2
      /\ pipe[pg] = {} /\ a \in Files!Slot /\ b \in Files!Slot /\ a # b
  <2>1. FdTypeOK /\ CallsInPlace /\ EntriesInPlace /\ Len(t) = 2 /\ pipe[pg] = {}
    BY Parts DEF Files!PipeDone
  <2>2. FdTypeOK' /\ f \in Row /\ t \in Seq(Files!Slot) /\ a # b
    BY <2>1 DEF FdInv, FdTypeOK, CallsInPlace
  <2>3. a \in Files!Slot /\ b \in Files!Slot
    <3>1. t \in Seq(Files!Slot) /\ Len(t) = 2
      BY <2>1, <2>2
    <3> HIDE DEF t
    <3> QED  BY <3>1
  <2> QED  BY <2>1, <2>2, <2>3
<1>2. Kept
  BY AllKept
<1>3. /\ Cardinality(Files!FreeFds(f)) > 1 /\ Files!FreeFds(f) # {} /\ g \in Row
      /\ Files!FreeFds(g) # {}
      /\ \A u : Cardinality(Files!FreeFds(u)) \in Nat /\ IsFiniteSet(Files!FreeFds(u))
  <2>1. \A u : Cardinality(Files!FreeFds(u)) \in Nat /\ IsFiniteSet(Files!FreeFds(u))
    BY StandFinite DEF FdsFor, Files!FreeFds
  <2>2. Cardinality(Files!FreeFds(f)) >= Len(t)
    BY SizesOfFiles DEF Files!HasRoom
  <2>3. Cardinality(Files!FreeFds(f)) > 1 /\ Files!FreeFds(f) # {}
    <3> HIDE DEF f, t
    <3> QED  BY <1>1, <2>1, <2>2, FS_EmptySet
  <2>4. g \in Row /\ Cardinality(Files!FreeFds(g)) = Cardinality(Files!FreeFds(f)) - 1
    <3> HIDE DEF f, a
    <3> QED  BY <1>1, <2>3, FdallocIs
  <2>5. Files!FreeFds(g) # {}
    <3> HIDE DEF f, g
    <3> QED  BY <2>1, <2>3, <2>4, FS_EmptySet
  <2> QED  BY <2>1, <2>3, <2>4, <2>5
<1>4. ofile' = [ofile EXCEPT ![p] = h]
  BY <1>1 DEF Files!Given
<1>5. ofile'[p] = h /\ \A q \in Proc \ {p} : ofile'[q] = ofile[q]
  BY <1>1, <1>4 DEF FdTypeOK
<1>6. /\ View' = [View EXCEPT ![p] = Look(Objs', ofile'[p])]
      /\ View[p] = Look(Objs, f) /\ Look(Objs', f) = Look(Objs, f)
  BY <1>1, <1>2, <1>5, ViewSet
<1>7. /\ Look(Objs', g) = Files!Numbers!Opened(Look(Objs', f), Objs'[a])
      /\ Look(Objs', h) = Files!Numbers!Opened(Look(Objs', g), Objs'[b])
  <2>1. Look(Objs', g) = Files!Numbers!Opened(Look(Objs', f), Objs'[a])
    <3> HIDE DEF f, a
    <3> QED  BY <1>1, <1>3, LookOpened DEF g
  <2> HIDE DEF g, b
  <2> QED  BY <1>1, <1>3, <2>1, LookOpened DEF h
<1>8. Objs'[a] = EndOf(pg, FALSE) /\ Objs'[b] = EndOf(pg, TRUE)
  <2>1. file' = [file EXCEPT ![a] = Files!PipeEnd(@, pg, FALSE), ![b] = Files!PipeEnd(@, pg, TRUE)]
    BY DEF Files!PipeDone
  <2> DEFINE x == Files!PipeEnd(file[a], pg, FALSE)
             y == Files!PipeEnd(file[b], pg, TRUE)
  <2>2. file[a] \in Entry /\ file[b] \in Entry
    BY <1>1 DEF FdTypeOK
  <2> HIDE DEF a, b
  <2>3. /\ x.type = "pipe" /\ x.obj = pg /\ x.writable = FALSE
        /\ y.type = "pipe" /\ y.obj = pg /\ y.writable = TRUE
    BY <2>2 DEF Entry, Files!PipeEnd
  <2>4. file'[a] = x /\ file'[b] = y
    BY <1>1, <2>1 DEF FdTypeOK
  <2>5. Objs' = ObjsOf(file')
    BY DEF Objs, ObjsOf
  <2> HIDE DEF x, y
  <2> QED  BY <1>1, <2>3, <2>4, <2>5 DEF ObjsOf, EndOf
<1>9. Files!Fd \ DOMAIN Look(Objs, f) = Files!FreeFds(f)
  BY FreeOf
<1>10. ASSUME NEW q \in Proc, NEW v \in BOOLEAN
       PROVE  EndOf(pg, v) \notin Files!Range(View[q])
  <2>1. View[q] = Look(Objs, ofile[q])
    BY <1>1, ViewIs
  <2>2. \A fd \in Files!Fd : ofile[q][fd] # 0 => Objs[ofile[q][fd]] # EndOf(pg, v)
    BY <1>1, EndsUnseen
  <2>3. EndOf(pg, v) \notin Files!Range(Look(Objs, ofile[q]))
    BY <2>2 DEF Files!Range, Look, Files!FreeFds
  <2> QED  BY <2>1, <2>3
<1> HIDE DEF f, t, a, b, g, h
<1>11. Cardinality(Files!Fd \ DOMAIN View[p]) > 1
  BY <1>3, <1>6, <1>9
<1>12. GetsTwo(p, EndOf(pg, FALSE), EndOf(pg, TRUE))
  BY <1>5, <1>6, <1>7, <1>8 DEF GetsTwo
<1> QED  BY <1>10, <1>11, <1>12

-------------------------------------------------------------------------------
(* Every step is one of FdTable's, or changes nothing that it sees *)

\* No process starts with a number.
LEMMA ViewStarts == Files!Init => View = [p \in Proc |-> << >>]
<1> SUFFICES ASSUME Files!Init
             PROVE  View = [p \in Proc |-> << >>]
  OBVIOUS
<1>1. View = [p \in Proc |-> Look(Objs, ofile[p])]
  BY FdInit, Parts, ViewIs
<1>2. \A p \in Proc : ofile[p] = Files!Closed
  BY DEF Files!Init
<1> QED  BY <1>1, <1>2, LookNone

\* Every step is one of FdTable's, or stutters.
LEMMA ViewNext == FdInv /\ FdInv' /\ [Files!Next]_(Files!descVars) => [Files!Numbers!Next]_View
<1> SUFFICES ASSUME FdInv, FdInv', [Files!Next]_(Files!descVars)
             PROVE  Files!Numbers!Next \/ View' = View
  OBVIOUS
<1>1. FdTypeOK /\ FdTypeOK'
  BY DEF FdInv
<1>2. CASE UNCHANGED Files!descVars
  <2>1. ofile' = ofile /\ Kept
    BY <1>2, KeptAll DEF Files!descVars, Same
  <2> QED  BY <1>1, <2>1, ViewStays
<1> SUFFICES ASSUME Files!Next
             PROVE  Files!Numbers!Next \/ View' = View
  BY <1>2
<1>3. PICK p \in Proc : \/ Files!CloseFile(p) \/ Files!CloseEnd(p) \/ Files!Exit(p)
                        \/ Files!ExitEnd(p)
                        \/ \E fd \in Files!Fd :
                              Files!Dup(p, fd) \/ Files!Close(p, fd) \/ Files!ExitClose(p, fd)
                        \/ \E q \in Proc : Files!Fork(p, q)
                        \/ \E i \in Inum : Files!Chdir(p, i)
                        \/ \E i \in Opens : \/ Files!OpenCall(p, i) \/ Files!OpenAlloc(p, i)
                                            \/ Files!OpenDone(p, i) \/ Files!OpenFail(p, i)
                        \/ Files!PipeFile(p) \/ Files!PipeFail(p)
                        \/ \E pg \in Page : Files!PipeDone(p, pg)
  BY DEF Files!Next
<1>4. Kept
  BY <1>3, AllKept
<1>5. CASE ofile' = ofile
  BY <1>1, <1>4, <1>5, ViewStays
<1>6. CASE \E fd \in Files!Fd : Files!Close(p, fd) \/ Files!ExitClose(p, fd)
  <2>1. PICK fd \in Files!Fd : Files!Close(p, fd) \/ Files!ExitClose(p, fd)
    BY <1>6
  <2>2. View' = [View EXCEPT ![p] = Files!Restrict(@, DOMAIN @ \ {fd})]
    BY <2>1, ClosesIs
  <2>3. Files!Numbers!Close(p, fd)
    BY <2>2 DEF Files!Numbers!Close, View, Files!Restrict, Files!Numbers!Restrict
  <2> QED  BY <2>3 DEF Files!Numbers!Next
<1>7. CASE \E fd \in Files!Fd : Files!Dup(p, fd)
  <2>1. PICK fd \in Files!Fd : Files!Dup(p, fd)
    BY <1>7
  <2>2. /\ Files!Fd \ DOMAIN View[p] # {} /\ fd \in DOMAIN View[p]
        /\ View' = [View EXCEPT ![p] = Files!Numbers!Opened(@, @[fd])]
    BY <2>1, DupIs
  <2>3. Files!Numbers!Dup(p, fd)
    BY <2>2 DEF Files!Numbers!Dup, Files!Numbers!Free, View
  <2> QED  BY <2>3 DEF Files!Numbers!Next
<1>8. CASE \E q \in Proc : Files!Fork(p, q)
  <2>1. PICK q \in Proc : Files!Fork(p, q)
    BY <1>8
  <2>2. View[q] = << >> /\ View' = [View EXCEPT ![q] = View[p]]
    BY <2>1, ForkIs
  <2>3. Files!Numbers!Fork(p, q)
    BY <2>2 DEF Files!Numbers!Fork, View
  <2> QED  BY <2>3 DEF Files!Numbers!Next
<1>9. CASE \E i \in Opens : Files!OpenDone(p, i)
  <2>1. Files!Fd \ DOMAIN View[p] # {} /\ \E x \in Found : Gets(p, x)
    BY <1>9, OpenIs
  <2>2. Files!Numbers!Open(p) <=> Files!Numbers!Free(p) # {} /\ \E x \in Found : Gets(p, x)
    BY DEF Files!Numbers!Open, View, Found, Gets
  <2>3. Files!Numbers!Free(p) = Files!Fd \ DOMAIN View[p]
    BY DEF Files!Numbers!Free, View
  <2> QED  BY <2>1, <2>2, <2>3 DEF Files!Numbers!Next
<1>10. CASE \E pg \in Page : Files!PipeDone(p, pg) /\ Files!HasRoom(p) /\ ofile' = Files!Given(p)
  <2>1. PICK pg \in Page : Files!PipeDone(p, pg) /\ Files!HasRoom(p) /\ ofile' = Files!Given(p)
    BY <1>10
  <2> DEFINE rp == EndOf(pg, FALSE)
             wr == EndOf(pg, TRUE)
  <2>2. /\ Cardinality(Files!Fd \ DOMAIN View[p]) > 1
        /\ \A q \in Proc, v \in BOOLEAN : EndOf(pg, v) \notin Files!Range(View[q])
        /\ GetsTwo(p, rp, wr)
    BY <2>1, PipeIs
  <2>3. \A q \in Proc : rp \notin Files!Range(View[q]) /\ wr \notin Files!Range(View[q])
    BY <2>2
  <2>4. PICK es \in BothEnds : es.r = rp /\ es.w = wr
    <3>1. [r |-> rp, w |-> wr] \in BothEnds
      BY DEF BothEnds, EndOf
    <3> QED  BY <3>1
  <2> HIDE DEF rp, wr
  <2>5. Files!Numbers!InUse = UNION {Files!Range(View[q]) : q \in Proc}
    BY DEF Files!Numbers!InUse, Files!Numbers!Range, Files!Range, View
  <2>6. Files!Numbers!InUse \cap {es.r, es.w} = {}
    <3> DEFINE U == {Files!Range(View[q]) : q \in Proc}
    <3>1. \A R \in U : rp \notin R /\ wr \notin R
      BY <2>3
    <3> HIDE DEF U
    <3>2. rp \notin UNION U /\ wr \notin UNION U
      BY <3>1
    <3>3. Files!Numbers!InUse = UNION U
      BY <2>5 DEF U
    <3> QED  BY <2>4, <3>2, <3>3
  <2>7. Files!Numbers!Pipe(p) <=> /\ Files!Numbers!Cardinality(Files!Numbers!Free(p)) > 1
                           /\ \E x \in BothEnds :
                                 Files!Numbers!InUse \cap {x.r, x.w} = {} /\ GetsTwo(p, x.r, x.w)
    BY DEF Files!Numbers!Pipe, View, BothEnds, GetsTwo
  <2>8. Files!Numbers!Free(p) = Files!Fd \ DOMAIN View[p]
    BY DEF Files!Numbers!Free, View
  <2>9. \A S : Files!Numbers!Cardinality(S) = Cardinality(S)
    BY DEF Files!Numbers!Cardinality, Cardinality, Files!Numbers!IsFiniteSet, IsFiniteSet
  <2> QED  BY <2>2, <2>4, <2>6, <2>7, <2>8, <2>9 DEF Files!Numbers!Next
<1>11. CASE \/ Files!CloseFile(p) \/ Files!CloseEnd(p) \/ Files!Exit(p) \/ Files!ExitEnd(p)
            \/ Files!PipeFile(p) \/ Files!PipeFail(p)
            \/ \E i \in Inum : Files!Chdir(p, i)
            \/ \E i \in Opens :
                  Files!OpenCall(p, i) \/ Files!OpenAlloc(p, i) \/ Files!OpenFail(p, i)
  <2>1. ofile' = ofile
    BY <1>11 DEF Files!CloseFile, Files!CloseEnd, Files!Exit, Files!ExitEnd, Files!PipeFile,
       Files!PipeFail, Files!Chdir, Files!OpenCall, Files!OpenAlloc, Files!OpenFail
  <2> QED  BY <1>5, <2>1
<1>12. CASE \E pg \in Page : Files!PipeDone(p, pg)
  <2>1. PICK pg \in Page : Files!PipeDone(p, pg)
    BY <1>12
  <2>2. ofile' = ofile \/ (Files!HasRoom(p) /\ ofile' = Files!Given(p))
    BY <2>1 DEF Files!PipeDone
  <2> QED  BY <1>5, <1>10, <2>1, <2>2
<1> QED  BY <1>3, <1>6, <1>7, <1>8, <1>9, <1>11, <1>12

\* Descriptors are numbers for open objects, lowest first, and nobody but their process
\* takes them away: the file table, its counts and its reuse of entries are not seen
\* (FdTable).
THEOREM DescriptorsRefinement == Files!Spec => ImplementsDescriptors
<1>1. Files!Spec => (View = [p \in Proc |-> << >>]) /\ [][Files!Numbers!Next]_View
  BY FdInit, FdNext, ViewStarts, ViewNext, PTL DEF Files!Spec
<1> QED  BY <1>1, PTL DEF ImplementsDescriptors, Files!ImplementsDescriptors,
            Files!Numbers!Spec, View
===============================================================================
