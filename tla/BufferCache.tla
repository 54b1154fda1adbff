------------------------------- MODULE BufferCache -------------------------------
(***************************************************************************)
(* kernel/bio.c: NBUF buffers cache disk blocks; bget recycles the least     *)
(* recently used one that nobody refers to.  The callers are log.c's: what   *)
(* they change they pin with log_write, or write with bwrite, before brelse. *)
(* A disk transfer is one step (VirtioDisk shows what that takes), and so is *)
(* a critical section of bcache.lock.                                        *)
(***************************************************************************)
EXTENDS Integers, FiniteSets, TLC

CONSTANTS Thread, Nobody, Block, NoBlock, Val,
          NBUF,
          MaxPinned      \* blocks that calls log before a commit, at most

ASSUME SizeAssumption == NBUF \in Nat \ {0} /\ MaxPinned \in Nat
ASSUME ThreadAssumption == IsFiniteSet(Thread)
ASSUME NobodyAssumption == Nobody \notin Thread /\ NoBlock \notin Block
ASSUME ValAssumption == 0 \in Val

VARIABLES disk,
          lru,                               \* the list, head.next first
          blockno, valid, data, refcnt,      \* struct buf
          slock,                             \* holder of b->lock
          pinned,                            \* buffers in log.lh
          pc, buf,                           \* per thread: place, its buffer
          panicked

bufVars == <<blockno, valid, data, refcnt>>
vars == <<disk, lru, bufVars, slock, pinned, pc, buf, panicked>>

Buf == 1..NBUF
NoBuf == 0
PC == {"out", "lock", "read", "use", "dirty", "unpin", "relse"}

TypeOK == /\ disk \in [Block -> Val]
          /\ lru \in [Buf -> Buf] /\ \A b \in Buf : \E i \in Buf : lru[i] = b
          /\ blockno \in [Buf -> Block \cup {NoBlock}] /\ valid \in [Buf -> BOOLEAN]
          /\ data \in [Buf -> Val] /\ refcnt \in [Buf -> 0..(Cardinality(Thread) + 1)]
          /\ slock \in [Buf -> Thread \cup {Nobody}] /\ pinned \subseteq Buf
          /\ pc \in [Thread -> PC] /\ buf \in [Thread -> Buf \cup {NoBuf}]
          /\ panicked \in BOOLEAN

\* binit: every buffer is inserted at the head
Init == /\ disk = [k \in Block |-> 0]
        /\ lru = [i \in Buf |-> NBUF + 1 - i]
        /\ blockno = [b \in Buf |-> NoBlock] /\ valid = [b \in Buf |-> FALSE]
        /\ data = [b \in Buf |-> 0] /\ refcnt = [b \in Buf |-> 0]
        /\ slock = [b \in Buf |-> Nobody] /\ pinned = {}
        /\ pc = [t \in Thread |-> "out"] /\ buf = [t \in Thread |-> NoBuf]
        /\ panicked = FALSE

Goto(t, from, to) == pc[t] = from /\ pc' = [pc EXCEPT ![t] = to]

-------------------------------------------------------------------------------
(* bread *)

\* Mutant: a buffer that is still being read does not count.
Cached_Valid(k) == {b \in Buf : blockno[b] = k /\ valid[b]}

Cached(k) == {b \in Buf : blockno[b] = k}

\* Mutant: a buffer in use is taken away.
Free_Any == {b \in Buf : slock[b] = Nobody}

Free == {b \in Buf : refcnt[b] = 0}

\* bget's first critical section, when the block is cached ...
BgetHit(t, k) == /\ Goto(t, "out", "lock")
                 /\ ~panicked
                 /\ \E b \in Cached(k) : /\ refcnt' = [refcnt EXCEPT ![b] = @ + 1]
                                         /\ buf' = [buf EXCEPT ![t] = b]
                 /\ UNCHANGED <<disk, lru, blockno, valid, data, slock, pinned, panicked>>

\* ... and when it is not: the least recently used free buffer is recycled, or
\* there is none
Oldest == lru[CHOOSE i \in Buf : lru[i] \in Free /\ \A j \in (i + 1)..NBUF : lru[j] \notin Free]

BgetMiss(t, k) ==
  /\ pc[t] = "out" /\ ~panicked
  /\ Cached(k) = {}
  /\ IF Free = {}
     THEN panicked' = TRUE /\ UNCHANGED <<bufVars, pc, buf>>
     ELSE /\ pc' = [pc EXCEPT ![t] = "lock"]
          /\ buf' = [buf EXCEPT ![t] = Oldest]
          /\ blockno' = [blockno EXCEPT ![Oldest] = k]
          /\ valid' = [valid EXCEPT ![Oldest] = FALSE]
          /\ refcnt' = [refcnt EXCEPT ![Oldest] = 1]
          /\ UNCHANGED <<data, panicked>>
  /\ UNCHANGED <<disk, lru, slock, pinned>>

\* acquiresleep(&b->lock)
Lock(t) == /\ Goto(t, "lock", "read")
           /\ slock[buf[t]] = Nobody
           /\ slock' = [slock EXCEPT ![buf[t]] = t]
           /\ UNCHANGED <<disk, lru, bufVars, pinned, buf, panicked>>

Read(t) == LET b == buf[t] IN
           /\ Goto(t, "read", "use")
           /\ valid' = [valid EXCEPT ![b] = TRUE]
           /\ data' = IF valid[b] THEN data ELSE [data EXCEPT ![b] = disk[blockno[b]]]
           /\ UNCHANGED <<disk, lru, blockno, refcnt, slock, pinned, buf, panicked>>

-------------------------------------------------------------------------------
(* What the callers do with a locked buffer *)

Modify(t) == /\ Goto(t, "use", "dirty")
             /\ \E v \in Val : data' = [data EXCEPT ![buf[t]] = v]
             /\ UNCHANGED <<disk, lru, blockno, valid, refcnt, slock, pinned, buf, panicked>>

Bpin(b) == refcnt' = IF b \in pinned THEN refcnt ELSE [refcnt EXCEPT ![b] = @ + 1]

\* log_write pins a block that it adds to the log
LogWrite(t) == LET b == buf[t] IN
               /\ Goto(t, "dirty", "use")
               /\ b \in pinned \/ Cardinality(pinned) < MaxPinned
               /\ Bpin(b)
               /\ pinned' = pinned \cup {b}
               /\ UNCHANGED <<disk, lru, blockno, valid, data, slock, buf, panicked>>

\* bwrite of a block that is not logged: log.c's own blocks
Bwrite(t) == /\ Goto(t, "dirty", "use")
             /\ buf[t] \notin pinned
             /\ disk' = [disk EXCEPT ![blockno[buf[t]]] = data[buf[t]]]
             /\ UNCHANGED <<lru, bufVars, slock, pinned, buf, panicked>>

\* install_trans: bwrite ...
Install(t) == /\ Goto(t, "use", "unpin")
              /\ buf[t] \in pinned
              /\ disk' = [disk EXCEPT ![blockno[buf[t]]] = data[buf[t]]]
              /\ UNCHANGED <<lru, bufVars, slock, pinned, buf, panicked>>

\* ... and bunpin
Bunpin(t) == /\ Goto(t, "unpin", "use")
             /\ refcnt' = [refcnt EXCEPT ![buf[t]] = @ - 1]
             /\ pinned' = pinned \ {buf[t]}
             /\ UNCHANGED <<disk, lru, blockno, valid, data, slock, buf, panicked>>

-------------------------------------------------------------------------------
(* brelse *)

Unlock(t) == /\ Goto(t, "use", "relse")
             /\ slock' = [slock EXCEPT ![buf[t]] = Nobody]
             /\ UNCHANGED <<disk, lru, bufVars, pinned, buf, panicked>>

ToHead(b) == LET place == CHOOSE i \in Buf : lru[i] = b IN
             [i \in Buf |-> IF i = 1 THEN b ELSE IF i <= place THEN lru[i - 1] ELSE lru[i]]

Brelse(t) == LET b == buf[t] IN
             /\ Goto(t, "relse", "out")
             /\ refcnt' = [refcnt EXCEPT ![b] = @ - 1]
             /\ lru' = IF refcnt[b] = 1 THEN ToHead(b) ELSE lru
             /\ buf' = [buf EXCEPT ![t] = NoBuf]
             /\ UNCHANGED <<disk, blockno, valid, data, slock, pinned, panicked>>

-------------------------------------------------------------------------------

Next == \E t \in Thread : \/ \E k \in Block : BgetHit(t, k) \/ BgetMiss(t, k)
                          \/ Lock(t) \/ Read(t) \/ Modify(t) \/ LogWrite(t) \/ Bwrite(t)
                          \/ Install(t) \/ Bunpin(t) \/ Unlock(t) \/ Brelse(t)

Spec == Init /\ [][Next]_vars

-------------------------------------------------------------------------------
(* Properties *)

\* refcnt counts the threads between bget and brelse and the log's pin, so that
\* a buffer is recycled when, and only when, nobody needs it.
Users(b) == {t \in Thread : buf[t] = b}
Pin(b) == IF b \in pinned THEN 1 ELSE 0
RefExact == \A b \in Buf : refcnt[b] = Cardinality(Users(b)) + Pin(b)

\* No block is cached twice, also while it is being read.
OneBuffer == \A b, c \in Buf : blockno[b] = blockno[c] /\ blockno[b] # NoBlock => b = c

\* "bget: no buffers" is not reached where buffers are as many as the blocks
\* that may be pinned and the threads that may hold one.
NoPanic == Cardinality(Thread) + MaxPinned <= NBUF => ~panicked

\* A thread has a buffer, with a block, from bget to brelse, and alone has its lock
\* from acquiresleep to releasesleep.
Locked == {"read", "use", "dirty", "unpin"}
HoldersExact ==
  /\ \A t \in Thread : /\ pc[t] = "out" <=> buf[t] = NoBuf
                       /\ buf[t] # NoBuf => blockno[buf[t]] # NoBlock
                       /\ pc[t] \in Locked => slock[buf[t]] = t
  /\ \A b \in Buf : slock[b] # Nobody => buf[slock[b]] = b /\ pc[slock[b]] \in Locked

\* What is in a buffer: nothing differs from the disk but what is pinned in the log,
\* or about to be logged or written.  So a buffer that nobody needs can be recycled.
PinnedOrWritten ==
  /\ Cardinality(pinned) <= MaxPinned
  /\ \A b \in Buf : /\ b \in pinned => valid[b]
                    /\ valid[b] => blockno[b] # NoBlock
                    /\ valid[b] /\ b \notin pinned /\ data[b] # disk[blockno[b]] =>
                         slock[b] # Nobody /\ pc[slock[b]] = "dirty"
  /\ \A t \in Thread : /\ pc[t] \in {"use", "dirty", "unpin"} => valid[buf[t]]
                       /\ pc[t] = "unpin" => /\ buf[t] \in pinned
                                             /\ data[buf[t]] = disk[blockno[buf[t]]]

\* Buffers are counted, unique to their blocks, enough, locked by those who use them,
\* and never recycled with content the disk lacks (bget, brelse, bpin, bunpin).
CacheInv == /\ TypeOK /\ RefExact /\ OneBuffer /\ NoPanic
            /\ HoldersExact /\ PinnedOrWritten

Content(k) == IF \E b \in Cached(k) : valid[b]
              THEN data[CHOOSE b \in Cached(k) : valid[b]] ELSE disk[k]
Owner(k) == IF \E b \in Cached(k) : slock[b] # Nobody
            THEN slock[CHOOSE b \in Cached(k) : slock[b] # Nobody] ELSE Nobody

Store == INSTANCE BlockStore WITH Blank <- 0, content <- [k \in Block |-> Content(k)],
                                  owner <- [k \in Block |-> Owner(k)]

\* However buffers are shared, recycled and read again, a block has one content
\* and one user at a time, and no change to it is lost.
ImplementsStore == Store!Spec

\* The threads are alike, and the blocks are (for the run buffer_cache).
Symmetry == Permutations(Thread) \cup Permutations(Block)
===============================================================================
