---------------------------------- MODULE FSLog ----------------------------------
(***************************************************************************)
(* kernel/log.c: the file system's redo log.  Concurrent calls bracket their *)
(* block updates with begin_op and end_op; the last end_op commits for all   *)
(* of them; a crash at any point, also during recovery, loses the memory and *)
(* keeps the disk.  A step writes one disk block or is one critical section  *)
(* of log.lock.                                                              *)
(***************************************************************************)
EXTENDS Integers, Sequences, FiniteSets, TLC

CONSTANTS Op,                     \* kernel threads that make file system calls
          Block, NoBlock,         \* home blocks
          MAXOPBLOCKS, LOGBLOCKS,
          OpBlocks,               \* distinct blocks that a call writes, at most
          MaxWrites, MaxCrashes   \* bounds of the instance

ASSUME SizeAssumption == /\ MAXOPBLOCKS \in Nat \ {0}
                         /\ LOGBLOCKS \in Nat /\ LOGBLOCKS >= MAXOPBLOCKS
                         /\ OpBlocks \in 0..MAXOPBLOCKS
ASSUME BlockAssumption == NoBlock \notin Block
ASSUME OpAssumption == IsFiniteSet(Op)
ASSUME BoundAssumption == MaxWrites \in Nat /\ MaxCrashes \in Nat

VARIABLES home, slot, header,               \* disk: home blocks, log blocks, log header
          cache,                            \* what bread returns for each home block
          lh, outstanding, committing,      \* struct log (lh.n is Len(lh))
          boot, tail,                       \* initlog's place; install_trans, write_log
          pc, blk, wrote,                   \* per thread: place, buffer, blocks written
          clock, crashes

disk == <<home, slot, header>>
mem == <<lh, outstanding, committing>>
bounds == <<clock, crashes>>
vars == <<disk, cache, mem, boot, tail, pc, blk, wrote, bounds>>

Val == 0..MaxWrites
Slot == 1..LOGBLOCKS

PC == {"out", "begin", "asleep", "in", "log",                 \* calls
       "write_log", "install", "erase", "finish", "panic"}    \* end_op and commit

TypeOK == /\ home \in [Block -> Val] /\ cache \in [Block -> Val]
          /\ slot \in [Slot -> Val]
          /\ header \in Seq(Block) /\ Len(header) <= LOGBLOCKS
          /\ lh \in Seq(Block) /\ Len(lh) <= LOGBLOCKS
          /\ outstanding \in 0..Cardinality(Op)
          /\ committing \in BOOLEAN
          /\ boot \in {"read_head", "install", "up"}
          /\ tail \in 1..(LOGBLOCKS + 1)
          /\ pc \in [Op -> PC]
          /\ blk \in [Op -> Block \cup {NoBlock}]
          /\ wrote \in [Op -> SUBSET Block]
          /\ clock \in Val /\ crashes \in 0..MaxCrashes

\* a fresh disk, made by mkfs: an empty log
Init == /\ home = [b \in Block |-> 0] /\ cache = home
        /\ slot = [i \in Slot |-> 0]
        /\ header = << >> /\ lh = << >>
        /\ outstanding = 0 /\ committing = FALSE
        /\ boot = "read_head" /\ tail = 1
        /\ pc = [o \in Op |-> "out"]
        /\ blk = [o \in Op |-> NoBlock]
        /\ wrote = [o \in Op |-> {}]
        /\ clock = 0 /\ crashes = 0

Goto(o, from, to) == boot = "up" /\ pc[o] = from /\ pc' = [pc EXCEPT ![o] = to]
Logged(b, h) == \E i \in DOMAIN h : h[i] = b

-------------------------------------------------------------------------------
(* begin_op, the call's updates, log_write, end_op *)

Space == Len(lh) + (outstanding + 1) * MAXOPBLOCKS <= LOGBLOCKS

\* begin_op, from its call or from a wakeup of its sleep
BeginOp(o) == /\ boot = "up" /\ pc[o] \in {"out", "begin"}
              /\ IF committing \/ ~Space
                 THEN pc' = [pc EXCEPT ![o] = "asleep"] /\ UNCHANGED outstanding
                 ELSE pc' = [pc EXCEPT ![o] = "in"] /\ outstanding' = outstanding + 1
              /\ UNCHANGED <<disk, cache, lh, committing, boot, tail, blk, wrote, bounds>>

\* The call changes a buffer it has locked.
Modify(o, b) == /\ Goto(o, "in", "log")
                /\ \A p \in Op : pc[p] = "log" => blk[p] # b
                /\ Cardinality(wrote[o] \cup {b}) <= OpBlocks
                /\ clock < MaxWrites
                /\ clock' = clock + 1
                /\ cache' = [cache EXCEPT ![b] = clock + 1]
                /\ blk' = [blk EXCEPT ![o] = b]
                /\ wrote' = [wrote EXCEPT ![o] = @ \cup {b}]
                /\ UNCHANGED <<disk, mem, boot, tail, crashes>>

\* "too big a transaction" and "log_write outside of trans"
BadLogWrite == Len(lh) >= LOGBLOCKS \/ outstanding < 1

LogWrite(o) == /\ Goto(o, "log", IF BadLogWrite THEN "panic" ELSE "in")
               /\ lh' = IF BadLogWrite \/ Logged(blk[o], lh) THEN lh ELSE Append(lh, blk[o])
               /\ blk' = [blk EXCEPT ![o] = NoBlock]
               /\ UNCHANGED <<disk, cache, outstanding, committing, boot, tail, wrote, bounds>>

\* wakeup(&log): every sleeper looks again
Woken(p) == [o \in Op |-> IF p[o] = "asleep" THEN "begin" ELSE p[o]]

\* end_op's first critical section: the last one out commits, the others
\* wake those who wait for space
LastOut == outstanding = 1 /\ ~committing

\* Mutant: only a commit wakes.
EndOp_NoWakeup(o) ==
  /\ boot = "up" /\ pc[o] = "in"
  /\ outstanding' = outstanding - 1
  /\ committing' = (committing \/ LastOut)
  /\ wrote' = [wrote EXCEPT ![o] = {}]
  /\ pc' = [pc EXCEPT ![o] = IF committing THEN "panic" ELSE IF ~LastOut THEN "out"
                            ELSE IF lh = << >> THEN "finish" ELSE "write_log"]
  /\ UNCHANGED <<disk, cache, lh, boot, tail, blk, bounds>>

EndOp(o) == /\ boot = "up" /\ pc[o] = "in"
            /\ outstanding' = outstanding - 1
            /\ committing' = (committing \/ LastOut)
            /\ wrote' = [wrote EXCEPT ![o] = {}]
            /\ pc' = CASE committing -> [pc EXCEPT ![o] = "panic"]
                        [] LastOut -> [pc EXCEPT ![o] = IF lh = << >> THEN "finish" ELSE "write_log"]
                        [] OTHER -> Woken([pc EXCEPT ![o] = "out"])
            /\ UNCHANGED <<disk, cache, lh, boot, tail, blk, bounds>>

-------------------------------------------------------------------------------
(* commit *)

\* write_log copies cached blocks to the log, one at a time
WriteLog(o) == /\ Goto(o, "write_log", "write_log")
               /\ tail <= Len(lh)
               /\ slot' = [slot EXCEPT ![tail] = cache[lh[tail]]]
               /\ tail' = tail + 1
               /\ UNCHANGED <<home, header, cache, mem, boot, blk, wrote, bounds>>

\* Mutant: the header goes out before the log blocks.
WriteHead_Early(o) == /\ Goto(o, "write_log", "install")
                      /\ header' = lh
                      /\ tail' = 1
                      /\ UNCHANGED <<home, slot, cache, mem, boot, blk, wrote, bounds>>

\* write_head: the commit point
WriteHead(o) == /\ Goto(o, "write_log", "install")
                /\ tail > Len(lh)
                /\ header' = lh
                /\ tail' = 1
                /\ UNCHANGED <<home, slot, cache, mem, boot, blk, wrote, bounds>>

\* install_trans(0): log blocks to their home locations
Install(o) == /\ Goto(o, "install", IF tail = Len(lh) THEN "erase" ELSE "install")
              /\ home' = [home EXCEPT ![lh[tail]] = slot[tail]]
              /\ tail' = IF tail = Len(lh) THEN 1 ELSE tail + 1
              /\ UNCHANGED <<slot, header, cache, mem, boot, blk, wrote, bounds>>

\* lh.n = 0 and write_head
Erase(o) == /\ Goto(o, "erase", "finish")
            /\ lh' = << >>
            /\ header' = << >>
            /\ UNCHANGED <<home, slot, cache, outstanding, committing, boot, tail, blk, wrote, bounds>>

\* end_op's second critical section
Finish(o) == /\ boot = "up" /\ pc[o] = "finish"
             /\ committing' = FALSE
             /\ pc' = Woken([pc EXCEPT ![o] = "out"])
             /\ UNCHANGED <<disk, cache, lh, outstanding, boot, tail, blk, wrote, bounds>>

-------------------------------------------------------------------------------
(* Crash and recovery *)

Crash == /\ crashes < MaxCrashes
         /\ crashes' = crashes + 1
         /\ cache' = home
         /\ lh' = << >> /\ outstanding' = 0 /\ committing' = FALSE
         /\ boot' = "read_head" /\ tail' = 1
         /\ pc' = [o \in Op |-> "out"]
         /\ blk' = [o \in Op |-> NoBlock]
         /\ wrote' = [o \in Op |-> {}]
         /\ UNCHANGED <<disk, clock>>

RecoverReadHead == /\ boot = "read_head"
                   /\ lh' = header
                   /\ boot' = "install"
                   /\ UNCHANGED <<disk, cache, outstanding, committing, tail, pc, blk, wrote, bounds>>

\* install_trans(1)
RecoverInstall == /\ boot = "install" /\ tail <= Len(lh)
                  /\ home' = [home EXCEPT ![lh[tail]] = slot[tail]]
                  /\ cache' = [cache EXCEPT ![lh[tail]] = slot[tail]]
                  /\ tail' = tail + 1
                  /\ UNCHANGED <<slot, header, mem, boot, pc, blk, wrote, bounds>>

\* clear the log
RecoverErase == /\ boot = "install" /\ tail > Len(lh)
                /\ lh' = << >> /\ header' = << >>
                /\ boot' = "up" /\ tail' = 1
                /\ UNCHANGED <<home, slot, cache, outstanding, committing, pc, blk, wrote, bounds>>

Recover == RecoverReadHead \/ RecoverInstall \/ RecoverErase
Commit(o) == WriteLog(o) \/ WriteHead(o) \/ Install(o) \/ Erase(o) \/ Finish(o)

Next == \/ \E o \in Op : \/ BeginOp(o) \/ LogWrite(o) \/ EndOp(o) \/ Commit(o)
                         \/ \E b \in Block : Modify(o, b)
        \/ Recover \/ Crash

Spec == Init /\ [][Next]_vars

-------------------------------------------------------------------------------
(* Properties *)

\* The space begin_op reserves is enough for MAXOPBLOCKS blocks per call
\* (param.h: "max # of blocks any FS op writes"), however calls overlap and
\* blocks are absorbed.  Only a call that has written so many and then writes
\* one of them again may find the log full (log.c:221 looks at lh.n first).
PanicOnlyFull == \A o \in Op : pc[o] = "panic" => Cardinality(wrote[o]) = MAXOPBLOCKS

\* No lost wakeup: a call sleeps in begin_op only while it has to, for a commit
\* or for log space.
SleepsForReason == \A o \in Op : pc[o] = "asleep" => committing \/ ~Space

\* What a crash now would leave once recovery has run.
Replay(h) == [b \in Block |-> IF Logged(b, h) THEN slot[CHOOSE i \in DOMAIN h : h[i] = b]
                                              ELSE home[b]]

\* When no call is in progress and no commit underway, a crash loses nothing:
\* what end_op returned from is durable.
Durable == boot = "up" /\ outstanding = 0 /\ ~committing => Replay(header) = cache

\* outstanding counts the calls between begin_op and end_op; a commit has no call
\* beside it and one thread that does it; and while the system recovers there is none.
Users == {o \in Op : pc[o] \in {"in", "log", "panic"}}
Commits == {"write_log", "install", "erase", "finish"}
CallsCounted ==
  /\ outstanding = Cardinality(Users)
  /\ committing => Users = {} /\ boot = "up"
  /\ \A o \in Op : /\ boot # "up" => pc[o] = "out"
                   /\ pc[o] \in Commits => committing /\ \A p \in Op : pc[p] \in Commits => p = o
                   /\ pc[o] = "log" <=> blk[o] # NoBlock
                   /\ pc[o] = "log" => blk[o] \in wrote[o]
                   /\ o \notin Users => wrote[o] = {}
                   /\ IsFiniteSet(wrote[o]) /\ Cardinality(wrote[o]) <= OpBlocks

\* The log has room for what it holds and for what the calls under way have reserved,
\* less the blocks of theirs that it holds already.
LoggedPairs == {w \in Op \X Block : w[2] \in wrote[w[1]] /\ Logged(w[2], lh)}
Reserved == Len(lh) + outstanding * MAXOPBLOCKS <= LOGBLOCKS + Cardinality(LoggedPairs)

\* The log in memory and on disk, along a commit: what is not home yet is in the log
\* or about to be; from write_head on the disk's log has it all; then it comes home.
NoneTwice(h) == \A i, j \in DOMAIN h : h[i] = h[j] => i = j
Changing(b) == \E o \in Op : blk[o] = b \/ (pc[o] = "panic" /\ b \in wrote[o])
Copied(n) == \A i \in 1..n : slot[i] = cache[lh[i]]
CommitInOrder == boot = "up" =>
  /\ outstanding = 0 /\ ~committing => lh = << >>
  /\ (\A o \in Op : pc[o] \notin {"install", "erase"}) =>
       header = << >> /\ \A b \in Block : home[b] = cache[b] \/ Logged(b, lh) \/ Changing(b)
  /\ (\A o \in Op : pc[o] \notin {"write_log", "install"}) => tail = 1
  /\ \A o \in Op :
       /\ pc[o] = "write_log" => lh # << >> /\ tail <= Len(lh) + 1 /\ Copied(tail - 1)
       /\ pc[o] = "install" =>
            /\ header = lh /\ tail <= Len(lh) /\ Copied(Len(lh))
            /\ \A b \in Block : home[b] = cache[b] \/ \E i \in tail..Len(lh) : lh[i] = b
       /\ pc[o] = "erase" => header = lh /\ Copied(Len(lh)) /\ home = cache
       /\ pc[o] = "finish" => lh = << >>

\* Recovery copies home what the disk's log says, slot after slot.
RecoverInOrder ==
  /\ boot # "up" => cache = home
  /\ boot = "read_head" => lh = << >> /\ tail = 1
  /\ boot = "install" => /\ lh = header /\ tail <= Len(lh) + 1
                        /\ \A i \in 1..(tail - 1) : home[lh[i]] = slot[i]

\* Room in the log, no sleeper without a reason, nothing lost by a crash in between
\* (begin_op, log_write, end_op, recover_from_log).
FSLogInv == /\ TypeOK /\ CallsCounted /\ Reserved
            /\ NoneTwice(lh) /\ NoneTwice(header) /\ CommitInOrder /\ RecoverInOrder
            /\ PanicOnlyFull /\ SleepsForReason /\ Durable

View == IF boot = "up" THEN cache ELSE Replay(header)
Active == {o \in Op : pc[o] \in {"in", "log"}}

Disk == INSTANCE CrashDisk WITH Blank <- 0, view <- View, stable <- Replay(header),
                                active <- Active

\* Crashes anywhere, also inside commit and recovery, leave every committed
\* call whole and no uncommitted call visible.
ImplementsCrashDisk == Disk!Spec

\* The calls are alike, and the blocks are (for the run fs_log).
Symmetry == Permutations(Op) \cup Permutations(Block)
===============================================================================
