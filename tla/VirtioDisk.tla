------------------------------- MODULE VirtioDisk --------------------------------
(***************************************************************************)
(* kernel/virtio_disk.c: requests share NUM descriptors, go to the device    *)
(* through the avail ring and come back, in any order, through the used      *)
(* ring.  A step is a critical section of vdisk_lock, which the interrupt    *)
(* handler holds over several, because the device does not wait for it.      *)
(* A thread's buffer, which it has locked, is known by the thread.  A ring   *)
(* entry is cleared when it has been read, and a request when it has ended:  *)
(* the code leaves them, and never reads them again.                         *)
(***************************************************************************)
EXTENDS Integers, FiniteSets

CONSTANTS Thread, NoThread, Block, Val,
          NUM,
          Wrap        \* the ring indices wrap here (at 2^16 in the code)

VARIABLES disk, data, busy,                 \* blocks; b->data and b->disk
          free, next, addr, ops,            \* descriptors: free list, chains, buffers, commands
          info_b, status,                   \* disk.info
          avail, avail_idx,                 \* ring and idx
          used, used_end, used_idx,         \* ring, the device's idx, the driver's
          flight, dev_idx, irq,             \* in the device
          handling,                         \* the interrupt handler holds vdisk_lock
          pc, asleep, req, head, panicked

descVars == <<free, next, addr, ops, info_b>>
availVars == <<avail, avail_idx>>
devVars == <<used, used_end, flight, dev_idx>>
vars == <<disk, data, busy, descVars, status, availVars, devVars, used_idx, irq, handling,
          pc, asleep, req, head, panicked>>

Desc == 0..(NUM - 1)
None == NUM
Requests == [write : BOOLEAN, block : Block]
NoRequest == [write |-> FALSE, block |-> CHOOSE k \in Block : TRUE]

Bump(i) == (i + 1) % Wrap

\* the descriptors of the chain that starts at h (each request has three)
Chain(h) == {h, next[h], next[next[h]]}

TypeOK == /\ disk \in [Block -> Val] /\ data \in [Thread -> Val] /\ busy \in [Thread -> BOOLEAN]
          /\ free \subseteq Desc /\ next \in [Desc -> Desc \cup {None}]
          /\ addr \in [Desc -> Thread \cup {NoThread}] /\ ops \in [Desc -> Requests]
          /\ info_b \in [Desc -> Thread \cup {NoThread}] /\ status \in [Desc -> BOOLEAN]
          /\ avail \in [Desc -> Desc \cup {None}] /\ used \in [Desc -> Desc \cup {None}]
          /\ {avail_idx, used_end, used_idx, dev_idx} \subseteq 0..(Wrap - 1)
          /\ flight \subseteq Desc /\ irq \in BOOLEAN /\ handling \in BOOLEAN
          /\ pc \in [Thread -> {"out", "alloc", "wait"}] /\ asleep \in [Thread -> BOOLEAN]
          /\ req \in [Thread -> Requests] /\ head \in [Thread -> Desc \cup {None}]
          /\ panicked \in BOOLEAN

Init == /\ disk \in [Block -> Val] /\ data \in [Thread -> Val]
        /\ busy = [t \in Thread |-> FALSE]
        /\ free = Desc /\ next = [d \in Desc |-> None]
        /\ addr = [d \in Desc |-> NoThread] /\ ops = [d \in Desc |-> NoRequest]
        /\ info_b = [d \in Desc |-> NoThread] /\ status = [d \in Desc |-> FALSE]
        /\ avail = [d \in Desc |-> None] /\ avail_idx = 0
        /\ used = [d \in Desc |-> None] /\ used_end = 0 /\ used_idx = 0
        /\ flight = {} /\ dev_idx = 0 /\ irq = FALSE /\ handling = FALSE
        /\ pc = [t \in Thread |-> "out"] /\ asleep = [t \in Thread |-> FALSE]
        /\ req = [t \in Thread |-> NoRequest] /\ head = [t \in Thread |-> None]
        /\ panicked = FALSE

-------------------------------------------------------------------------------
(* virtio_disk_rw *)

\* bread and bwrite, with the buffer locked
Call(t) == /\ pc[t] = "out"
           /\ pc' = [pc EXCEPT ![t] = "alloc"]
           /\ \E r \in Requests, v \in Val :
                /\ req' = [req EXCEPT ![t] = r]
                /\ data' = IF r.write THEN [data EXCEPT ![t] = v] ELSE data
           /\ UNCHANGED <<disk, busy, descVars, status, availVars, devVars, used_idx, irq, handling,
                          asleep, head, panicked>>

Enter(t, place) == pc[t] = place /\ ~asleep[t] /\ ~handling /\ ~panicked

WakeAllocs(others) == [t \in Thread |-> asleep[t] /\ ~(t \in others /\ pc[t] = "alloc")]

LowestOf(S) == CHOOSE d \in S : \A e \in S : d <= e

\* alloc3_desc takes the three lowest; the request is described and announced,
\* and the thread sleeps because b->disk is set
AllocTake(t) ==
  LET h == LowestOf(free)
      d == LowestOf(free \ {h})
      s == LowestOf(free \ {h, d})
  IN /\ Enter(t, "alloc") /\ Cardinality(free) >= 3
     /\ free' = free \ {h, d, s}
     /\ next' = [next EXCEPT ![h] = d, ![d] = s, ![s] = None]
     /\ addr' = [addr EXCEPT ![d] = t]
     /\ ops' = [ops EXCEPT ![h] = req[t]]
     /\ info_b' = [info_b EXCEPT ![h] = t]
     /\ status' = [status EXCEPT ![h] = FALSE]
     /\ busy' = [busy EXCEPT ![t] = TRUE]
     /\ avail' = [avail EXCEPT ![avail_idx % NUM] = h]
     /\ avail_idx' = Bump(avail_idx)
     /\ head' = [head EXCEPT ![t] = h]
     /\ pc' = [pc EXCEPT ![t] = "wait"]
     /\ asleep' = [asleep EXCEPT ![t] = TRUE]
     /\ UNCHANGED <<disk, data, devVars, used_idx, irq, handling, req, panicked>>

\* alloc3_desc gives back what it got, which wakes the others, and the thread sleeps
AllocSleep(t) ==
  /\ Enter(t, "alloc") /\ Cardinality(free) < 3
  /\ asleep' = [WakeAllocs(IF free = {} THEN {} ELSE Thread) EXCEPT ![t] = TRUE]
  /\ UNCHANGED <<disk, data, busy, descVars, status, availVars, devVars, used_idx, irq, handling,
                 pc, req, head, panicked>>

\* Mutant: "if" for "while": whoever is woken takes its request for finished.
Done_Woken(t) == TRUE

Done(t) == ~busy[t]

\* woken by somebody else than the interrupt handler
WaitMore(t) == /\ Enter(t, "wait") /\ ~Done(t)
               /\ asleep' = [asleep EXCEPT ![t] = TRUE]
               /\ UNCHANGED <<disk, data, busy, descVars, status, availVars, devVars, used_idx, irq,
                              handling, pc, req, head, panicked>>

\* Mutant: the last descriptor of the chain is forgotten.
Freed_Short(h) == {h, next[h]}

Freed(h) == Chain(h)

\* free_chain; its panic is free_desc's
Finish(t) == LET h == head[t] IN
             /\ Enter(t, "wait") /\ Done(t)
             /\ panicked' = (Freed(h) \cap free # {})
             /\ info_b' = [info_b EXCEPT ![h] = NoThread]
             /\ free' = free \cup Freed(h)
             /\ next' = [d \in Desc |-> IF d \in Freed(h) THEN None ELSE next[d]]
             /\ addr' = [d \in Desc |-> IF d \in Freed(h) THEN NoThread ELSE addr[d]]
             /\ asleep' = WakeAllocs(Thread)
             /\ pc' = [pc EXCEPT ![t] = "out"]
             /\ ops' = [ops EXCEPT ![h] = NoRequest]
             /\ req' = [req EXCEPT ![t] = NoRequest] /\ head' = [head EXCEPT ![t] = None]
             /\ UNCHANGED <<disk, data, busy, status, availVars, devVars, used_idx, irq, handling>>

\* kkill wakes any sleeper
Spurious(t) == /\ asleep[t]
               /\ asleep' = [asleep EXCEPT ![t] = FALSE]
               /\ UNCHANGED <<disk, data, busy, descVars, status, availVars, devVars, used_idx, irq,
                              handling, pc, req, head, panicked>>

-------------------------------------------------------------------------------
(* virtio_disk_intr *)

IntrAck == /\ irq /\ ~handling /\ ~panicked
           /\ handling' = TRUE
           /\ irq' = FALSE
           /\ UNCHANGED <<disk, data, busy, descVars, status, availVars, devVars, used_idx, pc, asleep,
                          req, head, panicked>>

IntrEntry == LET id == used[used_idx % NUM]
                 b == info_b[id]
             IN /\ handling /\ ~panicked /\ used_idx # used_end
                /\ panicked' = (~status[id] \/ b = NoThread)
                /\ busy' = IF panicked' THEN busy ELSE [busy EXCEPT ![b] = FALSE]
                /\ asleep' = IF panicked' THEN asleep ELSE [asleep EXCEPT ![b] = FALSE]
                /\ used_idx' = Bump(used_idx)
                /\ used' = [used EXCEPT ![used_idx % NUM] = None]
                /\ UNCHANGED <<disk, data, descVars, status, availVars, used_end, flight, dev_idx, irq,
                               handling, pc, req, head>>

IntrEnd == /\ handling /\ ~panicked /\ used_idx = used_end
           /\ handling' = FALSE
           /\ UNCHANGED <<disk, data, busy, descVars, status, availVars, devVars, used_idx, irq, pc,
                          asleep, req, head, panicked>>

-------------------------------------------------------------------------------
(* The device *)

DeviceTake == /\ dev_idx # avail_idx
              /\ flight' = flight \cup {avail[dev_idx % NUM]}
              /\ dev_idx' = Bump(dev_idx)
              /\ avail' = [avail EXCEPT ![dev_idx % NUM] = None]
              /\ UNCHANGED <<disk, data, busy, descVars, status, avail_idx, used, used_end, used_idx, irq,
                             handling, pc, asleep, req, head, panicked>>

\* transfer, status, used ring, interrupt
DeviceDo(h) == LET r == ops[h]
                   b == addr[next[h]]
               IN /\ h \in flight /\ next[h] # None /\ b # NoThread
                  /\ disk' = IF r.write THEN [disk EXCEPT ![r.block] = data[b]] ELSE disk
                  /\ data' = IF r.write THEN data ELSE [data EXCEPT ![b] = disk[r.block]]
                  /\ status' = [status EXCEPT ![h] = TRUE]
                  /\ used' = [used EXCEPT ![used_end % NUM] = h]
                  /\ used_end' = Bump(used_end)
                  /\ flight' = flight \ {h}
                  /\ irq' = TRUE
                  /\ UNCHANGED <<busy, descVars, availVars, used_idx, dev_idx, handling, pc, asleep, req,
                                 head, panicked>>

-------------------------------------------------------------------------------

Device == DeviceTake \/ \E h \in Desc : DeviceDo(h)
Intr == IntrAck \/ IntrEntry \/ IntrEnd
Run(t) == AllocTake(t) \/ AllocSleep(t) \/ WaitMore(t) \/ Finish(t)

Next == \/ \E t \in Thread : Call(t) \/ Run(t) \/ Spurious(t)
        \/ Intr \/ Device

Spec == Init /\ [][Next]_vars

-------------------------------------------------------------------------------
(* Properties *)

\* Each descriptor is free or in the chain of one request: none is in two, and
\* none is lost, however often chains are freed and allocated.
Waiting == {t \in Thread : pc[t] = "wait"}
DescsAccounted ==
  /\ \A t \in Waiting : Cardinality(Chain(head[t])) = 3 /\ Chain(head[t]) \cap free = {}
  /\ \A t, u \in Waiting : t # u => Chain(head[t]) \cap Chain(head[u]) = {}
  /\ Cardinality(free) + 3 * Cardinality(Waiting) = NUM

\* The panics of free_desc and of the interrupt handler are not reached.
NoPanic == ~panicked

\* No thread sleeps for descriptors while there are enough, or for a request
\* that the device has finished, unless a handler that runs or is about to will
\* find it.
NoLostRoom == \A t \in Thread : pc[t] = "alloc" /\ asleep[t] => Cardinality(free) < 3
NoLostIntr == \A t \in Waiting : status[head[t]] /\ busy[t] => (irq \/ handling) /\ used_idx # used_end

\* What a request's descriptors say of it, until it has returned.
ChainsInPlace == \A t \in Thread :
  /\ pc[t] = "wait" => LET h == head[t] IN
       /\ h \in Desc /\ info_b[h] = t /\ ops[h] = req[t]
       /\ next[h] \in Desc \ {h} /\ addr[next[h]] = t
       /\ next[next[h]] \in Desc \ {h, next[h]}
       /\ busy[t] \/ status[h]
  /\ pc[t] = "out" => ~asleep[t]

\* A request is announced, then in flight, then in the used ring, then not busy.
Heads == {head[t] : t \in Waiting}
Entries(ring) == {ring[i] : i \in Desc} \ {None}
StagesInPlace ==
  /\ Entries(avail) \cup flight \cup Entries(used) \subseteq Heads
  /\ \A t \in Waiting : /\ status[head[t]] <=> head[t] \notin Entries(avail) \cup flight
                        /\ status[head[t]] /\ busy[t] <=> head[t] \in Entries(used)
  /\ Entries(avail) \cap flight = {}

\* A ring has one entry at each place from one index up to the other, past any wrap.
Places(i, n) == {(i + k) % NUM : k \in 0..(n - 1)}
RingFrom(ring, i, j) ==
  /\ \E n \in 0..(NUM - 1) : /\ j = (i + n) % Wrap
                              /\ {d \in Desc : ring[d] # None} = Places(i, n)
  /\ \A d, e \in Desc : ring[d] # None /\ ring[d] = ring[e] => d = e
RingsInPlace == /\ RingFrom(avail, dev_idx, avail_idx) /\ RingFrom(used, used_idx, used_end)
                /\ used_idx # used_end => irq \/ handling

DescsInv == /\ TypeOK /\ DescsAccounted /\ NoPanic /\ NoLostRoom /\ NoLostIntr
            /\ ChainsInPlace /\ StagesInPlace /\ RingsInPlace

Service == INSTANCE DiskService WITH req <-
  [t \in Thread |-> IF pc[t] = "out" THEN [phase |-> "idle"]
                    ELSE [phase |-> IF pc[t] = "wait" /\ status[head[t]] THEN "done" ELSE "asked",
                          write |-> req[t].write, block |-> req[t].block]]

\* Descriptors reused, completions out of order and several in one interrupt:
\* each request still moves its own block to or from its own buffer, once.
ImplementsService == Service!Spec
===============================================================================
