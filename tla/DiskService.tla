------------------------------- MODULE DiskService -------------------------------
(***************************************************************************)
(* What virtio_disk_rw promises the buffer cache: between call and return    *)
(* each request moves one block, once, in the right direction.               *)
(***************************************************************************)
CONSTANTS Thread, Block, Val

VARIABLES disk,      \* the blocks
          data,      \* each thread's buffer
          req        \* each thread's request

vars == <<disk, data, req>>

Idle == [phase |-> "idle"]
Request(phase, w, k) == [phase |-> phase, write |-> w, block |-> k]

Init == /\ disk \in [Block -> Val] /\ data \in [Thread -> Val]
        /\ req = [t \in Thread |-> Idle]

\* the caller may have changed the buffer
Ask(t) == /\ req[t] = Idle
          /\ \E v \in Val : data' = [data EXCEPT ![t] = v]
          /\ \E w \in BOOLEAN, k \in Block : req' = [req EXCEPT ![t] = Request("asked", w, k)]
          /\ UNCHANGED disk

Do(t) == \E w \in BOOLEAN, k \in Block :
           /\ req[t] = Request("asked", w, k)
           /\ req' = [req EXCEPT ![t] = Request("done", w, k)]
           /\ disk' = IF w THEN [disk EXCEPT ![k] = data[t]] ELSE disk
           /\ data' = IF w THEN data ELSE [data EXCEPT ![t] = disk[k]]

Return(t) == /\ \E w \in BOOLEAN, k \in Block : req[t] = Request("done", w, k)
             /\ req' = [req EXCEPT ![t] = Idle]
             /\ UNCHANGED <<disk, data>>

Next == \E t \in Thread : Ask(t) \/ Do(t) \/ Return(t)

Spec == Init /\ [][Next]_vars
===============================================================================
