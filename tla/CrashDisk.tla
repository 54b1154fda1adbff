-------------------------------- MODULE CrashDisk -------------------------------
(***************************************************************************)
(* What the log promises the file system: calls update blocks that a crash   *)
(* takes back to the last commit, all together, and a commit happens only    *)
(* while no call is in progress, so a call is never cut in two.              *)
(***************************************************************************)
CONSTANTS Op, Block, Val, Blank

VARIABLES view,      \* the blocks as file system calls see them
          stable,    \* the blocks a crash would leave
          active     \* the calls between begin_op and end_op

vars == <<view, stable, active>>

Init == /\ view = [b \in Block |-> Blank]
        /\ stable = view
        /\ active = {}

Begin(o) == /\ o \notin active
            /\ active' = active \cup {o}
            /\ UNCHANGED <<view, stable>>

Write(o, b) == /\ o \in active
               /\ \E v \in Val : view' = [view EXCEPT ![b] = v]
               /\ UNCHANGED <<stable, active>>

End(o) == /\ o \in active
          /\ active' = active \ {o}
          /\ UNCHANGED <<view, stable>>

Commit == /\ active = {}
          /\ stable' = view
          /\ UNCHANGED <<view, active>>

Crash == /\ view' = stable
         /\ active' = {}
         /\ UNCHANGED stable

Next == \/ \E o \in Op : Begin(o) \/ End(o) \/ \E b \in Block : Write(o, b)
        \/ Commit \/ Crash

Spec == Init /\ [][Next]_vars
===============================================================================
