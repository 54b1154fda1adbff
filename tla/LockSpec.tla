-------------------------------- MODULE LockSpec --------------------------------
(***************************************************************************)
(* What a set of spinlocks promises: a lock is free or has one holder, and   *)
(* only its holder frees it.  SpinLock is shown to implement it.             *)
(***************************************************************************)
CONSTANTS Thread, Lock, Free

VARIABLE holder

Init == holder = [l \in Lock |-> Free]

Take(t, l) == holder[l] = Free /\ holder' = [holder EXCEPT ![l] = t]
Give(t, l) == holder[l] = t /\ holder' = [holder EXCEPT ![l] = Free]

Next == \E t \in Thread, l \in Lock : Take(t, l) \/ Give(t, l)

Spec == Init /\ [][Next]_holder
===============================================================================
