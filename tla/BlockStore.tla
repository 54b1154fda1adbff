------------------------------- MODULE BlockStore --------------------------------
(***************************************************************************)
(* What the buffer cache promises: every block has one current content, and  *)
(* one thread at a time sees and changes it.                                 *)
(***************************************************************************)
CONSTANTS Thread, Nobody, Block, Val, Blank

VARIABLES content, owner

vars == <<content, owner>>

Init == content = [k \in Block |-> Blank] /\ owner = [k \in Block |-> Nobody]

Take(t, k) == /\ owner[k] = Nobody
              /\ owner' = [owner EXCEPT ![k] = t]
              /\ UNCHANGED content

Update(t, k) == /\ owner[k] = t
                /\ \E v \in Val : content' = [content EXCEPT ![k] = v]
                /\ UNCHANGED owner

Drop(t, k) == /\ owner[k] = t
              /\ owner' = [owner EXCEPT ![k] = Nobody]
              /\ UNCHANGED content

Next == \E t \in Thread, k \in Block : Take(t, k) \/ Update(t, k) \/ Drop(t, k)

Spec == Init /\ [][Next]_vars
===============================================================================
