-------------------------------- MODULE ByteStream -------------------------------
(***************************************************************************)
(* What a pipe promises: bytes come out in the order in which they went in,  *)
(* each once, and no more than Capacity of them are inside.  Once an end is  *)
(* shut it stays shut, and nothing goes in when the reading end is.          *)
(***************************************************************************)
EXTENDS Naturals, Sequences

CONSTANTS Byte, Capacity

VARIABLES q,        \* the bytes inside
          shut      \* subset of {"r", "w"}: the ends nobody holds

vars == <<q, shut>>

Init == q = << >> /\ shut = {}

Put == /\ Len(q) < Capacity /\ "r" \notin shut
       /\ \E b \in Byte : q' = Append(q, b)
       /\ UNCHANGED shut

Get == /\ q # << >>
       /\ q' = Tail(q)
       /\ UNCHANGED shut

Shut(e) == shut' = shut \cup {e} /\ UNCHANGED q

Next == Put \/ Get \/ \E e \in {"r", "w"} : Shut(e)

Spec == Init /\ [][Next]_vars
===============================================================================
