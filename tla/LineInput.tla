-------------------------------- MODULE LineInput --------------------------------
(***************************************************************************)
(* What the console promises its readers: what is typed can be edited until  *)
(* its line is entered, and then is read in order, each character once.      *)
(***************************************************************************)
EXTENDS Naturals, Sequences

CONSTANTS Char, Capacity

VARIABLES entered, line      \* to be read; still being edited

vars == <<entered, line>>

Init == entered = << >> /\ line = << >>

\* A character is added, and perhaps enters the line.
Type(c) == /\ Len(entered) + Len(line) < Capacity
           /\ \/ line' = Append(line, c) /\ UNCHANGED entered
              \/ line' = << >> /\ entered' = entered \o Append(line, c)

\* One is taken back, or all of them.
Erase == /\ line # << >>
         /\ line' = SubSeq(line, 1, Len(line) - 1)
         /\ UNCHANGED entered

EraseLine == line' = << >> /\ UNCHANGED entered

Get == entered # << >> /\ entered' = Tail(entered) /\ UNCHANGED line

Next == (\E c \in Char : Type(c)) \/ Erase \/ EraseLine \/ Get

Spec == Init /\ [][Next]_vars
===============================================================================
