------------------------------- MODULE UserMemory -------------------------------
(***************************************************************************)
(* What the kernel's memory promises processes: each has bytes of its own,   *)
(* that only it and the system calls it makes change, and that start as a    *)
(* copy of its parent's, as a program's image, or as zeros at the top.       *)
(***************************************************************************)
EXTENDS Naturals, Sequences

CONSTANTS Task, Addr,
          Programs       \* what programs start with

VARIABLES mem,      \* per process: address -> byte, and whether it may be written
          kbuf      \* what the last transfer to the kernel carried

vars == <<mem, kbuf>>

Init == mem = [t \in Task |-> << >>] /\ kbuf = << >>

\* Bytes that were there stay, and those added are zeros, above them.
Extends(new, old) ==
  /\ DOMAIN old \subseteq DOMAIN new /\ \A a \in DOMAIN old : new[a] = old[a]
  /\ \A a \in DOMAIN new \ DOMAIN old : /\ new[a] = [val |-> "zero", w |-> TRUE]
                                       /\ \A b \in DOMAIN old : b < a
Grow(old, new) == Extends(new, old)
Shrink(old, new) == /\ DOMAIN new \subseteq DOMAIN old /\ \A a \in DOMAIN new : new[a] = old[a]
                    /\ \A a \in DOMAIN old \ DOMAIN new, b \in DOMAIN new : b < a

\* A process gets a program's image, or goes.
Replace(new) == new \in Programs \cup {<< >>}

Store(old, new) == \E a \in DOMAIN old : old[a].w /\ new = [old EXCEPT ![a].val = "user"]

\* What a process gets of the kernel lands in order, where it may write.
Receive(old, new) ==
  \E a \in DOMAIN old, n \in 1..Len(kbuf) :
     /\ \A b \in a..(a + n - 1) : b \in DOMAIN old /\ old[b].w
     /\ new = [b \in DOMAIN old |-> IF b \in a..(a + n - 1)
                                    THEN [old[b] EXCEPT !.val = kbuf[b - a + 1]] ELSE old[b]]

\* What it passes to the kernel are bytes of its own, in order.
Send(t) == /\ \E a \in Addr : \A i \in DOMAIN kbuf' : /\ a + i - 1 \in DOMAIN mem[t]
                                                     /\ kbuf'[i] = mem[t][a + i - 1].val
           /\ UNCHANGED mem

Own(t) == /\ \E new \in {mem'[t]} : \/ Grow(mem[t], new) \/ Shrink(mem[t], new)
                                   \/ Replace(new)
                                   \/ Store(mem[t], new) \/ Receive(mem[t], new)
          /\ mem' = [mem EXCEPT ![t] = mem'[t]]
          /\ UNCHANGED kbuf

Fork(t, c) == mem[c] = << >> /\ mem' = [mem EXCEPT ![c] = mem[t]] /\ UNCHANGED kbuf

Next == \E t \in Task : Own(t) \/ Send(t) \/ \E c \in Task : Fork(t, c)

Spec == Init /\ [][Next]_vars
===============================================================================
