--------------------------------- MODULE Console ---------------------------------
(***************************************************************************)
(* kernel/console.c: the input ring of the console, filled and edited by the *)
(* interrupt handler and emptied by readers.  A reader holds cons.lock over  *)
(* several steps, because kills, which do not take it, come in between.      *)
(***************************************************************************)
EXTENDS Integers, Sequences

CONSTANTS Reader, NoReader,
          INPUT_BUF_SIZE,
          Wrap,            \* r, w and e are uints: here they wrap at Wrap
          MaxLen           \* the longest read

ASSUME SizeAssumption == /\ INPUT_BUF_SIZE \in Nat \ {0} /\ MaxLen \in Nat
                         /\ Wrap \in Nat /\ Wrap > INPUT_BUF_SIZE /\ Wrap % INPUT_BUF_SIZE = 0
ASSUME ReaderAssumption == NoReader \notin Reader

VARIABLES cbuf, r, w, e,            \* cons
          lock,                     \* the reader that holds cons.lock
          pc, left, got,            \* per reader: place, bytes to read, bytes read
          asleep, killed

cons == <<cbuf, r, w, e>>
vars == <<cons, lock, pc, left, got, asleep, killed>>

Char == {"x", "newline", "^D"}                    \* stored in the ring
Key == Char \cup {"^U", "^H"}                     \* typed
Place == 0..(INPUT_BUF_SIZE - 1)

Minus(i, j) == (i - j) % Wrap
Plus(i, n) == (i + n) % Wrap

TypeOK == /\ cbuf \in [Place -> Char]
          /\ {r, w, e} \subseteq 0..(Wrap - 1)
          /\ Minus(w, r) <= Minus(e, r) /\ Minus(e, r) <= INPUT_BUF_SIZE
          /\ lock \in Reader \cup {NoReader}
          /\ pc \in [Reader -> {"user", "wait", "sleep"}]
          /\ left \in [Reader -> 0..MaxLen] /\ got \in [Reader -> 0..MaxLen]
          /\ asleep \in [Reader -> BOOLEAN] /\ killed \in [Reader -> BOOLEAN]

Init == /\ cbuf = [i \in Place |-> "x"] /\ r = 0 /\ w = 0 /\ e = 0
        /\ lock = NoReader
        /\ pc = [p \in Reader |-> "user"]
        /\ left = [p \in Reader |-> 0] /\ got = [p \in Reader |-> 0]
        /\ asleep = [p \in Reader |-> FALSE] /\ killed = [p \in Reader |-> FALSE]

-------------------------------------------------------------------------------
(* consoleintr *)

Handler == lock = NoReader /\ UNCHANGED <<lock, pc, left, got, killed>>

Room == Minus(e, r) < INPUT_BUF_SIZE

\* Mutant: a full ring is not entered.
Enters_NotFull(c) == c \in {"newline", "^D"}
Enters(c) == c \in {"newline", "^D"} \/ Minus(e, r) + 1 = INPUT_BUF_SIZE

Wake == asleep' = [p \in Reader |-> FALSE]

\* default: store, and perhaps enter the line
Store(c) == /\ Handler /\ Room
            /\ cbuf' = [cbuf EXCEPT ![e % INPUT_BUF_SIZE] = c]
            /\ e' = Plus(e, 1)
            /\ IF Enters(c) THEN w' = e' /\ Wake ELSE UNCHANGED <<w, asleep>>
            /\ UNCHANGED r

\* Mutant: also what has been entered is erased.
Erasable_Entered == e # r
Erasable == e # w

\* backspace
EraseChar == /\ Handler /\ Erasable
             /\ e' = Minus(e, 1)
             /\ UNCHANGED <<cbuf, r, w, asleep>>

\* ^U erases back to a newline or to what has been entered
LastKept == CHOOSE n \in 0..Minus(e, w) :
              /\ \A i \in (n + 1)..Minus(e, w) : cbuf[Plus(w, i - 1) % INPUT_BUF_SIZE] # "newline"
              /\ n > 0 => cbuf[Plus(w, n - 1) % INPUT_BUF_SIZE] = "newline"

KillLine == /\ Handler /\ e # w
            /\ e' = Plus(w, LastKept)
            /\ UNCHANGED <<cbuf, r, w, asleep>>

-------------------------------------------------------------------------------
(* consoleread *)

Goto(p, from, to) == pc[p] = from /\ pc' = [pc EXCEPT ![p] = to]

ReadCall(p) == /\ Goto(p, "user", "wait")
               /\ ~killed[p] /\ lock = NoReader
               /\ lock' = p
               /\ \E n \in 1..MaxLen : left' = [left EXCEPT ![p] = n]
               /\ got' = [got EXCEPT ![p] = 0]
               /\ UNCHANGED <<cons, asleep, killed>>

Return(p) == /\ pc' = [pc EXCEPT ![p] = "user"]
             /\ left' = [left EXCEPT ![p] = 0]
             /\ lock' = NoReader

\* the inner loop: nothing to read
ReadWait(p) == /\ pc[p] = "wait" /\ lock = p /\ r = w
               /\ IF killed[p] THEN Return(p)
                  ELSE pc' = [pc EXCEPT ![p] = "sleep"] /\ UNCHANGED <<lock, left>>
               /\ UNCHANGED <<cons, got, asleep, killed>>

Sleep(p) == /\ pc[p] = "sleep" /\ lock = p
            /\ asleep' = [asleep EXCEPT ![p] = TRUE]
            /\ lock' = NoReader
            /\ UNCHANGED <<cons, pc, left, got, killed>>

Resume(p) == /\ Goto(p, "sleep", "wait")
             /\ ~asleep[p] /\ lock = NoReader
             /\ lock' = p
             /\ UNCHANGED <<cons, left, got, asleep, killed>>

At(i) == cbuf[i % INPUT_BUF_SIZE]

\* ^D ends the read; with bytes already read it stays for the next one
ReadEOF(p) == /\ pc[p] = "wait" /\ lock = p /\ r # w /\ At(r) = "^D"
              /\ r' = IF got[p] > 0 THEN r ELSE Plus(r, 1)
              /\ Return(p)
              /\ UNCHANGED <<cbuf, w, e, got, asleep, killed>>

\* another character is copied out; a newline or a full buffer ends the read,
\* and so does a copyout that fails, with the character lost
ReadChar(p) == /\ pc[p] = "wait" /\ lock = p /\ r # w /\ At(r) # "^D"
               /\ r' = Plus(r, 1)
               /\ \/ /\ got' = [got EXCEPT ![p] = @ + 1]
                     /\ IF At(r) = "newline" \/ left[p] = 1 THEN Return(p)
                        ELSE left' = [left EXCEPT ![p] = @ - 1] /\ UNCHANGED <<pc, lock>>
                  \/ Return(p) /\ UNCHANGED got
               /\ UNCHANGED <<cbuf, w, e, asleep, killed>>

Kill(p) == /\ ~killed[p]
           /\ killed' = [killed EXCEPT ![p] = TRUE]
           /\ asleep' = [asleep EXCEPT ![p] = FALSE]
           /\ UNCHANGED <<cons, lock, pc, left, got>>

-------------------------------------------------------------------------------

InRead(p) == ReadWait(p) \/ Sleep(p) \/ Resume(p) \/ ReadEOF(p) \/ ReadChar(p)
ConsoleIntr == (\E c \in Char : Store(c)) \/ EraseChar \/ KillLine

Next == ConsoleIntr \/ \E p \in Reader : ReadCall(p) \/ InRead(p) \/ Kill(p)

Spec == Init /\ [][Next]_vars

-------------------------------------------------------------------------------
(* Properties *)

Stretch(i, n) == [k \in 1..n |-> At(Plus(i, k - 1))]

Input == INSTANCE LineInput WITH Capacity <- INPUT_BUF_SIZE,
           entered <- Stretch(r, Minus(w, r)), line <- Stretch(w, Minus(e, w))

\* Across wrapped indices, erasing, full lines and reads in pieces, the ring is
\* an input of lines: nothing entered is erased, lost or read twice.
ImplementsInput == Input!Spec

\* A full ring has something to read: typing cannot jam the console.
NotJammed == Minus(e, r) = INPUT_BUF_SIZE => r # w

\* A reader sleeps only while no input has been entered.
ReaderSleeps == \A p \in Reader : asleep[p] /\ lock = NoReader => r = w
RingInv == TypeOK /\ NotJammed /\ ReaderSleeps
===============================================================================
