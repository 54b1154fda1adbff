-------------------------------- MODULE FileStore --------------------------------
(***************************************************************************)
(* What the data of files promises: a file is a sequence of bytes, an open    *)
(* file has an offset that all who share it move, and a read or a piece of a  *)
(* write happens at once.                                                     *)
(***************************************************************************)
EXTENDS Naturals, Sequences

CONSTANTS Proc, File, Inode, Of(_), Byte, MaxLen,
          Unknown          \* a byte that a write left when it failed
VARIABLES file, off, got

Len2(n, m) == IF n > m THEN n ELSE m
\* n bytes b at position o of s, and unknown ones on the k positions after them.
Put(s, o, n, b, k) == [j \in 1..Len2(Len(s), o + n) |->
                         IF j \in (o + 1)..(o + n) THEN b
                         ELSE IF j \in (o + n + 1)..(o + n + k) THEN Unknown ELSE s[j]]

Init == /\ file \in [Inode -> Seq(Byte)]
        /\ off = [f \in File |-> 0] /\ got = [p \in Proc |-> << >>]

\* n bytes, each of them p, and then, if that failed, k unknown ones
Write(p, f) == /\ UNCHANGED got
               /\ \E n \in 0..MaxLen :
                    /\ off' = [off EXCEPT ![f] = @ + n] /\ off[f] <= Len(file[Of(f)])
                    /\ \E k \in 0..MaxLen :
                         file' = [file EXCEPT ![Of(f)] = Put(@, off[f], n, p, k)]
Read(p, f) == \E n \in 0..Len(file[Of(f)]) :
                /\ off' = [off EXCEPT ![f] = @ + n]
                /\ n > 0 => off[f] + n <= Len(file[Of(f)])
                /\ got' = [got EXCEPT ![p] = SubSeq(file[Of(f)], off[f] + 1, off[f] + n)]
                /\ UNCHANGED file
Stat(p, f) == got' = [got EXCEPT ![p] = <<Len(file[Of(f)])>>] /\ UNCHANGED <<file, off>>
Truncate(i) == file' = [file EXCEPT ![i] = << >>] /\ UNCHANGED <<off, got>>

Next == \/ \E f \in File, p \in Proc : Write(p, f) \/ Read(p, f) \/ Stat(p, f)
        \/ \E i \in Inode : Truncate(i)
Spec == Init /\ [][Next]_<<file, off, got>>
===============================================================================
