--------------------------------- MODULE FdTable ---------------------------------
(***************************************************************************)
(* What descriptors promise: numbers that are a process's own, the lowest one *)
(* first, each for one open object, which no other process can take away.    *)
(***************************************************************************)
EXTENDS Integers, FiniteSetsExt, Functions

CONSTANTS Proc, Fd, Ends, Objects   \* two ends of each pipe; what open may find
VARIABLE fds                        \* per process, its open descriptors

Free(p) == Fd \ DOMAIN fds[p]
InUse == UNION {Range(fds[p]) : p \in Proc}
Opened(f, x) == LET fd == Min(Fd \ DOMAIN f)
                IN [n \in DOMAIN f \cup {fd} |-> IF n = fd THEN x ELSE f[n]]

Open(p) == /\ Free(p) # {}
           /\ \E x \in Objects : fds' = [fds EXCEPT ![p] = Opened(@, x)]
\* A pipe whose ends nobody has.
Pipe(p) == /\ Cardinality(Free(p)) > 1
           /\ \E e \in Ends : /\ InUse \cap {e.r, e.w} = {}
                              /\ fds' = [fds EXCEPT ![p] = Opened(Opened(@, e.r), e.w)]
Dup(p, fd) == /\ Free(p) # {} /\ fd \in DOMAIN fds[p]
              /\ fds' = [fds EXCEPT ![p] = Opened(@, @[fd])]
Close(p, fd) == fds' = [fds EXCEPT ![p] = Restrict(@, DOMAIN @ \ {fd})]
Fork(p, q) == fds[q] = << >> /\ fds' = [fds EXCEPT ![q] = fds[p]]

Next == \E p \in Proc : \/ Open(p) \/ Pipe(p)
                        \/ \E fd \in Fd : Dup(p, fd) \/ Close(p, fd)
                        \/ \E q \in Proc : Fork(p, q)
Spec == fds = [p \in Proc |-> << >>] /\ [][Next]_fds
===============================================================================
