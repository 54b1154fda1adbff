-------------------------------- MODULE SpinLock --------------------------------
(***************************************************************************)
(* kernel/spinlock.c: acquire, release, holding, push_off and pop_off, on    *)
(* CPUs that take interrupts.  A CPU runs a kernel thread or, on top of it,  *)
(* one interrupt handler (trap.c enables no interrupts inside a handler);    *)
(* both take locks.  The steps are those another CPU, or an interrupt on the *)
(* same CPU, can fall between.                                               *)
(***************************************************************************)
EXTENDS Integers, FiniteSets

CONSTANTS CPU, Lock,
          NoCPU, NoLock,
          Order           \* <<m, l>> \in Order: callers take l while they hold m

ASSUME NoneAssumption == NoCPU \notin CPU /\ NoLock \notin Lock
ASSUME OrderAssumption == \A l \in Lock : <<l, l>> \notin Order

VARIABLES locked, owner,          \* lk->locked, lk->cpu
          noff, intena,           \* struct cpu
          intr,                   \* sstatus.SIE of each CPU
          handling,               \* the CPU is inside an interrupt handler
          pc, lk, old,            \* per activation: place, argument, push_off's old
          held                    \* per activation: the locks it has acquired

lockVars == <<locked, owner>>
cpuVars == <<noff, intena, intr, handling>>
vars == <<lockVars, cpuVars, pc, lk, old, held>>

\* the activations: the kernel thread and the handler of each CPU
Act == CPU \X {"thread", "handler"}
Cpu(a) == a[1]
Runs(a) == a[2] = "handler" <=> handling[Cpu(a)]

PC == {"run", "off", "check", "swap", "own",       \* acquire
       "disown", "unlock", "pop",                  \* release
       "panic"}

TypeOK == /\ locked \in [Lock -> BOOLEAN]
          /\ owner \in [Lock -> CPU \cup {NoCPU}]
          /\ noff \in [CPU -> Nat]
          /\ intena \in [CPU -> BOOLEAN]
          /\ intr \in [CPU -> BOOLEAN]
          /\ handling \in [CPU -> BOOLEAN]
          /\ pc \in [Act -> PC]
          /\ lk \in [Act -> Lock \cup {NoLock}]
          /\ old \in [Act -> BOOLEAN]
          /\ held \in [Act -> SUBSET Lock]

\* initlock on every lock; system calls run with interrupts on
Init == /\ locked = [l \in Lock |-> FALSE]
        /\ owner = [l \in Lock |-> NoCPU]
        /\ noff = [c \in CPU |-> 0]
        /\ intena = [c \in CPU |-> FALSE]
        /\ intr = [c \in CPU |-> TRUE]
        /\ handling = [c \in CPU |-> FALSE]
        /\ pc = [a \in Act |-> "run"]
        /\ lk = [a \in Act |-> NoLock]
        /\ old = [a \in Act |-> FALSE]
        /\ held = [a \in Act |-> {}]

Goto(a, from, to) == Runs(a) /\ pc[a] = from /\ pc' = [pc EXCEPT ![a] = to]

Holding(c, l) == locked[l] /\ owner[l] = c

-------------------------------------------------------------------------------
(* acquire *)

\* push_off reads sstatus.SIE.  The callers nest locks in one order.
AcquireCall(a, l) == /\ Goto(a, "run", "off")
                     /\ \A m \in held[a] : <<m, l>> \in Order
                     /\ lk' = [lk EXCEPT ![a] = l]
                     /\ old' = [old EXCEPT ![a] = intr[Cpu(a)]]
                     /\ UNCHANGED <<lockVars, cpuVars, held>>

\* Mutant: the count is set, not raised.
CountPush_Flat(c, o) == /\ intr' = [intr EXCEPT ![c] = FALSE]
                        /\ intena' = IF noff[c] = 0 THEN [intena EXCEPT ![c] = o] ELSE intena
                        /\ noff' = [noff EXCEPT ![c] = 1]

\* push_off turns interrupts off and counts
CountPush(c, o) == /\ intr' = [intr EXCEPT ![c] = FALSE]
                   /\ intena' = IF noff[c] = 0 THEN [intena EXCEPT ![c] = o] ELSE intena
                   /\ noff' = [noff EXCEPT ![c] = @ + 1]

PushOff(a) == /\ Goto(a, "off", IF lk[a] = NoLock THEN "pop" ELSE "check")
              /\ CountPush(Cpu(a), old[a])
              /\ old' = [old EXCEPT ![a] = FALSE]
              /\ UNCHANGED <<lockVars, handling, lk, held>>

Check(a) == /\ Goto(a, "check", IF Holding(Cpu(a), lk[a]) THEN "panic" ELSE "swap")
            /\ UNCHANGED <<lockVars, cpuVars, lk, old, held>>

\* Mutant: a load and a store instead of the swap.
Swap_Unchecked(a) == /\ Goto(a, "swap", "own")
                     /\ locked' = [locked EXCEPT ![lk[a]] = TRUE]
                     /\ held' = [held EXCEPT ![a] = @ \cup {lk[a]}]
                     /\ UNCHANGED <<owner, cpuVars, lk, old>>

\* amoswap finds 0 and leaves 1; finding 1 it goes on spinning
Swap(a) == /\ Goto(a, "swap", "own")
           /\ ~locked[lk[a]]
           /\ locked' = [locked EXCEPT ![lk[a]] = TRUE]
           /\ held' = [held EXCEPT ![a] = @ \cup {lk[a]}]
           /\ UNCHANGED <<owner, cpuVars, lk, old>>

Own(a) == /\ Goto(a, "own", "run")
          /\ owner' = [owner EXCEPT ![lk[a]] = Cpu(a)]
          /\ lk' = [lk EXCEPT ![a] = NoLock]
          /\ UNCHANGED <<locked, cpuVars, old, held>>

-------------------------------------------------------------------------------
(* release *)

\* Callers release what they hold, in any order.
ReleaseCall(a, l) == /\ Goto(a, "run", "disown")
                     /\ l \in held[a]
                     /\ lk' = [lk EXCEPT ![a] = l]
                     /\ UNCHANGED <<lockVars, cpuVars, old, held>>

\* Mutant: lk->cpu is left behind.
Disown_KeepOwner(a) == /\ Goto(a, "disown", IF Holding(Cpu(a), lk[a]) THEN "unlock" ELSE "panic")
                       /\ UNCHANGED <<lockVars, cpuVars, lk, old, held>>

Disown(a) == /\ Goto(a, "disown", IF Holding(Cpu(a), lk[a]) THEN "unlock" ELSE "panic")
             /\ owner' = IF Holding(Cpu(a), lk[a]) THEN [owner EXCEPT ![lk[a]] = NoCPU] ELSE owner
             /\ UNCHANGED <<locked, cpuVars, lk, old, held>>

Unlock(a) == /\ Goto(a, "unlock", "pop")
             /\ locked' = [locked EXCEPT ![lk[a]] = FALSE]
             /\ held' = [held EXCEPT ![a] = @ \ {lk[a]}]
             /\ lk' = [lk EXCEPT ![a] = NoLock]
             /\ UNCHANGED <<owner, cpuVars, old>>

\* "pop_off - interruptible" and "pop_off"
BadPop(c) == intr[c] \/ noff[c] < 1

CountPop(c) == /\ noff' = [noff EXCEPT ![c] = @ - 1]
               /\ intr' = [intr EXCEPT ![c] = noff[c] = 1 /\ intena[c]]

PopOff(a) == /\ Goto(a, "pop", IF BadPop(Cpu(a)) THEN "panic" ELSE "run")
             /\ IF BadPop(Cpu(a)) THEN UNCHANGED <<noff, intr>> ELSE CountPop(Cpu(a))
             /\ UNCHANGED <<lockVars, intena, handling, lk, old, held>>

\* push_off ... pop_off around a look at this CPU's state (myproc)
Myproc(a) == /\ Goto(a, "run", "off")
             /\ old' = [old EXCEPT ![a] = intr[Cpu(a)]]
             /\ UNCHANGED <<lockVars, cpuVars, lk, held>>

-------------------------------------------------------------------------------
(* Interrupts *)

\* kernelvec: the hardware clears SIE and remembers that it was set
Interrupt(c) == /\ intr[c]
                /\ handling' = [handling EXCEPT ![c] = TRUE]
                /\ intr' = [intr EXCEPT ![c] = FALSE]
                /\ UNCHANGED <<lockVars, noff, intena, pc, lk, old, held>>

Sret(c) == /\ handling[c]
           /\ pc[<<c, "handler">>] = "run" /\ held[<<c, "handler">>] = {}
           /\ handling' = [handling EXCEPT ![c] = FALSE]
           /\ intr' = [intr EXCEPT ![c] = TRUE]
           /\ UNCHANGED <<lockVars, noff, intena, pc, lk, old, held>>

Call(a) == Myproc(a) \/ \E l \in Lock : AcquireCall(a, l) \/ ReleaseCall(a, l)
Advance(a) == PushOff(a) \/ Check(a) \/ Swap(a) \/ Own(a)
                 \/ Disown(a) \/ Unlock(a) \/ PopOff(a)

Next == \/ \E a \in Act : Call(a) \/ Advance(a)
        \/ \E c \in CPU : Interrupt(c) \/ Sret(c)

Spec == Init /\ [][Next]_vars

-------------------------------------------------------------------------------
(* Properties *)

T(c) == <<c, "thread">>
H(c) == <<c, "handler">>

\* the push_offs of an activation: one per lock held, and one if it has pushed
\* without holding yet, or no longer holds and has not popped
Pushes(a) == Cardinality(held[a]) + (IF pc[a] \in {"check", "swap", "pop"} THEN 1 ELSE 0)

\* noff counts exactly the locks held on a CPU, by its thread and its handler,
\* and the acquires, releases and myprocs underway: what sched relies on when
\* it asks for noff = 1.
NoffExact == \A c \in CPU : noff[c] = Pushes(T(c)) + Pushes(H(c))

\* A CPU that holds a spinlock, or is handling an interrupt, takes no
\* interrupt: no handler can spin on a lock of the thread it interrupted.
Uninterrupted ==
  \A a \in Act : /\ held[a] # {} => ~intr[Cpu(a)]
                 /\ handling[Cpu(a)] => ~intr[Cpu(a)]

\* However calls nest and interrupts fall, a thread that has released all its
\* locks runs with interrupts on, as before its first acquire.
IntrRestored ==
  \A c \in CPU : ~handling[c] /\ pc[T(c)] \in {"run", "off"} /\ held[T(c)] = {} => intr[c]

\* None of the panics of acquire, release and pop_off is ever reached by
\* callers that take locks in order and release what they hold.
NoPanic == \A a \in Act : pc[a] # "panic"

\* holding() tells the truth to the CPU that asks, although lk->locked and
\* lk->cpu change in separate steps of other CPUs.
HoldingExact ==
  \A a \in Act : pc[a] \in {"check", "disown"} =>
    (Holding(Cpu(a), lk[a]) <=> \E b \in Act : Cpu(b) = Cpu(a) /\ lk[a] \in held[b])

Holder(l) == IF \E a \in Act : l \in held[a] THEN CHOOSE a \in Act : l \in held[a]
                                           ELSE <<NoCPU, "free">>
Locks == INSTANCE LockSpec WITH Thread <- Act, Free <- <<NoCPU, "free">>,
                                holder <- [l \in Lock |-> Holder(l)]

\* The spinlocks are locks: each has at most one holder at a time.
ImplementsLocks == Locks!Spec

-------------------------------------------------------------------------------
(* The inductive invariant behind them *)

\* lk->locked is set exactly while one activation holds the lock.
LockedExact ==
  /\ \A l \in Lock : locked[l] <=> \E a \in Act : l \in held[a]
  /\ \A a, b \in Act : \A l \in Lock : l \in held[a] /\ l \in held[b] => a = b

\* lk->cpu names the holder's CPU from the end of acquire to the start of
\* release, and nobody at any other time.
InTransit(a, l) == pc[a] \in {"own", "unlock"} /\ lk[a] = l
OwnerExact ==
  \A l \in Lock :
    /\ \A a \in Act : l \in held[a] => owner[l] = (IF InTransit(a, l) THEN NoCPU ELSE Cpu(a))
    /\ (\A a \in Act : l \notin held[a]) => owner[l] = NoCPU

Argument ==
  \A a \in Act :
    /\ pc[a] \in {"own", "disown", "unlock"} => lk[a] \in held[a]
    /\ pc[a] \in {"check", "swap"} => lk[a] \in Lock /\ lk[a] \notin held[a]
    /\ pc[a] = "off" /\ lk[a] # NoLock => lk[a] \notin held[a]
    /\ pc[a] \in {"run", "pop"} => lk[a] = NoLock

\* Only a thread that owes no pop_off is interrupted.
HandlerOnTop ==
  \A c \in CPU : IF handling[c] THEN pc[T(c)] \in {"run", "off"} /\ held[T(c)] = {}
                              ELSE pc[H(c)] = "run" /\ held[H(c)] = {}

\* Interrupts are on exactly where push_off found them on.
IntrExact ==
  \A c \in CPU :
    /\ intr[c] <=> noff[c] = 0 /\ ~handling[c]
    /\ noff[c] > 0 => (intena[c] <=> ~handling[c])
    /\ pc[T(c)] = "off" /\ held[T(c)] = {} => old[T(c)]
    /\ pc[H(c)] = "off" => ~old[H(c)]

HeldFinite == \A a \in Act : IsFiniteSet(held[a])

SpinInv == /\ TypeOK /\ LockedExact /\ OwnerExact /\ Argument
           /\ HandlerOnTop /\ IntrExact /\ HeldFinite /\ NoffExact /\ NoPanic
===============================================================================
