---------------------------------- MODULE Sched ----------------------------------
(***************************************************************************)
(* kernel/proc.c: scheduler, sched, yield, sleep, wakeup and the waking half *)
(* of kkill, with the sleep lock of kernel/sleeplock.c as their client.      *)
(* Every CPU runs its scheduler or the kernel thread of one process; p->lock *)
(* is taken on one side of a context switch and released on the other.       *)
(* Interrupt states follow push_off and pop_off, as in SpinLock.             *)
(***************************************************************************)
EXTENDS Integers, FiniteSets

CONSTANTS CPU, NoCPU, NPROC

ASSUME NoCPUAssumption == NoCPU \notin CPU
ASSUME NprocAssumption == NPROC \in Nat \ {0}

Proc == 1..NPROC
None == 0                \* no process: a CPU's scheduler, a free sleep lock

VARIABLES state, asleep,            \* p->state; p->chan is the sleep lock
          plock, slk,               \* holders of p->lock and of the sleep lock's spinlock
          locked,                   \* the process that holds the sleep lock
          ctx, scan,                \* per CPU: what runs on it, the scheduler's place
          intr, intena,             \* per CPU: sstatus.SIE and struct cpu
          pc, saved, ret, idx       \* per process: place, sched's intena, yield's
                                    \* return place, wakeup's place

procVars == <<state, asleep>>
spinVars == <<plock, slk>>
cpuVars == <<ctx, scan>>
intrVars == <<intr, intena>>
threadVars == <<pc, saved, ret, idx>>
vars == <<procVars, spinVars, locked, cpuVars, intrVars, threadVars>>

State == {"SLEEPING", "RUNNABLE", "RUNNING"}
PC == {"forkret", "run",
       "acquire", "sleep", "sleep_release", "sleep_mark", "sched_sleep", "slept",
       "sched_yield", "yielded", "wake", "panic"}

TypeOK == /\ state \in [Proc -> State] /\ asleep \in [Proc -> BOOLEAN]
          /\ plock \in [Proc -> CPU \cup {NoCPU}] /\ slk \in CPU \cup {NoCPU}
          /\ locked \in Proc \cup {None}
          /\ ctx \in [CPU -> Proc \cup {None}] /\ scan \in [CPU -> 0..NPROC]
          /\ intr \in [CPU -> BOOLEAN] /\ intena \in [CPU -> BOOLEAN]
          /\ pc \in [Proc -> PC]
          /\ saved \in [Proc -> BOOLEAN]
          /\ ret \in [Proc -> {"run", "acquire"}]
          /\ idx \in [Proc -> 1..(NPROC + 1)]

\* every process has been forked and has not run yet
Init == /\ state = [p \in Proc |-> "RUNNABLE"] /\ asleep = [p \in Proc |-> FALSE]
        /\ plock = [p \in Proc |-> NoCPU] /\ slk = NoCPU
        /\ locked = None
        /\ ctx = [c \in CPU |-> None] /\ scan = [c \in CPU |-> 0]
        /\ intr = [c \in CPU |-> FALSE] /\ intena = [c \in CPU |-> FALSE]
        /\ pc = [p \in Proc |-> "forkret"]
        /\ saved = [p \in Proc |-> FALSE]
        /\ ret = [p \in Proc |-> "run"]
        /\ idx = [p \in Proc |-> 1]

-------------------------------------------------------------------------------
(* push_off and pop_off, and the locks of a CPU *)

noff(c) == Cardinality({p \in Proc : plock[p] = c}) + (IF slk = c THEN 1 ELSE 0)

\* acquire: interrupts go off; the outermost one remembers what they were
Push(c) == /\ intena' = IF noff(c) = 0 THEN [intena EXCEPT ![c] = intr[c]] ELSE intena
           /\ intr' = [intr EXCEPT ![c] = FALSE]

\* release: the outermost one gives them back as ena says
Pop(c, ena) == intr' = IF noff(c) = 1 /\ ena THEN [intr EXCEPT ![c] = TRUE] ELSE intr

\* acquire ... release, where nothing else happens in between
Section(c) == /\ intena' = IF noff(c) = 0 THEN [intena EXCEPT ![c] = intr[c]] ELSE intena
              /\ UNCHANGED intr

-------------------------------------------------------------------------------
(* scheduler *)

\* The outer loop: intr_on, intr_off.
LoopTop(c) == /\ ctx[c] = None /\ scan[c] = 0
              /\ scan' = [scan EXCEPT ![c] = 1]
              /\ intr' = [intr EXCEPT ![c] = FALSE]
              /\ UNCHANGED <<procVars, spinVars, locked, ctx, intena, threadVars>>

NextProc(q) == IF q = NPROC THEN 0 ELSE q + 1

\* A process that is not RUNNABLE is passed by.
Skip(c) == /\ ctx[c] = None /\ scan[c] # 0
           /\ plock[scan[c]] = NoCPU
           /\ state[scan[c]] # "RUNNABLE"
           /\ scan' = [scan EXCEPT ![c] = NextProc(@)]
           /\ Section(c)
           /\ UNCHANGED <<procVars, spinVars, locked, ctx, threadVars>>

\* A RUNNABLE one is switched to, with its lock held.
Pick(c) == LET q == scan[c] IN
           /\ ctx[c] = None /\ q # 0
           /\ plock[q] = NoCPU /\ state[q] = "RUNNABLE"
           /\ plock' = [plock EXCEPT ![q] = c]
           /\ Push(c)
           /\ state' = [state EXCEPT ![q] = "RUNNING"]
           /\ ctx' = [ctx EXCEPT ![c] = q]
           /\ UNCHANGED <<asleep, slk, locked, scan, threadVars>>

\* back from the process's sched: release its lock
Back(c) == LET q == scan[c] IN
           /\ ctx[c] = None /\ q # 0 /\ plock[q] = c
           /\ Pop(c, intena[c])
           /\ plock' = [plock EXCEPT ![q] = NoCPU]
           /\ scan' = [scan EXCEPT ![c] = NextProc(@)]
           /\ UNCHANGED <<procVars, slk, locked, ctx, intena, threadVars>>

-------------------------------------------------------------------------------
(* sched, yield, forkret *)

Goto(c, p, from, to) == ctx[c] = p /\ pc[p] = from /\ pc' = [pc EXCEPT ![p] = to]

\* the four panics of sched
BadSched(c, p) == plock[p] # c \/ noff(c) # 1 \/ state[p] = "RUNNING" \/ intr[c]

\* swtch to this CPU's scheduler; "from" is where sched was called
Sched(c, p, from, to) == /\ Goto(c, p, from, IF BadSched(c, p) THEN "panic" ELSE to)
                         /\ saved' = [saved EXCEPT ![p] = intena[c]]
                         /\ ctx' = [ctx EXCEPT ![c] = None]
                         /\ UNCHANGED <<procVars, spinVars, locked, scan, intrVars, ret, idx>>

\* The timer interrupts a thread that runs with interrupts on; kerneltrap
\* yields with interrupts off.
Timer(c, p) == /\ ctx[c] = p /\ pc[p] \in {"run", "acquire"}
               /\ intr[c] /\ plock[p] = NoCPU
               /\ plock' = [plock EXCEPT ![p] = c]
               /\ intena' = [intena EXCEPT ![c] = FALSE]
               /\ intr' = [intr EXCEPT ![c] = FALSE]
               /\ state' = [state EXCEPT ![p] = "RUNNABLE"]
               /\ ret' = [ret EXCEPT ![p] = pc[p]]
               /\ pc' = [pc EXCEPT ![p] = "sched_yield"]
               /\ UNCHANGED <<asleep, slk, locked, cpuVars, saved, idx>>

\* yield's way back: sched restores intena, the lock is released, and the trap
\* returns to where interrupts were on
Yielded(c, p) == /\ Goto(c, p, "yielded", ret[p])
                 /\ plock' = [plock EXCEPT ![p] = NoCPU]
                 /\ intena' = [intena EXCEPT ![c] = saved[p]]
                 /\ intr' = [intr EXCEPT ![c] = TRUE]
                 /\ UNCHANGED <<procVars, slk, locked, cpuVars, saved, ret, idx>>

\* a forked process's first run: release the scheduler's lock, go to user mode
Forkret(c, p) == /\ Goto(c, p, "forkret", "run")
                 /\ plock' = [plock EXCEPT ![p] = NoCPU]
                 /\ intr' = [intr EXCEPT ![c] = TRUE]
                 /\ UNCHANGED <<procVars, slk, locked, cpuVars, intena, saved, ret, idx>>

-------------------------------------------------------------------------------
(* acquiresleep, and sleep inside it *)

AcquireCall(c, p) == /\ Goto(c, p, "run", "acquire")
                     /\ locked # p
                     /\ UNCHANGED <<procVars, spinVars, locked, cpuVars, intrVars, saved, ret, idx>>

\* Mutant: the awakened process takes the lock without looking.
AcquireTake_NoCheck(c, p) == /\ Goto(c, p, "acquire", "run")
                             /\ slk = NoCPU
                             /\ locked' = p
                             /\ Section(c)
                             /\ UNCHANGED <<procVars, spinVars, cpuVars, saved, ret, idx>>

AcquireTake(c, p) == /\ Goto(c, p, "acquire", "run")
                     /\ slk = NoCPU /\ locked = None
                     /\ locked' = p
                     /\ Section(c)
                     /\ UNCHANGED <<procVars, spinVars, cpuVars, saved, ret, idx>>

AcquireWait(c, p) == /\ Goto(c, p, "acquire", "sleep")
                     /\ slk = NoCPU /\ locked # None
                     /\ slk' = c
                     /\ Push(c)
                     /\ UNCHANGED <<procVars, plock, locked, cpuVars, saved, ret, idx>>

\* sleep takes p->lock before it lets go of the condition's lock
SleepLock(c, p) == /\ Goto(c, p, "sleep", "sleep_release")
                   /\ plock[p] = NoCPU
                   /\ plock' = [plock EXCEPT ![p] = c]
                   /\ Push(c)
                   /\ UNCHANGED <<procVars, slk, locked, cpuVars, saved, ret, idx>>

SleepRelease(c, p) == /\ Goto(c, p, "sleep_release", "sleep_mark")
                      /\ Pop(c, intena[c])
                      /\ slk' = NoCPU
                      /\ UNCHANGED <<procVars, plock, locked, cpuVars, intena, saved, ret, idx>>

SleepMark(c, p) == /\ Goto(c, p, "sleep_mark", "sched_sleep")
                   /\ asleep' = [asleep EXCEPT ![p] = TRUE]
                   /\ state' = [state EXCEPT ![p] = "SLEEPING"]
                   /\ UNCHANGED <<spinVars, locked, cpuVars, intrVars, saved, ret, idx>>

\* awake again: tidy up, and try the sleep lock again
Slept(c, p) == /\ Goto(c, p, "slept", "acquire")
               /\ asleep' = [asleep EXCEPT ![p] = FALSE]
               /\ intena' = [intena EXCEPT ![c] = saved[p]]
               /\ Pop(c, saved[p])
               /\ plock' = [plock EXCEPT ![p] = NoCPU]
               /\ UNCHANGED <<state, slk, locked, cpuVars, saved, ret, idx>>

-------------------------------------------------------------------------------
(* releasesleep, and wakeup inside it; kkill *)

ReleaseStart(c, p) == /\ Goto(c, p, "run", "wake")
                      /\ locked = p /\ slk = NoCPU
                      /\ locked' = None
                      /\ slk' = c
                      /\ Push(c)
                      /\ UNCHANGED <<procVars, plock, cpuVars, saved, ret, idx>>

\* a sleeping process is made RUNNABLE
Wake(q) == state' = IF state[q] = "SLEEPING" THEN [state EXCEPT ![q] = "RUNNABLE"] ELSE state

\* Mutant: a process whose lock is busy is passed by.
WakeOne_TryLock(c, p) ==
  /\ Goto(c, p, "wake", "wake")
  /\ idx[p] <= NPROC
  /\ IF asleep[idx[p]] /\ plock[idx[p]] = NoCPU THEN Wake(idx[p]) ELSE UNCHANGED state
  /\ idx' = [idx EXCEPT ![p] = @ + 1]
  /\ UNCHANGED <<asleep, spinVars, locked, cpuVars, intrVars, saved, ret>>

\* wakeup looks at one process after the other, not at its own
WakeOne(c, p) == /\ Goto(c, p, "wake", "wake")
                 /\ idx[p] <= NPROC
                 /\ idx[p] # p => plock[idx[p]] = NoCPU
                 /\ IF idx[p] # p /\ asleep[idx[p]] THEN Wake(idx[p]) ELSE UNCHANGED state
                 /\ idx' = [idx EXCEPT ![p] = @ + 1]
                 /\ UNCHANGED <<asleep, spinVars, locked, cpuVars, intrVars, saved, ret>>

ReleaseEnd(c, p) == /\ Goto(c, p, "wake", "run")
                    /\ idx[p] > NPROC
                    /\ idx' = [idx EXCEPT ![p] = 1]
                    /\ Pop(c, intena[c])
                    /\ slk' = NoCPU
                    /\ UNCHANGED <<procVars, plock, locked, cpuVars, intena, saved, ret>>

\* kkill wakes its victim, whatever it sleeps on
Kill(c, p, q) == /\ Goto(c, p, "run", "run")
                 /\ plock[q] = NoCPU /\ state[q] = "SLEEPING"
                 /\ Wake(q)
                 /\ Section(c)
                 /\ UNCHANGED <<asleep, spinVars, locked, cpuVars, saved, ret, idx>>

-------------------------------------------------------------------------------

Scheduler(c) == LoopTop(c) \/ Skip(c) \/ Pick(c) \/ Back(c)

\* the steps a thread takes once it has begun, on whatever CPU it runs
Advance(p) == \E c \in CPU :
                \/ Sched(c, p, "sched_yield", "yielded") \/ Sched(c, p, "sched_sleep", "slept")
                \/ Yielded(c, p) \/ Forkret(c, p)
                \/ AcquireTake(c, p) \/ AcquireWait(c, p)
                \/ SleepLock(c, p) \/ SleepRelease(c, p) \/ SleepMark(c, p) \/ Slept(c, p)
                \/ ReleaseStart(c, p) \/ WakeOne(c, p) \/ ReleaseEnd(c, p)

Next == \/ \E c \in CPU : Scheduler(c)
        \/ \E p \in Proc : Advance(p)
        \/ \E c \in CPU, p \in Proc : \/ Timer(c, p) \/ AcquireCall(c, p)
                                      \/ \E q \in Proc \ {p} : Kill(c, p, q)

Spec == Init /\ [][Next]_vars

-------------------------------------------------------------------------------
(* Properties *)

\* No two CPUs run one process's kernel stack, although a process becomes
\* RUNNABLE or SLEEPING before it has left its stack.
OneStack == \A c, d \in CPU : ctx[c] # None /\ ctx[c] = ctx[d] => c = d

\* A process that is not RUNNING and still on a CPU, or RUNNING and on none,
\* is protected by its lock.
RunningOnCPU == \A p \in Proc : plock[p] = NoCPU =>
                  (state[p] = "RUNNING" <=> \E c \in CPU : ctx[c] = p)

\* intena belongs to the thread, not to the CPU: code that ran with interrupts
\* on finds them on after sleep and yield, also on another CPU.
IntrFollowsThread == \A c \in CPU, p \in Proc :
                       ctx[c] = p /\ pc[p] \in {"run", "acquire"} => intr[c]

\* None of sched's panics is reached.
NoPanic == \A p \in Proc : pc[p] # "panic"

\* No lost wakeup: a process sleeps on a free sleep lock only while a wakeup
\* that has not come to it yet is underway.
WakeupDue(p) == \E q \in Proc : pc[q] = "wake" /\ idx[q] <= p
NoLostWakeup == \A p \in Proc : state[p] = "SLEEPING" /\ locked = None => WakeupDue(p)

\* Where a thread is tells its state and who holds its lock: its CPU, until the
\* scheduler there has it; nobody, while it waits for a CPU; a scheduler, and then
\* again its CPU, on the way back.
On(p) == \E c \in CPU : ctx[c] = p
HeldOn(p) == plock[p] # NoCPU /\ ctx[plock[p]] = p
ThreadsInPlace == \A p \in Proc :
  /\ pc[p] \in {"run", "acquire", "sleep", "wake"} =>
       plock[p] = NoCPU /\ On(p) /\ state[p] = "RUNNING"
  /\ pc[p] \in {"sleep_release", "sleep_mark"} => HeldOn(p) /\ state[p] = "RUNNING"
  /\ pc[p] = "sched_sleep" => HeldOn(p) /\ state[p] = "SLEEPING" /\ asleep[p]
  /\ pc[p] = "sched_yield" => HeldOn(p) /\ state[p] = "RUNNABLE"
  /\ pc[p] \in {"forkret", "yielded", "slept"} =>
       IF state[p] = "RUNNING" THEN HeldOn(p) ELSE ~On(p)
  /\ pc[p] = "slept" => asleep[p] /\ saved[p]
  /\ state[p] = "SLEEPING" => pc[p] \in {"sched_sleep", "slept"}

\* A CPU holds at most the lock of the process its scheduler is at, and the spinlock
\* of the sleep lock, which goes from acquiresleep into sleep and through wakeup.
Inside == {"sleep", "sleep_release", "wake"}
LocksInPlace ==
  /\ \A c \in CPU : /\ ctx[c] # None => scan[c] = ctx[c]
                    /\ ctx[c] # None /\ pc[ctx[c]] \in Inside => slk = c
  /\ \A p \in Proc : plock[p] # NoCPU => scan[plock[p]] = p /\ ctx[plock[p]] \in {p, None}
  /\ slk # NoCPU => ctx[slk] # None /\ pc[ctx[slk]] \in Inside

\* Interrupts are on in threads that hold no lock, and intena remembers that from
\* their first lock on; they are off where a scheduler has a process's lock.
IntrsInPlace == \A c \in CPU :
  /\ ctx[c] # None =>
       /\ intr[c] <=> (pc[ctx[c]] \in {"run", "acquire"})
       /\ pc[ctx[c]] \in Inside \cup {"sleep_mark", "sched_sleep"} => intena[c]
  /\ ctx[c] = None /\ scan[c] # 0 /\ plock[scan[c]] = c => ~intr[c]

\* Between the look at the lock and the sleep no wakeup passes: until p->lock is
\* taken the lock's spinlock is held, and then wakeup waits for p->lock.
SleepersWoken == \A p \in Proc :
  /\ pc[p] # "wake" => idx[p] = 1
  /\ pc[p] \in {"sleep", "sleep_release"} => locked # None
  /\ (pc[p] = "sleep_mark" \/ state[p] = "SLEEPING") => (locked # None \/ WakeupDue(p))

SchedInv == /\ TypeOK /\ OneStack /\ RunningOnCPU /\ IntrFollowsThread /\ NoPanic /\ NoLostWakeup
            /\ ThreadsInPlace /\ LocksInPlace /\ IntrsInPlace /\ SleepersWoken

SleepLocks == INSTANCE LockSpec WITH Thread <- Proc, Lock <- {"lk"}, Free <- None,
                                     holder <- [l \in {"lk"} |-> locked]

\* The sleep lock is a lock: one holder at a time.
ImplementsLock == SleepLocks!Spec
===============================================================================
