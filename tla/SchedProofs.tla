------------------------------- MODULE SchedProofs -------------------------------
(***************************************************************************)
(* Proofs about Sched, for any set of CPUs and any number of processes, about *)
(* ProcTable, for any number of processes and pids, and about Traps, for any   *)
(* CPUs, processes and interrupts and any size of the kernel's text.          *)
(***************************************************************************)
EXTENDS MCSched, FiniteSetTheorems, TLAPS

\* The inductive part of SchedInv; the rest follows from it in every state.
Core == /\ TypeOK /\ OneStack /\ NoPanic
        /\ ThreadsInPlace /\ LocksInPlace /\ IntrsInPlace /\ SleepersWoken

\* What follows: a process is RUNNING exactly when a CPU has it, unless its lock is held;
\* interrupts follow the thread; no wakeup is lost.
LEMMA CoreSuffices == Core => SchedInv
<1> SUFFICES ASSUME Core
             PROVE  RunningOnCPU /\ IntrFollowsThread /\ NoLostWakeup
  BY DEF Core, SchedInv
<1>1. RunningOnCPU
  BY DEF Core, TypeOK, PC, State, NoPanic, ThreadsInPlace, On, HeldOn, RunningOnCPU
<1>2. IntrFollowsThread
  BY DEF Core, IntrsInPlace, IntrFollowsThread, Proc, None
<1>3. NoLostWakeup
  BY DEF Core, SleepersWoken, NoLostWakeup
<1> QED  BY <1>1, <1>2, <1>3

-------------------------------------------------------------------------------
(* How many locks a CPU holds *)

\* A CPU holds at most the lock of the process its scheduler is at, and the sleep lock's
\* spinlock, so noff counts to two.
LEMMA NoffIs ==
  ASSUME TypeOK, LocksInPlace, NEW c \in CPU
  PROVE  noff(c) = (IF scan[c] \in Proc /\ plock[scan[c]] = c THEN 1 ELSE 0)
                     + (IF slk = c THEN 1 ELSE 0)
<1> DEFINE S == {p \in Proc : plock[p] = c}
<1>1. CASE scan[c] \in Proc /\ plock[scan[c]] = c
  <2>1. S = {scan[c]}
    BY <1>1, NoCPUAssumption DEF LocksInPlace
  <2> QED  BY <1>1, <2>1, FS_Singleton DEF noff
<1>2. CASE ~(scan[c] \in Proc /\ plock[scan[c]] = c)
  <2>1. S = {}
    BY <1>2, NoCPUAssumption DEF LocksInPlace
  <2> QED  BY <1>2, <2>1, FS_EmptySet DEF noff
<1> QED  BY <1>1, <1>2

\* A thread outside sleep, sched and wakeup holds none.
LEMMA NoLock ==
  ASSUME Core, NEW c \in CPU, NEW p \in Proc, ctx[c] = p, pc[p] \in {"run", "acquire"}
  PROVE  noff(c) = 0
<1>1. plock[p] = NoCPU /\ scan[c] = p /\ slk # c
  BY NoCPUAssumption DEF Core, ThreadsInPlace, LocksInPlace, Inside, Proc, None
<1> QED  BY <1>1, NoffIs, NoCPUAssumption DEF Core

\* A thread that is about to switch holds its own.
LEMMA OwnLock ==
  ASSUME Core, NEW c \in CPU, NEW p \in Proc, ctx[c] = p,
         pc[p] \in {"sched_yield", "sched_sleep", "yielded", "slept", "forkret"}
  PROVE  plock[p] = c /\ slk # c /\ noff(c) = 1
<1>1. HeldOn(p) /\ plock[p] \in CPU
  BY NoCPUAssumption DEF Core, TypeOK, ThreadsInPlace, On, HeldOn
<1>2. plock[p] = c /\ scan[c] = p
  BY <1>1 DEF Core, OneStack, LocksInPlace, HeldOn, Proc, None
<1>3. slk # c
  BY NoCPUAssumption DEF Core, LocksInPlace, Inside
<1> QED  BY <1>2, <1>3, NoffIs DEF Core

\* A scheduler holds the lock of the process it is at, or none.
LEMMA SchedulerLock ==
  ASSUME Core, NEW c \in CPU, ctx[c] = None, scan[c] \in Proc
  PROVE  noff(c) = IF plock[scan[c]] = c THEN 1 ELSE 0
<1>1. slk # c
  BY NoCPUAssumption DEF Core, LocksInPlace
<1> QED  BY <1>1, NoffIs DEF Core

-------------------------------------------------------------------------------
(* Every step preserves the invariant *)

\* The scheduler starts a round.
LEMMA LoopTopKeeps ==
  ASSUME NEW c \in CPU, Core, LoopTop(c)
  PROVE  Core'
<1> USE DEF Core, TypeOK, None, procVars, spinVars, cpuVars, intrVars, threadVars
<1>1. TypeOK'
  BY NprocAssumption DEF LoopTop, TypeOK
<1>2. OneStack'
  BY DEF LoopTop, OneStack
<1>3. NoPanic'
  BY DEF LoopTop, NoPanic
<1>4. ThreadsInPlace'
  BY DEF LoopTop, ThreadsInPlace, On, HeldOn
<1>5. LocksInPlace'
  BY DEF LoopTop, LocksInPlace, Proc
<1>6. IntrsInPlace'
  BY DEF LoopTop, IntrsInPlace
<1>7. SleepersWoken'
  BY DEF LoopTop, SleepersWoken, WakeupDue
<1> QED  BY <1>1, <1>2, <1>3, <1>4, <1>5, <1>6, <1>7

\* A process that cannot run is passed by.
LEMMA SkipKeeps ==
  ASSUME NEW c \in CPU, Core, Skip(c)
  PROVE  Core'
<1> USE DEF Core, TypeOK, None, procVars, spinVars, cpuVars, intrVars, threadVars
<1>a. intr' = intr /\ intena' \in [CPU -> BOOLEAN] /\ \A d \in CPU : d # c => intena'[d] = intena[d]
  BY DEF Skip, Section
<1>1. TypeOK'
  <2>1. NextProc(scan[c]) \in 0..NPROC
    BY NprocAssumption DEF NextProc
  <2>2. scan' \in [CPU -> 0..NPROC]
    BY <2>1 DEF Skip
  <2> QED  BY <1>a, <2>2 DEF Skip
<1>2. OneStack'
  BY DEF Skip, OneStack
<1>3. NoPanic'
  BY DEF Skip, NoPanic
<1>4. ThreadsInPlace'
  BY DEF Skip, ThreadsInPlace, On, HeldOn
<1>5. LocksInPlace'
  BY DEF Skip, LocksInPlace
<1>6. IntrsInPlace'
  BY <1>a, NprocAssumption DEF Skip, NextProc, IntrsInPlace, LocksInPlace, Proc
<1>7. SleepersWoken'
  BY DEF Skip, SleepersWoken, WakeupDue
<1> QED  BY <1>1, <1>2, <1>3, <1>4, <1>5, <1>6, <1>7

\* The process chosen was runnable and off every CPU; now it is on this one, locked.
LEMMA PickKeeps ==
  ASSUME NEW c \in CPU, Core, Pick(c)
  PROVE  Core'
<1> USE DEF Core, TypeOK, None, procVars, spinVars, cpuVars, intrVars, threadVars
<1>0. /\ scan[c] \in Proc /\ intr' = [intr EXCEPT ![c] = FALSE]
      /\ intena' = [intena EXCEPT ![c] = intr[c]]
  BY SchedulerLock, NoCPUAssumption DEF Pick, Push, Proc
<1>1. TypeOK'
  BY <1>0 DEF Pick, TypeOK, State
<1>2. OneStack'
  BY DEF Pick, OneStack, ThreadsInPlace, On, HeldOn, PC, NoPanic
<1>3. NoPanic'
  BY DEF Pick, NoPanic
<1>4. ThreadsInPlace'
  BY NoCPUAssumption DEF Pick, ThreadsInPlace, On, HeldOn, Proc
<1>5. LocksInPlace'
  BY <1>0 DEF Pick, LocksInPlace, ThreadsInPlace, Inside
<1>6. IntrsInPlace'
  BY <1>0 DEF Pick, IntrsInPlace, ThreadsInPlace, Inside
<1>7. SleepersWoken'
  BY DEF Pick, SleepersWoken, WakeupDue
<1> QED  BY <1>1, <1>2, <1>3, <1>4, <1>5, <1>6, <1>7

\* A thread that has switched away is off the CPU, and its lock is released.
LEMMA BackKeeps ==
  ASSUME NEW c \in CPU, Core, Back(c)
  PROVE  Core'
<1> USE DEF Core, TypeOK, None, procVars, spinVars, cpuVars, intrVars, threadVars
<1>0. /\ scan[c] \in Proc
      /\ intr' \in [CPU -> BOOLEAN] /\ \A d \in CPU : d # c => intr'[d] = intr[d]
  BY DEF Back, Pop, Proc
<1>1. TypeOK'
  <2>1. NextProc(scan[c]) \in 0..NPROC
    BY NprocAssumption DEF NextProc
  <2> QED  BY <1>0, <2>1 DEF Back
<1>2. OneStack'
  BY DEF Back, OneStack
<1>3. NoPanic'
  BY DEF Back, NoPanic
<1>4. ThreadsInPlace'
  BY DEF Back, ThreadsInPlace, On, HeldOn
<1>5. LocksInPlace'
  BY DEF Back, LocksInPlace
<1>6. IntrsInPlace'
  BY <1>0, NoCPUAssumption, NprocAssumption DEF Back, NextProc, IntrsInPlace, LocksInPlace, Proc
<1>7. SleepersWoken'
  BY DEF Back, SleepersWoken, WakeupDue
<1> QED  BY <1>1, <1>2, <1>3, <1>4, <1>5, <1>6, <1>7

\* The thread that yields leaves its stack with its lock held.
LEMMA SchedYieldKeeps ==
  ASSUME NEW c \in CPU, NEW p \in Proc, Core, Sched(c, p, "sched_yield", "yielded")
  PROVE  Core'
<1> USE DEF Core, TypeOK, None, procVars, spinVars, cpuVars, intrVars, threadVars
<1>0. plock[p] = c /\ slk # c /\ noff(c) = 1 /\ ~BadSched(c, p)
  BY OwnLock DEF Sched, Goto, BadSched, ThreadsInPlace, IntrsInPlace, Proc
<1>1. TypeOK'
  BY DEF Sched, Goto, TypeOK, PC
<1>2. OneStack'
  BY DEF Sched, OneStack
<1>3. NoPanic'
  BY <1>0 DEF Sched, Goto, NoPanic
<1>4. ThreadsInPlace'
  BY DEF Sched, Goto, ThreadsInPlace, On, HeldOn, OneStack, Proc
<1>5. LocksInPlace'
  BY <1>0 DEF Sched, Goto, LocksInPlace, OneStack
<1>6. IntrsInPlace'
  BY DEF Sched, Goto, IntrsInPlace, OneStack
<1>7. SleepersWoken'
  BY DEF Sched, Goto, SleepersWoken, WakeupDue
<1> QED  BY <1>1, <1>2, <1>3, <1>4, <1>5, <1>6, <1>7

\* So does the one that sleeps, and remembers that its interrupts were on.
LEMMA SchedSleepKeeps ==
  ASSUME NEW c \in CPU, NEW p \in Proc, Core, Sched(c, p, "sched_sleep", "slept")
  PROVE  Core'
<1> USE DEF Core, TypeOK, None, procVars, spinVars, cpuVars, intrVars, threadVars
<1>0. plock[p] = c /\ slk # c /\ noff(c) = 1 /\ ~BadSched(c, p)
  BY OwnLock DEF Sched, Goto, BadSched, ThreadsInPlace, IntrsInPlace, Proc
<1>a. ctx[c] = p /\ intena[c] = TRUE /\ asleep[p] /\ state[p] = "SLEEPING"
  BY DEF Sched, Goto, IntrsInPlace, ThreadsInPlace, Proc
<1>1. TypeOK'
  BY DEF Sched, Goto, TypeOK, PC
<1>2. OneStack'
  BY DEF Sched, OneStack
<1>3. NoPanic'
  BY <1>0 DEF Sched, Goto, NoPanic
<1>4. ThreadsInPlace'
  BY <1>0, <1>a DEF Sched, Goto, ThreadsInPlace, On, HeldOn, OneStack, Proc
<1>5. LocksInPlace'
  BY <1>0 DEF Sched, Goto, LocksInPlace, OneStack
<1>6. IntrsInPlace'
  BY DEF Sched, Goto, IntrsInPlace
<1>7. SleepersWoken'
  BY DEF Sched, Goto, SleepersWoken, WakeupDue
<1> QED  BY <1>1, <1>2, <1>3, <1>4, <1>5, <1>6, <1>7

\* A timer interrupt comes when interrupts are on, so no lock is held.
LEMMA TimerKeeps ==
  ASSUME NEW c \in CPU, NEW p \in Proc, Core, Timer(c, p)
  PROVE  Core'
<1> USE DEF Core, TypeOK, None, procVars, spinVars, cpuVars, intrVars, threadVars
<1>1. TypeOK'
  BY DEF Timer, TypeOK, State, PC
<1>2. OneStack'
  BY DEF Timer, OneStack
<1>3. NoPanic'
  BY DEF Timer, NoPanic
<1>4. ThreadsInPlace'
  BY NoCPUAssumption DEF Timer, ThreadsInPlace, On, HeldOn
<1>5. LocksInPlace'
  BY DEF Timer, LocksInPlace, Inside, Proc
<1>6. IntrsInPlace'
  BY DEF Timer, IntrsInPlace, Inside, OneStack
<1>7. SleepersWoken'
  BY DEF Timer, SleepersWoken, WakeupDue
<1> QED  BY <1>1, <1>2, <1>3, <1>4, <1>5, <1>6, <1>7

\* Back from sched, the thread finds its interrupts on.
LEMMA YieldedKeeps ==
  ASSUME NEW c \in CPU, NEW p \in Proc, Core, Yielded(c, p)
  PROVE  Core'
<1> USE DEF Core, TypeOK, None, procVars, spinVars, cpuVars, intrVars, threadVars
<1>0. plock[p] = c /\ slk # c
  BY OwnLock DEF Yielded, Goto
<1>1. TypeOK'
  BY DEF Yielded, Goto, TypeOK, PC
<1>2. OneStack'
  BY DEF Yielded, OneStack
<1>3. NoPanic'
  BY DEF Yielded, Goto, NoPanic
<1>4. ThreadsInPlace'
  BY DEF Yielded, Goto, ThreadsInPlace, On, HeldOn
<1>5. LocksInPlace'
  BY DEF Yielded, Goto, LocksInPlace, Inside
<1>6. IntrsInPlace'
  BY <1>0, NoCPUAssumption DEF Yielded, Goto, IntrsInPlace, LocksInPlace, Inside, OneStack
<1>7. SleepersWoken'
  BY DEF Yielded, Goto, SleepersWoken, WakeupDue
<1> QED  BY <1>1, <1>2, <1>3, <1>4, <1>5, <1>6, <1>7

\* A new process leaves the scheduler's lock behind.
LEMMA ForkretKeeps ==
  ASSUME NEW c \in CPU, NEW p \in Proc, Core, Forkret(c, p)
  PROVE  Core'
<1> USE DEF Core, TypeOK, None, procVars, spinVars, cpuVars, intrVars, threadVars
<1>0. plock[p] = c /\ slk # c
  BY OwnLock DEF Forkret, Goto
<1>1. TypeOK'
  BY DEF Forkret, Goto, TypeOK, PC
<1>2. OneStack'
  BY DEF Forkret, OneStack
<1>3. NoPanic'
  BY DEF Forkret, Goto, NoPanic
<1>4. ThreadsInPlace'
  BY DEF Forkret, Goto, ThreadsInPlace, On, HeldOn
<1>5. LocksInPlace'
  BY DEF Forkret, Goto, LocksInPlace, Inside
<1>6. IntrsInPlace'
  BY <1>0, NoCPUAssumption DEF Forkret, Goto, IntrsInPlace, LocksInPlace, Inside, OneStack
<1>7. SleepersWoken'
  BY DEF Forkret, Goto, SleepersWoken, WakeupDue
<1> QED  BY <1>1, <1>2, <1>3, <1>4, <1>5, <1>6, <1>7

\* Nothing is held yet.
LEMMA AcquireCallKeeps ==
  ASSUME NEW c \in CPU, NEW p \in Proc, Core, AcquireCall(c, p)
  PROVE  Core'
<1> USE DEF Core, TypeOK, None, procVars, spinVars, cpuVars, intrVars, threadVars
<1>1. TypeOK'
  BY DEF AcquireCall, Goto, TypeOK, PC
<1>2. OneStack'
  BY DEF AcquireCall, OneStack
<1>3. NoPanic'
  BY DEF AcquireCall, Goto, NoPanic
<1>4. ThreadsInPlace'
  BY DEF AcquireCall, Goto, ThreadsInPlace, On, HeldOn
<1>5. LocksInPlace'
  BY DEF AcquireCall, Goto, LocksInPlace, Inside
<1>6. IntrsInPlace'
  BY DEF AcquireCall, Goto, IntrsInPlace, Inside
<1>7. SleepersWoken'
  BY DEF AcquireCall, Goto, SleepersWoken, WakeupDue
<1> QED  BY <1>1, <1>2, <1>3, <1>4, <1>5, <1>6, <1>7

\* The sleep lock is taken only when free.
LEMMA AcquireTakeKeeps ==
  ASSUME NEW c \in CPU, NEW p \in Proc, Core, AcquireTake(c, p)
  PROVE  Core'
<1> USE DEF Core, TypeOK, None, procVars, spinVars, cpuVars, intrVars, threadVars
<1>0. intr' = intr /\ intena' = [intena EXCEPT ![c] = intr[c]]
  BY NoLock DEF AcquireTake, Goto, Section
<1>1. TypeOK'
  BY <1>0 DEF AcquireTake, Goto, TypeOK, PC
<1>2. OneStack'
  BY DEF AcquireTake, OneStack
<1>3. NoPanic'
  BY DEF AcquireTake, Goto, NoPanic
<1>4. ThreadsInPlace'
  BY DEF AcquireTake, Goto, ThreadsInPlace, On, HeldOn
<1>5. LocksInPlace'
  BY DEF AcquireTake, Goto, LocksInPlace, Inside
<1>6. IntrsInPlace'
  BY <1>0 DEF AcquireTake, Goto, IntrsInPlace, OneStack
<1>7. SleepersWoken'
  BY DEF AcquireTake, Goto, SleepersWoken, WakeupDue
<1> QED  BY <1>1, <1>2, <1>3, <1>4, <1>5, <1>6, <1>7

\* Who has to wait keeps the spinlock, so no release passes.
LEMMA AcquireWaitKeeps ==
  ASSUME NEW c \in CPU, NEW p \in Proc, Core, AcquireWait(c, p)
  PROVE  Core'
<1> USE DEF Core, TypeOK, None, procVars, spinVars, cpuVars, intrVars, threadVars
<1>0. intr' = [intr EXCEPT ![c] = FALSE] /\ intena' = [intena EXCEPT ![c] = intr[c]]
  BY NoLock DEF AcquireWait, Goto, Push
<1>1. TypeOK'
  BY <1>0 DEF AcquireWait, Goto, TypeOK, PC
<1>2. OneStack'
  BY DEF AcquireWait, OneStack
<1>3. NoPanic'
  BY DEF AcquireWait, Goto, NoPanic
<1>4. ThreadsInPlace'
  BY DEF AcquireWait, Goto, ThreadsInPlace, On, HeldOn
<1>5. LocksInPlace'
  BY NoCPUAssumption DEF AcquireWait, Goto, LocksInPlace, Inside, OneStack, Proc
<1>6. IntrsInPlace'
  BY <1>0 DEF AcquireWait, Goto, IntrsInPlace, OneStack
<1>7. SleepersWoken'
  BY DEF AcquireWait, Goto, SleepersWoken
<1> QED  BY <1>1, <1>2, <1>3, <1>4, <1>5, <1>6, <1>7

\* p->lock comes before the spinlock goes.
LEMMA SleepLockKeeps ==
  ASSUME NEW c \in CPU, NEW p \in Proc, Core, SleepLock(c, p)
  PROVE  Core'
<1> USE DEF Core, TypeOK, None, procVars, spinVars, cpuVars, intrVars, threadVars
<1>0. slk = c /\ scan[c] = p /\ intr' = [intr EXCEPT ![c] = FALSE] /\ intena' = intena
  BY NoffIs, NoCPUAssumption DEF SleepLock, Goto, Push, LocksInPlace, Inside, Proc
<1>1. TypeOK'
  BY <1>0 DEF SleepLock, Goto, TypeOK, PC
<1>2. OneStack'
  BY DEF SleepLock, OneStack
<1>3. NoPanic'
  BY DEF SleepLock, Goto, NoPanic
<1>4. ThreadsInPlace'
  BY NoCPUAssumption DEF SleepLock, Goto, ThreadsInPlace, On, HeldOn
<1>5. LocksInPlace'
  BY <1>0 DEF SleepLock, Goto, LocksInPlace, Inside
<1>6. IntrsInPlace'
  BY <1>0 DEF SleepLock, Goto, IntrsInPlace, Inside
<1>7. SleepersWoken'
  BY DEF SleepLock, Goto, SleepersWoken
<1> QED  BY <1>1, <1>2, <1>3, <1>4, <1>5, <1>6, <1>7

\* With p->lock held the spinlock may go: a wakeup waits for p->lock.
LEMMA SleepReleaseKeeps ==
  ASSUME NEW c \in CPU, NEW p \in Proc, Core, SleepRelease(c, p)
  PROVE  Core'
<1> USE DEF Core, TypeOK, None, procVars, spinVars, cpuVars, intrVars, threadVars
<1>0. plock[p] = c /\ slk = c /\ scan[c] = p /\ intr' = intr
  BY NoffIs DEF SleepRelease, Goto, Pop, ThreadsInPlace, HeldOn, LocksInPlace, Inside, Proc
<1>1. TypeOK'
  BY <1>0 DEF SleepRelease, Goto, TypeOK, PC
<1>2. OneStack'
  BY DEF SleepRelease, OneStack
<1>3. NoPanic'
  BY DEF SleepRelease, Goto, NoPanic
<1>4. ThreadsInPlace'
  BY DEF SleepRelease, Goto, ThreadsInPlace, On, HeldOn
<1>5. LocksInPlace'
  BY <1>0 DEF SleepRelease, Goto, LocksInPlace, Inside
<1>6. IntrsInPlace'
  BY <1>0 DEF SleepRelease, Goto, IntrsInPlace, Inside
<1>7. SleepersWoken'
  BY DEF SleepRelease, Goto, SleepersWoken
<1> QED  BY <1>1, <1>2, <1>3, <1>4, <1>5, <1>6, <1>7

\* The process sleeps on a held lock, or ahead of a wakeup that has not come to it.
LEMMA SleepMarkKeeps ==
  ASSUME NEW c \in CPU, NEW p \in Proc, Core, SleepMark(c, p)
  PROVE  Core'
<1> USE DEF Core, TypeOK, None, procVars, spinVars, cpuVars, intrVars, threadVars
<1>1. TypeOK'
  BY DEF SleepMark, Goto, TypeOK, State, PC
<1>2. OneStack'
  BY DEF SleepMark, OneStack
<1>3. NoPanic'
  BY DEF SleepMark, Goto, NoPanic
<1>4. ThreadsInPlace'
  BY DEF SleepMark, Goto, ThreadsInPlace, On, HeldOn
<1>5. LocksInPlace'
  BY DEF SleepMark, Goto, LocksInPlace, Inside
<1>6. IntrsInPlace'
  BY DEF SleepMark, Goto, IntrsInPlace
<1>7. SleepersWoken'
  BY DEF SleepMark, Goto, SleepersWoken, WakeupDue
<1> QED  BY <1>1, <1>2, <1>3, <1>4, <1>5, <1>6, <1>7

\* Awake: it holds its lock only, and its interrupts come back on.
LEMMA SleptKeeps ==
  ASSUME NEW c \in CPU, NEW p \in Proc, Core, Slept(c, p)
  PROVE  Core'
<1> USE DEF Core, TypeOK, None, procVars, spinVars, cpuVars, intrVars, threadVars
<1>0. plock[p] = c /\ slk # c /\ intr' = [intr EXCEPT ![c] = TRUE]
  BY OwnLock DEF Slept, Goto, Pop, ThreadsInPlace
<1>1. TypeOK'
  BY <1>0 DEF Slept, Goto, TypeOK, PC
<1>2. OneStack'
  BY DEF Slept, OneStack
<1>3. NoPanic'
  BY DEF Slept, Goto, NoPanic
<1>4. ThreadsInPlace'
  BY DEF Slept, Goto, ThreadsInPlace, On, HeldOn
<1>5. LocksInPlace'
  BY DEF Slept, Goto, LocksInPlace, Inside
<1>6. IntrsInPlace'
  BY <1>0, NoCPUAssumption DEF Slept, Goto, IntrsInPlace, ThreadsInPlace, LocksInPlace, OneStack
<1>7. SleepersWoken'
  BY DEF Slept, Goto, SleepersWoken, WakeupDue
<1> QED  BY <1>1, <1>2, <1>3, <1>4, <1>5, <1>6, <1>7

\* The release wakes, from the first process on, whoever sleeps.
LEMMA ReleaseStartKeeps ==
  ASSUME NEW c \in CPU, NEW p \in Proc, Core, ReleaseStart(c, p)
  PROVE  Core'
<1> USE DEF Core, TypeOK, None, procVars, spinVars, cpuVars, intrVars, threadVars
<1>0. intr' = [intr EXCEPT ![c] = FALSE] /\ intena' = [intena EXCEPT ![c] = intr[c]]
  BY NoLock DEF ReleaseStart, Goto, Push
<1>1. TypeOK'
  BY <1>0 DEF ReleaseStart, Goto, TypeOK, PC
<1>2. OneStack'
  BY DEF ReleaseStart, OneStack
<1>3. NoPanic'
  BY DEF ReleaseStart, Goto, NoPanic
<1>4. ThreadsInPlace'
  BY DEF ReleaseStart, Goto, ThreadsInPlace, On, HeldOn
<1>5. LocksInPlace'
  BY NoCPUAssumption DEF ReleaseStart, Goto, LocksInPlace, Inside, OneStack, Proc
<1>6. IntrsInPlace'
  BY <1>0 DEF ReleaseStart, Goto, IntrsInPlace, OneStack
<1>7. SleepersWoken'
  <2>1. idx' = idx /\ pc' = [pc EXCEPT ![p] = "wake"] /\ idx[p] = 1 /\ state' = state
    BY DEF ReleaseStart, Goto, SleepersWoken
  <2>2. \A q \in Proc : WakeupDue(q)'
    BY <2>1 DEF WakeupDue, Proc
  <2>3. \A q \in Proc : pc[q] \notin {"sleep", "sleep_release"}
    <3>1. slk = NoCPU
      BY DEF ReleaseStart
    <3>2. \A d \in CPU : ctx[d] = None \/ pc[ctx[d]] \notin Inside
      BY <3>1, NoCPUAssumption DEF LocksInPlace
    <3>3. ASSUME NEW q \in Proc, pc[q] \in {"sleep", "sleep_release"}
          PROVE  \E d \in CPU : ctx[d] = q
      BY <3>3 DEF ThreadsInPlace, On, HeldOn
    <3> QED  BY <3>2, <3>3 DEF Inside, Proc
  <2> QED  BY <2>1, <2>2, <2>3 DEF SleepersWoken
<1> QED  BY <1>1, <1>2, <1>3, <1>4, <1>5, <1>6, <1>7

\* The wakeup passes a process that it has made runnable or that does not sleep.
LEMMA WakeOneKeeps ==
  ASSUME NEW c \in CPU, NEW p \in Proc, Core, WakeOne(c, p)
  PROVE  Core'
<1> USE DEF Core, TypeOK, None, procVars, spinVars, cpuVars, intrVars, threadVars
<1>0. slk = c /\ idx[p] \in Proc
  BY DEF WakeOne, Goto, LocksInPlace, Inside, Proc
<1>1. TypeOK'
  <2>1. idx[p] + 1 \in 1..(NPROC + 1)
    BY <1>0, NprocAssumption DEF Proc
  <2> QED  BY <1>0, <2>1 DEF WakeOne, Goto, Wake, State, PC
<1>2. OneStack'
  BY DEF WakeOne, OneStack
<1>3. NoPanic'
  BY DEF WakeOne, Goto, NoPanic
<1>4. ThreadsInPlace'
  BY NprocAssumption DEF WakeOne, Goto, Wake, ThreadsInPlace, On, HeldOn
<1>5. LocksInPlace'
  BY DEF WakeOne, Goto, LocksInPlace
<1>6. IntrsInPlace'
  BY DEF WakeOne, Goto, IntrsInPlace
<1>7. SleepersWoken'
  BY <1>0, NprocAssumption DEF WakeOne, Goto, Wake, SleepersWoken, WakeupDue,
     ThreadsInPlace, HeldOn, Proc
<1> QED  BY <1>1, <1>2, <1>3, <1>4, <1>5, <1>6, <1>7

\* A wakeup that has passed everyone leaves no one asleep on a free lock.
LEMMA ReleaseEndKeeps ==
  ASSUME NEW c \in CPU, NEW p \in Proc, Core, ReleaseEnd(c, p)
  PROVE  Core'
<1> USE DEF Core, TypeOK, None, procVars, spinVars, cpuVars, intrVars, threadVars
<1>0. slk = c /\ intr' = [intr EXCEPT ![c] = TRUE]
  BY NoffIs, NoCPUAssumption DEF ReleaseEnd, Goto, Pop, ThreadsInPlace, IntrsInPlace,
     LocksInPlace, Inside, Proc
<1>1. TypeOK'
  BY <1>0, NprocAssumption DEF ReleaseEnd, Goto, TypeOK, PC
<1>2. OneStack'
  BY DEF ReleaseEnd, OneStack
<1>3. NoPanic'
  BY DEF ReleaseEnd, Goto, NoPanic
<1>4. ThreadsInPlace'
  BY DEF ReleaseEnd, Goto, ThreadsInPlace, On, HeldOn
<1>5. LocksInPlace'
  BY <1>0 DEF ReleaseEnd, Goto, LocksInPlace, Inside
<1>6. IntrsInPlace'
  BY <1>0 DEF ReleaseEnd, Goto, IntrsInPlace, LocksInPlace, Inside, Proc
<1>7. SleepersWoken'
  BY NprocAssumption DEF ReleaseEnd, Goto, SleepersWoken, WakeupDue, Proc
<1> QED  BY <1>1, <1>2, <1>3, <1>4, <1>5, <1>6, <1>7

\* kkill wakes only who sleeps.
LEMMA KillKeeps ==
  ASSUME NEW c \in CPU, NEW p \in Proc, NEW q \in Proc \ {p}, Core, Kill(c, p, q)
  PROVE  Core'
<1> USE DEF Core, TypeOK, None, procVars, spinVars, cpuVars, intrVars, threadVars
<1>0. intr' = intr /\ intena' = [intena EXCEPT ![c] = intr[c]]
  BY NoLock DEF Kill, Goto, Section
<1>1. TypeOK'
  BY <1>0 DEF Kill, Goto, Wake, TypeOK, State
<1>2. OneStack'
  BY DEF Kill, OneStack
<1>3. NoPanic'
  BY DEF Kill, Goto, NoPanic
<1>4. ThreadsInPlace'
  BY DEF Kill, Goto, Wake, ThreadsInPlace, On, HeldOn
<1>5. LocksInPlace'
  BY DEF Kill, Goto, LocksInPlace
<1>6. IntrsInPlace'
  BY <1>0 DEF Kill, Goto, IntrsInPlace
<1>7. SleepersWoken'
  BY DEF Kill, Goto, Wake, SleepersWoken, WakeupDue
<1> QED  BY <1>1, <1>2, <1>3, <1>4, <1>5, <1>6, <1>7

\* Nothing changes.
LEMMA UnchangedKeeps ==
  ASSUME Core, UNCHANGED vars
  PROVE  Core'
<1> USE DEF Core, vars, procVars, spinVars, cpuVars, intrVars, threadVars
<1>1. TypeOK' /\ OneStack' /\ NoPanic'
  BY DEF TypeOK, OneStack, NoPanic
<1>2. ThreadsInPlace' /\ LocksInPlace' /\ IntrsInPlace'
  BY DEF ThreadsInPlace, On, HeldOn, LocksInPlace, IntrsInPlace
<1>3. SleepersWoken'
  BY DEF SleepersWoken, WakeupDue
<1> QED  BY <1>1, <1>2, <1>3

\* Nobody has run yet.
LEMMA InitKeeps == Init => Core
<1> USE DEF Init, None, Proc
<1>1. Init => TypeOK
  BY NprocAssumption DEF TypeOK, State, PC
<1>2. Init => OneStack /\ NoPanic
  BY DEF OneStack, NoPanic
<1>3. Init => ThreadsInPlace
  BY DEF ThreadsInPlace, On, HeldOn
<1>4. Init => LocksInPlace /\ IntrsInPlace
  BY NoCPUAssumption DEF LocksInPlace, IntrsInPlace
<1>5. Init => SleepersWoken
  BY DEF SleepersWoken
<1> QED  BY <1>1, <1>2, <1>3, <1>4, <1>5 DEF Core

\* Every step preserves the invariant, and so does none.
LEMMA NextKeeps == Core /\ [Next]_vars => Core'
<1> SUFFICES ASSUME Core, [Next]_vars
             PROVE  Core'
  OBVIOUS
<1>1. ASSUME NEW c \in CPU, Scheduler(c)
      PROVE  Core'
  BY <1>1, LoopTopKeeps, SkipKeeps, PickKeeps, BackKeeps DEF Scheduler
<1>2. ASSUME NEW c \in CPU, NEW p \in Proc,
             \/ Sched(c, p, "sched_yield", "yielded") \/ Sched(c, p, "sched_sleep", "slept")
             \/ Yielded(c, p) \/ Forkret(c, p)
             \/ AcquireTake(c, p) \/ AcquireWait(c, p)
      PROVE  Core'
  BY <1>2, SchedYieldKeeps, SchedSleepKeeps, YieldedKeeps, ForkretKeeps, AcquireTakeKeeps,
     AcquireWaitKeeps
<1>3. ASSUME NEW c \in CPU, NEW p \in Proc,
             \/ SleepLock(c, p) \/ SleepRelease(c, p) \/ SleepMark(c, p) \/ Slept(c, p)
             \/ ReleaseStart(c, p) \/ WakeOne(c, p) \/ ReleaseEnd(c, p)
      PROVE  Core'
  BY <1>3, SleepLockKeeps, SleepReleaseKeeps, SleepMarkKeeps, SleptKeeps, ReleaseStartKeeps,
     WakeOneKeeps, ReleaseEndKeeps
<1>4. ASSUME NEW p \in Proc, Advance(p)
      PROVE  Core'
  BY <1>2, <1>3, <1>4 DEF Advance
<1>5. ASSUME NEW c \in CPU, NEW p \in Proc,
             Timer(c, p) \/ AcquireCall(c, p) \/ \E q \in Proc \ {p} : Kill(c, p, q)
      PROVE  Core'
  BY <1>5, TimerKeeps, AcquireCallKeeps, KillKeeps
<1>6. CASE UNCHANGED vars
  BY <1>6, UnchangedKeeps
<1> QED  BY <1>1, <1>4, <1>5, <1>6 DEF Next

\* The strengthened invariant holds in every reachable state.
LEMMA CoreInvariant == Spec => []Core
<1> QED  BY InitKeeps, NextKeeps, PTL DEF Spec

\* For any number of CPUs and processes: one CPU on a stack, sched never panics, the
\* interrupt state follows the thread from CPU to CPU, and no wakeup is lost.
THEOREM SchedInvariant == Spec => []SchedInv
<1> QED  BY CoreInvariant, CoreSuffices, PTL

-------------------------------------------------------------------------------
(* The sleep lock is a lock *)

\* acquiresleep takes a free lock, releasesleep gives it back, and nothing else moves it.
LEMMA StepMaps ==
  ASSUME [Next]_vars
  PROVE  SleepLocks!Next \/ locked' = locked
<1> USE DEF SleepLocks!Next, SleepLocks!Take, SleepLocks!Give
<1>1. ASSUME NEW c \in CPU, NEW p \in Proc, AcquireTake(c, p)
      PROVE  SleepLocks!Next
  <2>1. locked = None /\ locked' = p
    BY <1>1 DEF AcquireTake
  <2> QED  BY <2>1
<1>2. ASSUME NEW c \in CPU, NEW p \in Proc, ReleaseStart(c, p)
      PROVE  SleepLocks!Next
  <2>1. locked = p /\ locked' = None
    BY <1>2 DEF ReleaseStart
  <2> QED  BY <2>1
<1>3. ASSUME NEW c \in CPU, NEW p \in Proc,
             \/ Timer(c, p) \/ AcquireCall(c, p)
             \/ \E q \in Proc \ {p} : Kill(c, p, q)
      PROVE  locked' = locked
  BY <1>3 DEF Timer, AcquireCall, Kill
<1>4. ASSUME NEW c \in CPU, NEW p \in Proc,
             \/ Sched(c, p, "sched_yield", "yielded") \/ Sched(c, p, "sched_sleep", "slept")
             \/ Yielded(c, p) \/ Forkret(c, p) \/ AcquireWait(c, p)
             \/ SleepLock(c, p) \/ SleepRelease(c, p) \/ SleepMark(c, p) \/ Slept(c, p)
             \/ WakeOne(c, p) \/ ReleaseEnd(c, p)
      PROVE  locked' = locked
  BY <1>4 DEF Sched, Yielded, Forkret, AcquireWait, SleepLock, SleepRelease, SleepMark, Slept,
     WakeOne, ReleaseEnd
<1>5. ASSUME NEW p \in Proc, Advance(p)
      PROVE  SleepLocks!Next \/ locked' = locked
  BY <1>1, <1>2, <1>4, <1>5 DEF Advance
<1>6. ASSUME NEW c \in CPU, Scheduler(c)
      PROVE  locked' = locked
  BY <1>6 DEF Scheduler, LoopTop, Skip, Pick, Back
<1>7. CASE UNCHANGED vars
  BY <1>7 DEF vars
<1> QED  BY <1>3, <1>5, <1>6, <1>7 DEF Next

\* One process at a time has the sleep lock, and only that one gives it back.
THEOREM Refinement == Spec => ImplementsLock
<1>1. Init => SleepLocks!Init
  BY DEF Init, SleepLocks!Init
<1>2. [Next]_vars => [SleepLocks!Next]_([l \in {"lk"} |-> locked])
  BY StepMaps
<1> QED  BY <1>1, <1>2, PTL DEF Spec, ImplementsLock, SleepLocks!Spec

-------------------------------------------------------------------------------
(* The process table *)

\* The pid that allocproc gives is new.
LEMMA ForkAllocKeeps ==
  ASSUME NEW p \in Table!Slot, Table!TableInv, Table!ForkAlloc(p)
  PROVE  Table!TableInv'
<1>1. Table!TypeOK'
  BY TableAssumption DEF Table!TypeOK, Table!State, Table!PC, Table!TableInv, Table!Slot,
     Table!None,
     Table!At, Table!Syscall, Table!ForkAlloc, Table!Unused
<1>2. Table!PidsUnique'
  BY DEF Table!PidsUnique, Table!TypeOK, Table!PidsInOrder, Table!TableInv, Table!ForkAlloc
<1>3. Table!ParentAlive'
  BY DEF Table!ParentAlive, Table!TableInv, Table!ForkAlloc, Table!Unused
<1>4. Table!OnlyNamedKilled'
  BY DEF Table!OnlyNamedKilled, Table!PidsUnique, Table!TableInv, Table!ForkAlloc, Table!Unused
<1>5. Table!NoLostExit'
  BY DEF Table!NoLostExit, Table!Zombies, Table!Kids, Table!TableInv, Table!ForkAlloc
<1>6. Table!CallsInPlace'
  <2> PICK np \in Table!Unused : /\ pstate' = [pstate EXCEPT ![np] = "USED"]
                                 /\ pid' = [pid EXCEPT ![np] = nextpid]
                                 /\ child' = [child EXCEPT ![p] = np]
    BY DEF Table!ForkAlloc
  <2>1. np \in Table!Slot /\ pstate[np] = "UNUSED"
    BY DEF Table!Unused
  <2>2. parent[np] = Table!None /\ np # p
    BY <2>1 DEF Table!Family, Table!TableInv, Table!At, Table!Syscall, Table!ForkAlloc
  <2>3. \A q \in Table!Slot : child[q] # np
    BY <2>1 DEF Table!CallsInPlace, Table!TableInv, Table!Slot, Table!None
  <2>4. /\ np \in Table!Slot /\ pstate[np] = "UNUSED" /\ parent[np] = Table!None /\ np # p
        /\ \A q \in Table!Slot : child[q] # np
    BY <2>1, <2>2, <2>3
  <2>5. \A q \in Table!Slot : q # p => child'[q] = child[q] /\ ppc'[q] = ppc[q]
    BY DEF Table!ForkAlloc
  <2>6. /\ child'[p] = np /\ ppc'[p] = "fork_parent"
        /\ pstate'[np] = "USED" /\ parent' = parent /\ pstate'[p] = pstate[p]
    BY <2>4 DEF Table!TypeOK, Table!TableInv, Table!ForkAlloc
  <2>7. \A s \in Table!Slot : s # np => pstate'[s] = pstate[s]
    OBVIOUS
  <2>8. \A q \in Table!Slot : q # p /\ child[q] # Table!None =>
          child[q] \in Table!Slot /\ child[q] # np
    BY <2>4 DEF Table!TypeOK, Table!TableInv
  <2>9. ppc[np] = "user"
    BY <2>4 DEF Table!CallsInPlace, Table!TableInv
  <2>10. ppc'[np] = "user"
    BY <2>4, <2>5, <2>9
  <2> QED  BY <2>4, <2>5, <2>6, <2>7, <2>8, <2>10 DEF Table!CallsInPlace, Table!TableInv, Table!At,
              Table!Syscall, Table!ForkAlloc
<1>7. Table!Family'
  BY DEF Table!Family, Table!TableInv, Table!ForkAlloc, Table!Unused
<1>8. Table!UnderWaitLock'
  BY DEF Table!UnderWaitLock, Table!Zombies, Table!Kids, Table!TableInv, Table!ForkAlloc
<1>9. Table!PidsInOrder'
  BY DEF Table!PidsInOrder, Table!TypeOK, Table!TableInv, Table!ForkAlloc
<1> QED  BY <1>1, <1>2, <1>3, <1>4, <1>5, <1>6, <1>7, <1>8, <1>9 DEF Table!TableInv

\* A fork that fails leaves its slot as it was, but not marked.
LEMMA ForkFailKeeps ==
  ASSUME NEW p \in Table!Slot, Table!TableInv, Table!ForkFail(p)
  PROVE  Table!TableInv'
<1>1. Table!TypeOK'
  BY TableAssumption DEF Table!TypeOK, Table!TableInv, Table!ForkFail, Table!Unused
<1>2. Table!PidsUnique'
  BY DEF Table!PidsUnique, Table!TableInv, Table!ForkFail
<1>3. Table!ParentAlive'
  BY DEF Table!ParentAlive, Table!TableInv, Table!ForkFail
<1>4. Table!OnlyNamedKilled'
  BY DEF Table!OnlyNamedKilled, Table!TableInv, Table!ForkFail
<1>5. Table!NoLostExit'
  BY DEF Table!NoLostExit, Table!Zombies, Table!Kids, Table!TableInv, Table!ForkFail
<1>6. Table!CallsInPlace'
  BY DEF Table!CallsInPlace, Table!TableInv, Table!ForkFail
<1>7. Table!Family'
  BY DEF Table!Family, Table!TableInv, Table!ForkFail
<1>8. Table!UnderWaitLock'
  BY DEF Table!UnderWaitLock, Table!Zombies, Table!Kids, Table!TableInv, Table!ForkFail
<1>9. Table!PidsInOrder'
  BY DEF Table!PidsInOrder, Table!TypeOK, Table!TableInv, Table!ForkFail
<1> QED  BY <1>1, <1>2, <1>3, <1>4, <1>5, <1>6, <1>7, <1>8, <1>9 DEF Table!TableInv

\* A child that is not RUNNABLE yet cannot be waited for in vain.
LEMMA ForkParentKeeps ==
  ASSUME NEW p \in Table!Slot, Table!TableInv, Table!ForkParent(p)
  PROVE  Table!TableInv'
<1>1. Table!TypeOK'
  BY DEF Table!TypeOK, Table!PC, Table!TableInv, Table!At, Table!Goto, Table!ForkParent
<1>2. Table!PidsUnique'
  BY DEF Table!PidsUnique, Table!TableInv, Table!ForkParent
<1>3. Table!ParentAlive'
  BY DEF Table!ParentAlive, Table!CallsInPlace, Table!TableInv, Table!Slot, Table!None,
     Table!ForkParent
<1>4. Table!OnlyNamedKilled'
  BY DEF Table!OnlyNamedKilled, Table!TableInv, Table!ForkParent
<1>5. Table!NoLostExit'
  <2>1. child[p] \in Table!Slot /\ pstate[child[p]] = "USED" /\ parent[child[p]] = Table!None
    BY DEF Table!TypeOK, Table!CallsInPlace, Table!TableInv, Table!At, Table!Goto, Table!ForkParent
  <2>2. \A q \in Table!Slot : q # p => Table!Kids(q)' = Table!Kids(q)
    BY <2>1 DEF Table!Kids, Table!Slot, Table!None, Table!ForkParent
  <2>3. \A q \in Table!Slot : q # p => Table!Zombies(q)' = Table!Zombies(q)
    BY <2>2 DEF Table!Zombies, Table!ForkParent
  <2>4. pstate' = pstate /\ pstate[p] = "RUNNABLE"
    BY DEF Table!At, Table!Goto, Table!ForkParent
  <2> QED  BY <2>2, <2>3, <2>4 DEF Table!NoLostExit, Table!TableInv
<1>6. Table!CallsInPlace'
  BY DEF Table!CallsInPlace, Table!TypeOK, Table!TableInv, Table!At, Table!Goto, Table!ForkParent
<1>7. Table!Family'
  BY DEF Table!Family, Table!TypeOK, Table!State, Table!CallsInPlace, Table!TableInv, Table!Slot,
     Table!None, Table!ForkParent
<1>8. Table!UnderWaitLock'
  BY DEF Table!UnderWaitLock, Table!TypeOK, Table!TableInv, Table!Slot, Table!None, Table!Goto,
     Table!ForkParent
<1>9. Table!PidsInOrder'
  BY DEF Table!PidsInOrder, Table!TableInv, Table!ForkParent
<1> QED  BY <1>1, <1>2, <1>3, <1>4, <1>5, <1>6, <1>7, <1>8, <1>9 DEF Table!TableInv

\* The new process runs, as a child of its parent.
LEMMA ForkRunKeeps ==
  ASSUME NEW p \in Table!Slot, Table!TableInv, Table!ForkRun(p)
  PROVE  Table!TableInv'
<1>1. Table!TypeOK'
  BY DEF Table!TypeOK, Table!PC, Table!TableInv, Table!At, Table!Goto, Table!ForkRun
<1>2. Table!PidsUnique'
  <2>1. child[p] \in Table!Slot /\ pstate[child[p]] = "USED"
    BY DEF Table!TypeOK, Table!CallsInPlace, Table!TableInv, Table!At, Table!Goto, Table!ForkRun
  <2>2. \A s \in Table!Slot : pstate'[s] = "UNUSED" <=> pstate[s] = "UNUSED"
    BY <2>1 DEF Table!ForkRun
  <2> QED  BY <2>2 DEF Table!PidsUnique, Table!TableInv, Table!ForkRun
<1>3. Table!ParentAlive'
  BY DEF Table!ParentAlive, Table!CallsInPlace, Table!TableInv, Table!Slot, Table!None, Table!At,
     Table!Goto, Table!ForkRun
<1>4. Table!OnlyNamedKilled'
  BY DEF Table!OnlyNamedKilled, Table!TableInv, Table!ForkRun
<1>5. Table!NoLostExit'
  BY DEF Table!NoLostExit, Table!Zombies, Table!Kids, Table!TableInv, Table!ForkRun
<1>6. Table!CallsInPlace'
  BY DEF Table!CallsInPlace, Table!TypeOK, Table!TableInv, Table!At, Table!Goto, Table!ForkRun
<1>7. Table!Family'
  BY DEF Table!Family, Table!TableInv, Table!ForkRun
<1>8. Table!UnderWaitLock'
  BY DEF Table!UnderWaitLock, Table!Zombies, Table!Kids, Table!TableInv, Table!Goto, Table!ForkRun
<1>9. Table!PidsInOrder'
  BY DEF Table!PidsInOrder, Table!TableInv, Table!ForkRun
<1> QED  BY <1>1, <1>2, <1>3, <1>4, <1>5, <1>6, <1>7, <1>8, <1>9 DEF Table!TableInv

\* Whoever exits gives its children to init, who is woken, and its parent is woken
\* before it is a ZOMBIE, but cannot look before wait_lock is free.
LEMMA ExitReparentKeeps ==
  ASSUME NEW p \in Table!Slot, Table!TableInv, Table!ExitReparent(p)
  PROVE  Table!TableInv'
<1>1. Table!TypeOK'
  <2>1. \A q \in Table!Slot : q # p => ppc'[q] = ppc[q]
    BY DEF Table!Goto, Table!ExitReparent
  <2>2. ppc'[p] = "exit" /\ ppc' \in [Table!Slot -> Table!PC]
    BY DEF Table!TypeOK, Table!PC, Table!TableInv, Table!Goto, Table!ExitReparent
  <2>3. \A q \in Table!Slot : wait_lock' = q <=> ppc'[q] \in {"exit", "wait_check", "wait_sleep"}
    BY <2>1, <2>2 DEF Table!TypeOK, Table!TableInv, Table!Slot, Table!None, Table!ExitReparent
  <2>4. \A q \in Table!Slot : child'[q] # Table!None <=> ppc'[q] \in {"fork_parent", "fork_run"}
    BY <2>1, <2>2 DEF Table!TypeOK, Table!TableInv, Table!At, Table!Goto, Table!ExitReparent
  <2>5. /\ pstate' \in [Table!Slot -> Table!State] /\ pid' \in [Table!Slot -> 0..MaxPid]
        /\ parent' \in [Table!Slot -> Table!Slot \cup {Table!None}]
        /\ killed' \in [Table!Slot -> BOOLEAN] /\ wait_lock' \in Table!Slot \cup {Table!None}
        /\ child' \in [Table!Slot -> Table!Slot \cup {Table!None}]
        /\ nextpid' \in 1..(MaxPid + 1) /\ named' \subseteq KillPid
    BY NprocAssumption DEF Table!TypeOK, Table!State, Table!TableInv, Table!Slot, Table!initproc,
       Table!ExitReparent, Table!Wakeup
  <2> QED  BY <2>2, <2>3, <2>4, <2>5 DEF Table!TypeOK
<1>2. Table!PidsUnique'
  BY DEF Table!PidsUnique, Table!TableInv, Table!ExitReparent, Table!Wakeup
<1>3. Table!ParentAlive'
  BY NprocAssumption DEF Table!ParentAlive, Table!TypeOK, Table!Family, Table!TableInv, Table!Slot,
     Table!None, Table!initproc, Table!ExitReparent, Table!Wakeup
<1>4. Table!OnlyNamedKilled'
  BY DEF Table!OnlyNamedKilled, Table!TableInv, Table!ExitReparent
<1>5. Table!NoLostExit'
  BY DEF Table!NoLostExit, Table!Zombies, Table!Kids, Table!TableInv, Table!At, Table!Goto,
     Table!ExitReparent, Table!Wakeup
<1>6. Table!CallsInPlace'
  BY DEF Table!CallsInPlace, Table!TypeOK, Table!TableInv, Table!At, Table!Goto,
     Table!ExitReparent, Table!Wakeup, Table!Kids
<1>7. Table!Family'
  BY NprocAssumption DEF Table!Family, Table!TypeOK, Table!TableInv, Table!Slot, Table!None,
     Table!initproc, Table!ExitReparent, Table!Wakeup, Table!Kids
<1>8. Table!UnderWaitLock'
  BY NprocAssumption DEF Table!UnderWaitLock, Table!Kids, Table!TypeOK, Table!ParentAlive,
     Table!TableInv, Table!Slot, Table!None, Table!initproc, Table!At, Table!Goto,
     Table!ExitReparent, Table!Wakeup
<1>9. Table!PidsInOrder'
  BY DEF Table!PidsInOrder, Table!TableInv, Table!ExitReparent
<1> QED  BY <1>1, <1>2, <1>3, <1>4, <1>5, <1>6, <1>7, <1>8, <1>9 DEF Table!TableInv

\* So no one sleeps who is the parent of the new ZOMBIE.
LEMMA ExitZombieKeeps ==
  ASSUME NEW p \in Table!Slot, Table!TableInv, Table!ExitZombie(p)
  PROVE  Table!TableInv'
<1>0. /\ pstate[parent[p]] # "SLEEPING" /\ p # Table!initproc
      /\ \A s \in Table!Slot : parent[s] # p /\ (s # p => pstate'[s] = pstate[s])
      /\ pstate'[p] = "ZOMBIE" /\ parent' = parent /\ pstate[p] = "RUNNABLE"
  BY DEF Table!UnderWaitLock, Table!Kids, Table!TypeOK, Table!TableInv, Table!At, Table!Goto,
     Table!ExitZombie
<1>1. Table!TypeOK'
  <2>1. \A q \in Table!Slot : q # p => ppc'[q] = ppc[q]
    BY DEF Table!Goto, Table!ExitZombie
  <2>2. ppc'[p] = "user" /\ ppc' \in [Table!Slot -> Table!PC]
    BY DEF Table!TypeOK, Table!PC, Table!TableInv, Table!Goto, Table!ExitZombie
  <2>3. \A q \in Table!Slot : wait_lock' = q <=> ppc'[q] \in {"exit", "wait_check", "wait_sleep"}
    BY <2>1, <2>2 DEF Table!TypeOK, Table!TableInv, Table!Slot, Table!None, Table!At, Table!Goto,
       Table!ExitZombie
  <2>4. \A q \in Table!Slot : child'[q] # Table!None <=> ppc'[q] \in {"fork_parent", "fork_run"}
    BY <2>1, <2>2 DEF Table!TypeOK, Table!TableInv, Table!At, Table!Goto, Table!ExitZombie
  <2>5. /\ pstate' \in [Table!Slot -> Table!State] /\ pid' \in [Table!Slot -> 0..MaxPid]
        /\ parent' \in [Table!Slot -> Table!Slot \cup {Table!None}]
        /\ killed' \in [Table!Slot -> BOOLEAN] /\ wait_lock' \in Table!Slot \cup {Table!None}
        /\ child' \in [Table!Slot -> Table!Slot \cup {Table!None}]
        /\ nextpid' \in 1..(MaxPid + 1) /\ named' \subseteq KillPid
    BY DEF Table!TypeOK, Table!State, Table!TableInv, Table!ExitZombie
  <2> QED  BY <2>2, <2>3, <2>4, <2>5 DEF Table!TypeOK
<1>2. Table!PidsUnique'
  BY DEF Table!PidsUnique, Table!TableInv, Table!At, Table!Goto, Table!ExitZombie
<1>3. Table!ParentAlive'
  BY <1>0 DEF Table!ParentAlive, Table!TableInv, Table!ExitZombie
<1>4. Table!OnlyNamedKilled'
  BY DEF Table!OnlyNamedKilled, Table!TableInv, Table!ExitZombie
<1>5. Table!NoLostExit'
  <2> SUFFICES ASSUME NEW q \in Table!Slot, pstate'[q] = "SLEEPING"
               PROVE  Table!Zombies(q)' = {} /\ Table!Kids(q)' # {}
    BY DEF Table!NoLostExit
  <2>1. q # p /\ pstate[q] = "SLEEPING" /\ parent[p] # q
    BY <1>0
  <2>2. Table!Kids(q)' = Table!Kids(q)
    BY <1>0 DEF Table!Kids
  <2>3. Table!Zombies(q)' = Table!Zombies(q)
    BY <1>0, <2>1 DEF Table!Zombies, Table!Kids
  <2> QED  BY <2>1, <2>2, <2>3 DEF Table!NoLostExit, Table!TableInv
<1>6. Table!CallsInPlace'
  BY DEF Table!CallsInPlace, Table!TypeOK, Table!TableInv, Table!At, Table!Goto, Table!ExitZombie
<1>7. Table!Family'
  BY <1>0 DEF Table!Family, Table!TableInv, Table!ExitZombie
<1>8. Table!UnderWaitLock'
  BY DEF Table!UnderWaitLock, Table!TypeOK, Table!TableInv, Table!At, Table!Goto, Table!ExitZombie
<1>9. Table!PidsInOrder'
  BY DEF Table!PidsInOrder, Table!TableInv, Table!ExitZombie
<1> QED  BY <1>1, <1>2, <1>3, <1>4, <1>5, <1>6, <1>7, <1>8, <1>9 DEF Table!TableInv

\* A slot is freed by the parent, so it has no children.
LEMMA WaitReapKeeps ==
  ASSUME NEW p \in Table!Slot, Table!TableInv, Table!WaitReap(p)
  PROVE  Table!TableInv'
<1>1. Table!TypeOK'
  <2>1. \A q \in Table!Slot : q # p => ppc'[q] = ppc[q]
    BY DEF Table!WaitReap
  <2>2. ppc'[p] = "user" /\ ppc' \in [Table!Slot -> Table!PC]
    BY DEF Table!TypeOK, Table!PC, Table!TableInv, Table!WaitReap
  <2>3. \A q \in Table!Slot : wait_lock' = q <=> ppc'[q] \in {"exit", "wait_check", "wait_sleep"}
    BY <2>1, <2>2 DEF Table!TypeOK, Table!TableInv, Table!Slot, Table!None, Table!WaitReap,
       Table!Waits
  <2>4. \A q \in Table!Slot : child'[q] # Table!None <=> ppc'[q] \in {"fork_parent", "fork_run"}
    BY <2>1, <2>2 DEF Table!TypeOK, Table!TableInv, Table!At, Table!Syscall, Table!WaitReap,
       Table!Waits
  <2>5. /\ pstate' \in [Table!Slot -> Table!State] /\ pid' \in [Table!Slot -> 0..MaxPid]
        /\ parent' \in [Table!Slot -> Table!Slot \cup {Table!None}]
        /\ killed' \in [Table!Slot -> BOOLEAN] /\ wait_lock' \in Table!Slot \cup {Table!None}
        /\ child' \in [Table!Slot -> Table!Slot \cup {Table!None}]
        /\ nextpid' \in 1..(MaxPid + 1) /\ named' \subseteq KillPid
    BY TableAssumption DEF Table!TypeOK, Table!State, Table!TableInv, Table!WaitReap,
       Table!freeproc,
       Table!Zombies, Table!Kids
  <2> QED  BY <2>2, <2>3, <2>4, <2>5 DEF Table!TypeOK
<1>2. Table!PidsUnique'
  BY DEF Table!PidsUnique, Table!TypeOK, Table!TableInv, Table!WaitReap, Table!freeproc
<1>3. Table!ParentAlive'
  BY DEF Table!ParentAlive, Table!TypeOK, Table!TableInv, Table!WaitReap, Table!freeproc,
     Table!Zombies
<1>4. Table!OnlyNamedKilled'
  BY DEF Table!OnlyNamedKilled, Table!TypeOK, Table!TableInv, Table!WaitReap, Table!freeproc
<1>5. Table!NoLostExit'
  BY DEF Table!NoLostExit, Table!Zombies, Table!Kids, Table!TypeOK, Table!TableInv, Table!WaitReap,
     Table!freeproc
<1>6. Table!CallsInPlace'
  BY DEF Table!CallsInPlace, Table!TableInv, Table!At, Table!Syscall, Table!WaitReap,
     Table!freeproc, Table!Zombies, Table!Waits
<1>7. Table!Family'
  BY DEF Table!Family, Table!TypeOK, Table!TableInv, Table!WaitReap, Table!freeproc, Table!Zombies
<1>8. Table!UnderWaitLock'
  BY DEF Table!UnderWaitLock, Table!TypeOK, Table!TableInv, Table!Slot, Table!None, Table!WaitReap,
     Table!Waits
<1>9. Table!PidsInOrder'
  BY DEF Table!PidsInOrder, Table!TypeOK, Table!TableInv, Table!WaitReap, Table!freeproc
<1> QED  BY <1>1, <1>2, <1>3, <1>4, <1>5, <1>6, <1>7, <1>8, <1>9 DEF Table!TableInv

\* Nobody to wait for.
LEMMA WaitErrorKeeps ==
  ASSUME NEW p \in Table!Slot, Table!TableInv, Table!WaitError(p)
  PROVE  Table!TableInv'
<1>1. Table!TypeOK'
  BY DEF Table!TypeOK, Table!PC, Table!TableInv, Table!At, Table!Syscall, Table!table,
     Table!WaitError, Table!Waits
<1>2. Table!PidsUnique'
  BY DEF Table!PidsUnique, Table!TableInv, Table!table, Table!WaitError
<1>3. Table!ParentAlive'
  BY DEF Table!ParentAlive, Table!TableInv, Table!table, Table!WaitError
<1>4. Table!OnlyNamedKilled'
  BY DEF Table!OnlyNamedKilled, Table!TableInv, Table!table, Table!WaitError
<1>5. Table!NoLostExit'
  BY DEF Table!NoLostExit, Table!Zombies, Table!Kids, Table!TableInv, Table!table, Table!WaitError
<1>6. Table!CallsInPlace'
  BY DEF Table!CallsInPlace, Table!TableInv, Table!At, Table!Syscall, Table!table, Table!WaitError,
     Table!Waits
<1>7. Table!Family'
  BY DEF Table!Family, Table!TableInv, Table!table, Table!WaitError
<1>8. Table!UnderWaitLock'
  BY DEF Table!UnderWaitLock, Table!TypeOK, Table!TableInv, Table!Slot, Table!None,
     Table!WaitError, Table!Waits
<1>9. Table!PidsInOrder'
  BY DEF Table!PidsInOrder, Table!TableInv, Table!table, Table!WaitError
<1> QED  BY <1>1, <1>2, <1>3, <1>4, <1>5, <1>6, <1>7, <1>8, <1>9 DEF Table!TableInv

\* wait_lock is kept when the scan finds no ZOMBIE.
LEMMA WaitNoneKeeps ==
  ASSUME NEW p \in Table!Slot, Table!TableInv, Table!WaitNone(p)
  PROVE  Table!TableInv'
<1>1. Table!TypeOK'
  <2>1. \A q \in Table!Slot : q # p => ppc'[q] = ppc[q]
    BY DEF Table!WaitNone
  <2>2. ppc'[p] = "wait_check" /\ ppc' \in [Table!Slot -> Table!PC]
    BY DEF Table!TypeOK, Table!PC, Table!TableInv, Table!WaitNone
  <2>3. \A q \in Table!Slot : wait_lock' = q <=> ppc'[q] \in {"exit", "wait_check", "wait_sleep"}
    BY <2>1, <2>2 DEF Table!TypeOK, Table!TableInv, Table!Slot, Table!None, Table!WaitNone,
       Table!Waits
  <2>4. \A q \in Table!Slot : child'[q] # Table!None <=> ppc'[q] \in {"fork_parent", "fork_run"}
    BY <2>1, <2>2 DEF Table!TypeOK, Table!TableInv, Table!At, Table!Syscall, Table!WaitNone,
       Table!Waits
  <2>5. /\ pstate' \in [Table!Slot -> Table!State] /\ pid' \in [Table!Slot -> 0..MaxPid]
        /\ parent' \in [Table!Slot -> Table!Slot \cup {Table!None}]
        /\ killed' \in [Table!Slot -> BOOLEAN] /\ wait_lock' \in Table!Slot \cup {Table!None}
        /\ child' \in [Table!Slot -> Table!Slot \cup {Table!None}]
        /\ nextpid' \in 1..(MaxPid + 1) /\ named' \subseteq KillPid
    BY DEF Table!TypeOK, Table!TableInv, Table!table, Table!WaitNone
  <2> QED  BY <2>2, <2>3, <2>4, <2>5 DEF Table!TypeOK
<1>2. Table!PidsUnique'
  BY DEF Table!PidsUnique, Table!TableInv, Table!table, Table!WaitNone
<1>3. Table!ParentAlive'
  BY DEF Table!ParentAlive, Table!TableInv, Table!table, Table!WaitNone
<1>4. Table!OnlyNamedKilled'
  BY DEF Table!OnlyNamedKilled, Table!TableInv, Table!table, Table!WaitNone
<1>5. Table!NoLostExit'
  BY DEF Table!NoLostExit, Table!Zombies, Table!Kids, Table!TableInv, Table!table, Table!WaitNone
<1>6. Table!CallsInPlace'
  BY DEF Table!CallsInPlace, Table!TableInv, Table!At, Table!Syscall, Table!table, Table!WaitNone,
     Table!Waits
<1>7. Table!Family'
  BY DEF Table!Family, Table!TableInv, Table!table, Table!WaitNone
<1>8. Table!UnderWaitLock'
  BY DEF Table!UnderWaitLock, Table!Zombies, Table!Kids, Table!TableInv, Table!table, Table!WaitNone
<1>9. Table!PidsInOrder'
  BY DEF Table!PidsInOrder, Table!TableInv, Table!table, Table!WaitNone
<1> QED  BY <1>1, <1>2, <1>3, <1>4, <1>5, <1>6, <1>7, <1>8, <1>9 DEF Table!TableInv

\* And while the caller looks whether it was killed.
LEMMA WaitCheckKeeps ==
  ASSUME NEW p \in Table!Slot, Table!TableInv, Table!WaitCheck(p)
  PROVE  Table!TableInv'
<1>1. Table!TypeOK'
  BY DEF Table!TypeOK, Table!PC, Table!TableInv, Table!Slot, Table!None, Table!At, Table!Goto,
     Table!table, Table!WaitCheck
<1>2. Table!PidsUnique'
  BY DEF Table!PidsUnique, Table!TableInv, Table!table, Table!WaitCheck
<1>3. Table!ParentAlive'
  BY DEF Table!ParentAlive, Table!TableInv, Table!table, Table!WaitCheck
<1>4. Table!OnlyNamedKilled'
  BY DEF Table!OnlyNamedKilled, Table!TableInv, Table!table, Table!WaitCheck
<1>5. Table!NoLostExit'
  BY DEF Table!NoLostExit, Table!Zombies, Table!Kids, Table!TableInv, Table!table, Table!WaitCheck
<1>6. Table!CallsInPlace'
  BY DEF Table!CallsInPlace, Table!TableInv, Table!At, Table!Goto, Table!table, Table!WaitCheck
<1>7. Table!Family'
  BY DEF Table!Family, Table!TableInv, Table!table, Table!WaitCheck
<1>8. Table!UnderWaitLock'
  BY DEF Table!UnderWaitLock, Table!Zombies, Table!Kids, Table!TableInv, Table!At, Table!Goto,
     Table!table, Table!WaitCheck
<1>9. Table!PidsInOrder'
  BY DEF Table!PidsInOrder, Table!TableInv, Table!table, Table!WaitCheck
<1> QED  BY <1>1, <1>2, <1>3, <1>4, <1>5, <1>6, <1>7, <1>8, <1>9 DEF Table!TableInv

\* So it goes to sleep with children that have not exited.
LEMMA WaitSleepKeeps ==
  ASSUME NEW p \in Table!Slot, Table!TableInv, Table!WaitSleep(p)
  PROVE  Table!TableInv'
<1>1. Table!TypeOK'
  <2>1. \A q \in Table!Slot : q # p => ppc'[q] = ppc[q]
    BY DEF Table!Goto, Table!WaitSleep
  <2>2. ppc'[p] = "wait" /\ ppc' \in [Table!Slot -> Table!PC]
    BY DEF Table!TypeOK, Table!PC, Table!TableInv, Table!Goto, Table!WaitSleep
  <2>3. \A q \in Table!Slot : wait_lock' = q <=> ppc'[q] \in {"exit", "wait_check", "wait_sleep"}
    BY <2>1, <2>2 DEF Table!TypeOK, Table!TableInv, Table!Slot, Table!None, Table!At, Table!Goto,
       Table!WaitSleep
  <2>4. \A q \in Table!Slot : child'[q] # Table!None <=> ppc'[q] \in {"fork_parent", "fork_run"}
    BY <2>1, <2>2 DEF Table!TypeOK, Table!TableInv, Table!At, Table!Goto, Table!WaitSleep
  <2>5. /\ pstate' \in [Table!Slot -> Table!State] /\ pid' \in [Table!Slot -> 0..MaxPid]
        /\ parent' \in [Table!Slot -> Table!Slot \cup {Table!None}]
        /\ killed' \in [Table!Slot -> BOOLEAN] /\ wait_lock' \in Table!Slot \cup {Table!None}
        /\ child' \in [Table!Slot -> Table!Slot \cup {Table!None}]
        /\ nextpid' \in 1..(MaxPid + 1) /\ named' \subseteq KillPid
    BY DEF Table!TypeOK, Table!State, Table!TableInv, Table!WaitSleep
  <2> QED  BY <2>2, <2>3, <2>4, <2>5 DEF Table!TypeOK
<1>2. Table!PidsUnique'
  BY DEF Table!PidsUnique, Table!TableInv, Table!At, Table!Goto, Table!WaitSleep
<1>3. Table!ParentAlive'
  BY DEF Table!ParentAlive, Table!TableInv, Table!At, Table!Goto, Table!WaitSleep
<1>4. Table!OnlyNamedKilled'
  BY DEF Table!OnlyNamedKilled, Table!TableInv, Table!WaitSleep
<1>5. Table!NoLostExit'
  <2>1. Table!Zombies(p) = {} /\ Table!Kids(p) # {}
    BY DEF Table!UnderWaitLock, Table!TableInv, Table!At, Table!Goto, Table!WaitSleep
  <2>2. \A s \in Table!Slot : s # p => pstate'[s] = pstate[s]
    BY DEF Table!WaitSleep
  <2>3. pstate'[p] = "SLEEPING" /\ parent' = parent
    BY DEF Table!TypeOK, Table!TableInv, Table!WaitSleep
  <2>4. \A q \in Table!Slot : Table!Kids(q)' = Table!Kids(q)
    BY <2>3 DEF Table!Kids
  <2>5. \A q \in Table!Slot : Table!Zombies(q)' \subseteq Table!Zombies(q)
    BY <2>2, <2>3, <2>4 DEF Table!Zombies, Table!WaitSleep
  <2> QED  BY <2>1, <2>2, <2>3, <2>4, <2>5 DEF Table!NoLostExit, Table!TableInv
<1>6. Table!CallsInPlace'
  BY DEF Table!CallsInPlace, Table!TypeOK, Table!TableInv, Table!At, Table!Goto, Table!WaitSleep
<1>7. Table!Family'
  BY DEF Table!Family, Table!TableInv, Table!WaitSleep
<1>8. Table!UnderWaitLock'
  BY DEF Table!UnderWaitLock, Table!TypeOK, Table!TableInv, Table!At, Table!Goto, Table!WaitSleep
<1>9. Table!PidsInOrder'
  BY DEF Table!PidsInOrder, Table!TableInv, Table!WaitSleep
<1> QED  BY <1>1, <1>2, <1>3, <1>4, <1>5, <1>6, <1>7, <1>8, <1>9 DEF Table!TableInv

\* Only the pid that was asked for is marked.
LEMMA KillPidKeeps ==
  ASSUME NEW p \in Table!Slot, NEW k \in KillPid, Table!TableInv, Table!Kill(p, k)
  PROVE  Table!TableInv'
<1>1. Table!TypeOK'
  BY DEF Table!TypeOK, Table!State, Table!TableInv, Table!Kill, Table!Wakeup
<1>2. Table!PidsUnique'
  BY DEF Table!PidsUnique, Table!TableInv, Table!Kill, Table!Wakeup
<1>3. Table!ParentAlive'
  BY DEF Table!ParentAlive, Table!TypeOK, Table!TableInv, Table!Kill, Table!Wakeup
<1>4. Table!OnlyNamedKilled'
  BY DEF Table!OnlyNamedKilled, Table!TableInv, Table!Kill, Table!Named
<1>5. Table!NoLostExit'
  BY DEF Table!NoLostExit, Table!Zombies, Table!Kids, Table!TableInv, Table!Kill, Table!Wakeup
<1>6. Table!CallsInPlace'
  BY DEF Table!CallsInPlace, Table!TypeOK, Table!TableInv, Table!Kill, Table!Wakeup
<1>7. Table!Family'
  BY NprocAssumption DEF Table!Family, Table!TypeOK, Table!TableInv, Table!Slot, Table!initproc,
     Table!Kill, Table!Wakeup
<1>8. Table!UnderWaitLock'
  BY DEF Table!UnderWaitLock, Table!Zombies, Table!Kids, Table!TypeOK, Table!State,
     Table!CallsInPlace, Table!ParentAlive, Table!TableInv, Table!Syscall, Table!Kill, Table!Wakeup
<1>9. Table!PidsInOrder'
  BY DEF Table!PidsInOrder, Table!TableInv, Table!Kill
<1> QED  BY <1>1, <1>2, <1>3, <1>4, <1>5, <1>6, <1>7, <1>8, <1>9 DEF Table!TableInv

\* init is alone.
LEMMA InitTable == Table!Init => Table!TableInv
<1>1. ASSUME Table!Init
      PROVE  Table!TypeOK /\ Table!PidsUnique /\ Table!ParentAlive /\ Table!OnlyNamedKilled
               /\ Table!CallsInPlace /\ Table!Family /\ Table!PidsInOrder
  BY <1>1, NprocAssumption, TableAssumption DEF Table!Init, Table!TypeOK, Table!State, Table!PC,
     Table!PidsUnique, Table!ParentAlive, Table!OnlyNamedKilled, Table!CallsInPlace, Table!Family,
     Table!PidsInOrder, Table!Slot, Table!None, Table!initproc
<1>2. ASSUME Table!Init PROVE Table!NoLostExit /\ Table!UnderWaitLock
  BY <1>2 DEF Table!Init, Table!NoLostExit, Table!UnderWaitLock
<1> QED  BY <1>1, <1>2 DEF Table!TableInv

\* So every step keeps the invariant.
LEMMA StepTable ==
  Table!TableInv /\ [Table!Next]_(Table!vars) => Table!TableInv'
<1> SUFFICES ASSUME Table!TableInv, [Table!Next]_(Table!vars) PROVE Table!TableInv'
  OBVIOUS
<1>1. CASE Table!Next
  BY <1>1, ForkAllocKeeps, ForkFailKeeps, ForkParentKeeps, ForkRunKeeps, ExitReparentKeeps,
     ExitZombieKeeps, WaitReapKeeps, WaitErrorKeeps, WaitNoneKeeps, WaitCheckKeeps, WaitSleepKeeps,
     KillPidKeeps
     DEF Table!Next, Table!Fork, Table!ForkOn, Table!Exit, Table!Wait, Table!WaitOn
<1>2. CASE UNCHANGED Table!vars
  BY <1>2 DEF Table!vars, Table!table, Table!TableInv, Table!TypeOK, Table!PidsUnique,
     Table!ParentAlive, Table!OnlyNamedKilled, Table!NoLostExit, Table!CallsInPlace, Table!Family,
     Table!UnderWaitLock, Table!PidsInOrder, Table!Zombies, Table!Kids
<1> QED  BY <1>1, <1>2

\* For any number of processes and pids: pids are unique, whoever has a parent has one that
\* is alive, exit and wait lose no wakeup although exit wakes the parent before it is a
\* ZOMBIE, and a kill marks only the process it names, through every interleaving of
\* kfork, kexit, kwait and kkill (proc.c:260-415, 593-611).
THEOREM TableInvariant == Table!Spec => []TableInv
BY InitTable, StepTable, PTL DEF Table!Spec, TableInv

-------------------------------------------------------------------------------
(* Traps: the invariant *)

\* A process's code in the kernel runs with its interrupts on at some places, and so
\* does the scheduler at one.
Resume(t) == IF t \in Hart THEN {<<"sched", 1>>}
             ELSE {<<"syscall", 0>>, <<"after", 0>>, <<"return", 0>>}

\* Where a CPU can be while its scheduler runs, and while a process does.
Nested == {<<"devintr", 1>>, <<"handler", 1>>, <<"after", 1>>, <<"kernelret", 0>>}
SchedPoints == {<<"entry", 0>>, <<"main", 0>>, <<"sched", 0>>, <<"sched", 1>>, <<"kernelvec", 0>>}
                 \cup Nested
UserPoints == {<<"user", 0>>, <<"user", 1>>}
Service == {<<"syscall", 0>>, <<"devintr", 0>>, <<"handler", 0>>, <<"after", 0>>, <<"exit", 0>>,
            <<"return", 0>>, <<"return", 1>>}
ProcPoints == UserPoints \cup {<<"uservec", 0>>, <<"usertrap", 0>>, <<"userret", 0>>,
                               <<"kernelvec", 0>>} \cup Service \cup Nested
KernelPoints == {<<"sched", 0>>, <<"sched", 1>>, <<"kernelvec", 0>>} \cup Service \cup Nested
OnPoints == {<<"syscall", 0>>, <<"after", 0>>, <<"return", 0>>, <<"sched", 1>>}

\* The registers that C code gives back as it found them; what kernelvec saves; whatever a
\* register can hold.
Callee == Trap!Saved \ {"ra"}
FrameRegs == Trap!CallerSaved \cup {"gp", "tp"}
Mark == {"hartid", "kernel", "program", "satp", "result", "junk"} \X (Hart \cup User \cup {NoCPU})
\* Where a CPU can be, and the types of the variables.
Points == SchedPoints \cup ProcPoints \cup {<<"none", 0>>, <<"gone", 0>>}
HartState == [at : Points, regs : [Trap!Reg -> Mark], satp : User \cup {NoCPU},
              stvec : {"none", "kernelvec", "uservec"}, sie : BOOLEAN, spp : {"S", "U"},
              spie : BOOLEAN, sepc : Points,
              scause : {"none", "timer", "external", "fault", "ecall"}, paging : BOOLEAN]
TrapFrame == [epc : {0, 1}, ksp : Mark, khart : Mark, ksatp : User \cup {NoCPU},
              regs : [Trap!Reg -> Mark]]
Local == [sepc : Points, spp : {"S", "U"}, spie : BOOLEAN]
TrapTypes ==
  /\ hart \in [Hart -> HartState] /\ cpuproc \in [Hart -> User \cup {NoCPU}]
  /\ tf \in [User -> TrapFrame]
  /\ tctx \in [Trap!Thread -> [pc : Points, regs : [Trap!Saved -> Mark]]]
  /\ frame \in [Trap!Thread -> {<< >>} \cup [FrameRegs -> Mark]]
  /\ local \in [Trap!Thread -> {<< >>} \cup Local]
  /\ tstate \in [User -> {"runnable", "running", "zombie", "unused"}]
  /\ tkilled \in [User -> BOOLEAN]
  /\ claimed \in [Hart -> Irq \cup {Trap!NoIrq}] /\ pending \subseteq Irq
  /\ want \in [User -> [pc : {0, 1}, a0 : Mark]]
  /\ \A p \in User : want[p].a0 \in {Trap!Prog(p), Trap!Result(p)}

\* A running process has one CPU.
OneCPU == /\ \A g, h \in Hart : cpuproc[g] # NoCPU /\ cpuproc[g] = cpuproc[h] => g = h
          /\ \A p \in User : tstate[p] = "running" <=> \E h \in Hart : cpuproc[h] = p

\* What kernelvec has kept of thread t.
Held(t) == /\ frame[t] \in [FrameRegs -> Mark] /\ local[t] \in Local
           /\ \A r \in Trap!CallerSaved : frame[t][r] = Trap!Kern(t)
           /\ local[t].sepc \in Resume(t) /\ local[t].spp = "S" /\ local[t].spie

\* The trapframe of p, whose kernel code is at pt.
FrameAt(p, pt) ==
  /\ \A r \in Trap!Reg \ {"a0"} : tf[p].regs[r] = Trap!Prog(p)
  /\ tf[p].epc = want[p].pc
  /\ pt = <<"syscall", 0>> =>
       tf[p].regs["a0"] \in {Trap!Prog(p), Trap!Result(p)} /\ want[p].a0 = Trap!Result(p)
  /\ pt \notin {<<"syscall", 0>>, <<"exit", 0>>} => tf[p].regs["a0"] = want[p].a0
\* Where p goes on when a nested trap has returned.
Base(p, pt) == IF pt \in Nested THEN local[p].sepc ELSE pt

\* The registers of p that a trap x out of user mode left.
Trapped(x, p, regs) ==
  /\ \A r \in Trap!Reg \ {"a0"} : regs[r] = Trap!Prog(p)
  /\ regs["a0"] \in {Trap!Prog(p), Trap!Result(p)}
  /\ IF x.scause = "ecall" THEN x.sepc = <<"user", 1 - want[p].pc>> /\ want[p].a0 = Trap!Result(p)
     ELSE x.sepc = <<"user", want[p].pc>> /\ regs["a0"] = want[p].a0
\* The way back into the kernel.
Entry(h, p) == tf[p].ksatp = NoCPU /\ tf[p].ksp = Trap!Kern(p) /\ tf[p].khart = Trap!Id(h)

\* A CPU is where its thread can be.
InPlace(h) == hart[h].at \in IF cpuproc[h] = NoCPU THEN SchedPoints ELSE ProcPoints
\* x, the CPU h, which runs the kernel code of t.
KernelAt(h, x, t) ==
  /\ x.at \in KernelPoints =>
       /\ x.regs["tp"] = Trap!Id(h) /\ \A r \in Callee : x.regs[r] = Trap!Kern(t)
       /\ x.satp = NoCPU /\ x.paging /\ x.stvec = "kernelvec"
  /\ x.at = <<"main", 0>> => x.regs["tp"] = Trap!Id(h) /\ \A r \in Callee : x.regs[r] = Trap!Kern(h)
  /\ x.at \in {<<"entry", 0>>, <<"main", 0>>} => x.satp = NoCPU
  /\ x.at # <<"entry", 0>> /\ x.at # <<"main", 0>> => x.paging
  /\ x.sie => x.at \in OnPoints \cup UserPoints
  /\ x.at \in OnPoints /\ x.sie => \A r \in Trap!CallerSaved : x.regs[r] = Trap!Kern(t)
  /\ x.at = <<"kernelvec", 0>> =>
       /\ x.spp = "S" /\ x.spie /\ x.sepc \in Resume(t)
       /\ \A r \in Trap!CallerSaved : x.regs[r] = Trap!Kern(t)
  /\ x.at \in Nested => Held(t)
InKernel(h) == KernelAt(h, hart[h], Trap!Runs(h))

\* x, the CPU h, which process p has.
ProcAt(h, x, p) ==
  /\ x.at \in UserPoints =>
       /\ x.satp = p /\ x.stvec = "uservec" /\ x.at = <<"user", want[p].pc>> /\ Entry(h, p)
       /\ \A r \in Trap!Reg : x.regs[r] = IF r = "a0" THEN want[p].a0 ELSE Trap!Prog(p)
  /\ x.at = <<"uservec", 0>> => /\ x.satp = p /\ x.spp = "U" /\ Entry(h, p)
                                /\ Trapped(x, p, x.regs)
  /\ x.at = <<"usertrap", 0>> =>
       /\ x.satp = NoCPU /\ x.spp = "U" /\ x.regs["tp"] = Trap!Id(h) /\ x.regs["sp"] = Trap!Kern(p)
       /\ Trapped(x, p, tf[p].regs)
  /\ x.at = <<"userret", 0>> =>
       /\ x.regs["a0"] = Trap!Satp(p) /\ Entry(h, p) /\ x.stvec = "uservec"
       /\ x.sepc = <<"user", want[p].pc>> /\ x.spp = "U"
  /\ x.at \in Service \cup Nested \cup {<<"userret", 0>>} => FrameAt(p, Base(p, x.at))
  /\ x.at = <<"kernelvec", 0>> => FrameAt(p, x.sepc)
OfProcess(h) == cpuproc[h] # NoCPU => ProcAt(h, hart[h], cpuproc[h])

\* Threads that are not on a CPU.
Switched ==
  /\ \A p \in User : tstate[p] = "runnable" =>
       /\ tctx[p].pc \in {<<"return", 0>>, <<"kernelret", 0>>}
       /\ \A r \in Callee : tctx[p].regs[r] = Trap!Kern(p)
       /\ tctx[p].pc = <<"kernelret", 0>> => Held(p)
       /\ FrameAt(p, Base(p, tctx[p].pc))
  /\ \A h \in Hart : cpuproc[h] # NoCPU =>
       tctx[h].pc = <<"sched", 0>> /\ \A r \in Callee : tctx[h].regs[r] = Trap!Kern(h)

\* Whoever claimed an irq handles it.
Claims == \A h \in Hart : claimed[h] # Trap!NoIrq => Trap!Place(h) = "handler"

\* The inductive invariant.
TrapInv == /\ TrapTypes /\ OneCPU /\ Switched /\ Claims
           /\ \A h \in Hart : InPlace(h) /\ InKernel(h) /\ OfProcess(h)

-------------------------------------------------------------------------------
(* Traps: registers, places and marks *)

\* Which register is in which set.
LEMMA RegFacts ==
  /\ Trap!Saved \subseteq Trap!Reg /\ Trap!CallerSaved \subseteq Trap!Reg
  /\ Callee \subseteq Trap!Reg
  /\ {"sp", "gp", "tp", "a0", "ra"} \subseteq Trap!Reg
  /\ "sp" \in Callee /\ Callee \cap Trap!CallerSaved = {}
  /\ {"gp", "tp"} \cap (Trap!CallerSaved \cup Trap!Saved) = {}
  /\ "a0" \in Trap!CallerSaved /\ "a0" \notin Trap!Saved
  /\ Trap!Saved = Callee \cup {"ra"} /\ "ra" \in Trap!CallerSaved
  /\ Trap!Reg = Callee \cup Trap!CallerSaved \cup {"gp", "tp"}
<1>1. Trap!Reg = {"ra", "sp", "gp", "tp", "t0", "t1", "t2", "s0", "s1",
                  "a0", "a1", "a2", "a3", "a4", "a5", "a6", "a7",
                  "s2", "s3", "s4", "s5", "s6", "s7", "s8", "s9", "s10", "s11",
                  "t3", "t4", "t5", "t6"}
  BY DEF Trap!Reg, Trap!RegOrder, Trap!ToSet
<1>2. Trap!Saved = {"ra", "sp", "s0", "s1", "s2", "s3", "s4", "s5", "s6", "s7", "s8", "s9",
                    "s10", "s11"}
  BY DEF Trap!Saved, Trap!SwtchOrder, Trap!ToSet
<1>3. /\ Trap!CallerSaved = (Trap!Reg \ (Trap!Saved \cup {"gp", "tp"})) \cup {"ra"}
      /\ Callee = Trap!Saved \ {"ra"}
  BY DEF Trap!CallerSaved, Callee
<1> QED BY <1>1, <1>2, <1>3

\* The arguments of a system call are registers.
LEMMA ArgFacts == \A n \in 0..5 : Trap!RegOrder[10 + n] \in Trap!Reg
  BY DEF Trap!Reg, Trap!RegOrder, Trap!ToSet

\* Two CPUs run different threads.
LEMMA OnOne ==
  ASSUME OneCPU, TrapTypes, NEW g \in Hart, NEW h \in Hart, g # h
  PROVE  Trap!Runs(g) # Trap!Runs(h) /\ (cpuproc[g] # NoCPU => cpuproc[g] # cpuproc[h])
  BY TrapAssumption DEF OneCPU, TrapTypes, Trap!Runs

\* What another CPU does to itself leaves alone what is said of this one.
LEMMA OtherCPUs ==
  ASSUME NEW g \in Hart, InPlace(g), InKernel(g), OfProcess(g),
         hart'[g] = hart[g], cpuproc'[g] = cpuproc[g],
         frame'[Trap!Runs(g)] = frame[Trap!Runs(g)], local'[Trap!Runs(g)] = local[Trap!Runs(g)],
         cpuproc[g] # NoCPU =>
           tf'[cpuproc[g]] = tf[cpuproc[g]] /\ want'[cpuproc[g]] = want[cpuproc[g]]
  PROVE  InPlace(g)' /\ InKernel(g)' /\ OfProcess(g)'
<1>1. Trap!Runs(g)' = Trap!Runs(g)
  BY DEF Trap!Runs
<1>2. InPlace(g)'
  BY DEF InPlace
<1>3. InKernel(g)'
  BY <1>1 DEF InKernel, KernelAt, Held
<1>4. OfProcess(g)'
  <2>1. CASE cpuproc[g] = NoCPU
    BY <2>1 DEF OfProcess, ProcAt
  <2>2. CASE cpuproc[g] # NoCPU
    <3>1. Trap!Runs(g) = cpuproc[g]
      BY <2>2 DEF Trap!Runs
    <3>2. Entry(g, cpuproc[g])' = Entry(g, cpuproc[g])
      BY <2>2 DEF Entry
    <3>3. \A pt : /\ FrameAt(cpuproc[g], pt)' = FrameAt(cpuproc[g], pt)
                  /\ Base(cpuproc[g], pt)' = Base(cpuproc[g], pt)
      BY <2>2, <3>1 DEF FrameAt, Base
    <3>4. \A x, regs : Trapped(x, cpuproc[g], regs)' = Trapped(x, cpuproc[g], regs)
      BY <2>2 DEF Trapped
    <3> QED BY <2>2, <3>1, <3>2, <3>3, <3>4 DEF OfProcess, ProcAt
  <2> QED BY <2>1, <2>2
<1> QED BY <1>2, <1>3, <1>4

\* What Switched says of a process, and of a scheduler.
Waits(p) == tstate[p] = "runnable" =>
       /\ tctx[p].pc \in {<<"return", 0>>, <<"kernelret", 0>>}
       /\ \A r \in Callee : tctx[p].regs[r] = Trap!Kern(p)
       /\ tctx[p].pc = <<"kernelret", 0>> => Held(p)
       /\ FrameAt(p, Base(p, tctx[p].pc))
SchedWaits(h) == cpuproc[h] # NoCPU =>
       tctx[h].pc = <<"sched", 0>> /\ \A r \in Callee : tctx[h].regs[r] = Trap!Kern(h)

\* A process that waits for a CPU is not disturbed by others.
LEMMA Waiting ==
  ASSUME NEW p \in User, Waits(p), tstate'[p] = tstate[p], tctx'[p] = tctx[p], frame'[p] = frame[p],
         local'[p] = local[p], tf'[p] = tf[p], want'[p] = want[p]
  PROVE  Waits(p)'
  BY DEF Waits, Held, FrameAt, Base

\* A step of one CPU that does not switch threads: only what is said of that CPU is to

\* be shown.
LEMMA LocalStep ==
  ASSUME TrapInv, NEW h \in Hart, TrapTypes',
         \A g \in Hart \ {h} : hart'[g] = hart[g] /\ claimed'[g] = claimed[g],
         UNCHANGED <<cpuproc, tstate, tctx>>,
         \A t \in Trap!Thread \ {Trap!Runs(h)} : frame'[t] = frame[t] /\ local'[t] = local[t],
         \A p \in User : p # cpuproc[h] => tf'[p] = tf[p] /\ want'[p] = want[p],
         claimed'[h] # Trap!NoIrq => hart'[h].at[1] = "handler",
         InPlace(h)', InKernel(h)', OfProcess(h)'
  PROVE  TrapInv'
<1>1. OneCPU'
  BY DEF TrapInv, OneCPU
<1>2. Claims'
  BY DEF TrapInv, Claims, Trap!Place
<1>3. Switched'
  <2>1. \A p \in User : Waits(p) /\ (tstate[p] = "runnable" => p # Trap!Runs(h) /\ p # cpuproc[h])
    <3> SUFFICES ASSUME NEW p \in User
                 PROVE  Waits(p) /\ (tstate[p] = "runnable" => p # Trap!Runs(h) /\ p # cpuproc[h])
      OBVIOUS
    <3>1. Waits(p)
      BY DEF TrapInv, Switched, Waits
    <3>2. tstate[p] = "runnable" => p # cpuproc[h]
      BY DEF TrapInv, OneCPU
    <3>3. p # h
      BY TrapAssumption
    <3> QED BY <3>1, <3>2, <3>3 DEF Trap!Runs
  <2>2. \A p \in User : tstate'[p] = "runnable" => Waits(p)'
    BY <2>1, Waiting DEF Trap!Thread
  <2>3. \A g \in Hart : SchedWaits(g)'
    BY DEF TrapInv, Switched, SchedWaits
  <2> QED BY <2>2, <2>3 DEF Switched, Waits, SchedWaits
<1>4. ASSUME NEW g \in Hart PROVE InPlace(g)' /\ InKernel(g)' /\ OfProcess(g)'
  <2>1. CASE g = h
    BY <2>1
  <2>2. CASE g # h
    <3>1. Trap!Runs(g) # Trap!Runs(h) /\ (cpuproc[g] # NoCPU => cpuproc[g] # cpuproc[h])
      BY <2>2, OnOne DEF TrapInv
    <3>2. Trap!Runs(g) \in Trap!Thread /\ (cpuproc[g] # NoCPU => cpuproc[g] \in User)
      BY DEF TrapInv, TrapTypes, Trap!Runs, Trap!Thread
    <3>3. InPlace(g) /\ InKernel(g) /\ OfProcess(g)
      BY DEF TrapInv
    <3> QED BY <2>2, <3>1, <3>2, <3>3, OtherCPUs
  <2> QED BY <2>1, <2>2
<1> QED BY <1>1, <1>2, <1>3, <1>4 DEF TrapInv

\* Which place is in which set.
LEMMA PointFacts ==
  /\ SchedPoints \subseteq Points /\ ProcPoints \subseteq Points
  /\ <<"main", 0>> \in SchedPoints /\ <<"sched", 0>> \in SchedPoints
  /\ <<"sched", 1>> \in SchedPoints
  /\ <<"kernelvec", 0>> \in SchedPoints /\ Nested \subseteq SchedPoints
  /\ Nested \subseteq ProcPoints
  /\ Service \subseteq ProcPoints /\ UserPoints \subseteq ProcPoints
  /\ {<<"uservec", 0>>, <<"usertrap", 0>>, <<"userret", 0>>,
      <<"kernelvec", 0>>} \subseteq ProcPoints
  BY DEF SchedPoints, ProcPoints, Points

\* Only the CPU that a step is about changes.
LEMMA NewHart ==
  ASSUME TrapTypes, NEW h \in Hart, NEW y \in HartState, hart' = [hart EXCEPT ![h] = y]
  PROVE  hart' \in [Hart -> HartState] /\ hart'[h] = y /\ \A g \in Hart \ {h} : hart'[g] = hart[g]
  BY DEF TrapTypes

\* The fields of a CPU.
LEMMA OldHart ==
  ASSUME NEW x \in HartState
  PROVE  /\ x.at \in Points /\ x.regs \in [Trap!Reg -> Mark] /\ x.satp \in User \cup {NoCPU}
         /\ x.stvec \in {"none", "kernelvec", "uservec"} /\ x.sie \in BOOLEAN
         /\ x.spp \in {"S", "U"} /\ x.spie \in BOOLEAN /\ x.sepc \in Points
         /\ x.scause \in {"none", "timer", "external", "fault", "ecall"}
         /\ x.paging \in BOOLEAN
  BY DEF HartState

\* What can be in a register.
LEMMA MarkFacts ==
  /\ \A t \in Trap!Thread :
        /\ Trap!Kern(t) \in Mark /\ Trap!Id(t) \in Mark /\ Trap!Prog(t) \in Mark
        /\ Trap!Result(t) \in Mark /\ Trap!Satp(t) \in Mark
  /\ Trap!Junk \in Mark
  BY DEF Mark, Trap!Kern, Trap!Id, Trap!Prog, Trap!Result, Trap!Satp, Trap!Junk, Trap!Thread

\* C code on its own stack has its own values in all the registers it uses.
LEMMA OwnFacts ==
  ASSUME NEW t \in Trap!Thread, NEW regs \in [Trap!Reg -> Mark]
  PROVE  /\ Trap!Own(regs, t) \in [Trap!Reg -> Mark]
         /\ \A r \in {"sp", "gp", "tp"} : Trap!Own(regs, t)[r] = regs[r]
         /\ \A r \in Trap!Reg \ {"sp", "gp", "tp"} : Trap!Own(regs, t)[r] = Trap!Kern(t)
         /\ regs["sp"] = Trap!Kern(t) =>
              \A r \in Callee \cup Trap!CallerSaved : Trap!Own(regs, t)[r] = Trap!Kern(t)
  BY RegFacts, MarkFacts DEF Trap!Own

\* A process is neither a CPU nor nothing.
LEMMA UserNone == \A p \in User : p # NoCPU /\ p \notin Hart
  BY TrapAssumption

\* What is said of a CPU in user mode.
LEMMA InUser ==
  ASSUME TrapInv, NEW h \in Hart, hart[h].at \in UserPoints
  PROVE  LET p == cpuproc[h]
             x == hart[h]
         IN /\ p \in User /\ p # NoCPU
            /\ x.satp = p /\ x.stvec = "uservec" /\ x.at = <<"user", want[p].pc>> /\ Entry(h, p)
            /\ \A r \in Trap!Reg : x.regs[r] = IF r = "a0" THEN want[p].a0 ELSE Trap!Prog(p)
<1>1. cpuproc[h] \in User
  BY DEF UserPoints, TrapInv, TrapTypes, InPlace, SchedPoints, Nested
<1>2. cpuproc[h] # NoCPU
  BY <1>1, UserNone
<1> QED BY <1>1, <1>2 DEF TrapInv, OfProcess, ProcAt

\* Which places exclude each other.
LEMMA Places ==
  /\ OnPoints \subseteq KernelPoints /\ Nested \subseteq KernelPoints
  /\ Service \subseteq KernelPoints
  /\ Nested \cap (OnPoints \cup UserPoints \cup Service) = {}
  /\ UserPoints \cap (KernelPoints \cup OnPoints \cup Service) = {}
  /\ <<"kernelvec", 0>> \in KernelPoints
  /\ <<"kernelvec", 0>> \notin OnPoints \cup UserPoints \cup Nested \cup Service
  /\ <<"sched", 0>> \in KernelPoints
  /\ <<"sched", 0>> \notin OnPoints \cup UserPoints \cup Nested \cup Service
  /\ <<"sched", 1>> \in OnPoints /\ <<"sched", 1>> \notin Service
  /\ \A pt \in {<<"uservec", 0>>, <<"usertrap", 0>>, <<"userret", 0>>, <<"entry", 0>>,
                <<"main", 0>>} :
        pt \notin KernelPoints \cup UserPoints \cup OnPoints \cup Nested \cup Service
  /\ <<"entry", 0>> \notin KernelPoints /\ <<"main", 0>> \notin KernelPoints
  BY DEF OnPoints, KernelPoints, Service, Nested, UserPoints

\* A CPU stands for the thread of its scheduler.
LEMMA HartThread == \A g \in Hart : g \in Trap!Thread
  BY DEF Trap!Thread

\* A place is either reached from user mode or in a nested trap.
LEMMA PlaceFacts ==
  ASSUME NEW h \in Hart, InPlace(h)
  PROVE  /\ Trap!Place(h) = "uservec" => hart[h].at = <<"uservec", 0>>
         /\ Trap!Place(h) = "usertrap" => hart[h].at = <<"usertrap", 0>>
         /\ Trap!Place(h) = "userret" => hart[h].at = <<"userret", 0>>
         /\ Trap!Place(h) = "kernelvec" => hart[h].at = <<"kernelvec", 0>>
         /\ Trap!Place(h) = "syscall" => hart[h].at = <<"syscall", 0>>
         /\ Trap!Place(h) = "user" => hart[h].at \in UserPoints
         /\ \A pl \in {"devintr", "handler", "after"} :
               Trap!Place(h) = pl => hart[h].at = <<pl, 0>> \/ hart[h].at = <<pl, 1>>
  BY DEF Trap!Place, InPlace, SchedPoints, ProcPoints, UserPoints, Service, Nested

\* A CPU that is not in the scheduler has a process.
LEMMA ProcFacts ==
  ASSUME TrapInv, NEW h \in Hart, hart[h].at \notin SchedPoints
  PROVE  /\ cpuproc[h] \in User /\ cpuproc[h] # NoCPU /\ Trap!Runs(h) = cpuproc[h]
         /\ cpuproc[h] \notin Hart /\ hart[h].at \in ProcPoints
  BY UserNone DEF TrapInv, TrapTypes, InPlace, Trap!Runs

\* Places where the scheduler never is.
LEMMA SchedFacts ==
  /\ \A pt \in Service \cup UserPoints : pt \notin SchedPoints
  /\ \A pt \in {<<"uservec", 0>>, <<"usertrap", 0>>, <<"userret", 0>>} : pt \notin SchedPoints
  BY DEF Service, UserPoints, SchedPoints, Nested

\* tp holds the hartid, so cpuid and myproc are right.
LEMMA CpuFacts ==
  ASSUME NEW h \in Hart, hart[h].regs["tp"] = Trap!Id(h)
  PROVE  Trap!Cpuid(h) = h /\ Trap!Myproc(h) = cpuproc[h]
  BY DEF Trap!Cpuid, Trap!Myproc, Trap!Id

\* What is said of a CPU in kernel code.
LEMMA CodeFacts ==
  ASSUME TrapInv, NEW h \in Hart, hart[h].at \in KernelPoints
  PROVE  /\ Trap!Cpuid(h) = h /\ Trap!Myproc(h) = cpuproc[h] /\ Trap!Stack(h) = Trap!Runs(h)
         /\ hart[h].regs["tp"] = Trap!Id(h)
         /\ \A r \in Callee : hart[h].regs[r] = Trap!Kern(Trap!Runs(h))
         /\ hart[h].satp = NoCPU /\ hart[h].paging /\ hart[h].stvec = "kernelvec"
         /\ Trap!Runs(h) \in Trap!Thread
<1>1. /\ hart[h].regs["tp"] = Trap!Id(h)
      /\ \A r \in Callee : hart[h].regs[r] = Trap!Kern(Trap!Runs(h))
      /\ hart[h].satp = NoCPU /\ hart[h].paging /\ hart[h].stvec = "kernelvec"
  BY DEF TrapInv, InKernel, KernelAt
<1>2. Trap!Stack(h) = Trap!Runs(h)
  BY <1>1, RegFacts DEF Trap!Stack, Trap!Kern
<1>3. Trap!Runs(h) \in Trap!Thread
  BY DEF TrapInv, TrapTypes, Trap!Runs, Trap!Thread
<1> QED BY <1>1, <1>2, <1>3, CpuFacts

-------------------------------------------------------------------------------
(* Traps: each step keeps the invariant *)

\* start puts the hartid in tp and takes a stack of its own.
LEMMA StartStep ==
  ASSUME TrapInv, NEW h \in Hart, Trap!Start(h)
  PROVE  TrapInv'
<1> DEFINE regs == [Trap!Own(hart[h].regs, h) EXCEPT !["sp"] = Trap!Kern(h), !["tp"] = Trap!Id(h)]
<1>1. hart[h].at = <<"entry", 0>> /\ cpuproc[h] = NoCPU
  BY DEF TrapInv, Trap!Start, Trap!Place, InPlace, ProcPoints, UserPoints, Nested, Service,
     SchedPoints
<1>2. /\ hart[h].satp = NoCPU /\ ~hart[h].sie
      /\ \A r \in Callee : regs[r] = Trap!Kern(h)
      /\ regs["tp"] = Trap!Id(h) /\ regs \in [Trap!Reg -> Mark]
  <2>1. hart[h].satp = NoCPU /\ ~hart[h].sie
    <3>1. hart[h].sie => hart[h].at \in OnPoints \cup UserPoints
      BY DEF TrapInv, InKernel, KernelAt
    <3>2. hart[h].satp = NoCPU
      BY <1>1 DEF TrapInv, InKernel, KernelAt
    <3>3. <<"entry", 0>> \notin OnPoints \cup UserPoints
      BY DEF OnPoints, UserPoints
    <3> QED BY <1>1, <3>1, <3>2, <3>3
  <2>2. /\ Trap!Own(hart[h].regs, h) \in [Trap!Reg -> Mark]
        /\ \A r \in Trap!Reg \ {"sp", "gp", "tp"} : Trap!Own(hart[h].regs, h)[r] = Trap!Kern(h)
    BY OwnFacts, OldHart DEF TrapInv, Trap!Thread, TrapTypes
  <2> QED BY <2>1, <2>2, RegFacts, MarkFacts DEF Trap!Thread
<1> HIDE DEF regs
<1> PICK x \in HartState : x = hart[h]
  BY DEF TrapInv, TrapTypes
<1>x. hart' = [hart EXCEPT ![h] = [hart[h] EXCEPT !.at = <<"main", 0>>, !.regs = regs]]
  BY DEF Trap!Start, regs, TrapInv, TrapTypes, HartState
<1>y. PICK y : /\ y = [x EXCEPT !.at = <<"main", 0>>, !.regs = regs]
               /\ hart' = [hart EXCEPT ![h] = y]
  BY <1>x
<1>rec. y = [at |-> <<"main", 0>>, regs |-> regs, satp |-> x.satp, stvec |-> x.stvec, sie |-> x.sie,
             spp |-> x.spp, spie |-> x.spie, sepc |-> x.sepc, scause |-> x.scause,
             paging |-> x.paging]
  BY <1>y DEF HartState
<1>type. y \in HartState
  BY OldHart, <1>rec, PointFacts, <1>2 DEF HartState
<1>new. hart' \in [Hart -> HartState] /\ hart'[h] = y /\ \A g \in Hart \ {h} : hart'[g] = hart[g]
  BY <1>y, <1>type, NewHart DEF TrapInv
<1>7. TrapTypes'
  BY <1>new DEF TrapInv, TrapTypes, Trap!Start, Trap!threads, Trap!plic
<1>8. InPlace(h)'
  BY <1>1, <1>rec, <1>new, PointFacts DEF InPlace, Trap!Start
<1>9. InKernel(h)'
  BY <1>1, <1>2, <1>rec, <1>new DEF InKernel, KernelAt, KernelPoints, Service, Nested, OnPoints,
     UserPoints
<1>10. OfProcess(h)'
  BY <1>1 DEF OfProcess, ProcAt, Trap!Start
<1> QED BY <1>new, <1>7, <1>8, <1>9, <1>10, LocalStep, <1>1 DEF Trap!Start, Trap!threads,
           Trap!plic, TrapInv, TrapTypes, Claims, Trap!Place

\* main leaves a CPU on the kernel's page table and trap vector.
LEMMA MainStep ==
  ASSUME TrapInv, NEW h \in Hart, Trap!Main(h)
  PROVE  TrapInv'
<1>1. hart[h].at = <<"main", 0>> /\ cpuproc[h] = NoCPU
  BY DEF TrapInv, Trap!Main, Trap!Place, InPlace, ProcPoints, UserPoints, Nested, Service,
     SchedPoints
<1>2. /\ hart[h].satp = NoCPU /\ ~hart[h].sie
      /\ hart[h].regs["tp"] = Trap!Id(h) /\ \A r \in Callee : hart[h].regs[r] = Trap!Kern(h)
  <2>1. hart[h].sie => hart[h].at \in OnPoints \cup UserPoints
    BY DEF TrapInv, InKernel, KernelAt
  <2>2. /\ hart[h].satp = NoCPU
        /\ hart[h].regs["tp"] = Trap!Id(h) /\ \A r \in Callee : hart[h].regs[r] = Trap!Kern(h)
    BY <1>1 DEF TrapInv, InKernel, KernelAt
  <2>3. <<"main", 0>> \notin OnPoints \cup UserPoints
    BY DEF OnPoints, UserPoints
  <2> QED BY <1>1, <2>1, <2>2, <2>3
<1> PICK x \in HartState : x = hart[h]
  BY DEF TrapInv, TrapTypes
<1>x. hart' = [hart EXCEPT ![h] = [hart[h] EXCEPT !.at = <<"sched", 0>>, !.paging = TRUE,
                                                  !.stvec = "kernelvec"]]
  BY DEF Trap!Main, TrapInv, TrapTypes, HartState
<1>y. PICK y : /\ y = [x EXCEPT !.at = <<"sched", 0>>, !.paging = TRUE, !.stvec = "kernelvec"]
               /\ hart' = [hart EXCEPT ![h] = y]
  BY <1>x
<1>rec. y = [at |-> <<"sched", 0>>, regs |-> x.regs, satp |-> x.satp, stvec |-> "kernelvec",
             sie |-> x.sie, spp |-> x.spp, spie |-> x.spie, sepc |-> x.sepc, scause |-> x.scause,
             paging |-> TRUE]
  BY <1>y DEF HartState
<1>type. y \in HartState
  BY OldHart, <1>rec, PointFacts DEF HartState
<1>new. hart' \in [Hart -> HartState] /\ hart'[h] = y /\ \A g \in Hart \ {h} : hart'[g] = hart[g]
  BY <1>y, <1>type, NewHart DEF TrapInv
<1>7. TrapTypes'
  BY <1>new DEF TrapInv, TrapTypes, Trap!Main, Trap!threads, Trap!plic
<1>8. InPlace(h)'
  BY <1>1, <1>rec, <1>new, PointFacts DEF InPlace, Trap!Main
<1>9. InKernel(h)'
  BY <1>1, <1>2, <1>rec, <1>new, Places DEF InKernel, KernelAt, Trap!Main, Trap!Runs
<1>10. OfProcess(h)'
  BY <1>1 DEF OfProcess, ProcAt, Trap!Main
<1> QED BY <1>new, <1>7, <1>8, <1>9, <1>10, LocalStep, <1>1 DEF Trap!Main, Trap!threads, Trap!plic,
           TrapInv, TrapTypes, Claims, Trap!Place

\* A trap from user mode finds uservec, one from the kernel kernelvec.
LEMMA TrapStep ==
  ASSUME TrapInv, NEW h \in Hart, NEW cause \in {"timer", "external", "fault", "ecall"},
         Trap!CanInterrupt(h), Trap!Trap(h, cause), cause \in {"fault", "ecall"} =>
           Trap!Place(h) = "user",
         IF cause = "ecall"
           THEN want' = [want EXCEPT ![cpuproc[h]] = [pc |-> 1 - @.pc,
                                                      a0 |-> Trap!Result(cpuproc[h])]]
           ELSE want' = want
  PROVE  TrapInv'
<1>1. \/ Trap!Place(h) = "user" /\ hart[h].at \in UserPoints /\ cpuproc[h] \in User
      \/ Trap!Place(h) # "user" /\ hart[h].at \in OnPoints /\ hart[h].sie
  <2>1. hart[h].at \in UserPoints => Trap!Place(h) = "user" /\ cpuproc[h] \in User
    BY SchedFacts, ProcFacts DEF UserPoints, Trap!Place
  <2>2. Trap!Place(h) = "user" => hart[h].at \in UserPoints
    BY DEF UserPoints, Trap!Place, TrapInv, InPlace, SchedPoints, ProcPoints, Service, Nested
  <2>3. hart[h].sie => hart[h].at \in OnPoints \cup UserPoints
    BY DEF TrapInv, InKernel, KernelAt
  <2> QED BY <2>1, <2>2, <2>3 DEF Trap!CanInterrupt
<1>2. hart[h].stvec = IF Trap!Place(h) = "user" THEN "uservec" ELSE "kernelvec"
  <2>1. CASE Trap!Place(h) = "user"
    BY <1>1, <2>1, InUser
  <2>2. CASE Trap!Place(h) # "user"
    BY <1>1, <2>2 DEF TrapInv, InKernel, KernelAt, OnPoints, KernelPoints, Service
  <2> QED BY <2>1, <2>2
<1> PICK x \in HartState : x = hart[h]
  BY DEF TrapInv, TrapTypes
<1>x. hart' = [hart EXCEPT ![h] = [hart[h] EXCEPT !.at = <<hart[h].stvec, 0>>, !.sepc = hart[h].at,
                                                  !.scause = cause, !.sie = FALSE,
                                                  !.spie = hart[h].sie,
                                                  !.spp = IF Trap!Place(h) = "user"
                                                          THEN "U" ELSE "S"]]
  BY DEF Trap!Trap, TrapInv, TrapTypes, HartState
<1>y. PICK y : /\ y = [x EXCEPT !.at = <<hart[h].stvec, 0>>, !.sepc = hart[h].at, !.scause = cause,
                                !.sie = FALSE, !.spie = hart[h].sie,
                                !.spp = IF Trap!Place(h) = "user" THEN "U" ELSE "S"]
               /\ hart' = [hart EXCEPT ![h] = y]
  BY <1>x
<1>rec. y = [at |-> <<hart[h].stvec, 0>>, regs |-> x.regs, satp |-> x.satp, stvec |-> x.stvec,
             sie |-> FALSE, spp |-> IF Trap!Place(h) = "user" THEN "U" ELSE "S",
             spie |-> hart[h].sie,
             sepc |-> hart[h].at, scause |-> cause, paging |-> x.paging]
  BY <1>y DEF HartState
<1>type. y \in HartState
  BY OldHart, <1>rec, PointFacts, <1>2 DEF HartState
<1>new. hart' \in [Hart -> HartState] /\ hart'[h] = y /\ \A g \in Hart \ {h} : hart'[g] = hart[g]
  BY <1>y, <1>type, NewHart DEF TrapInv
<1>3. /\ want' \in [User -> [pc : {0, 1}, a0 : Mark]]
      /\ \A q \in User : want'[q].a0 \in {Trap!Prog(q), Trap!Result(q)}
  <2>1. CASE cause = "ecall"
    <3>1. cpuproc[h] \in User
      BY <2>1, <1>1
    <3>2. want'[cpuproc[h]] = [pc |-> 1 - want[cpuproc[h]].pc, a0 |-> Trap!Result(cpuproc[h])]
      BY <2>1, <3>1 DEF TrapInv, TrapTypes
    <3>3. want'[cpuproc[h]] \in [pc : {0, 1}, a0 : Mark]
      BY <3>1, <3>2, MarkFacts DEF TrapInv, TrapTypes, Trap!Thread
    <3>4. want' = [want EXCEPT ![cpuproc[h]] = want'[cpuproc[h]]]
      BY <2>1, <3>1, <3>2 DEF TrapInv, TrapTypes
    <3>5. want'[cpuproc[h]].a0 = Trap!Result(cpuproc[h])
      BY <3>2
    <3>6. want' \in [User -> [pc : {0, 1}, a0 : Mark]]
      BY <3>1, <3>3, <3>4 DEF TrapInv, TrapTypes
    <3>7. \A q \in User : q # cpuproc[h] => want'[q] = want[q]
      BY <3>4 DEF TrapInv, TrapTypes
    <3> QED BY <3>1, <3>5, <3>6, <3>7 DEF TrapInv, TrapTypes
  <2> QED BY <2>1 DEF TrapInv, TrapTypes
<1>7. TrapTypes'
  BY <1>new, <1>3 DEF TrapInv, TrapTypes, Trap!Trap, Trap!threads, Trap!plic
<1>u. CASE Trap!Place(h) = "user"
  <2> DEFINE p == cpuproc[h]
  <2>1. /\ p \in User /\ p # NoCPU /\ cpuproc'[h] = p
    <3>1. cpuproc' = cpuproc
      BY DEF Trap!Trap
    <3> QED BY <3>1, <1>1, <1>u, UserNone
  <2>2. /\ x.satp = p /\ x.at = <<"user", want[p].pc>> /\ Entry(h, p) /\ x.paging
        /\ \A r \in Trap!Reg : x.regs[r] = IF r = "a0" THEN want[p].a0 ELSE Trap!Prog(p)
    <3>1. x.paging
      BY <1>u DEF TrapInv, InKernel, KernelAt, Trap!Place
    <3> QED BY <2>1, <1>1, <1>u, <3>1 DEF TrapInv, OfProcess, ProcAt
  <2>3. /\ y.at = <<"uservec", 0>> /\ y.satp = p /\ y.spp = "U" /\ y.sepc = <<"user", want[p].pc>>
        /\ y.regs = x.regs /\ y.scause = cause /\ ~y.sie /\ y.paging
    BY <1>rec, <2>2, <1>2, <1>u
  <2>4. InPlace(h)'
    BY <2>1, <2>3, <1>new, PointFacts DEF InPlace
  <2>5. InKernel(h)'
    BY <2>3, <1>new DEF InKernel, KernelAt, KernelPoints, Service, Nested, OnPoints
  <2>6. Trapped(y, p, y.regs)'
    <3>1. want[p].pc \in {0, 1} /\ want[p].a0 \in {Trap!Prog(p), Trap!Result(p)}
      BY <2>1 DEF TrapInv, TrapTypes
    <3>2. \A r \in Trap!Reg \ {"a0"} : y.regs[r] = Trap!Prog(p)
      BY <2>2, <2>3
    <3>3. y.regs["a0"] = want[p].a0
      BY <2>2, <2>3, RegFacts
    <3>4. CASE cause = "ecall"
      <4>1. want'[p].pc = 1 - want[p].pc /\ want'[p].a0 = Trap!Result(p)
        BY <3>4, <2>1 DEF TrapInv, TrapTypes
      <4>2. 1 - want'[p].pc = want[p].pc
        BY <4>1, <3>1
      <4> QED BY <2>1, <2>3, <3>1, <3>2, <3>3, <3>4, <4>1, <4>2 DEF Trapped
    <3>5. CASE cause # "ecall"
      BY <2>1, <2>3, <3>1, <3>2, <3>3, <3>5 DEF Trapped
    <3> QED BY <3>4, <3>5
  <2>7. Entry(h, p)'
    BY <2>2 DEF Entry, Trap!Trap
  <2>8. OfProcess(h)'
    BY <2>1, <2>3, <2>6, <2>7, <1>new DEF OfProcess, ProcAt, UserPoints, Service, Nested
  <2>9. claimed'[h] # Trap!NoIrq => FALSE
    BY <1>u DEF TrapInv, Claims, Trap!Trap, Trap!plic
  <2> QED BY <1>new, <1>7, <2>4, <2>5, <2>8, <2>9, LocalStep, <1>1 DEF Trap!Trap, Trap!threads,
             Trap!plic, TrapInv, TrapTypes
<1>k. CASE Trap!Place(h) # "user"
  <2>1. hart[h].at \in OnPoints /\ hart[h].sie /\ x.stvec = "kernelvec" /\ want' = want
    BY <1>1, <1>2, <1>k
  <2>2. /\ y.at = <<"kernelvec", 0>> /\ y.spp = "S" /\ y.spie /\ y.sepc = x.at /\ y.regs = x.regs
        /\ y.satp = x.satp /\ y.paging = x.paging /\ y.stvec = x.stvec /\ ~y.sie
    BY <1>rec, <2>1, <1>k
  <2>3. InPlace(h)'
    <3>1. cpuproc' = cpuproc
      BY DEF Trap!Trap
    <3> QED BY <3>1, <2>2, <1>new, PointFacts DEF InPlace
  <2>4. x.at \in Resume(Trap!Runs(h))
    <3>1. CASE cpuproc[h] = NoCPU
      <4>1. x.at = <<"sched", 1>>
        BY <2>1, <3>1 DEF TrapInv, InPlace, OnPoints, SchedPoints, Nested
      <4> QED BY <4>1, <3>1 DEF Resume, Trap!Runs
    <3>2. CASE cpuproc[h] # NoCPU
      <4>1. x.at \in {<<"syscall", 0>>, <<"after", 0>>, <<"return", 0>>}
        BY <2>1, <3>2 DEF TrapInv, InPlace, OnPoints, ProcPoints, UserPoints, Nested, Service
      <4>2. cpuproc[h] \in User
        BY <3>2 DEF TrapInv, TrapTypes
      <4> QED BY <4>1, <4>2, <3>2, UserNone DEF Resume, Trap!Runs
    <3> QED BY <3>1, <3>2
  <2>5. Trap!Runs(h)' = Trap!Runs(h)
    BY DEF Trap!Runs, Trap!Trap
  <2>6. InKernel(h)'
    <3>1. x.at \in KernelPoints
      BY <2>1 DEF OnPoints, KernelPoints, Service
    <3>2. /\ x.regs["tp"] = Trap!Id(h) /\ \A r \in Callee : x.regs[r] = Trap!Kern(Trap!Runs(h))
          /\ x.satp = NoCPU /\ x.paging
          /\ \A r \in Trap!CallerSaved : x.regs[r] = Trap!Kern(Trap!Runs(h))
      BY <2>1, <3>1 DEF TrapInv, InKernel, KernelAt
    <3>3. /\ Trap!Kern(Trap!Runs(h))' = Trap!Kern(Trap!Runs(h))
          /\ Resume(Trap!Runs(h))' = Resume(Trap!Runs(h))
      BY <2>5 DEF Trap!Kern, Resume
    <3> QED BY <2>1, <2>2, <2>4, <2>5, <3>2, <3>3, <1>new, Places DEF InKernel, KernelAt
  <2>7. OfProcess(h)'
    <3> SUFFICES ASSUME cpuproc[h] # NoCPU PROVE OfProcess(h)'
      BY DEF OfProcess, ProcAt, Trap!Trap
    <3>1. cpuproc[h] \in User /\ cpuproc'[h] = cpuproc[h] /\ tf' = tf /\ local' = local
      BY DEF TrapInv, TrapTypes, Trap!Trap, Trap!threads
    <3>2. FrameAt(cpuproc[h], x.at)
      <4>1. x.at \in Service /\ x.at \notin Nested
        BY <2>1, <3>1 DEF TrapInv, InPlace, OnPoints, ProcPoints, UserPoints, Nested, Service
      <4> QED BY <4>1 DEF TrapInv, OfProcess, ProcAt, Base
    <3>3. FrameAt(cpuproc[h], x.at)'
      BY <2>1, <3>1, <3>2 DEF FrameAt
    <3> QED BY <3>1, <3>3, <2>2, <1>new DEF OfProcess, ProcAt, UserPoints, Service, Nested
  <2>8. claimed'[h] = Trap!NoIrq
    <3>1. Trap!Place(h) # "handler"
      BY <2>1 DEF Trap!Place, OnPoints
    <3> QED BY <3>1 DEF TrapInv, Claims, Trap!Trap, Trap!plic
  <2> QED BY <1>new, <1>7, <2>1, <2>3, <2>6, <2>7, <2>8, LocalStep, <1>1 DEF Trap!Trap,
             Trap!threads, Trap!plic, TrapInv, TrapTypes
<1> QED BY <1>u, <1>k

\* A program changes its own registers.
LEMMA ComputeStep ==
  ASSUME TrapInv, NEW h \in Hart, Trap!Compute(h)
  PROVE  TrapInv'
<1> PICK p : p = cpuproc[h]
  OBVIOUS
<1> DEFINE regs == [hart[h].regs EXCEPT !["a0"] = Trap!Prog(p)]
<1>1. hart[h].at \in UserPoints
  BY PlaceFacts DEF Trap!Compute, TrapInv
<1>2. /\ p \in User /\ p # NoCPU
      /\ hart[h].satp = p /\ hart[h].stvec = "uservec" /\ hart[h].at = <<"user", want[p].pc>>
      /\ Entry(h, p)
      /\ \A r \in Trap!Reg : hart[h].regs[r] = IF r = "a0" THEN want[p].a0 ELSE Trap!Prog(p)
  BY <1>1, InUser
<1>3. regs \in [Trap!Reg -> Mark] /\ \A r \in Trap!Reg : regs[r] = Trap!Prog(p)
  <2>1. hart[h].regs \in [Trap!Reg -> Mark] /\ Trap!Prog(p) \in Mark
    BY <1>2, MarkFacts, OldHart DEF TrapInv, TrapTypes, Trap!Thread
  <2> QED BY <2>1, <1>2, RegFacts
<1> HIDE DEF regs
<1> PICK x \in HartState : x = hart[h]
  BY DEF TrapInv, TrapTypes
<1>x. hart' = [hart EXCEPT ![h] = [hart[h] EXCEPT !.regs = regs]]
  BY DEF Trap!Compute, regs, TrapInv, TrapTypes, HartState
<1>y. PICK y : /\ y = [x EXCEPT !.regs = regs]
               /\ hart' = [hart EXCEPT ![h] = y]
  BY <1>x
<1>rec. y = [at |-> x.at, regs |-> regs, satp |-> x.satp, stvec |-> x.stvec, sie |-> x.sie,
             spp |-> x.spp, spie |-> x.spie, sepc |-> x.sepc, scause |-> x.scause,
             paging |-> x.paging]
  BY <1>y DEF HartState
<1>type. y \in HartState
  BY OldHart, <1>rec, PointFacts, <1>3 DEF HartState
<1>new. hart' \in [Hart -> HartState] /\ hart'[h] = y /\ \A g \in Hart \ {h} : hart'[g] = hart[g]
  BY <1>y, <1>type, NewHart DEF TrapInv
<1>5. /\ want'[p].a0 = Trap!Prog(p) /\ want'[p].pc = want[p].pc
      /\ \A q \in User : q # p => want'[q] = want[q]
  BY <1>2 DEF Trap!Compute, TrapInv, TrapTypes
<1>6. want' \in [User -> [pc : {0, 1}, a0 : Mark]]
  BY <1>2, MarkFacts DEF Trap!Compute, TrapInv, TrapTypes, Trap!Thread
<1>7. TrapTypes'
  BY <1>new, <1>5, <1>6 DEF TrapInv, TrapTypes, Trap!Compute, Trap!threads, Trap!plic
<1>8. /\ y.at = hart[h].at /\ y.satp = p /\ y.stvec = "uservec" /\ y.regs = regs
      /\ y.paging = hart[h].paging
  BY <1>rec, <1>2
<1>9. InPlace(h)' /\ cpuproc'[h] = p
  BY <1>8, <1>new DEF InPlace, TrapInv, Trap!Compute
<1>10. InKernel(h)'
  <2>1. hart[h].paging
    BY <1>2 DEF TrapInv, InKernel, KernelAt
  <2>2. y.at \notin KernelPoints /\ y.at # <<"kernelvec", 0>> /\ y.at \notin Nested \cup OnPoints
    BY <1>1, <1>8, Places
  <2>3. y.at # <<"entry", 0>> /\ y.at # <<"main", 0>> /\ y.at \in UserPoints
    BY <1>1, <1>8, <1>2, Places
  <2> QED BY <2>1, <2>2, <2>3, <1>8, <1>new DEF InKernel, KernelAt
<1>11. OfProcess(h)'
  <2>1. y.at \in UserPoints /\ y.at \notin Service \cup Nested
    BY <1>1, <1>8, Places
  <2>2. /\ y.at # <<"uservec", 0>> /\ y.at # <<"usertrap", 0>> /\ y.at # <<"userret", 0>>
        /\ y.at # <<"kernelvec", 0>>
    BY <1>8, <1>2
  <2>3. Entry(h, p)'
    BY <1>2 DEF Entry, Trap!Compute
  <2> QED BY <2>1, <2>2, <2>3, <1>2, <1>3, <1>5, <1>8, <1>9, <1>new DEF OfProcess, ProcAt
<1>12. claimed'[h] = Trap!NoIrq
  <2>1. Trap!Place(h) # "handler"
    BY DEF Trap!Compute
  <2> QED BY <2>1 DEF TrapInv, Claims, Trap!Compute, Trap!plic
<1> QED BY <1>new, <1>5, <1>7, <1>9, <1>10, <1>11, <1>12, LocalStep DEF Trap!Compute, Trap!threads,
           Trap!plic, TrapInv, TrapTypes

\* uservec saves the registers in the trapframe of its process and finds there the

\* stack, the page table and the hartid that prepare_return left.
LEMMA UservecStep ==
  ASSUME TrapInv, NEW h \in Hart, Trap!Uservec(h)
  PROVE  TrapInv'
<1> PICK p : p = cpuproc[h]
  OBVIOUS
<1> DEFINE regs == [hart[h].regs EXCEPT !["sp"] = Trap!Kern(p), !["tp"] = Trap!Id(h)]
<1>1. hart[h].at = <<"uservec", 0>>
  BY PlaceFacts DEF Trap!Uservec, TrapInv
<1>2. p \in User /\ p # NoCPU
  BY <1>1, ProcFacts, SchedFacts
<1>3. /\ hart[h].satp = p /\ hart[h].spp = "U" /\ Entry(h, p) /\ Trapped(hart[h], p, hart[h].regs)
      /\ hart[h].paging /\ ~hart[h].sie
  <2>1. hart[h].paging /\ (hart[h].sie => hart[h].at \in OnPoints \cup UserPoints)
    BY <1>1 DEF TrapInv, InKernel, KernelAt
  <2> QED BY <1>1, <1>2, <2>1, Places DEF TrapInv, OfProcess, ProcAt
<1>4. regs \in [Trap!Reg -> Mark] /\ regs["sp"] = Trap!Kern(p) /\ regs["tp"] = Trap!Id(h)
  <2>1. hart[h].regs \in [Trap!Reg -> Mark] /\ Trap!Kern(p) \in Mark /\ Trap!Id(h) \in Mark
    BY <1>2, MarkFacts, OldHart DEF TrapInv, TrapTypes, Trap!Thread
  <2> QED BY <2>1, RegFacts
<1>5. hart' = [hart EXCEPT ![h].at = <<"usertrap", 0>>, ![h].satp = NoCPU,
                           ![h].regs["sp"] = Trap!Kern(p), ![h].regs["tp"] = Trap!Id(h)]
  BY <1>3 DEF Trap!Uservec, Entry
<1> HIDE DEF regs
<1> PICK x \in HartState : x = hart[h]
  BY DEF TrapInv, TrapTypes
<1>x. hart' = [hart EXCEPT ![h] = [hart[h] EXCEPT !.at = <<"usertrap", 0>>, !.satp = NoCPU,
                                                  !.regs = regs]]
  BY <1>5 DEF regs, TrapInv, TrapTypes, HartState
<1>y. PICK y : /\ y = [x EXCEPT !.at = <<"usertrap", 0>>, !.satp = NoCPU, !.regs = regs]
               /\ hart' = [hart EXCEPT ![h] = y]
  BY <1>x
<1>rec. y = [at |-> <<"usertrap", 0>>, regs |-> regs, satp |-> NoCPU, stvec |-> x.stvec,
             sie |-> x.sie, spp |-> x.spp, spie |-> x.spie, sepc |-> x.sepc, scause |-> x.scause,
             paging |-> x.paging]
  BY <1>y DEF HartState
<1>type. y \in HartState
  BY OldHart, <1>rec, PointFacts, <1>4 DEF HartState
<1>new. hart' \in [Hart -> HartState] /\ hart'[h] = y /\ \A g \in Hart \ {h} : hart'[g] = hart[g]
  BY <1>y, <1>type, NewHart DEF TrapInv
<1>6. /\ tf' = [tf EXCEPT ![p].regs = hart[h].regs]
      /\ UNCHANGED <<cpuproc, Trap!threads, tstate, tkilled, Trap!plic, started, want>>
  BY <1>3 DEF Trap!Uservec
<1> PICK u \in TrapFrame : u = tf[p]
  BY <1>2, <1>6 DEF TrapInv, TrapTypes
<1>z. PICK z : z = [u EXCEPT !.regs = hart[h].regs] /\ tf' = [tf EXCEPT ![p] = z]
  BY <1>2, <1>6 DEF TrapTypes, TrapInv, TrapTypes, TrapFrame
<1>tf. z = [epc |-> u.epc, ksp |-> u.ksp, khart |-> u.khart, ksatp |-> u.ksatp,
            regs |-> hart[h].regs]
  BY <1>z DEF TrapFrame
<1>ttype. z \in TrapFrame
  BY <1>tf, OldHart DEF TrapFrame
<1>tnew. tf' \in [User -> TrapFrame] /\ tf'[p] = z /\ \A q \in User : q # p => tf'[q] = tf[q]
  BY <1>z, <1>ttype, <1>2, <1>6 DEF TrapInv, TrapTypes
<1>8. tf'[p].regs = hart[h].regs /\ \A q \in User : q # p => tf'[q] = tf[q]
  BY <1>tnew, <1>tf
<1>9. TrapTypes'
  BY <1>new, <1>6, <1>tnew DEF TrapInv, TrapTypes, Trap!threads, Trap!plic
<1>10. InPlace(h)' /\ cpuproc'[h] = p
  BY <1>2, <1>6, <1>rec, <1>new, PointFacts DEF InPlace
<1>11. InKernel(h)'
  BY <1>3, <1>rec, <1>new, Places DEF InKernel, KernelAt
<1>12. OfProcess(h)'
  <2>1. Trapped(y, p, tf[p].regs)'
    BY <1>3, <1>6, <1>8, <1>rec DEF Trapped
  <2> QED BY <2>1, <1>3, <1>4, <1>10, <1>rec, <1>new, Places DEF OfProcess, ProcAt
<1>13. claimed'[h] = Trap!NoIrq
  BY <1>1, <1>6 DEF TrapInv, Claims, Trap!plic, Trap!Place
<1> QED BY <1>new, <1>6, <1>8, <1>9, <1>10, <1>11, <1>12, <1>13, LocalStep DEF Trap!threads,
           Trap!plic, TrapInv, TrapTypes

\* usertrap keeps the program's next instruction before it lets interrupts in.
LEMMA UsertrapStep ==
  ASSUME TrapInv, NEW h \in Hart, Trap!Usertrap(h)
  PROVE  TrapInv'
<1> PICK p : p = cpuproc[h]
  OBVIOUS
<1> PICK ecall \in BOOLEAN : ecall = (hart[h].scause = "ecall")
  OBVIOUS
<1> PICK next : next = CASE ecall /\ tkilled[p] -> <<"exit", 0>>
                         [] ecall /\ ~tkilled[p] -> <<"syscall", 0>>
                         [] hart[h].scause = "fault" -> <<"after", 0>>
                         [] OTHER -> <<"devintr", 0>>
  OBVIOUS
<1> DEFINE upc == hart[h].sepc[2]
           regs == Trap!Own(hart[h].regs, p)
           on == (next[1] = "syscall")
<1>1. hart[h].at = <<"usertrap", 0>>
  BY PlaceFacts DEF Trap!Usertrap, TrapInv
<1>2. p \in User /\ p # NoCPU /\ p \in Trap!Thread /\ Trap!Runs(h) = p
  BY <1>1, ProcFacts, SchedFacts DEF Trap!Thread
<1>3. /\ hart[h].satp = NoCPU /\ hart[h].spp = "U" /\ hart[h].regs["tp"] = Trap!Id(h)
      /\ hart[h].regs["sp"] = Trap!Kern(p) /\ Trapped(hart[h], p, tf[p].regs) /\ hart[h].paging
  <2>1. hart[h].paging
    BY <1>1 DEF TrapInv, InKernel, KernelAt
  <2> QED BY <1>1, <1>2, <2>1 DEF TrapInv, OfProcess, ProcAt
<1>4. Trap!Myproc(h) = p
  BY <1>3, CpuFacts
<1>5. /\ regs \in [Trap!Reg -> Mark] /\ regs["tp"] = Trap!Id(h)
      /\ \A r \in Callee \cup Trap!CallerSaved : regs[r] = Trap!Kern(p)
  <2>1. hart[h].regs \in [Trap!Reg -> Mark]
    BY OldHart DEF TrapInv, TrapTypes
  <2> QED BY <1>2, <1>3, <2>1, OwnFacts
<1>6. /\ on \in BOOLEAN
      /\ \/ ecall /\ next = <<"exit", 0>> /\ ~on
         \/ ecall /\ next = <<"syscall", 0>> /\ on
         \/ ~ecall /\ next \in {<<"after", 0>>, <<"devintr", 0>>} /\ ~on
  <2>1. tkilled[p] \in BOOLEAN
    BY <1>2 DEF TrapInv, TrapTypes
  <2> QED BY <2>1
<1>7. /\ hart' = [hart EXCEPT ![h].at = next, ![h].stvec = "kernelvec", ![h].sie = on,
                              ![h].regs = Trap!Own(@, p)]
      /\ tf' = [tf EXCEPT ![p].epc = IF ecall THEN 1 - upc ELSE upc]
      /\ tkilled' = [tkilled EXCEPT ![p] = @ \/ hart[h].scause = "fault"]
      /\ UNCHANGED <<cpuproc, Trap!threads, tstate, Trap!plic, started, want>>
  BY <1>4 DEF Trap!Usertrap
<1>8. want[p].pc \in {0, 1} /\ want[p].a0 \in {Trap!Prog(p), Trap!Result(p)}
  BY <1>2 DEF TrapInv, TrapTypes
<1>9. (IF ecall THEN 1 - upc ELSE upc) = want[p].pc
  <2>1. CASE ecall
    <3>1. hart[h].sepc = <<"user", 1 - want[p].pc>>
      BY <2>1, <1>3 DEF Trapped
    <3> QED BY <2>1, <3>1, <1>8
  <2>2. CASE ~ecall
    <3>1. hart[h].sepc = <<"user", want[p].pc>>
      BY <2>2, <1>3 DEF Trapped
    <3> QED BY <2>2, <3>1
  <2> QED BY <2>1, <2>2
<1>10. next \in Service /\ (on <=> next = <<"syscall", 0>>) /\ next \in Points
  BY <1>6, PointFacts DEF Service
<1> HIDE DEF regs, on, upc
<1> PICK x \in HartState : x = hart[h]
  BY DEF TrapInv, TrapTypes
<1>x. hart' = [hart EXCEPT ![h] = [hart[h] EXCEPT !.at = next, !.stvec = "kernelvec", !.sie = on,
                                                  !.regs = regs]]
  BY <1>7 DEF regs, TrapInv, TrapTypes, HartState
<1>y. PICK y : /\ y = [x EXCEPT !.at = next, !.stvec = "kernelvec", !.sie = on, !.regs = regs]
               /\ hart' = [hart EXCEPT ![h] = y]
  BY <1>x
<1>rec. y = [at |-> next, regs |-> regs, satp |-> x.satp, stvec |-> "kernelvec", sie |-> on,
             spp |-> x.spp, spie |-> x.spie, sepc |-> x.sepc, scause |-> x.scause,
             paging |-> x.paging]
  BY <1>y DEF HartState
<1>type. y \in HartState
  BY OldHart, <1>rec, PointFacts, <1>5, <1>6, <1>10 DEF HartState
<1>new. hart' \in [Hart -> HartState] /\ hart'[h] = y /\ \A g \in Hart \ {h} : hart'[g] = hart[g]
  BY <1>y, <1>type, NewHart DEF TrapInv
<1> PICK u \in TrapFrame : u = tf[p]
  BY <1>2, <1>7, <1>9 DEF TrapInv, TrapTypes
<1>z. PICK z : z = [u EXCEPT !.epc = want[p].pc] /\ tf' = [tf EXCEPT ![p] = z]
  BY <1>2, <1>7, <1>9 DEF TrapTypes, TrapInv, TrapTypes, TrapFrame
<1>tf. z = [epc |-> want[p].pc, ksp |-> u.ksp, khart |-> u.khart, ksatp |-> u.ksatp,
            regs |-> u.regs]
  BY <1>z DEF TrapFrame
<1>ttype. z \in TrapFrame
  BY <1>tf, <1>8 DEF TrapFrame
<1>tnew. tf' \in [User -> TrapFrame] /\ tf'[p] = z /\ \A q \in User : q # p => tf'[q] = tf[q]
  BY <1>z, <1>ttype, <1>2, <1>7, <1>9 DEF TrapInv, TrapTypes
<1>11. TrapTypes'
  <2>1. tkilled' \in [User -> BOOLEAN]
    BY <1>2, <1>7 DEF TrapInv, TrapTypes
  <2> QED BY <1>new, <1>tnew, <1>7, <2>1 DEF TrapInv, TrapTypes, Trap!threads, Trap!plic
<1>12. InPlace(h)' /\ cpuproc'[h] = p /\ Trap!Runs(h)' = p
  BY <1>2, <1>7, <1>rec, <1>new, <1>10, PointFacts DEF InPlace, Trap!Runs
<1>13. KernelAt(h, y, p)'
  <2>1. y.at \notin {<<"main", 0>>, <<"entry", 0>>, <<"kernelvec", 0>>} \cup Nested
    BY <1>10, <1>rec, Places
  <2>2. <<"syscall", 0>> \in OnPoints
    BY DEF OnPoints
  <2> QED BY <1>3, <1>5, <1>10, <1>rec, <1>new, <2>1, <2>2 DEF KernelAt
<1>14. ProcAt(h, y, p)'
  <2>1. FrameAt(p, next)'
    <3>1. \A r \in Trap!Reg \ {"a0"} : z.regs[r] = Trap!Prog(p)
      BY <1>3, <1>tf DEF Trapped
    <3>2. /\ z.regs["a0"] \in {Trap!Prog(p), Trap!Result(p)}
          /\ IF ecall THEN want[p].a0 = Trap!Result(p) ELSE z.regs["a0"] = want[p].a0
      BY <1>3, <1>tf DEF Trapped
    <3>3. tf'[p] = z /\ want'[p] = want[p] /\ z.epc = want[p].pc
      BY <1>tf, <1>tnew, <1>7
    <3>4. next = <<"syscall", 0>> => ecall
      BY <1>6
    <3>5. next \notin {<<"syscall", 0>>, <<"exit", 0>>} => ~ecall
      BY <1>6
    <3> QED BY <3>1, <3>2, <3>3, <3>4, <3>5 DEF FrameAt
  <2>2. Base(p, next)' = next
    BY <1>10, Places DEF Base
  <2>3. /\ y.at \notin UserPoints
        /\ y.at \notin {<<"uservec", 0>>, <<"usertrap", 0>>, <<"userret", 0>>, <<"kernelvec", 0>>}
    BY <1>10, <1>rec, Places
  <2> QED BY <2>1, <2>2, <2>3, <1>rec DEF ProcAt
<1>15. claimed'[h] = Trap!NoIrq
  BY <1>1, <1>7 DEF TrapInv, Claims, Trap!plic, Trap!Place
<1>16. InKernel(h)' /\ OfProcess(h)'
  BY <1>12, <1>13, <1>14, <1>new DEF InKernel, OfProcess
<1> QED BY <1>new, <1>tnew, <1>7, <1>11, <1>12, <1>15, <1>16, LocalStep DEF Trap!threads,
           Trap!plic, TrapInv, TrapTypes

\* A system call leaves its result in a0, and the other registers alone.
LEMMA SyscallStep ==
  ASSUME TrapInv, NEW h \in Hart, Trap!Syscall(h)
  PROVE  TrapInv'
<1> PICK p : p = cpuproc[h]
  OBVIOUS
<1>1. hart[h].at = <<"syscall", 0>> /\ hart[h].at \in OnPoints /\ hart[h].at \in Service
  BY PlaceFacts DEF Trap!Syscall, TrapInv, OnPoints, Service
<1>2. p \in User /\ p # NoCPU /\ p \in Trap!Thread /\ Trap!Runs(h) = p
  BY <1>1, ProcFacts, SchedFacts DEF Trap!Thread
<1>3. Trap!Myproc(h) = p
  BY <1>1, <1>2, Places, CodeFacts
<1>4. FrameAt(p, <<"syscall", 0>>) /\ KernelAt(h, hart[h], p)
  BY <1>1, <1>2, Places DEF TrapInv, OfProcess, ProcAt, Base, InKernel
<1>5. /\ hart' = [hart EXCEPT ![h].at = <<"after", 0>>]
      /\ tf' = [tf EXCEPT ![p].regs["a0"] = Trap!Result(p)]
      /\ UNCHANGED <<cpuproc, Trap!threads, tstate, tkilled, Trap!plic, started, want>>
  BY <1>3 DEF Trap!Syscall
<1>6. <<"after", 0>> \in Service /\ <<"after", 0>> \in OnPoints
  BY DEF Service, OnPoints
<1> DEFINE regs == [tf[p].regs EXCEPT !["a0"] = Trap!Result(p)]
<1>7. /\ regs \in [Trap!Reg -> Mark] /\ regs["a0"] = Trap!Result(p)
      /\ \A r \in Trap!Reg \ {"a0"} : regs[r] = tf[p].regs[r]
  <2>1. tf[p].regs \in [Trap!Reg -> Mark]
    BY <1>2 DEF TrapInv, TrapTypes, TrapFrame
  <2> QED BY <2>1, <1>2, MarkFacts, RegFacts
<1> HIDE DEF regs
<1> PICK x \in HartState : x = hart[h]
  BY DEF TrapInv, TrapTypes
<1>x. hart' = [hart EXCEPT ![h] = [hart[h] EXCEPT !.at = <<"after", 0>>]]
  BY <1>5 DEF TrapTypes, TrapInv, TrapTypes, HartState
<1>y. PICK y : /\ y = [x EXCEPT !.at = <<"after", 0>>]
               /\ hart' = [hart EXCEPT ![h] = y]
  BY <1>x
<1>rec. y = [at |-> <<"after", 0>>, regs |-> x.regs, satp |-> x.satp, stvec |-> x.stvec,
             sie |-> x.sie, spp |-> x.spp, spie |-> x.spie, sepc |-> x.sepc, scause |-> x.scause,
             paging |-> x.paging]
  BY <1>y DEF HartState
<1>type. y \in HartState
  BY OldHart, <1>rec, PointFacts, <1>6 DEF HartState
<1>new. hart' \in [Hart -> HartState] /\ hart'[h] = y /\ \A g \in Hart \ {h} : hart'[g] = hart[g]
  BY <1>y, <1>type, NewHart DEF TrapInv
<1> PICK u \in TrapFrame : u = tf[p]
  BY <1>2, <1>5 DEF TrapInv, TrapTypes
<1>z. PICK z : z = [u EXCEPT !.regs = regs] /\ tf' = [tf EXCEPT ![p] = z]
  BY <1>2, <1>5 DEF regs, TrapInv, TrapTypes, TrapFrame
<1>tf. z = [epc |-> u.epc, ksp |-> u.ksp, khart |-> u.khart, ksatp |-> u.ksatp, regs |-> regs]
  BY <1>z DEF TrapFrame
<1>ttype. z \in TrapFrame
  BY <1>tf, <1>7 DEF TrapFrame
<1>tnew. tf' \in [User -> TrapFrame] /\ tf'[p] = z /\ \A q \in User : q # p => tf'[q] = tf[q]
  BY <1>z, <1>ttype, <1>2, <1>5 DEF TrapInv, TrapTypes
<1>11. TrapTypes'
  BY <1>new, <1>tnew, <1>5 DEF TrapInv, TrapTypes, Trap!threads, Trap!plic
<1>12. InPlace(h)' /\ cpuproc'[h] = p /\ Trap!Runs(h)' = p
  BY <1>2, <1>5, <1>rec, <1>new, <1>6, PointFacts DEF InPlace, Trap!Runs
<1>13. KernelAt(h, y, p)'
  BY <1>1, <1>4, <1>6, <1>rec, Places DEF KernelAt
<1>14. ProcAt(h, y, p)'
  <2>1. FrameAt(p, <<"after", 0>>)'
    <3>1. tf'[p].regs = regs /\ tf'[p].epc = tf[p].epc /\ want'[p] = want[p]
      BY <1>5, <1>tf, <1>tnew
    <3>2. /\ \A r \in Trap!Reg \ {"a0"} : tf[p].regs[r] = Trap!Prog(p)
          /\ tf[p].epc = want[p].pc /\ want[p].a0 = Trap!Result(p)
      BY <1>4 DEF FrameAt
    <3> QED BY <3>1, <3>2, <1>7 DEF FrameAt
  <2>2. Base(p, <<"after", 0>>)' = <<"after", 0>>
    BY <1>6, Places DEF Base
  <2> QED BY <2>1, <2>2, <1>rec, <1>6, Places DEF ProcAt
<1>15. claimed'[h] = Trap!NoIrq
  BY <1>1, <1>5 DEF TrapInv, Claims, Trap!plic, Trap!Place
<1>16. InKernel(h)' /\ OfProcess(h)'
  BY <1>12, <1>13, <1>14, <1>new DEF InKernel, OfProcess
<1> QED BY <1>new, <1>tnew, <1>5, <1>11, <1>12, <1>15, <1>16, LocalStep DEF Trap!threads,
           Trap!plic, TrapInv, TrapTypes

\* kernelvec and kerneltrap keep the interrupted registers and CSRs on the stack.
LEMMA KernelvecStep ==
  ASSUME TrapInv, NEW h \in Hart, Trap!Kernelvec(h)
  PROVE  TrapInv'
<1> PICK t : t = Trap!Runs(h)
  OBVIOUS
<1> DEFINE fr == [r \in Trap!CallerSaved \cup {"gp", "tp"} |-> hart[h].regs[r]]
           lo == [sepc |-> hart[h].sepc, spp |-> hart[h].spp, spie |-> hart[h].spie]
           regs == Trap!Clobber(hart[h].regs)
<1>1. hart[h].at = <<"kernelvec", 0>>
  BY PlaceFacts DEF Trap!Kernelvec, TrapInv
<1>2. /\ Trap!Stack(h) = t /\ t \in Trap!Thread
      /\ hart[h].regs["tp"] = Trap!Id(h) /\ \A r \in Callee : hart[h].regs[r] = Trap!Kern(t)
      /\ hart[h].satp = NoCPU /\ hart[h].paging /\ hart[h].stvec = "kernelvec"
  BY <1>1, Places, CodeFacts
<1>3. /\ hart[h].spp = "S" /\ hart[h].spie /\ hart[h].sepc \in Resume(t) /\ ~hart[h].sie
      /\ \A r \in Trap!CallerSaved : hart[h].regs[r] = Trap!Kern(t)
  BY <1>1, Places DEF TrapInv, InKernel, KernelAt
<1>4. /\ hart' = [hart EXCEPT ![h].at = <<"devintr", 1>>, ![h].regs = Trap!Clobber(@)]
      /\ frame' = [frame EXCEPT ![t] = fr] /\ local' = [local EXCEPT ![t] = lo]
      /\ UNCHANGED <<cpuproc, tf, tctx, tstate, tkilled, Trap!plic, started, want>>
  BY <1>2 DEF Trap!Kernelvec
<1>5. /\ regs \in [Trap!Reg -> Mark] /\ regs["tp"] = Trap!Id(h)
      /\ \A r \in Callee : regs[r] = Trap!Kern(t)
  <2>1. hart[h].regs \in [Trap!Reg -> Mark]
    BY OldHart DEF TrapInv, TrapTypes
  <2> QED BY <1>2, <2>1, RegFacts, MarkFacts DEF Trap!Clobber
<1>6. fr \in [FrameRegs -> Mark] /\ \A r \in Trap!CallerSaved : fr[r] = Trap!Kern(t)
  <2>1. hart[h].regs \in [Trap!Reg -> Mark]
    BY OldHart DEF TrapInv, TrapTypes
  <2> QED BY <1>3, <2>1, RegFacts DEF FrameRegs
<1>7. lo \in Local /\ lo.sepc \in Resume(t) /\ lo.spp = "S" /\ lo.spie
  <2>1. hart[h].sepc \in Points /\ hart[h].spie \in BOOLEAN /\ hart[h].spp \in {"S", "U"}
    BY OldHart DEF TrapInv, TrapTypes
  <2> QED BY <2>1, <1>3 DEF Local
<1>8. <<"devintr", 1>> \in Nested /\ <<"devintr", 1>> # <<"kernelvec", 0>>
  BY DEF Nested
<1>9. lo.sepc = hart[h].sepc
  OBVIOUS
<1> HIDE DEF fr, lo, regs
<1> PICK x \in HartState : x = hart[h]
  BY DEF TrapInv, TrapTypes
<1>x. hart' = [hart EXCEPT ![h] = [hart[h] EXCEPT !.at = <<"devintr", 1>>, !.regs = regs]]
  BY <1>4 DEF regs, TrapInv, TrapTypes, HartState
<1>y. PICK y : /\ y = [x EXCEPT !.at = <<"devintr", 1>>, !.regs = regs]
               /\ hart' = [hart EXCEPT ![h] = y]
  BY <1>x
<1>rec. y = [at |-> <<"devintr", 1>>, regs |-> regs, satp |-> x.satp, stvec |-> x.stvec,
             sie |-> x.sie, spp |-> x.spp, spie |-> x.spie, sepc |-> x.sepc, scause |-> x.scause,
             paging |-> x.paging]
  BY <1>y DEF HartState
<1>type. y \in HartState
  BY OldHart, <1>rec, PointFacts, <1>5, <1>8 DEF HartState
<1>new. hart' \in [Hart -> HartState] /\ hart'[h] = y /\ \A g \in Hart \ {h} : hart'[g] = hart[g]
  BY <1>y, <1>type, NewHart DEF TrapInv
<1>10. /\ frame'[t] = fr /\ local'[t] = lo
       /\ \A v \in Trap!Thread \ {t} : frame'[v] = frame[v] /\ local'[v] = local[v]
  BY <1>2, <1>4 DEF TrapInv, TrapTypes
<1>11. TrapTypes'
  <2>1. frame' \in [Trap!Thread -> {<< >>} \cup [FrameRegs -> Mark]]
    BY <1>2, <1>4, <1>6 DEF TrapInv, TrapTypes
  <2>2. local' \in [Trap!Thread -> {<< >>} \cup Local]
    BY <1>2, <1>4, <1>7 DEF TrapInv, TrapTypes
  <2> QED BY <1>new, <1>4, <2>1, <2>2 DEF TrapInv, TrapTypes, Trap!plic
<1>12. InPlace(h)' /\ cpuproc'[h] = cpuproc[h] /\ Trap!Runs(h)' = t
  BY <1>4, <1>rec, <1>new, <1>8, PointFacts DEF InPlace, Trap!Runs
<1>13. KernelAt(h, y, t)'
  <2>1. Held(t)'
    BY <1>6, <1>7, <1>10 DEF Held
  <2> QED BY <1>2, <1>3, <1>5, <1>8, <1>rec, <2>1, Places DEF KernelAt
<1>14. ASSUME NEW p, p = cpuproc[h], p # NoCPU PROVE ProcAt(h, y, p)'
  <2>1. FrameAt(p, hart[h].sepc) /\ t = p /\ p \in User
    BY <1>14, <1>1 DEF TrapInv, OfProcess, ProcAt, Trap!Runs, TrapTypes
  <2>2. PICK pt : pt = hart[h].sepc
    OBVIOUS
  <2>3. FrameAt(p, pt)'
    BY <2>1, <2>2, <1>4 DEF FrameAt
  <2>4. Base(p, <<"devintr", 1>>)' = pt
    BY <1>8, <1>9, <1>10, <2>1, <2>2 DEF Base
  <2> QED BY <2>3, <2>4, <1>rec, <1>8, Places DEF ProcAt
<1>15. claimed'[h] = Trap!NoIrq
  BY <1>1, <1>4 DEF TrapInv, Claims, Trap!plic, Trap!Place
<1>16. InKernel(h)' /\ OfProcess(h)'
  <2>1. InKernel(h)'
    BY <1>12, <1>13, <1>new DEF InKernel
  <2>2. CASE cpuproc[h] = NoCPU
    BY <1>12, <2>1, <2>2 DEF OfProcess
  <2>3. CASE cpuproc[h] # NoCPU
    <3>1. PICK p : p = cpuproc[h]
      OBVIOUS
    <3>2. ProcAt(h, y, p)'
      BY <3>1, <2>3, <1>14
    <3> QED BY <2>1, <3>1, <3>2, <1>12, <1>new DEF OfProcess
  <2> QED BY <2>1, <2>2, <2>3
<1> QED BY <1>new, <1>4, <1>10, <1>11, <1>12, <1>15, <1>16, LocalStep DEF Trap!plic, TrapInv,
           TrapTypes

\* A step of kernel code that only goes to another place, and maybe claims an irq.
LEMMA MoveStep ==
  ASSUME TrapInv, NEW h \in Hart, NEW pt,
         \/ hart[h].at \in Nested /\ pt \in Nested
         \/ /\ hart[h].at \in Service \ {<<"syscall", 0>>, <<"exit", 0>>}
            /\ pt \in Service \ {<<"syscall", 0>>, <<"exit", 0>>}
            /\ hart[h].at \in OnPoints => pt \in OnPoints,
         hart' = [hart EXCEPT ![h].at = pt],
         UNCHANGED <<cpuproc, tf, tctx, frame, local, tstate, tkilled, started, want>>,
         claimed' \in [Hart -> Irq \cup {Trap!NoIrq}], pending' \subseteq Irq,
         \A g \in Hart \ {h} : claimed'[g] = claimed[g],
         claimed'[h] # Trap!NoIrq => pt[1] = "handler"
  PROVE  TrapInv'
<1> PICK t : t = Trap!Runs(h)
  OBVIOUS
<1>1. /\ hart[h].at \in KernelPoints \ {<<"kernelvec", 0>>}
      /\ pt \in KernelPoints \ {<<"kernelvec", 0>>}
      /\ pt \in Points /\ pt \notin UserPoints
      /\ pt \notin {<<"entry", 0>>, <<"main", 0>>, <<"uservec", 0>>, <<"usertrap", 0>>,
                    <<"userret", 0>>}
      /\ pt \in Service \cup Nested /\ hart[h].at \in Service \cup Nested
      /\ (pt \in Nested <=> hart[h].at \in Nested)
      /\ (hart[h].at \in OnPoints => pt \in OnPoints)
  BY Places, PointFacts
<1>2. /\ hart[h].regs["tp"] = Trap!Id(h) /\ \A r \in Callee : hart[h].regs[r] = Trap!Kern(t)
      /\ hart[h].satp = NoCPU /\ hart[h].paging /\ hart[h].stvec = "kernelvec"
      /\ hart[h].sie =>
           pt \in OnPoints /\ \A r \in Trap!CallerSaved : hart[h].regs[r] = Trap!Kern(t)
      /\ hart[h].at \in Nested => Held(t)
  <2>1. hart[h].at \notin UserPoints
    BY <1>1, Places
  <2>2. hart[h].sie =>
          hart[h].at \in OnPoints /\ \A r \in Trap!CallerSaved : hart[h].regs[r] = Trap!Kern(t)
    BY <2>1 DEF TrapInv, InKernel, KernelAt
  <2>3. hart[h].at \in Nested => Held(t)
    BY DEF TrapInv, InKernel, KernelAt
  <2> QED BY <1>1, <2>2, <2>3, CodeFacts
<1> PICK x \in HartState : x = hart[h]
  BY DEF TrapInv, TrapTypes
<1>x. hart' = [hart EXCEPT ![h] = [hart[h] EXCEPT !.at = pt]]
  BY DEF TrapTypes, TrapInv, TrapTypes, HartState
<1>y. PICK y : /\ y = [x EXCEPT !.at = pt]
               /\ hart' = [hart EXCEPT ![h] = y]
  BY <1>x
<1>rec. y = [at |-> pt, regs |-> x.regs, satp |-> x.satp, stvec |-> x.stvec, sie |-> x.sie,
             spp |-> x.spp, spie |-> x.spie, sepc |-> x.sepc, scause |-> x.scause,
             paging |-> x.paging]
  BY <1>y DEF HartState
<1>type. y \in HartState
  BY OldHart, <1>rec, PointFacts, <1>1 DEF HartState
<1>new. hart' \in [Hart -> HartState] /\ hart'[h] = y /\ \A g \in Hart \ {h} : hart'[g] = hart[g]
  BY <1>y, <1>type, NewHart DEF TrapInv
<1>3. TrapTypes'
  BY <1>new DEF TrapInv, TrapTypes
<1>4. InPlace(h)' /\ cpuproc'[h] = cpuproc[h] /\ Trap!Runs(h)' = t
  <2>1. pt \in IF cpuproc[h] = NoCPU THEN SchedPoints ELSE ProcPoints
    <3>1. hart[h].at \in Nested \/ cpuproc[h] # NoCPU
      BY <1>1, ProcFacts, SchedFacts
    <3> QED BY <1>1, <3>1, PointFacts
  <2> QED BY <2>1, <1>rec, <1>new DEF InPlace, Trap!Runs
<1>5. KernelAt(h, y, t)'
  <2>1. Held(t)' = Held(t)
    BY DEF Held
  <2> QED BY <1>1, <1>2, <1>rec, <2>1 DEF KernelAt
<1>6. ASSUME NEW p, p = cpuproc[h], p # NoCPU PROVE ProcAt(h, y, p)'
  <2>1. PICK b : b = Base(p, hart[h].at)
    OBVIOUS
  <2>2. FrameAt(p, b)
    BY <1>1, <1>6, <2>1 DEF TrapInv, OfProcess, ProcAt
  <2>3. FrameAt(p, Base(p, pt))
    <3>1. CASE pt \in Nested
      BY <3>1, <1>1, <2>1, <2>2 DEF Base
    <3>2. CASE pt \notin Nested
      BY <3>2, <1>1, <2>1, <2>2 DEF Base, FrameAt
    <3> QED BY <3>1, <3>2
  <2>4. FrameAt(p, Base(p, pt))'
    BY <2>3 DEF Base, FrameAt
  <2> QED BY <2>4, <1>1, <1>rec DEF ProcAt
<1>7. InKernel(h)'
  BY <1>4, <1>5, <1>new DEF InKernel
<1>8. OfProcess(h)'
  <2>1. PICK p : p = cpuproc[h]
    OBVIOUS
  <2>2. p # NoCPU => ProcAt(h, y, p)'
    BY <2>1, <1>6
  <2> QED BY <2>1, <2>2, <1>4, <1>new DEF OfProcess
<1>9. claimed'[h] # Trap!NoIrq => hart'[h].at[1] = "handler"
  BY <1>new, <1>rec
<1> QED BY <1>new, <1>3, <1>4, <1>7, <1>8, <1>9, LocalStep DEF TrapInv, TrapTypes

\* devintr returns to whoever called it.
LEMMA DevintrStep ==
  ASSUME TrapInv, NEW h \in Hart, Trap!Claim(h) \/ Trap!Complete(h) \/ Trap!Clockintr(h)
  PROVE  TrapInv'
<1> DEFINE from == IF Trap!Place(h) = "handler" THEN "handler" ELSE "devintr"
           to == IF Trap!Claim(h) THEN "handler" ELSE "after"
<1>1. PICK n \in {0, 1} : hart[h].at = <<from, n>>
  BY PlaceFacts DEF TrapInv, Trap!Claim, Trap!Complete, Trap!Clockintr
<1>2. hart' = [hart EXCEPT ![h].at = <<to, n>>]
  <2>1. hart' = [hart EXCEPT ![h].at[1] = to]
    BY DEF Trap!Claim, Trap!Complete, Trap!Clockintr
  <2>2. hart' = [hart EXCEPT ![h] = [hart[h] EXCEPT !.at = [hart[h].at EXCEPT ![1] = to]]]
    BY <2>1 DEF TrapInv, TrapTypes, HartState
  <2>3. [hart[h].at EXCEPT ![1] = to] = <<to, n>>
    BY <1>1
  <2> QED BY <2>2, <2>3 DEF TrapInv, TrapTypes, HartState
<1>3. /\ UNCHANGED <<cpuproc, tf, tctx, frame, local, tstate, tkilled, started, want>>
      /\ claimed' \in [Hart -> Irq \cup {Trap!NoIrq}] /\ pending' \subseteq Irq
      /\ \A g \in Hart \ {h} : claimed'[g] = claimed[g]
      /\ claimed'[h] # Trap!NoIrq => to = "handler"
  <2>1. Trap!Cpuid(h) = h
    <3>1. hart[h].at \in KernelPoints
      BY <1>1 DEF KernelPoints, Service, Nested
    <3> QED BY <3>1, CodeFacts
  <2>2. CASE Trap!Claim(h)
    BY <2>1, <2>2 DEF TrapInv, TrapTypes, Trap!Claim, Trap!threads
  <2>3. CASE Trap!Complete(h) /\ ~Trap!Claim(h)
    BY <2>1, <2>3 DEF TrapInv, TrapTypes, Trap!Complete, Trap!threads
  <2>4. CASE Trap!Clockintr(h) /\ ~Trap!Claim(h)
    BY <2>1, <2>4 DEF TrapInv, TrapTypes, Trap!Clockintr, Trap!threads, Trap!plic, Claims
  <2> QED BY <2>2, <2>3, <2>4
<1>4. \/ hart[h].at \in Nested /\ <<to, n>> \in Nested
      \/ /\ hart[h].at \in Service \ {<<"syscall", 0>>, <<"exit", 0>>}
         /\ <<to, n>> \in Service \ {<<"syscall", 0>>, <<"exit", 0>>}
         /\ hart[h].at \in OnPoints => <<to, n>> \in OnPoints
  <2>1. CASE n = 1
    BY <2>1, <1>1 DEF Nested
  <2>2. CASE n = 0
    BY <2>2, <1>1 DEF Service, OnPoints
  <2> QED BY <2>1, <2>2
<1> QED BY <1>2, <1>3, <1>4, MoveStep

\* A trap that need not yield ends where it came from, or goes on to prepare_return.
LEMMA GoOnStep ==
  ASSUME TrapInv, NEW h \in Hart, Trap!GoOn(h)
  PROVE  TrapInv'
<1>1. hart[h].at = <<"after", 0>> \/ hart[h].at = <<"after", 1>>
  BY PlaceFacts DEF TrapInv, Trap!GoOn
<1>2. /\ UNCHANGED <<cpuproc, tf, tctx, frame, local, tstate, tkilled, started, want>>
      /\ claimed' \in [Hart -> Irq \cup {Trap!NoIrq}] /\ pending' \subseteq Irq
      /\ \A g \in Hart \ {h} : claimed'[g] = claimed[g]
      /\ claimed'[h] = Trap!NoIrq /\ hart' = [hart EXCEPT ![h].at = Trap!Onward(h)]
  BY DEF TrapInv, TrapTypes, Trap!GoOn, Trap!threads, Trap!plic, Claims
<1>3. \/ hart[h].at \in Nested /\ Trap!Onward(h) \in Nested
      \/ /\ hart[h].at \in Service \ {<<"syscall", 0>>, <<"exit", 0>>}
         /\ Trap!Onward(h) \in Service \ {<<"syscall", 0>>, <<"exit", 0>>}
         /\ hart[h].at \in OnPoints => Trap!Onward(h) \in OnPoints
  BY <1>1 DEF Trap!Onward, Trap!At, Service, Nested, OnPoints
<1> QED BY <1>2, <1>3, MoveStep

\* kernelvec gives back what it saved, but tp, which is right on any CPU.
LEMMA KernelretStep ==
  ASSUME TrapInv, NEW h \in Hart, Trap!Kernelret(h)
  PROVE  TrapInv'
<1> PICK t : t = Trap!Runs(h)
  OBVIOUS
<1> PICK to : to = local[t]
  OBVIOUS
<1>1. hart[h].at = <<"kernelret", 0>> /\ hart[h].at \in Nested
  BY DEF Trap!Kernelret, Trap!At, Nested
<1>2. /\ Trap!Stack(h) = t /\ t \in Trap!Thread
      /\ hart[h].regs["tp"] = Trap!Id(h) /\ \A r \in Callee : hart[h].regs[r] = Trap!Kern(t)
      /\ hart[h].satp = NoCPU /\ hart[h].paging /\ hart[h].stvec = "kernelvec"
  BY <1>1, Places, CodeFacts
<1>3. Held(t)
  BY <1>1 DEF TrapInv, InKernel, KernelAt
<1>4. /\ to \in Local /\ to.sepc \in Resume(t) /\ to.spp = "S" /\ to.spie = TRUE
      /\ frame[t] \in [FrameRegs -> Mark] /\ \A r \in Trap!CallerSaved : frame[t][r] = Trap!Kern(t)
  BY <1>3 DEF Held, Local
<1> DEFINE regs == [r \in Trap!Reg |-> IF r \in DOMAIN Trap!Restores(t) THEN Trap!Restores(t)[r]
                                    ELSE hart[h].regs[r]]
<1>5. /\ regs \in [Trap!Reg -> Mark] /\ regs["tp"] = Trap!Id(h)
      /\ \A r \in Callee \cup Trap!CallerSaved : regs[r] = Trap!Kern(t)
  <2>1. DOMAIN frame[t] = Trap!CallerSaved \cup {"gp", "tp"}
    BY <1>4 DEF FrameRegs
  <2>2. /\ DOMAIN Trap!Restores(t) = Trap!CallerSaved \cup {"gp"}
        /\ \A r \in Trap!CallerSaved \cup {"gp"} : Trap!Restores(t)[r] = frame[t][r]
    BY <2>1, RegFacts DEF Trap!Restores
  <2>3. hart[h].regs \in [Trap!Reg -> Mark]
    BY OldHart DEF TrapInv, TrapTypes
  <2> QED BY <1>2, <1>4, <2>2, <2>3, RegFacts DEF FrameRegs
<1>6. /\ to.sepc \in OnPoints /\ to.sepc \in Points /\ to.sepc \notin Nested
      /\ to.sepc \in KernelPoints
  <2>1. to.sepc \in OnPoints
    BY <1>4 DEF Resume, OnPoints
  <2> QED BY <1>4, <2>1, Places DEF Local
<1>7. /\ hart' = [hart EXCEPT ![h].at = to.sepc, ![h].sepc = to.sepc, ![h].spp = "S",
                              ![h].sie = TRUE,
                              ![h].scause = "none", ![h].regs = regs]
      /\ frame' = [frame EXCEPT ![t] = << >>] /\ local' = [local EXCEPT ![t] = << >>]
      /\ UNCHANGED <<cpuproc, tf, tctx, tstate, tkilled, Trap!plic, started, want>>
  <2>1. /\ frame' = [frame EXCEPT ![t] = << >>] /\ local' = [local EXCEPT ![t] = << >>]
        /\ UNCHANGED <<cpuproc, tf, tctx, tstate, tkilled, Trap!plic, started, want>>
    BY <1>2 DEF Trap!Kernelret
  <2>2. hart' = [hart EXCEPT ![h].at = to.sepc, ![h].sepc = to.sepc,
                                ![h].spp = to.spp, ![h].sie = to.spie,
                                ![h].scause = "none",
                                ![h].regs = [r \in Trap!Reg |-> IF r \in DOMAIN Trap!Restores(t)
                                                           THEN Trap!Restores(t)[r] ELSE @[r]]]
    BY <1>2 DEF Trap!Kernelret, Trap!Resumes
  <2>3. hart' = [hart EXCEPT ![h] = [hart[h] EXCEPT !.at = to.sepc, !.sepc = to.sepc,
                                !.spp = to.spp, !.sie = to.spie,
                                !.scause = "none",
                                !.regs = regs]]
    BY <2>2 DEF TrapInv, TrapTypes, HartState
  <2>4. hart' = [hart EXCEPT ![h] = [hart[h] EXCEPT !.at = to.sepc, !.sepc = to.sepc,
                                !.spp = "S", !.sie = TRUE,
                                !.scause = "none",
                                !.regs = regs]]
    BY <2>3, <1>4
  <2> QED BY <2>1, <2>4 DEF TrapInv, TrapTypes, HartState
<1> HIDE DEF regs
<1> PICK x \in HartState : x = hart[h]
  BY DEF TrapInv, TrapTypes
<1>x. hart' = [hart EXCEPT ![h] = [hart[h] EXCEPT !.at = to.sepc, !.sepc = to.sepc, !.spp = "S",
                                                  !.sie = TRUE, !.scause = "none", !.regs = regs]]
  BY <1>7 DEF TrapTypes, TrapInv, TrapTypes, HartState
<1>y. PICK y : /\ y = [x EXCEPT !.at = to.sepc, !.sepc = to.sepc, !.spp = "S", !.sie = TRUE,
                                !.scause = "none", !.regs = regs]
               /\ hart' = [hart EXCEPT ![h] = y]
  BY <1>x
<1>rec. y = [at |-> to.sepc, regs |-> regs, satp |-> x.satp, stvec |-> x.stvec, sie |-> TRUE,
             spp |-> "S", spie |-> x.spie, sepc |-> to.sepc, scause |-> "none", paging |-> x.paging]
  BY <1>y DEF HartState
<1>type. y \in HartState
  BY OldHart, <1>rec, PointFacts, <1>5, <1>6 DEF HartState
<1>new. hart' \in [Hart -> HartState] /\ hart'[h] = y /\ \A g \in Hart \ {h} : hart'[g] = hart[g]
  BY <1>y, <1>type, NewHart DEF TrapInv
<1>10. \A v \in Trap!Thread \ {t} : frame'[v] = frame[v] /\ local'[v] = local[v]
  BY <1>2, <1>7 DEF TrapInv, TrapTypes
<1>11. TrapTypes'
  <2>1. frame' \in [Trap!Thread -> {<< >>} \cup [FrameRegs -> Mark]]
    BY <1>2, <1>7 DEF TrapInv, TrapTypes
  <2>2. local' \in [Trap!Thread -> {<< >>} \cup Local]
    BY <1>2, <1>7 DEF TrapInv, TrapTypes
  <2> QED BY <1>new, <1>7, <2>1, <2>2 DEF TrapInv, TrapTypes, Trap!plic
<1>12. InPlace(h)' /\ cpuproc'[h] = cpuproc[h] /\ Trap!Runs(h)' = t
  <2>1. to.sepc \in IF cpuproc[h] = NoCPU THEN SchedPoints ELSE ProcPoints
    <3>1. CASE cpuproc[h] = NoCPU
      BY <3>1, <1>4, PointFacts DEF Trap!Runs, Resume
    <3>2. CASE cpuproc[h] # NoCPU
      <4>1. to.sepc \in Service
        BY <3>2, <1>4, UserNone DEF Trap!Runs, Resume, TrapInv, TrapTypes, Service
      <4> QED BY <3>2, <4>1, PointFacts
    <3> QED BY <3>1, <3>2
  <2>2. cpuproc' = cpuproc /\ y.at = to.sepc
    BY <1>7, <1>rec
  <2> QED BY <2>1, <2>2, <1>new DEF InPlace, Trap!Runs
<1>13. KernelAt(h, y, t)'
  <2>1. to.sepc \notin {<<"entry", 0>>, <<"main", 0>>, <<"kernelvec", 0>>}
    BY <1>6, Places
  <2> QED BY <1>2, <1>5, <1>6, <1>rec, <2>1 DEF KernelAt
<1>14. ASSUME NEW p, p = cpuproc[h], p # NoCPU PROVE ProcAt(h, y, p)'
  <2>1. p \in User /\ t = p
    BY <1>14 DEF TrapInv, TrapTypes, Trap!Runs
  <2>2. FrameAt(p, to.sepc)
    BY <2>1, <1>14, <1>1 DEF TrapInv, OfProcess, ProcAt, Base
  <2>3. FrameAt(p, to.sepc)'
    BY <2>2, <1>7 DEF FrameAt
  <2>4. Base(p, to.sepc)' = to.sepc
    BY <1>6 DEF Base
  <2>5. to.sepc \notin {<<"uservec", 0>>, <<"usertrap", 0>>, <<"userret", 0>>,
                        <<"kernelvec", 0>>} \cup UserPoints
    BY <1>6, Places
  <2> QED BY <2>3, <2>4, <2>5, <1>rec DEF ProcAt
<1>15. claimed'[h] = Trap!NoIrq
  BY <1>1, <1>7 DEF TrapInv, Claims, Trap!plic, Trap!Place
<1>16. InKernel(h)'
  BY <1>12, <1>13, <1>new DEF InKernel
<1>17. OfProcess(h)'
  <2>1. PICK p : p = cpuproc[h]
    OBVIOUS
  <2>2. p # NoCPU => ProcAt(h, y, p)'
    BY <2>1, <1>14
  <2> QED BY <2>1, <2>2, <1>12, <1>new DEF OfProcess
<1> QED BY <1>new, <1>7, <1>10, <1>11, <1>12, <1>15, <1>16, <1>17, LocalStep DEF Trap!plic,
           TrapInv, TrapTypes

\* The scheduler lets interrupts in with its own registers.
LEMMA SchedOnStep ==
  ASSUME TrapInv, NEW h \in Hart, Trap!SchedOn(h)
  PROVE  TrapInv'
<1> DEFINE regs == Trap!Own(hart[h].regs, h)
<1>1. hart[h].at = <<"sched", 0>>
  BY DEF Trap!SchedOn, Trap!At
<1>2. cpuproc[h] = NoCPU /\ Trap!Runs(h) = h /\ h \in Trap!Thread
  <2>1. hart[h].at \notin ProcPoints
    BY <1>1 DEF ProcPoints, UserPoints, Service, Nested
  <2> QED BY <2>1 DEF TrapInv, InPlace, Trap!Runs, Trap!Thread
<1>3. /\ hart[h].regs["tp"] = Trap!Id(h) /\ hart[h].regs["sp"] = Trap!Kern(h)
      /\ hart[h].satp = NoCPU /\ hart[h].paging /\ hart[h].stvec = "kernelvec"
  BY <1>1, <1>2, Places, CodeFacts, RegFacts
<1>4. /\ regs \in [Trap!Reg -> Mark] /\ regs["tp"] = Trap!Id(h)
      /\ \A r \in Callee \cup Trap!CallerSaved : regs[r] = Trap!Kern(h)
  BY <1>2, <1>3, OldHart, OwnFacts DEF TrapInv, TrapTypes
<1>5. /\ hart' = [hart EXCEPT ![h].at = <<"sched", 1>>, ![h].sie = TRUE, ![h].regs = Trap!Own(@, h)]
      /\ UNCHANGED <<cpuproc, tf, Trap!threads, tstate, tkilled, Trap!plic, started, want>>
  BY DEF Trap!SchedOn
<1> HIDE DEF regs
<1> PICK x \in HartState : x = hart[h]
  BY DEF TrapInv, TrapTypes
<1>x. hart' = [hart EXCEPT ![h] = [hart[h] EXCEPT !.at = <<"sched", 1>>, !.sie = TRUE,
                                                  !.regs = regs]]
  BY <1>5 DEF regs, TrapInv, TrapTypes, HartState
<1>y. PICK y : /\ y = [x EXCEPT !.at = <<"sched", 1>>, !.sie = TRUE, !.regs = regs]
               /\ hart' = [hart EXCEPT ![h] = y]
  BY <1>x
<1>rec. y = [at |-> <<"sched", 1>>, regs |-> regs, satp |-> x.satp, stvec |-> x.stvec, sie |-> TRUE,
             spp |-> x.spp, spie |-> x.spie, sepc |-> x.sepc, scause |-> x.scause,
             paging |-> x.paging]
  BY <1>y DEF HartState
<1>type. y \in HartState
  BY OldHart, <1>rec, PointFacts, <1>4 DEF HartState
<1>new. hart' \in [Hart -> HartState] /\ hart'[h] = y /\ \A g \in Hart \ {h} : hart'[g] = hart[g]
  BY <1>y, <1>type, NewHart DEF TrapInv
<1>6. TrapTypes'
  BY <1>new, <1>5 DEF TrapInv, TrapTypes, Trap!threads, Trap!plic
<1>7. InPlace(h)' /\ cpuproc'[h] = NoCPU /\ Trap!Runs(h)' = h
  BY <1>2, <1>5, <1>rec, <1>new, PointFacts DEF InPlace, Trap!Runs
<1>8. KernelAt(h, y, h)'
  BY <1>3, <1>4, <1>rec, Places DEF KernelAt
<1>9. InKernel(h)' /\ OfProcess(h)'
  BY <1>7, <1>8, <1>new DEF InKernel, OfProcess
<1>10. claimed'[h] = Trap!NoIrq
  BY <1>1, <1>5 DEF TrapInv, Claims, Trap!plic, Trap!Place
<1> QED BY <1>new, <1>5, <1>6, <1>7, <1>9, <1>10, LocalStep DEF Trap!threads, Trap!plic, TrapInv,
           TrapTypes

\* It turns interrupts off before it looks again for a process.
LEMMA WfiStep ==
  ASSUME TrapInv, NEW h \in Hart, Trap!Wfi(h)
  PROVE  TrapInv'
<1>1. hart[h].at = <<"sched", 1>>
  BY DEF Trap!Wfi, Trap!Scans, Trap!At
<1>2. cpuproc[h] = NoCPU /\ Trap!Runs(h) = h /\ h \in Trap!Thread
  <2>1. hart[h].at \notin ProcPoints
    BY <1>1 DEF ProcPoints, UserPoints, Service, Nested
  <2> QED BY <2>1 DEF TrapInv, InPlace, Trap!Runs, Trap!Thread
<1>3. /\ hart[h].regs["tp"] = Trap!Id(h) /\ \A r \in Callee : hart[h].regs[r] = Trap!Kern(h)
      /\ hart[h].satp = NoCPU /\ hart[h].paging /\ hart[h].stvec = "kernelvec"
  BY <1>1, <1>2, Places, CodeFacts
<1>5. /\ hart' = [hart EXCEPT ![h].at = <<"sched", 0>>, ![h].sie = FALSE]
      /\ UNCHANGED <<cpuproc, tf, Trap!threads, tstate, tkilled, Trap!plic, started, want>>
  BY DEF Trap!Wfi
<1> PICK x \in HartState : x = hart[h]
  BY DEF TrapInv, TrapTypes
<1>x. hart' = [hart EXCEPT ![h] = [hart[h] EXCEPT !.at = <<"sched", 0>>, !.sie = FALSE]]
  BY <1>5 DEF TrapTypes, TrapInv, TrapTypes, HartState
<1>y. PICK y : /\ y = [x EXCEPT !.at = <<"sched", 0>>, !.sie = FALSE]
               /\ hart' = [hart EXCEPT ![h] = y]
  BY <1>x
<1>rec. y = [at |-> <<"sched", 0>>, regs |-> x.regs, satp |-> x.satp, stvec |-> x.stvec,
             sie |-> FALSE, spp |-> x.spp, spie |-> x.spie, sepc |-> x.sepc, scause |-> x.scause,
             paging |-> x.paging]
  BY <1>y DEF HartState
<1>type. y \in HartState
  BY OldHart, <1>rec, PointFacts DEF HartState
<1>new. hart' \in [Hart -> HartState] /\ hart'[h] = y /\ \A g \in Hart \ {h} : hart'[g] = hart[g]
  BY <1>y, <1>type, NewHart DEF TrapInv
<1>6. TrapTypes'
  BY <1>new, <1>5 DEF TrapInv, TrapTypes, Trap!threads, Trap!plic
<1>7. InPlace(h)' /\ cpuproc'[h] = NoCPU /\ Trap!Runs(h)' = h
  BY <1>2, <1>5, <1>rec, <1>new, PointFacts DEF InPlace, Trap!Runs
<1>8. KernelAt(h, y, h)'
  BY <1>3, <1>rec, Places DEF KernelAt
<1>9. InKernel(h)' /\ OfProcess(h)'
  BY <1>7, <1>8, <1>new DEF InKernel, OfProcess
<1>10. claimed'[h] = Trap!NoIrq
  BY <1>1, <1>5 DEF TrapInv, Claims, Trap!plic, Trap!Place
<1> QED BY <1>new, <1>5, <1>6, <1>7, <1>9, <1>10, LocalStep DEF Trap!threads, Trap!plic, TrapInv,
           TrapTypes

\* prepare_return first turns interrupts off.
LEMMA ReturnOffStep ==
  ASSUME TrapInv, NEW h \in Hart, Trap!ReturnOff(h)
  PROVE  TrapInv'
<1> PICK p : p = cpuproc[h]
  OBVIOUS
<1>1. /\ hart[h].at = <<"return", 0>> /\ hart[h].at \in Service /\ <<"return", 1>> \in Service
      /\ <<"return", 1>> \notin OnPoints
  BY DEF Trap!ReturnOff, Trap!At, Service, OnPoints
<1>2. p \in User /\ p # NoCPU /\ p \in Trap!Thread /\ Trap!Runs(h) = p
  BY <1>1, ProcFacts, SchedFacts DEF Trap!Thread
<1>3. /\ hart[h].regs["tp"] = Trap!Id(h) /\ \A r \in Callee : hart[h].regs[r] = Trap!Kern(p)
      /\ hart[h].satp = NoCPU /\ hart[h].paging /\ hart[h].stvec = "kernelvec"
  BY <1>1, <1>2, Places, CodeFacts
<1>4. FrameAt(p, <<"return", 0>>)
  BY <1>1, <1>2, Places DEF TrapInv, OfProcess, ProcAt, Base
<1>5. /\ hart' = [hart EXCEPT ![h].at = <<"return", 1>>, ![h].sie = FALSE]
      /\ UNCHANGED <<cpuproc, tf, Trap!threads, tstate, tkilled, Trap!plic, started, want>>
  BY DEF Trap!ReturnOff
<1> PICK x \in HartState : x = hart[h]
  BY DEF TrapInv, TrapTypes
<1>x. hart' = [hart EXCEPT ![h] = [hart[h] EXCEPT !.at = <<"return", 1>>, !.sie = FALSE]]
  BY <1>5 DEF TrapTypes, TrapInv, TrapTypes, HartState
<1>y. PICK y : /\ y = [x EXCEPT !.at = <<"return", 1>>, !.sie = FALSE]
               /\ hart' = [hart EXCEPT ![h] = y]
  BY <1>x
<1>rec. y = [at |-> <<"return", 1>>, regs |-> x.regs, satp |-> x.satp, stvec |-> x.stvec,
             sie |-> FALSE, spp |-> x.spp, spie |-> x.spie, sepc |-> x.sepc, scause |-> x.scause,
             paging |-> x.paging]
  BY <1>y DEF HartState
<1>type. y \in HartState
  BY OldHart, <1>rec, PointFacts, <1>1 DEF HartState
<1>new. hart' \in [Hart -> HartState] /\ hart'[h] = y /\ \A g \in Hart \ {h} : hart'[g] = hart[g]
  BY <1>y, <1>type, NewHart DEF TrapInv
<1>11. TrapTypes'
  BY <1>new, <1>5 DEF TrapInv, TrapTypes, Trap!threads, Trap!plic
<1>12. InPlace(h)' /\ cpuproc'[h] = p /\ Trap!Runs(h)' = p
  BY <1>1, <1>2, <1>5, <1>rec, <1>new, PointFacts DEF InPlace, Trap!Runs
<1>13. KernelAt(h, y, p)'
  BY <1>1, <1>3, <1>rec, Places DEF KernelAt
<1>14. ProcAt(h, y, p)'
  <2>1. FrameAt(p, <<"return", 1>>)'
    BY <1>4, <1>5 DEF FrameAt
  <2>2. Base(p, <<"return", 1>>)' = <<"return", 1>>
    BY <1>1, Places DEF Base
  <2> QED BY <2>1, <2>2, <1>rec, <1>1, Places DEF ProcAt
<1>15. claimed'[h] = Trap!NoIrq
  BY <1>1, <1>5 DEF TrapInv, Claims, Trap!plic, Trap!Place
<1>16. InKernel(h)' /\ OfProcess(h)'
  BY <1>12, <1>13, <1>14, <1>new DEF InKernel, OfProcess
<1> QED BY <1>new, <1>5, <1>11, <1>12, <1>15, <1>16, LocalStep DEF Trap!threads, Trap!plic,
           TrapInv, TrapTypes

\* Then it leaves in the trapframe what the next uservec needs.
LEMMA PrepareReturnStep ==
  ASSUME TrapInv, NEW h \in Hart, Trap!PrepareReturn(h)
  PROVE  TrapInv'
<1> PICK p : p = cpuproc[h]
  OBVIOUS
<1> PICK upc : upc = tf[p].epc
  OBVIOUS
<1> DEFINE regs == [hart[h].regs EXCEPT !["a0"] = Trap!Satp(p)]
<1>1. /\ hart[h].at = <<"return", 1>> /\ hart[h].at \in Service
      /\ hart[h].at \notin OnPoints \cup UserPoints
  BY DEF Trap!PrepareReturn, Trap!At, Service, OnPoints, UserPoints
<1>2. p \in User /\ p # NoCPU /\ p \in Trap!Thread /\ Trap!Runs(h) = p
  BY <1>1, ProcFacts, SchedFacts DEF Trap!Thread
<1>3. /\ hart[h].regs["tp"] = Trap!Id(h) /\ Trap!Myproc(h) = p
      /\ hart[h].satp = NoCPU /\ hart[h].paging /\ ~hart[h].sie
  <2>1. ~hart[h].sie
    BY <1>1 DEF TrapInv, InKernel, KernelAt
  <2> QED BY <1>1, <1>2, <2>1, Places, CodeFacts
<1>4. FrameAt(p, <<"return", 1>>)
  BY <1>1, <1>2, Places DEF TrapInv, OfProcess, ProcAt, Base
<1>5. /\ hart' = [hart EXCEPT ![h].at = <<"userret", 0>>, ![h].stvec = "uservec", ![h].spp = "U",
                              ![h].spie = TRUE, ![h].sepc = <<"user", upc>>,
                              ![h].regs["a0"] = Trap!Satp(p)]
      /\ tf' = [tf EXCEPT ![p].ksatp = NoCPU, ![p].ksp = Trap!Kern(p), ![p].khart = Trap!Id(h)]
      /\ UNCHANGED <<cpuproc, Trap!threads, tstate, tkilled, Trap!plic, started, want>>
  BY <1>3 DEF Trap!PrepareReturn
<1>6. upc = want[p].pc /\ upc \in {0, 1} /\ <<"user", upc>> \in Points
  <2>1. upc = want[p].pc /\ upc \in {0, 1}
    BY <1>2, <1>4 DEF FrameAt, TrapInv, TrapTypes
  <2>2. <<"user", upc>> \in UserPoints
    BY <2>1 DEF UserPoints
  <2> QED BY <2>1, <2>2, PointFacts
<1>7. regs \in [Trap!Reg -> Mark] /\ regs["a0"] = Trap!Satp(p)
  <2>1. hart[h].regs \in [Trap!Reg -> Mark]
    BY OldHart DEF TrapInv, TrapTypes
  <2> QED BY <1>2, <2>1, RegFacts, MarkFacts
<1> HIDE DEF regs
<1> PICK x \in HartState : x = hart[h]
  BY DEF TrapInv, TrapTypes
<1>x. hart' = [hart EXCEPT ![h] = [hart[h] EXCEPT !.at = <<"userret", 0>>, !.stvec = "uservec",
                                                  !.spp = "U", !.spie = TRUE,
                                                  !.sepc = <<"user", upc>>, !.regs = regs]]
  BY <1>5 DEF regs, TrapInv, TrapTypes, HartState
<1>y. PICK y : /\ y = [x EXCEPT !.at = <<"userret", 0>>, !.stvec = "uservec", !.spp = "U",
                                !.spie = TRUE, !.sepc = <<"user", upc>>, !.regs = regs]
               /\ hart' = [hart EXCEPT ![h] = y]
  BY <1>x
<1>rec. y = [at |-> <<"userret", 0>>, regs |-> regs, satp |-> x.satp, stvec |-> "uservec",
             sie |-> x.sie, spp |-> "U", spie |-> TRUE, sepc |-> <<"user", upc>>,
             scause |-> x.scause, paging |-> x.paging]
  BY <1>y DEF HartState
<1>type. y \in HartState
  BY OldHart, <1>rec, PointFacts, <1>6, <1>7 DEF HartState
<1>new. hart' \in [Hart -> HartState] /\ hart'[h] = y /\ \A g \in Hart \ {h} : hart'[g] = hart[g]
  BY <1>y, <1>type, NewHart DEF TrapInv
<1> PICK u \in TrapFrame : u = tf[p]
  BY <1>2, <1>5 DEF TrapInv, TrapTypes
<1>z. PICK z : /\ z = [u EXCEPT !.ksatp = NoCPU, !.ksp = Trap!Kern(p), !.khart = Trap!Id(h)]
               /\ tf' = [tf EXCEPT ![p] = z]
  BY <1>2, <1>5 DEF TrapTypes, TrapInv, TrapTypes, TrapFrame
<1>tf. z = [epc |-> u.epc, ksp |-> Trap!Kern(p), khart |-> Trap!Id(h), ksatp |-> NoCPU,
            regs |-> u.regs]
  BY <1>z DEF TrapFrame
<1>ttype. z \in TrapFrame
  BY <1>tf, <1>2, MarkFacts, HartThread DEF TrapFrame
<1>tnew. tf' \in [User -> TrapFrame] /\ tf'[p] = z /\ \A q \in User : q # p => tf'[q] = tf[q]
  BY <1>z, <1>ttype, <1>2, <1>5 DEF TrapInv, TrapTypes
<1>11. TrapTypes'
  BY <1>new, <1>tnew, <1>5 DEF TrapInv, TrapTypes, Trap!threads, Trap!plic
<1>12. InPlace(h)' /\ cpuproc'[h] = p /\ Trap!Runs(h)' = p
  BY <1>2, <1>5, <1>rec, <1>new, PointFacts DEF InPlace, Trap!Runs
<1>13. KernelAt(h, y, p)'
  BY <1>3, <1>rec, Places DEF KernelAt
<1>14. ProcAt(h, y, p)'
  <2>1. FrameAt(p, <<"userret", 0>>)'
    <3>1. tf'[p].regs = tf[p].regs /\ tf'[p].epc = tf[p].epc /\ want' = want
      BY <1>5, <1>tf, <1>tnew
    <3> QED BY <3>1, <1>4 DEF FrameAt
  <2>2. Base(p, <<"userret", 0>>)' = <<"userret", 0>>
    BY Places DEF Base
  <2>3. Entry(h, p)'
    BY <1>tf, <1>tnew DEF Entry
  <2> QED BY <2>1, <2>2, <2>3, <1>rec, <1>5, <1>6, <1>7, Places DEF ProcAt
<1>15. claimed'[h] = Trap!NoIrq
  BY <1>1, <1>5 DEF TrapInv, Claims, Trap!plic, Trap!Place
<1>16. InKernel(h)' /\ OfProcess(h)'
  BY <1>12, <1>13, <1>14, <1>new DEF InKernel, OfProcess
<1> QED BY <1>new, <1>tnew, <1>5, <1>11, <1>12, <1>15, <1>16, LocalStep DEF Trap!threads,
           Trap!plic, TrapInv, TrapTypes

\* userret gives the program what the trapframe has, on its page table.
LEMMA UserretStep ==
  ASSUME TrapInv, NEW h \in Hart, Trap!Userret(h)
  PROVE  TrapInv'
<1> PICK p : p = cpuproc[h]
  OBVIOUS
<1> PICK on : on = hart[h].spie
  OBVIOUS
<1> PICK upc : upc = want[p].pc
  OBVIOUS
<1> PICK regs : regs = tf[p].regs
  OBVIOUS
<1>1. hart[h].at = <<"userret", 0>>
  BY PlaceFacts DEF Trap!Userret, TrapInv
<1>2. p \in User /\ p # NoCPU /\ p \in Trap!Thread /\ Trap!Runs(h) = p
  BY <1>1, ProcFacts, SchedFacts DEF Trap!Thread
<1>3. /\ hart[h].regs["a0"] = Trap!Satp(p) /\ Entry(h, p) /\ hart[h].stvec = "uservec"
      /\ hart[h].sepc = <<"user", upc>> /\ hart[h].paging /\ FrameAt(p, <<"userret", 0>>)
      /\ on \in BOOLEAN /\ regs \in [Trap!Reg -> Mark]
  <2>1. hart[h].paging
    BY <1>1 DEF TrapInv, InKernel, KernelAt
  <2>2. on \in BOOLEAN /\ regs \in [Trap!Reg -> Mark]
    BY <1>2, OldHart DEF TrapInv, TrapTypes, TrapFrame
  <2>3. Base(p, <<"userret", 0>>) = <<"userret", 0>>
    BY Places DEF Base
  <2> QED BY <1>1, <1>2, <2>1, <2>2, <2>3 DEF TrapInv, OfProcess, ProcAt
<1>4. upc \in {0, 1} /\ <<"user", upc>> \in UserPoints
  BY <1>2 DEF TrapInv, TrapTypes, UserPoints
<1>5. /\ hart' = [hart EXCEPT ![h].at = <<"user", upc>>, ![h].satp = p, ![h].sie = on,
                              ![h].scause = "none", ![h].regs = regs]
      /\ UNCHANGED <<cpuproc, tf, Trap!threads, tstate, tkilled, Trap!plic, started, want>>
  BY <1>3 DEF Trap!Userret, Trap!Satp
<1> PICK x \in HartState : x = hart[h]
  BY DEF TrapInv, TrapTypes
<1>x. hart' = [hart EXCEPT ![h] = [hart[h] EXCEPT !.at = <<"user", upc>>, !.satp = p, !.sie = on,
                                                  !.scause = "none", !.regs = regs]]
  BY <1>5 DEF TrapTypes, TrapInv, TrapTypes, HartState
<1>y. PICK y : /\ y = [x EXCEPT !.at = <<"user", upc>>, !.satp = p, !.sie = on, !.scause = "none",
                                !.regs = regs]
               /\ hart' = [hart EXCEPT ![h] = y]
  BY <1>x
<1>rec. y = [at |-> <<"user", upc>>, regs |-> regs, satp |-> p, stvec |-> x.stvec, sie |-> on,
             spp |-> x.spp, spie |-> x.spie, sepc |-> x.sepc, scause |-> "none",
             paging |-> x.paging]
  BY <1>y DEF HartState
<1>type. y \in HartState
  BY OldHart, <1>rec, PointFacts, <1>2, <1>3, <1>4 DEF HartState
<1>new. hart' \in [Hart -> HartState] /\ hart'[h] = y /\ \A g \in Hart \ {h} : hart'[g] = hart[g]
  BY <1>y, <1>type, NewHart DEF TrapInv
<1>11. TrapTypes'
  BY <1>new, <1>5 DEF TrapInv, TrapTypes, Trap!threads, Trap!plic
<1>12. InPlace(h)' /\ cpuproc'[h] = p /\ Trap!Runs(h)' = p
  BY <1>2, <1>4, <1>5, <1>rec, <1>new, PointFacts DEF InPlace, Trap!Runs
<1>13. KernelAt(h, y, p)'
  BY <1>3, <1>4, <1>rec, Places DEF KernelAt
<1>14. ProcAt(h, y, p)'
  <2>1. \A r \in Trap!Reg : regs[r] = IF r = "a0" THEN want[p].a0 ELSE Trap!Prog(p)
    BY <1>3 DEF FrameAt
  <2>2. Entry(h, p)'
    BY <1>3, <1>5 DEF Entry
  <2>3. want'[p] = want[p]
    BY <1>5
  <2> QED BY <2>1, <2>2, <2>3, <1>3, <1>4, <1>rec, Places DEF ProcAt
<1>15. claimed'[h] = Trap!NoIrq
  BY <1>1, <1>5 DEF TrapInv, Claims, Trap!plic, Trap!Place
<1>16. InKernel(h)' /\ OfProcess(h)'
  BY <1>12, <1>13, <1>14, <1>new DEF InKernel, OfProcess
<1> QED BY <1>new, <1>5, <1>11, <1>12, <1>15, <1>16, LocalStep DEF Trap!threads, Trap!plic,
           TrapInv, TrapTypes

\* A process that gives up its CPU leaves its registers in its context, and the

\* scheduler finds its own.
LEMMA LeaveStep ==
  ASSUME TrapInv, NEW h \in Hart, NEW p, NEW upc, NEW st \in {"zombie", "runnable"}, p = cpuproc[h],
         p # NoCPU,
         hart[h].at \in KernelPoints \ {<<"kernelvec", 0>>}, Trap!Place(h) # "handler",
         Trap!Leave(h, p, upc, st), upc \in Points,
         st = "runnable" => /\ upc \in {<<"return", 0>>, <<"kernelret", 0>>}
                            /\ hart[h].at = IF upc = <<"return", 0>> THEN <<"after", 0>>
                                                                     ELSE <<"after", 1>>
  PROVE  TrapInv'
<1> DEFINE regs == [r \in Trap!Reg |-> IF r \in Trap!Saved THEN tctx[h].regs[r]
                                    ELSE Trap!Clobber(hart[h].regs)[r]]
           kept == [r \in Trap!Saved |-> hart[h].regs[r]]
<1>1. /\ p \in User /\ p \in Trap!Thread /\ h \in Trap!Thread /\ p # h /\ Trap!Runs(h) = p
      /\ tstate[p] = "running"
  BY UserNone DEF TrapInv, TrapTypes, OneCPU, Trap!Thread, Trap!Runs
<1>2. /\ Trap!Cpuid(h) = h /\ hart[h].regs["tp"] = Trap!Id(h)
      /\ \A r \in Callee : hart[h].regs[r] = Trap!Kern(p)
      /\ hart[h].satp = NoCPU /\ hart[h].paging /\ hart[h].stvec = "kernelvec"
  BY <1>1, CodeFacts
<1>3. tctx[h].pc = <<"sched", 0>> /\ \A r \in Callee : tctx[h].regs[r] = Trap!Kern(h)
  BY DEF TrapInv, Switched
<1>4. hart[h].regs \in [Trap!Reg -> Mark] /\ tctx[h].regs \in [Trap!Saved -> Mark]
  BY <1>1, OldHart DEF TrapInv, TrapTypes
<1>5. /\ regs \in [Trap!Reg -> Mark] /\ regs["tp"] = Trap!Id(h)
      /\ \A r \in Callee : regs[r] = Trap!Kern(h)
  BY <1>2, <1>3, <1>4, RegFacts, MarkFacts DEF Trap!Clobber
<1>6. kept \in [Trap!Saved -> Mark] /\ \A r \in Callee : kept[r] = Trap!Kern(p)
  BY <1>2, <1>4, RegFacts
<1>7. /\ tstate' = [tstate EXCEPT ![p] = st]
      /\ tctx' = [tctx EXCEPT ![p] = [pc |-> upc, regs |-> kept]]
      /\ cpuproc' = [cpuproc EXCEPT ![h] = NoCPU]
      /\ UNCHANGED <<tf, frame, local, tkilled, Trap!plic, started, want>>
  BY <1>2 DEF Trap!Leave, Trap!Swtch
<1>8. hart' = [hart EXCEPT ![h] = [hart[h] EXCEPT !.at = <<"sched", 0>>, !.sie = FALSE,
                                                  !.regs = regs]]
  <2>1. hart' = [hart EXCEPT ![h].at = tctx[h].pc, ![h].sie = FALSE,
                          ![h].regs = [r \in Trap!Reg |-> IF r \in Trap!Saved THEN tctx[h].regs[r]
                                                                   ELSE Trap!Clobber(@)[r]]]
    BY <1>2 DEF Trap!Leave, Trap!Swtch
  <2>2. hart' = [hart EXCEPT ![h] = [hart[h] EXCEPT !.at = tctx[h].pc, !.sie = FALSE,
                                                    !.regs = regs]]
    BY <2>1 DEF TrapInv, TrapTypes, HartState
  <2> QED BY <2>2, <1>3
<1> HIDE DEF regs, kept
<1> PICK x \in HartState : x = hart[h]
  BY DEF TrapInv, TrapTypes
<1>x. hart' = [hart EXCEPT ![h] = [hart[h] EXCEPT !.at = <<"sched", 0>>, !.sie = FALSE,
                                                  !.regs = regs]]
  BY <1>8 DEF TrapTypes, TrapInv, TrapTypes, HartState
<1>y. PICK y : /\ y = [x EXCEPT !.at = <<"sched", 0>>, !.sie = FALSE, !.regs = regs]
               /\ hart' = [hart EXCEPT ![h] = y]
  BY <1>x
<1>rec. y = [at |-> <<"sched", 0>>, regs |-> regs, satp |-> x.satp, stvec |-> x.stvec,
             sie |-> FALSE, spp |-> x.spp, spie |-> x.spie, sepc |-> x.sepc, scause |-> x.scause,
             paging |-> x.paging]
  BY <1>y DEF HartState
<1>type. y \in HartState
  BY OldHart, <1>rec, PointFacts, <1>5 DEF HartState
<1>new. hart' \in [Hart -> HartState] /\ hart'[h] = y /\ \A g \in Hart \ {h} : hart'[g] = hart[g]
  BY <1>y, <1>type, NewHart DEF TrapInv
<1>9. /\ tctx'[p] = [pc |-> upc, regs |-> kept] /\ \A t \in Trap!Thread \ {p} : tctx'[t] = tctx[t]
      /\ tstate'[p] = st /\ \A q \in User \ {p} : tstate'[q] = tstate[q]
      /\ cpuproc'[h] = NoCPU /\ \A g \in Hart \ {h} : cpuproc'[g] = cpuproc[g]
  BY <1>1, <1>7 DEF TrapInv, TrapTypes
<1>10. TrapTypes'
  <2>1. tctx' \in [Trap!Thread -> [pc : Points, regs : [Trap!Saved -> Mark]]]
    BY <1>1, <1>6, <1>7 DEF TrapInv, TrapTypes
  <2>2. /\ cpuproc' \in [Hart -> User \cup {NoCPU}]
        /\ tstate' \in [User -> {"runnable", "running", "zombie", "unused"}]
    BY <1>1, <1>7 DEF TrapInv, TrapTypes
  <2> QED BY <1>new, <1>7, <2>1, <2>2 DEF TrapInv, TrapTypes, Trap!plic
<1>11. \A g \in Hart \ {h} : cpuproc[g] # p
  <2>1. \A g \in Hart \ {h} : cpuproc[g] # NoCPU /\ cpuproc[g] = cpuproc[h] => g = h
    BY DEF TrapInv, OneCPU
  <2> QED BY <2>1
<1>12. OneCPU'
  <2>1. \A g, k \in Hart : cpuproc'[g] # NoCPU /\ cpuproc'[g] = cpuproc'[k] => g = k
    BY <1>9 DEF TrapInv, OneCPU
  <2>2. ASSUME NEW q \in User PROVE tstate'[q] = "running" <=> \E g \in Hart : cpuproc'[g] = q
    <3>1. CASE q = p
      BY <3>1, <1>9, <1>11, <1>1, UserNone
    <3>2. CASE q # p
      <4>1. tstate'[q] = tstate[q] /\ q # NoCPU
        BY <3>2, <1>9, UserNone
      <4>2. \A g \in Hart : cpuproc'[g] = q <=> cpuproc[g] = q
        BY <3>2, <4>1, <1>9
      <4> QED BY <4>1, <4>2 DEF TrapInv, OneCPU
    <3> QED BY <3>1, <3>2
  <2> QED BY <2>1, <2>2 DEF OneCPU
<1>13. Switched'
  <2>1. ASSUME NEW q \in User, tstate'[q] = "runnable" PROVE Waits(q)'
    <3>1. CASE q # p
      <4>1. Waits(q)
        BY DEF TrapInv, Switched, Waits
      <4> QED BY <3>1, <4>1, <1>7, <1>9, Waiting DEF Trap!Thread
    <3>2. CASE q = p
      <4>1. st = "runnable"
        BY <3>2, <2>1, <1>9
      <4>2. /\ upc \in {<<"return", 0>>, <<"kernelret", 0>>}
            /\ hart[h].at = (IF upc = <<"return", 0>> THEN <<"after", 0>> ELSE <<"after", 1>>)
        BY <4>1
      <4>3. FrameAt(p, Base(p, hart[h].at)) /\ (hart[h].at \in Nested => Held(p))
        <5>1. hart[h].at \in Service \cup Nested
          BY <4>2 DEF Service, Nested
        <5> QED BY <5>1, <1>1 DEF TrapInv, OfProcess, ProcAt, InKernel, KernelAt
      <4>4. (upc = <<"kernelret", 0>> => Held(p)) /\ FrameAt(p, Base(p, upc))
        <5>1. CASE upc = <<"return", 0>>
          BY <5>1, <4>2, <4>3 DEF Base, Nested, FrameAt
        <5>2. CASE upc = <<"kernelret", 0>>
          BY <5>2, <4>2, <4>3 DEF Base, Nested
        <5> QED BY <5>1, <5>2, <4>2
      <4>5. (upc = <<"kernelret", 0>> => Held(p)') /\ FrameAt(p, Base(p, upc))'
        BY <4>4, <1>7 DEF Held, FrameAt, Base
      <4>6. tctx'[p].pc = upc /\ \A r \in Callee : tctx'[p].regs[r] = Trap!Kern(p)
        BY <1>6, <1>9
      <4> QED BY <3>2, <4>2, <4>5, <4>6 DEF Waits
    <3> QED BY <3>1, <3>2
  <2>2. ASSUME NEW g \in Hart PROVE SchedWaits(g)'
    <3>1. CASE g = h
      BY <3>1, <1>9 DEF SchedWaits
    <3>2. CASE g # h
      <4>1. SchedWaits(g)
        BY DEF TrapInv, Switched, SchedWaits
      <4>2. g \in Trap!Thread /\ g # p
        BY <1>1, UserNone DEF Trap!Thread
      <4> QED BY <3>2, <4>1, <4>2, <1>9 DEF SchedWaits
    <3> QED BY <3>1, <3>2
  <2> QED BY <2>1, <2>2 DEF Switched, Waits, SchedWaits
<1>14. Claims'
  BY <1>new, <1>7 DEF TrapInv, Claims, Trap!Place, Trap!plic
<1>15. ASSUME NEW g \in Hart PROVE InPlace(g)' /\ InKernel(g)' /\ OfProcess(g)'
  <2>1. CASE g # h
    <3>1. InPlace(g) /\ InKernel(g) /\ OfProcess(g)
      BY DEF TrapInv
    <3> QED BY <2>1, <3>1, <1>new, <1>7, <1>9, OtherCPUs
  <2>2. CASE g = h
    <3>1. KernelAt(h, y, h)'
      BY <1>2, <1>5, <1>rec, Places DEF KernelAt
    <3>2. Trap!Runs(h)' = h
      BY <1>9 DEF Trap!Runs
    <3> QED BY <2>2, <3>1, <3>2, <1>9, <1>new, <1>rec, PointFacts DEF InPlace, InKernel, OfProcess
  <2> QED BY <2>1, <2>2
<1> QED BY <1>10, <1>12, <1>13, <1>14, <1>15 DEF TrapInv

\* kexit gives up the CPU for good.
LEMMA ExitStep ==
  ASSUME TrapInv, NEW h \in Hart, Trap!Exit(h)
  PROVE  TrapInv'
<1>1. hart[h].at \in {<<"exit", 0>>, <<"after", 0>>}
  BY DEF Trap!Exit, Trap!Exits, Trap!At
<1>2. /\ hart[h].at \in Service /\ hart[h].at # <<"kernelvec", 0>> /\ Trap!Place(h) # "handler"
      /\ hart[h].at \in KernelPoints /\ <<"gone", 0>> \in Points
  BY <1>1, Places DEF Service, Trap!Place, Points
<1>3. Trap!Myproc(h) = cpuproc[h] /\ cpuproc[h] # NoCPU
  BY <1>2, CodeFacts, ProcFacts, SchedFacts
<1>4. Trap!Leave(h, cpuproc[h], <<"gone", 0>>, "zombie")
  BY <1>3 DEF Trap!Exit
<1> QED BY <1>2, <1>3, <1>4, LeaveStep

\* yield gives it up in a trap of user mode or of the kernel, to go on there.
LEMMA YieldStep ==
  ASSUME TrapInv, NEW h \in Hart, Trap!Yield(h)
  PROVE  TrapInv'
<1>1. hart[h].at \in {<<"after", 0>>, <<"after", 1>>} /\ Trap!Place(h) # "handler"
  BY PlaceFacts DEF TrapInv, Trap!Yield, Trap!Yields
<1>2. hart[h].at \in KernelPoints \ {<<"kernelvec", 0>>}
  BY <1>1 DEF KernelPoints, Service, Nested
<1>3. Trap!Myproc(h) = cpuproc[h] /\ cpuproc[h] # NoCPU
  BY <1>2, CodeFacts DEF Trap!Yield, Trap!Yields
<1>4. Trap!Leave(h, cpuproc[h], Trap!Onward(h), "runnable")
  BY <1>3 DEF Trap!Yield
<1>5. /\ Trap!Onward(h) \in {<<"return", 0>>, <<"kernelret", 0>>}
      /\ hart[h].at = (IF Trap!Onward(h) = <<"return", 0>> THEN <<"after", 0>> ELSE <<"after", 1>>)
  BY <1>1 DEF Trap!Onward, Trap!At
<1>6. Trap!Onward(h) \in Points
  BY <1>5, PointFacts DEF Service, Nested
<1> QED BY <1>1, <1>2, <1>3, <1>4, <1>5, <1>6, LeaveStep

\* A process goes on, on whichever CPU picks it, with the registers it left.
LEMMA PickStep ==
  ASSUME TrapInv, NEW h \in Hart, NEW p \in User, Trap!Pick(h, p)
  PROVE  TrapInv'
<1> PICK upc : upc = tctx[p].pc
  OBVIOUS
<1> DEFINE regs == [r \in Trap!Reg |-> IF r \in Trap!Saved THEN tctx[p].regs[r]
                                    ELSE Trap!Clobber(hart[h].regs)[r]]
           kept == [r \in Trap!Saved |-> hart[h].regs[r]]
<1>0. hart[h].at = <<"sched", 1>>
  BY DEF Trap!Pick, Trap!Scans, Trap!At
<1>1. /\ p \in Trap!Thread /\ h \in Trap!Thread /\ p # h /\ p # NoCPU /\ cpuproc[h] = NoCPU
      /\ Trap!Runs(h) = h
      /\ tstate[p] = "runnable"
  <2>1. hart[h].at \notin ProcPoints
    BY <1>0 DEF ProcPoints, UserPoints, Service, Nested
  <2> QED BY <2>1, UserNone DEF TrapInv, InPlace, Trap!Thread, Trap!Runs, Trap!Pick
<1>2. /\ Trap!Cpuid(h) = h /\ hart[h].regs["tp"] = Trap!Id(h)
      /\ \A r \in Callee : hart[h].regs[r] = Trap!Kern(h)
      /\ hart[h].satp = NoCPU /\ hart[h].paging /\ hart[h].stvec = "kernelvec"
  BY <1>0, <1>1, Places, CodeFacts
<1>3. /\ upc \in {<<"return", 0>>, <<"kernelret", 0>>}
      /\ \A r \in Callee : tctx[p].regs[r] = Trap!Kern(p)
      /\ (upc = <<"kernelret", 0>> => Held(p)) /\ FrameAt(p, Base(p, upc))
  BY <1>1 DEF TrapInv, Switched
<1>4. hart[h].regs \in [Trap!Reg -> Mark] /\ tctx[p].regs \in [Trap!Saved -> Mark]
  BY <1>1, OldHart DEF TrapInv, TrapTypes
<1>5. /\ regs \in [Trap!Reg -> Mark] /\ regs["tp"] = Trap!Id(h)
      /\ \A r \in Callee : regs[r] = Trap!Kern(p)
  BY <1>2, <1>3, <1>4, RegFacts, MarkFacts DEF Trap!Clobber
<1>6. kept \in [Trap!Saved -> Mark] /\ \A r \in Callee : kept[r] = Trap!Kern(h)
  BY <1>2, <1>4, RegFacts
<1>7. /\ tstate' = [tstate EXCEPT ![p] = "running"]
      /\ tctx' = [tctx EXCEPT ![h] = [pc |-> <<"sched", 0>>, regs |-> kept]]
      /\ cpuproc' = [cpuproc EXCEPT ![h] = p]
      /\ UNCHANGED <<tf, frame, local, tkilled, Trap!plic, started, want>>
  BY <1>2 DEF Trap!Pick, Trap!Swtch
<1>8. hart' = [hart EXCEPT ![h] = [hart[h] EXCEPT !.at = upc, !.sie = FALSE, !.regs = regs]]
  <2>1. hart' = [hart EXCEPT ![h].at = tctx[p].pc, ![h].sie = FALSE,
                          ![h].regs = [r \in Trap!Reg |-> IF r \in Trap!Saved THEN tctx[p].regs[r]
                                                                   ELSE Trap!Clobber(@)[r]]]
    BY <1>2 DEF Trap!Pick, Trap!Swtch
  <2>2. hart' = [hart EXCEPT ![h] = [hart[h] EXCEPT !.at = tctx[p].pc, !.sie = FALSE,
                                                    !.regs = regs]]
    BY <2>1 DEF TrapInv, TrapTypes, HartState
  <2> QED BY <2>2, <1>3
<1>p. /\ upc \in KernelPoints \ {<<"kernelvec", 0>>} /\ upc \in Points /\ upc \in ProcPoints
      /\ upc \in Service \cup Nested /\ (upc \in Nested => upc = <<"kernelret", 0>>)
      /\ upc \notin {<<"entry", 0>>, <<"main", 0>>, <<"uservec", 0>>, <<"usertrap", 0>>,
                     <<"userret", 0>>}
  <2>1. upc \in Service \cup Nested /\ (upc \in Nested => upc = <<"kernelret", 0>>)
    BY <1>3 DEF Service, Nested
  <2> QED BY <1>3, <2>1, Places, PointFacts
<1> HIDE DEF regs, kept
<1> PICK x \in HartState : x = hart[h]
  BY DEF TrapInv, TrapTypes
<1>x. hart' = [hart EXCEPT ![h] = [hart[h] EXCEPT !.at = upc, !.sie = FALSE, !.regs = regs]]
  BY <1>8 DEF TrapTypes, TrapInv, TrapTypes, HartState
<1>y. PICK y : /\ y = [x EXCEPT !.at = upc, !.sie = FALSE, !.regs = regs]
               /\ hart' = [hart EXCEPT ![h] = y]
  BY <1>x
<1>rec. y = [at |-> upc, regs |-> regs, satp |-> x.satp, stvec |-> x.stvec, sie |-> FALSE,
             spp |-> x.spp, spie |-> x.spie, sepc |-> x.sepc, scause |-> x.scause,
             paging |-> x.paging]
  BY <1>y DEF HartState
<1>type. y \in HartState
  BY OldHart, <1>rec, PointFacts, <1>5, <1>p DEF HartState
<1>new. hart' \in [Hart -> HartState] /\ hart'[h] = y /\ \A g \in Hart \ {h} : hart'[g] = hart[g]
  BY <1>y, <1>type, NewHart DEF TrapInv
<1>9. /\ tctx'[h] = [pc |-> <<"sched", 0>>, regs |-> kept]
      /\ \A t \in Trap!Thread \ {h} : tctx'[t] = tctx[t]
      /\ tstate'[p] = "running" /\ \A q \in User \ {p} : tstate'[q] = tstate[q]
      /\ cpuproc'[h] = p /\ \A g \in Hart \ {h} : cpuproc'[g] = cpuproc[g]
  BY <1>1, <1>7 DEF TrapInv, TrapTypes
<1>10. TrapTypes'
  <2>1. tctx' \in [Trap!Thread -> [pc : Points, regs : [Trap!Saved -> Mark]]]
    BY <1>1, <1>6, <1>7, PointFacts DEF TrapInv, TrapTypes
  <2>2. /\ cpuproc' \in [Hart -> User \cup {NoCPU}]
        /\ tstate' \in [User -> {"runnable", "running", "zombie", "unused"}]
    BY <1>1, <1>7 DEF TrapInv, TrapTypes
  <2> QED BY <1>new, <1>7, <2>1, <2>2 DEF TrapInv, TrapTypes, Trap!plic
<1>11. \A g \in Hart : cpuproc[g] # p
  BY <1>1 DEF TrapInv, OneCPU
<1>12. OneCPU'
  <2>1. \A g, k \in Hart : cpuproc'[g] # NoCPU /\ cpuproc'[g] = cpuproc'[k] => g = k
    BY <1>9, <1>11 DEF TrapInv, OneCPU
  <2>2. ASSUME NEW q \in User PROVE tstate'[q] = "running" <=> \E g \in Hart : cpuproc'[g] = q
    <3>1. CASE q = p
      BY <3>1, <1>9
    <3>2. CASE q # p
      <4>1. tstate'[q] = tstate[q] /\ q # NoCPU
        BY <3>2, <1>9, UserNone
      <4>2. \A g \in Hart : cpuproc'[g] = q <=> cpuproc[g] = q
        BY <3>2, <4>1, <1>9, <1>1
      <4> QED BY <4>1, <4>2 DEF TrapInv, OneCPU
    <3> QED BY <3>1, <3>2
  <2> QED BY <2>1, <2>2 DEF OneCPU
<1>13. Switched'
  <2>1. ASSUME NEW q \in User, tstate'[q] = "runnable" PROVE Waits(q)'
    <3>1. q # p /\ q # h /\ q \in Trap!Thread
      BY <2>1, <1>9, UserNone DEF Trap!Thread
    <3>2. Waits(q)
      BY DEF TrapInv, Switched, Waits
    <3> QED BY <3>1, <3>2, <1>7, <1>9, Waiting
  <2>2. ASSUME NEW g \in Hart PROVE SchedWaits(g)'
    <3>1. CASE g = h
      BY <3>1, <1>6, <1>9 DEF SchedWaits
    <3>2. CASE g # h
      <4>1. SchedWaits(g)
        BY DEF TrapInv, Switched, SchedWaits
      <4> QED BY <3>2, <4>1, <1>9, HartThread DEF SchedWaits
    <3> QED BY <3>1, <3>2
  <2> QED BY <2>1, <2>2 DEF Switched, Waits, SchedWaits
<1>14. Claims'
  <2>1. Trap!Place(h) # "handler"
    BY <1>0 DEF Trap!Place
  <2> QED BY <2>1, <1>new, <1>7 DEF TrapInv, Claims, Trap!Place, Trap!plic
<1>15. ASSUME NEW g \in Hart PROVE InPlace(g)' /\ InKernel(g)' /\ OfProcess(g)'
  <2>1. CASE g # h
    <3>1. InPlace(g) /\ InKernel(g) /\ OfProcess(g)
      BY DEF TrapInv
    <3> QED BY <2>1, <3>1, <1>new, <1>7, <1>9, OtherCPUs
  <2>2. CASE g = h
    <3>1. KernelAt(h, y, p)'
      <4>1. upc = <<"kernelret", 0>> => Held(p)'
        BY <1>3, <1>7 DEF Held
      <4> QED BY <4>1, <1>2, <1>5, <1>p, <1>rec DEF KernelAt
    <3>2. ProcAt(h, y, p)'
      <4>1. FrameAt(p, Base(p, upc))'
        BY <1>3, <1>7 DEF FrameAt, Base
      <4> QED BY <4>1, <1>p, <1>rec, Places DEF ProcAt
    <3>3. Trap!Runs(h)' = p
      BY <1>1, <1>9 DEF Trap!Runs
    <3> QED BY <2>2, <3>1, <3>2, <3>3, <1>1, <1>9, <1>new, <1>rec, <1>p DEF InPlace, InKernel,
               OfProcess
  <2> QED BY <2>1, <2>2
<1> QED BY <1>10, <1>12, <1>13, <1>14, <1>15 DEF TrapInv

\* Irqs that are raised and processes that are killed.
LEMMA EnvStep ==
  ASSUME TrapInv, (\E irq \in Irq : Trap!Raise(irq)) \/ (\E p \in User : Trap!Kill(p))
  PROVE  TrapInv'
<1>1. /\ UNCHANGED <<hart, cpuproc, tf, tctx, frame, local, tstate, claimed, want>>
      /\ tkilled' \in [User -> BOOLEAN] /\ pending' \subseteq Irq
  BY DEF Trap!Raise, Trap!Kill, Trap!threads, Trap!plic, TrapInv, TrapTypes
<1>2. TrapTypes' /\ OneCPU' /\ Claims'
  BY <1>1 DEF TrapInv, TrapTypes, OneCPU, Claims, Trap!Place
<1>3. Switched'
  BY <1>1 DEF TrapInv, Switched, Held, FrameAt, Base
<1>4. ASSUME NEW g \in Hart PROVE InPlace(g)' /\ InKernel(g)' /\ OfProcess(g)'
  <2>1. InPlace(g) /\ InKernel(g) /\ OfProcess(g)
    BY DEF TrapInv
  <2> QED BY <1>1, <2>1, OtherCPUs
<1> QED BY <1>2, <1>3, <1>4 DEF TrapInv

-------------------------------------------------------------------------------
(* Traps: the kernel's map *)

\* The regions of kvmmake that are not stacks.
FixedRegions == Trap!Kvmmake \ Trap!Stacks

\* The stacks, one by one.
LEMMA StacksAre ==
  \A m \in Trap!Stacks :
     \E n \in 0..63 : m = Trap!Region(67108863 - (n + 1) * 2, 557056 - 2 - n, 1, {"R", "W"})
  BY SMT, TrapAssumption DEF Trap!Stacks, Trap!KSTACK, Trap!TRAMPOLINE, Trap!PHYSTOP, Trap!KERNBASE

\* The addresses of the stacks.
LEMMA StackAt == \A m \in Trap!Stacks : \E n \in 0..63 : m.va = 67108863 - (n + 1) * 2 /\ m.n = 1
  BY SMT, StacksAre DEF Trap!Region

\* Stacks are below the trampoline.
LEMMA StackFits ==
  \A m \in Trap!Stacks :
     m.va \in 67108735..67108861 /\ m.va + m.n <= 67108863 /\ m.n = 1 /\ m.perm = {"R", "W"}
<1>1. \A m \in Trap!Stacks : m.perm = {"R", "W"}
  BY SMT, StacksAre DEF Trap!Region
<1> QED BY SMT, StackAt, <1>1

\* No two stacks overlap.
LEMMA StacksApart == \A m, n \in Trap!Stacks : m = n \/ m.va + m.n <= n.va \/ n.va + n.n <= m.va
<1> SUFFICES ASSUME NEW m \in Trap!Stacks, NEW n \in Trap!Stacks
             PROVE   m = n \/ m.va + m.n <= n.va \/ n.va + n.n <= m.va
  BY SMT
<1>1. PICK i \in 0..63 : m = Trap!Region(67108863 - (i + 1) * 2, 557056 - 2 - i, 1, {"R", "W"})
  BY SMT, StacksAre
<1>2. PICK j \in 0..63 : n = Trap!Region(67108863 - (j + 1) * 2, 557056 - 2 - j, 1, {"R", "W"})
  BY SMT, StacksAre
<1>3. i = j => m = n
  BY SMT, <1>1, <1>2
<1>4. m.va = 67108863 - (i + 1) * 2 /\ n.va = 67108863 - (j + 1) * 2 /\ m.n = 1 /\ n.n = 1
  BY SMT, <1>1, <1>2 DEF Trap!Region
<1> QED BY SMT, <1>3, <1>4

\* The addresses of memlayout.h, in pages.
LEMMA Addresses ==
  /\ Trap!UART0 = 65536 /\ Trap!VIRTIO0 = 65537 /\ Trap!PLIC = 49152
  /\ Trap!KERNBASE = 524288 /\ Trap!TRAMPOLINE = 67108863
  /\ Trap!Etext = 524288 + TextPages /\ Trap!PHYSTOP - Trap!Etext = 32768 - TextPages
  /\ Trap!Etext - 1 = 524287 + TextPages
  BY SMT, TrapAssumption DEF Trap!KERNBASE, Trap!PHYSTOP, Trap!UART0, Trap!VIRTIO0, Trap!PLIC,
     Trap!TRAMPOLINE, Trap!Etext

\* No two of them are the same.
LEMMA AddressesDiffer ==
  /\ Trap!UART0 \in Int /\ Trap!VIRTIO0 \in Int /\ Trap!PLIC \in Int
  /\ Trap!KERNBASE \in Int /\ Trap!TRAMPOLINE \in Int /\ Trap!Etext \in Int
  /\ Trap!UART0 # Trap!VIRTIO0 /\ Trap!UART0 # Trap!PLIC /\ Trap!UART0 # Trap!KERNBASE
  /\ Trap!UART0 # Trap!Etext /\ Trap!UART0 # Trap!TRAMPOLINE
  /\ Trap!VIRTIO0 # Trap!PLIC /\ Trap!VIRTIO0 # Trap!KERNBASE /\ Trap!VIRTIO0 # Trap!Etext
  /\ Trap!VIRTIO0 # Trap!TRAMPOLINE
  /\ Trap!PLIC # Trap!KERNBASE /\ Trap!PLIC # Trap!Etext /\ Trap!PLIC # Trap!TRAMPOLINE
  /\ Trap!KERNBASE # Trap!Etext /\ Trap!KERNBASE # Trap!TRAMPOLINE /\ Trap!Etext # Trap!TRAMPOLINE
  BY SMT, Addresses, TrapAssumption

\* The region at an address, and the addresses there are.
RegionAt(v) == IF v = Trap!UART0 THEN Trap!Region(Trap!UART0, Trap!UART0, 1, {"R", "W"})
   ELSE IF v = Trap!VIRTIO0 THEN Trap!Region(Trap!VIRTIO0, Trap!VIRTIO0, 1, {"R", "W"})
   ELSE IF v = Trap!PLIC THEN Trap!Region(Trap!PLIC, Trap!PLIC, 16384, {"R", "W"})
   ELSE IF v = Trap!KERNBASE THEN Trap!Region(Trap!KERNBASE, Trap!KERNBASE, TextPages, {"R", "X"})
   ELSE IF v = Trap!Etext THEN Trap!Region(Trap!Etext, Trap!Etext, Trap!PHYSTOP - Trap!Etext,
                                           {"R", "W"})
   ELSE Trap!Region(Trap!TRAMPOLINE, Trap!Etext - 1, 1, {"R", "X"})

FixedVA == {Trap!UART0, Trap!VIRTIO0, Trap!PLIC, Trap!KERNBASE, Trap!Etext, Trap!TRAMPOLINE}

\* The region at each of those addresses.
LEMMA RegionsAt ==
  /\ RegionAt(Trap!UART0) = Trap!Region(Trap!UART0, Trap!UART0, 1, {"R", "W"})
  /\ RegionAt(Trap!VIRTIO0) = Trap!Region(Trap!VIRTIO0, Trap!VIRTIO0, 1, {"R", "W"})
  /\ RegionAt(Trap!PLIC) = Trap!Region(Trap!PLIC, Trap!PLIC, 16384, {"R", "W"})
  /\ RegionAt(Trap!KERNBASE) = Trap!Region(Trap!KERNBASE, Trap!KERNBASE, TextPages, {"R", "X"})
  /\ RegionAt(Trap!Etext)
       = Trap!Region(Trap!Etext, Trap!Etext, Trap!PHYSTOP - Trap!Etext, {"R", "W"})
  /\ RegionAt(Trap!TRAMPOLINE) = Trap!Region(Trap!TRAMPOLINE, Trap!Etext - 1, 1, {"R", "X"})
  BY SMT, AddressesDiffer DEF RegionAt

\* Every region is the one at some address.
LEMMA FixedAre == \A m \in FixedRegions : \E v \in FixedVA : m = RegionAt(v)
<1>1. FixedRegions
        \subseteq {Trap!Region(Trap!UART0, Trap!UART0, 1, {"R", "W"}),
                   Trap!Region(Trap!VIRTIO0, Trap!VIRTIO0, 1, {"R", "W"}),
                   Trap!Region(Trap!PLIC, Trap!PLIC, 16384, {"R", "W"}),
                   Trap!Region(Trap!KERNBASE, Trap!KERNBASE, TextPages, {"R", "X"}),
                   Trap!Region(Trap!Etext, Trap!Etext, Trap!PHYSTOP - Trap!Etext, {"R", "W"}),
                   Trap!Region(Trap!TRAMPOLINE, Trap!Etext - 1, 1, {"R", "X"})}
  BY SMT DEF FixedRegions, Trap!Kvmmake
<1> QED BY SMT, <1>1, RegionsAt DEF FixedVA

\* How large each of them is.
LEMMA FixedAt ==
  \A v \in FixedVA :
     /\ RegionAt(v).va = v
     /\ \/ v = Trap!UART0 /\ RegionAt(v).n = 1
        \/ v = Trap!VIRTIO0 /\ RegionAt(v).n = 1
        \/ v = Trap!PLIC /\ RegionAt(v).n = 16384
        \/ v = Trap!KERNBASE /\ RegionAt(v).n = TextPages
        \/ v = Trap!Etext /\ RegionAt(v).n = Trap!PHYSTOP - Trap!Etext
        \/ v = Trap!TRAMPOLINE /\ RegionAt(v).n = 1
  BY SMT, RegionsAt DEF FixedVA, Trap!Region

\* Where a region starts and how large it is, in numbers.
Fits(v, n) == \/ v = 65536 /\ n = 1
              \/ v = 65537 /\ n = 1
              \/ v = 49152 /\ n = 16384
              \/ v = 524288 /\ n = TextPages
              \/ v = 524288 + TextPages /\ n = 32768 - TextPages
              \/ v = 67108863 /\ n = 1

\* Every region of kvmmake but the stacks is one of those.
LEMMA FixedFit == \A m \in FixedRegions : Fits(m.va, m.n)
<1> SUFFICES ASSUME NEW m \in FixedRegions PROVE Fits(m.va, m.n)
  BY SMT
<1>1. PICK v \in FixedVA : m = RegionAt(v)
  BY SMT, FixedAre
<1>2. m.va = v
  BY SMT, <1>1, FixedAt
<1>3.\/ v = Trap!UART0 /\ m.n = 1
     \/ v = Trap!VIRTIO0 /\ m.n = 1
     \/ v = Trap!PLIC /\ m.n = 16384
     \/ v = Trap!KERNBASE /\ m.n = TextPages
     \/ v = Trap!Etext /\ m.n = Trap!PHYSTOP - Trap!Etext
     \/ v = Trap!TRAMPOLINE /\ m.n = 1
  BY SMT, <1>1, FixedAt
<1> PICK n : n = m.n
  BY SMT
<1>4. \/ v = Trap!UART0 /\ n = 1
      \/ v = Trap!VIRTIO0 /\ n = 1
      \/ v = Trap!PLIC /\ n = 16384
      \/ v = Trap!KERNBASE /\ n = TextPages
      \/ v = Trap!Etext /\ n = Trap!PHYSTOP - Trap!Etext
      \/ v = Trap!TRAMPOLINE /\ n = 1
  BY SMT, <1>3
<1>5. Fits(v, n)
  BY SMT, <1>4, Addresses DEF Fits
<1> QED BY SMT, <1>2, <1>5

\* One region at each address.
LEMMA FixedSame == \A m, n \in FixedRegions : m.va = n.va => m = n
  BY SMT, FixedAre, FixedAt

\* Two of those do not overlap.
LEMMA FitsApart == ASSUME NEW v, NEW n, NEW w, NEW k, Fits(v, n), Fits(w, k), v # w
  PROVE v + n <= w \/ w + k <= v
  BY SMT, TrapAssumption DEF Fits

\* All but the trampoline are below the stacks.
LEMMA FitsLow == ASSUME NEW v, NEW n, Fits(v, n)
  PROVE v \in Int /\ n \in Int /\ (v = 67108863 \/ v + n < 67108000)
  BY SMT, TrapAssumption DEF Fits

\* No page is mapped twice by the regions.
LEMMA FixedApart ==
  \A m, n \in FixedRegions : m.va # n.va => m.va + m.n <= n.va \/ n.va + n.n <= m.va
  BY SMT, FixedFit, FitsApart

\* Nor by a region and a stack.
LEMMA FixedStacks ==
  \A m \in FixedRegions, n \in Trap!Stacks : m.va + m.n <= n.va \/ n.va + n.n <= m.va
  BY SMT, FixedFit, StackFits, FitsLow

\* Nothing is both writable and code.
LEMMA FixedPerm == \A m \in FixedRegions : ~({"W", "X"} \subseteq m.perm)
<1>1. \A v \in FixedVA : ~({"W", "X"} \subseteq RegionAt(v).perm)
  BY SMT, TrapAssumption DEF FixedVA, RegionAt, Trap!Region
<1> QED BY SMT, <1>1, FixedAre

\* Below and above each stack is a page that is not mapped.
LEMMA GuardPages ==
  \A s \in Trap!Stacks, m \in Trap!Kvmmake : ~Trap!Covers(m, s.va - 1) /\ ~Trap!Covers(m, s.va + 1)
<1> SUFFICES ASSUME NEW s \in Trap!Stacks, NEW m \in Trap!Kvmmake
               PROVE  ~Trap!Covers(m, s.va - 1) /\ ~Trap!Covers(m, s.va + 1)
  BY SMT
<1>1. PICK i \in 0..63 : s.va = 67108863 - (i + 1) * 2
  BY SMT, StackAt
<1>2. CASE m \in Trap!Stacks
  <2>1. PICK j \in 0..63 : m.va = 67108863 - (j + 1) * 2 /\ m.n = 1
    BY SMT, <1>2, StackAt
  <2> QED BY SMT, <1>1, <2>1 DEF Trap!Covers
<1>3. CASE m \notin Trap!Stacks
  <2>1. m \in FixedRegions
    BY SMT, <1>3 DEF FixedRegions
  <2>2. /\ m.va \in Int /\ m.n \in Int /\ (m.va >= 67108863 \/ m.va + m.n < 67108000)
    BY SMT, <2>1, FixedFit, FitsLow
  <2> QED BY SMT, <1>1, <2>2 DEF Trap!Covers
<1> QED BY SMT, <1>2, <1>3

\* RAM is mapped from its first page to its last.
LEMMA RamMapped ==
      /\ \E m \in Trap!Ram : m.va = Trap!KERNBASE
      /\ \A m \in Trap!Ram : m.va + m.n = Trap!PHYSTOP \/ \E n \in Trap!Ram : n.va = m.va + m.n
<1>1. RegionAt(Trap!KERNBASE) \in Trap!Kvmmake /\ RegionAt(Trap!Etext) \in Trap!Kvmmake
  BY SMT, RegionsAt DEF Trap!Kvmmake
<1>2. RegionAt(Trap!KERNBASE).va = 524288 /\ RegionAt(Trap!Etext).va = 524288 + TextPages
  BY SMT, FixedAt, Addresses DEF FixedVA
<1>3. Trap!KERNBASE = 524288 /\ Trap!PHYSTOP = 557056
  BY SMT DEF Trap!KERNBASE, Trap!PHYSTOP
<1>4. RegionAt(Trap!KERNBASE) \in Trap!Ram /\ RegionAt(Trap!Etext) \in Trap!Ram
  BY SMT, <1>1, <1>2, TrapAssumption DEF Trap!Ram, Trap!KERNBASE, Trap!PHYSTOP
<1>5. \A m \in Trap!Ram : m \in Trap!Kvmmake /\ 524288 <= m.va /\ m.va < 557056
  BY SMT DEF Trap!Ram, Trap!KERNBASE, Trap!PHYSTOP
<1>6. \A m \in Trap!Ram : m \in FixedRegions
  BY SMT, <1>5, StackFits DEF FixedRegions
<1>7. \A m \in Trap!Ram : \/ m.va = 524288 /\ m.n = TextPages
                          \/ m.va = 524288 + TextPages /\ m.n = 32768 - TextPages
  BY SMT, <1>5, <1>6, FixedFit DEF Fits
<1> QED BY SMT, <1>2, <1>3, <1>4, <1>7, TrapAssumption

\* The kernel's map fits.
LEMMA MapFit == Trap!MapFits
<1>1. \A m \in Trap!Kvmmake : m \in FixedRegions \/ m \in Trap!Stacks
  BY SMT DEF FixedRegions
<1>2. \A m, n \in Trap!Kvmmake : m = n \/ m.va + m.n <= n.va \/ n.va + n.n <= m.va
  BY SMT, <1>1, StacksApart, FixedSame, FixedApart, FixedStacks
<1>3. \A m \in Trap!Kvmmake : ~({"W", "X"} \subseteq m.perm)
  BY SMT, <1>1, StackFits, FixedPerm
<1> QED BY <1>2, <1>3, GuardPages, RamMapped DEF Trap!MapFits

-------------------------------------------------------------------------------
(* Traps: the theorems *)

\* CPUs start in entry.S, on no process.
LEMMA InitTraps == Trap!Init => TrapInv
<1> SUFFICES ASSUME Trap!Init PROVE TrapInv
  OBVIOUS
<1>0. /\ <<"none", 0>> \in Points /\ <<"entry", 0>> \in SchedPoints /\ <<"entry", 0>> \in Points
      /\ <<"return", 0>> \in Points
  BY DEF Points, SchedPoints, ProcPoints, Service
<1>1. TrapTypes
  <2>1. hart \in [Hart -> HartState]
    BY <1>0, MarkFacts DEF Trap!Init, HartState
  <2>2. tf \in [User -> TrapFrame]
    BY MarkFacts DEF Trap!Init, TrapFrame, Trap!Thread
  <2>3. tctx \in [Trap!Thread -> [pc : Points, regs : [Trap!Saved -> Mark]]]
    BY <1>0, MarkFacts DEF Trap!Init
  <2>4. /\ want \in [User -> [pc : {0, 1}, a0 : Mark]]
        /\ \A p \in User : want[p].a0 \in {Trap!Prog(p), Trap!Result(p)}
    BY MarkFacts DEF Trap!Init, Trap!Thread
  <2> QED BY <2>1, <2>2, <2>3, <2>4 DEF Trap!Init, TrapTypes
<1>2. OneCPU
  BY UserNone DEF Trap!Init, OneCPU
<1>3. Claims
  BY DEF Trap!Init, Claims
<1>4. Switched
  <2>1. ASSUME NEW p \in User PROVE Waits(p)
    <3>1. /\ p \in Trap!Thread /\ tctx[p].pc = <<"return", 0>>
          /\ \A r \in Callee : tctx[p].regs[r] = Trap!Kern(p)
      BY RegFacts DEF Trap!Init, Trap!Thread
    <3>2. <<"return", 0>> # <<"kernelret", 0>> /\ <<"return", 0>> \notin Nested
      BY DEF Nested
    <3>3. FrameAt(p, <<"return", 0>>)
      BY RegFacts DEF Trap!Init, FrameAt
    <3> QED BY <3>1, <3>2, <3>3 DEF Waits, Base
  <2>2. \A h \in Hart : cpuproc[h] = NoCPU
    BY DEF Trap!Init
  <2> QED BY <2>1, <2>2 DEF Switched, Waits
<1>5. ASSUME NEW h \in Hart PROVE InPlace(h) /\ InKernel(h) /\ OfProcess(h)
  <2>1. /\ hart[h].at = <<"entry", 0>> /\ hart[h].satp = NoCPU /\ ~hart[h].sie /\ cpuproc[h] = NoCPU
    BY DEF Trap!Init
  <2> QED BY <2>1, <1>0, Places DEF InPlace, InKernel, KernelAt, OfProcess
<1> QED BY <1>1, <1>2, <1>3, <1>4, <1>5 DEF TrapInv

\* So every step keeps the invariant.
LEMMA StepTraps == TrapInv /\ [Trap!Next]_(Trap!trapVars) => TrapInv'
<1> SUFFICES ASSUME TrapInv, [Trap!Next]_(Trap!trapVars) PROVE TrapInv'
  OBVIOUS
<1>1. ASSUME NEW h \in Hart, Trap!Step(h) PROVE TrapInv'
  BY <1>1, StartStep, MainStep, UservecStep, UsertrapStep, SyscallStep, KernelvecStep,
     KernelretStep, DevintrStep, ExitStep, YieldStep, GoOnStep, SchedOnStep, WfiStep,
     ReturnOffStep,
     PrepareReturnStep, UserretStep DEF Trap!Step
<1>2. ASSUME NEW h \in Hart, Trap!Timer(h) \/ Trap!External(h) \/ Trap!Fault(h) \/ Trap!Ecall(h)
      PROVE  TrapInv'
  <2>1. CASE Trap!Timer(h)
    BY <2>1, TrapStep DEF Trap!Timer
  <2>2. CASE Trap!External(h)
    BY <2>2, TrapStep DEF Trap!External
  <2>3. CASE Trap!Fault(h)
    BY <2>3, TrapStep DEF Trap!Fault, Trap!CanInterrupt
  <2>4. CASE Trap!Ecall(h)
    BY <2>4, TrapStep DEF Trap!Ecall, Trap!CanInterrupt
  <2> QED BY <1>2, <2>1, <2>2, <2>3, <2>4
<1>3. CASE UNCHANGED Trap!trapVars
  <2>1. UNCHANGED <<hart, cpuproc, tf, tctx, frame, local, tstate, tkilled, pending, claimed,
                    started, want>>
    BY <1>3 DEF Trap!trapVars, Trap!threads, Trap!plic
  <2>2. TrapTypes' /\ OneCPU' /\ Claims'
    BY <2>1 DEF TrapInv, TrapTypes, OneCPU, Claims, Trap!Place
  <2>3. Switched'
    BY <2>1 DEF TrapInv, Switched, Held, FrameAt, Base
  <2>4. ASSUME NEW g \in Hart PROVE InPlace(g)' /\ InKernel(g)' /\ OfProcess(g)'
    <3>1. InPlace(g) /\ InKernel(g) /\ OfProcess(g)
      BY DEF TrapInv
    <3> QED BY <2>1, <3>1, OtherCPUs
  <2> QED BY <2>2, <2>3, <2>4 DEF TrapInv
<1> QED BY <1>1, <1>2, <1>3, ComputeStep, PickStep, EnvStep DEF Trap!Next

\* What the invariant says of programs.
LEMMA UserIs == TrapInv => Trap!UserIntact
<1> SUFFICES ASSUME TrapInv, NEW h \in Hart, Trap!Place(h) = "user"
             PROVE  LET p == cpuproc[h]
                    IN /\ p \in User /\ tstate[p] = "running"
                       /\ hart[h].satp = p /\ hart[h].stvec = "uservec"
                       /\ hart[h].at = <<"user", want[p].pc>>
                       /\ \A r \in Trap!Reg :
                             hart[h].regs[r] = IF r = "a0" THEN want[p].a0 ELSE Trap!Prog(p)
  BY DEF Trap!UserIntact
<1>1. hart[h].at \in UserPoints
  BY PlaceFacts DEF TrapInv
<1>2. cpuproc[h] \in User /\ tstate[cpuproc[h]] = "running"
  BY <1>1, InUser DEF TrapInv, OneCPU
<1> QED BY <1>1, <1>2, InUser

\* What it says of the kernel.
LEMMA KernelIs == TrapInv => Trap!KernelIntact
<1> SUFFICES ASSUME TrapInv, NEW h \in Hart
             PROVE  /\ Trap!InC(h) =>
                         LET regs == hart[h].regs
                         IN /\ regs["tp"] = Trap!Id(h) /\ hart[h].satp = NoCPU /\ hart[h].paging
                            /\ regs["sp"] = Trap!Kern(Trap!Runs(h))
                            /\ \A r \in Trap!Saved \ {"ra"} : regs[r] = Trap!Kern(Trap!Runs(h))
                            /\ hart[h].stvec = "kernelvec"
                            /\ hart[h].sie =>
                                 /\ Trap!Place(h) \in {"syscall", "after", "return", "sched"}
                                 /\ \A r \in Trap!CallerSaved : regs[r] = Trap!Kern(Trap!Runs(h))
                    /\ Trap!Place(h) = "syscall" =>
                         \A n \in 0..5 :
                            Trap!Argraw(Trap!Myproc(h), n) \in {Trap!Prog(Trap!Myproc(h)),
                                                                Trap!Result(Trap!Myproc(h))}
                    /\ Trap!Place(h) = "uservec" => hart[h].satp \in User
                    /\ Trap!Place(h) = "usertrap" => hart[h].spp = "U"
                    /\ Trap!Place(h) = "kernelvec" => hart[h].spp = "S"
                    /\ claimed[h] # Trap!NoIrq => Trap!Place(h) = "handler"
                    /\ Trap!Place(h) = "main" => Trap!MapFits
  BY DEF Trap!KernelIntact
<1>1. ASSUME Trap!InC(h)
      PROVE  LET regs == hart[h].regs
             IN /\ regs["tp"] = Trap!Id(h) /\ hart[h].satp = NoCPU /\ hart[h].paging
                /\ regs["sp"] = Trap!Kern(Trap!Runs(h))
                /\ \A r \in Trap!Saved \ {"ra"} : regs[r] = Trap!Kern(Trap!Runs(h))
                /\ hart[h].stvec = "kernelvec"
                /\ hart[h].sie => /\ Trap!Place(h) \in {"syscall", "after", "return", "sched"}
                                  /\ \A r \in Trap!CallerSaved : regs[r] = Trap!Kern(Trap!Runs(h))
  <2>1. hart[h].at \in KernelPoints /\ hart[h].at \notin UserPoints
    BY <1>1 DEF Trap!InC, TrapInv, InPlace, Trap!Place, SchedPoints, ProcPoints, UserPoints,
       Service, Nested, KernelPoints
  <2>2. hart[h].sie =>
          /\ hart[h].at \in OnPoints
          /\ \A r \in Trap!CallerSaved : hart[h].regs[r] = Trap!Kern(Trap!Runs(h))
    BY <2>1 DEF TrapInv, InKernel, KernelAt
  <2>3. hart[h].at \in OnPoints => Trap!Place(h) \in {"syscall", "after", "return", "sched"}
    BY DEF OnPoints, Trap!Place
  <2> QED BY <2>1, <2>2, <2>3, CodeFacts, RegFacts DEF Callee
<1>2. ASSUME Trap!Place(h) = "syscall", NEW n \in 0..5
      PROVE  Trap!Argraw(Trap!Myproc(h), n)
               \in {Trap!Prog(Trap!Myproc(h)), Trap!Result(Trap!Myproc(h))}
  <2>1. hart[h].at = <<"syscall", 0>> /\ hart[h].at \in Service
    BY <1>2, PlaceFacts DEF TrapInv, Service
  <2>2. cpuproc[h] \in User /\ cpuproc[h] # NoCPU /\ Trap!Myproc(h) = cpuproc[h]
    BY <2>1, Places, SchedFacts, ProcFacts, CodeFacts
  <2>3. FrameAt(cpuproc[h], <<"syscall", 0>>)
    BY <2>1, <2>2, Places DEF TrapInv, OfProcess, ProcAt, Base
  <2>4. \A r \in Trap!Reg :
           tf[cpuproc[h]].regs[r] \in {Trap!Prog(cpuproc[h]), Trap!Result(cpuproc[h])}
    BY <2>3 DEF FrameAt
  <2> QED BY <2>2, <2>4, ArgFacts DEF Trap!Argraw
<1>3. Trap!Place(h) = "uservec" => hart[h].satp \in User
  BY PlaceFacts, SchedFacts, ProcFacts DEF TrapInv, OfProcess, ProcAt
<1>4. Trap!Place(h) = "usertrap" => hart[h].spp = "U"
  BY PlaceFacts, SchedFacts, ProcFacts DEF TrapInv, OfProcess, ProcAt
<1>5. Trap!Place(h) = "kernelvec" => hart[h].spp = "S"
  BY PlaceFacts DEF TrapInv, InKernel, KernelAt
<1>6. claimed[h] # Trap!NoIrq => Trap!Place(h) = "handler"
  BY DEF TrapInv, Claims
<1> QED BY <1>1, <1>2, <1>3, <1>4, <1>5, <1>6, MapFit

\* Through every interleaving of traps, interrupts, switches, kills and exits of any

\* number of CPUs and processes (trap.c:37-214, trampoline.S, kernelvec.S, swtch.S, proc.c).
THEOREM TrapInvariant == Trap!Spec => []TrapInv
BY InitTraps, StepTraps, PTL DEF Trap!Spec

\* A program finds its registers, its page table and its next instruction, whatever

\* interrupted it, and on whichever CPU it goes on (trampoline.S:21-136, trap.c:37-122).
THEOREM UserSafety == Trap!Spec => []UserIntact
BY TrapInvariant, UserIs, PTL DEF UserIntact

\* Kernel code is on its own stack, knows its CPU through tp although a nested trap may

\* move it to another one, and finds its registers; each irq it claimed is in a handler; the
\* map that main turns on fits (kernelvec.S:11-60, trap.c:127-164, swtch.S, vm.c:22-60).
THEOREM KernelSafety == Trap!Spec => []KernelIntact
BY TrapInvariant, KernelIs, PTL DEF KernelIntact
===============================================================================
