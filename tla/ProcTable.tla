-------------------------------- MODULE ProcTable --------------------------------
(***************************************************************************)
(* kernel/proc.c: the process table under fork, exit, wait and kill.  The    *)
(* processes that are not asleep run in any order (Sched models how); a step *)
(* is a critical section of p->lock or of wait_lock, and wait_lock is a      *)
(* variable because exit and wait hold it over several steps.                *)
(***************************************************************************)
EXTENDS Integers, FiniteSets

CONSTANTS NPROC,
          KillPid,     \* the arguments of kill
          MaxPid       \* bound on nextpid

Slot == 1..NPROC
None == 0
initproc == 1

VARIABLES state, pid, parent, killed,   \* struct proc; RUNNABLE stands for RUNNING too
          wait_lock,                    \* the process that holds it
          pc, child,                    \* place; kfork's np
          nextpid,
          named                         \* pids that some kill has named

table == <<state, pid, parent, killed>>
vars == <<table, wait_lock, pc, child, nextpid, named>>

State == {"UNUSED", "USED", "SLEEPING", "RUNNABLE", "ZOMBIE"}
PC == {"user", "fork_parent", "fork_run", "exit", "wait", "wait_check", "wait_sleep"}

TypeOK == /\ state \in [Slot -> State]
          /\ pid \in [Slot -> 0..MaxPid]
          /\ parent \in [Slot -> Slot \cup {None}]
          /\ killed \in [Slot -> BOOLEAN]
          /\ wait_lock \in Slot \cup {None}
          /\ pc \in [Slot -> PC]
          /\ child \in [Slot -> Slot \cup {None}]
          /\ nextpid \in 1..(MaxPid + 1)
          /\ named \subseteq KillPid
          /\ \A p \in Slot : /\ wait_lock = p <=> pc[p] \in {"exit", "wait_check", "wait_sleep"}
                             /\ child[p] # None <=> pc[p] \in {"fork_parent", "fork_run"}

\* userinit
Init == /\ state = [s \in Slot |-> IF s = initproc THEN "RUNNABLE" ELSE "UNUSED"]
        /\ pid = [s \in Slot |-> IF s = initproc THEN 1 ELSE 0]
        /\ parent = [s \in Slot |-> None]
        /\ killed = [s \in Slot |-> FALSE]
        /\ wait_lock = None
        /\ pc = [s \in Slot |-> "user"]
        /\ child = [s \in Slot |-> None]
        /\ nextpid = 2
        /\ named = {}

At(p, place) == state[p] = "RUNNABLE" /\ pc[p] = place
Goto(p, from, to) == At(p, from) /\ pc' = [pc EXCEPT ![p] = to]

\* usertrap: a killed process makes no more system calls
Syscall(p) == At(p, "user") /\ ~killed[p]

\* wakeup(chan), where chan is a process's slot: only wait sleeps here
Wakeup(st, ps) == [s \in Slot |-> IF s \in ps /\ st[s] = "SLEEPING" THEN "RUNNABLE" ELSE st[s]]

-------------------------------------------------------------------------------
(* kfork *)

Unused == {s \in Slot : state[s] = "UNUSED"}

\* allocproc finds an UNUSED slot (the first, but for those that are freed
\* behind its scan); the copying succeeds
ForkAlloc(p) == /\ Syscall(p) /\ nextpid <= MaxPid
                /\ \E np \in Unused :
                   /\ state' = [state EXCEPT ![np] = "USED"]
                   /\ pid' = [pid EXCEPT ![np] = nextpid]
                   /\ child' = [child EXCEPT ![p] = np]
                /\ nextpid' = nextpid + 1
                /\ pc' = [pc EXCEPT ![p] = "fork_parent"]
                /\ UNCHANGED <<parent, killed, wait_lock, named>>

\* kalloc, proc_pagetable or uvmcopy fails, and freeproc undoes the slot
ForkFail(p) == /\ Syscall(p) /\ nextpid <= MaxPid
               /\ \E np \in Unused : killed' = [killed EXCEPT ![np] = FALSE]
               /\ nextpid' = nextpid + 1
               /\ UNCHANGED <<state, pid, parent, wait_lock, pc, child, named>>

ForkParent(p) == /\ Goto(p, "fork_parent", "fork_run")
                 /\ wait_lock = None
                 /\ parent' = [parent EXCEPT ![child[p]] = p]
                 /\ UNCHANGED <<state, pid, killed, wait_lock, child, nextpid, named>>

ForkRun(p) == /\ Goto(p, "fork_run", "user")
              /\ state' = [state EXCEPT ![child[p]] = "RUNNABLE"]
              /\ child' = [child EXCEPT ![p] = None]
              /\ UNCHANGED <<pid, parent, killed, wait_lock, nextpid, named>>

-------------------------------------------------------------------------------
(* kexit *)

Kids(p) == {s \in Slot : parent[s] = p}

\* Mutant: init is not woken.
ExitReparent_NoInitWake(p) ==
  /\ p # initproc
  /\ Goto(p, "user", "exit")
  /\ wait_lock = None
  /\ wait_lock' = p
  /\ parent' = [s \in Slot |-> IF s \in Kids(p) THEN initproc ELSE parent[s]]
  /\ state' = Wakeup(state, {parent[p]})
  /\ UNCHANGED <<pid, killed, child, nextpid, named>>

\* under wait_lock: children go to init, which is woken if there are any, and
\* the parent is woken
ExitReparent(p) == /\ p # initproc
                   /\ Goto(p, "user", "exit")
                   /\ wait_lock = None
                   /\ wait_lock' = p
                   /\ parent' = [s \in Slot |-> IF s \in Kids(p) THEN initproc ELSE parent[s]]
                   /\ state' = Wakeup(state, {parent[p]} \cup (IF Kids(p) = {} THEN {} ELSE {initproc}))
                   /\ UNCHANGED <<pid, killed, child, nextpid, named>>

\* still under wait_lock: ZOMBIE, and away into the scheduler
ExitZombie(p) == /\ Goto(p, "exit", "user")
                 /\ state' = [state EXCEPT ![p] = "ZOMBIE"]
                 /\ wait_lock' = None
                 /\ UNCHANGED <<pid, parent, killed, child, nextpid, named>>

-------------------------------------------------------------------------------
(* kwait *)

Zombies(p) == {s \in Kids(p) : state[s] = "ZOMBIE"}

freeproc(s) == /\ state' = [state EXCEPT ![s] = "UNUSED"]
               /\ pid' = [pid EXCEPT ![s] = 0]
               /\ parent' = [parent EXCEPT ![s] = None]
               /\ killed' = [killed EXCEPT ![s] = FALSE]

\* from the call, or from sleep with wait_lock taken again
Waits(p) == (Syscall(p) \/ At(p, "wait")) /\ wait_lock = None

\* The scan finds a zombie and frees it ...
WaitReap(p) == /\ Waits(p)
               /\ \E s \in Zombies(p) : (\A t \in Zombies(p) : s <= t) /\ freeproc(s)
               /\ pc' = [pc EXCEPT ![p] = "user"]
               /\ UNCHANGED <<wait_lock, child, nextpid, named>>

\* ... or cannot give its status to the parent, or finds no child: -1 ...
WaitError(p) == /\ Waits(p)
                /\ (p # initproc /\ Zombies(p) # {}) \/ Kids(p) = {}
                /\ pc' = [pc EXCEPT ![p] = "user"]
                /\ UNCHANGED <<table, wait_lock, child, nextpid, named>>

\* Mutant: wait_lock is released before sleep.
WaitNone_Unlocked(p) == /\ Waits(p) /\ Kids(p) # {} /\ Zombies(p) = {}
                        /\ pc' = [pc EXCEPT ![p] = "wait_check"]
                        /\ UNCHANGED <<table, wait_lock, child, nextpid, named>>
\* ... or goes on with wait_lock held
WaitNone(p) == /\ Waits(p) /\ Kids(p) # {} /\ Zombies(p) = {}
               /\ wait_lock' = p
               /\ pc' = [pc EXCEPT ![p] = "wait_check"]
               /\ UNCHANGED <<table, child, nextpid, named>>

WaitCheck(p) == /\ Goto(p, "wait_check", IF killed[p] THEN "user" ELSE "wait_sleep")
                /\ wait_lock' = IF killed[p] THEN None ELSE wait_lock
                /\ UNCHANGED <<table, child, nextpid, named>>

\* sleep(p, &wait_lock)
WaitSleep(p) == /\ Goto(p, "wait_sleep", "wait")
                /\ state' = [state EXCEPT ![p] = "SLEEPING"]
                /\ wait_lock' = None
                /\ UNCHANGED <<pid, parent, killed, child, nextpid, named>>

-------------------------------------------------------------------------------
(* kkill *)

Named(k) == {s \in Slot : pid[s] = k}

Kill(p, k) == /\ Syscall(p)
              /\ \E v \in Named(k) :
                 /\ killed' = [killed EXCEPT ![v] = TRUE]
                 /\ state' = Wakeup(state, {v})
              /\ named' = named \cup {k}
              /\ UNCHANGED <<pid, parent, wait_lock, pc, child, nextpid>>

-------------------------------------------------------------------------------

Fork(p) == ForkAlloc(p) \/ ForkFail(p)
ForkOn(p) == ForkParent(p) \/ ForkRun(p)
Exit(p) == ExitReparent(p) \/ ExitZombie(p)
Wait(p) == WaitReap(p) \/ WaitError(p) \/ WaitNone(p)
WaitOn(p) == WaitCheck(p) \/ WaitSleep(p)

Next == \E p \in Slot : \/ Fork(p) \/ ForkOn(p) \/ Exit(p) \/ Wait(p) \/ WaitOn(p)
                        \/ \E k \in KillPid : Kill(p, k)

Spec == Init /\ [][Next]_vars

\* A call that has begun goes on, spinning for wait_lock as long as it must, and
\* a killed process traps; init never stops waiting (user/init.c).
GoOn(p) == \/ ForkOn(p) \/ ExitZombie(p) \/ WaitOn(p)
           \/ killed[p] /\ ExitReparent(p)
           \/ pc[p] = "wait" /\ Wait(p)

FairSpec == Spec /\ (\A p \in Slot : SF_vars(GoOn(p))) /\ SF_vars(Wait(initproc))

-------------------------------------------------------------------------------
(* Properties *)

\* No two slots in use have one pid, and an unused slot has none.
PidsUnique == /\ \A s, t \in Slot : pid[s] = pid[t] /\ pid[s] # 0 => s = t
              /\ \A s \in Slot : state[s] = "UNUSED" <=> pid[s] = 0

\* Whoever exists has a parent that can still wait for it: the parent is
\* alive, and is not a later process in the same slot.
ParentAlive == \A s \in Slot :
  state[s] \in {"SLEEPING", "RUNNABLE", "ZOMBIE"} /\ s # initproc =>
    parent[s] # None /\ state[parent[s]] \in {"SLEEPING", "RUNNABLE"}

\* Kill the process with the given pid: nobody else is killed.  0 is the pid of an
\* UNUSED slot, which keeps the mark for its next process.
OnlyNamedKilled == \A s \in Slot : killed[s] => pid[s] \in named \/ 0 \in named

\* No lost wakeup: nobody sleeps in wait while a child is waiting to be reaped,
\* nor without a child that can still wake it.
NoLostExit == \A p \in Slot : state[p] = "SLEEPING" => Zombies(p) = {} /\ Kids(p) # {}

\* Only a RUNNABLE process is in the middle of a call, or a SLEEPING one in wait.  A
\* slot is USED while one process forks it, which is its parent from ForkParent on.
CallsInPlace ==
  /\ \A p \in Slot : /\ state[p] \in {"UNUSED", "USED", "ZOMBIE"} => pc[p] = "user"
                     /\ state[p] = "SLEEPING" => pc[p] = "wait"
                     /\ child[p] # None =>
                          /\ state[child[p]] = "USED"
                          /\ parent[child[p]] = IF pc[p] = "fork_run" THEN p ELSE None
  /\ \A p, q \in Slot : child[p] # None /\ child[p] = child[q] => p = q

\* Whoever is a parent is alive; init is, and has none.
Family == /\ \A s \in Slot : parent[s] # None =>
               s # initproc /\ state[s] # "UNUSED" /\ state[parent[s]] \in {"SLEEPING", "RUNNABLE"}
          /\ state[initproc] \in {"SLEEPING", "RUNNABLE"}

\* Inside wait_lock: an exiting process has given its children away and its parent will
\* not sleep through the end; what the scan of wait found stays so up to the sleep.
UnderWaitLock ==
  \A p \in Slot :
    /\ pc[p] = "exit" => p # initproc /\ Kids(p) = {} /\ state[parent[p]] # "SLEEPING"
    /\ pc[p] \in {"wait_check", "wait_sleep"} => Zombies(p) = {} /\ Kids(p) # {}

\* Pids are given out in order.
PidsInOrder == \A s \in Slot : pid[s] < nextpid

TableInv == /\ TypeOK /\ PidsUnique /\ ParentAlive /\ OnlyNamedKilled /\ NoLostExit
            /\ CallsInPlace /\ Family /\ UnderWaitLock /\ PidsInOrder

\* Every orphan that exits is reaped by init in the end.
OrphansReaped == \A s \in Slot :
  state[s] = "ZOMBIE" /\ parent[s] = initproc ~> state[s] = "UNUSED"
===============================================================================
