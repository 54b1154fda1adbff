--------------------------------- MODULE MCSched ---------------------------------
(***************************************************************************)
(* Small instances of Sched, of Traps, of ProcTable and of Memory, which      *)
(* share no variable: "part" says which of them a behaviour is about.  Traps  *)
(* runs with two CPUs and one process, which may move between them, and with  *)
(* one CPU and two processes.                                                *)
(***************************************************************************)
EXTENDS Sched, Sequences, TLC

CONSTANTS Hart, Hart0, User, Irq, TextPages,
          MaxPid, KillPid,
          Task, First, NPAGES, PGSIZE, FAN, Image, Args, USERSTACK, MAXARG, Delta, MaxCalls

\* Some pid can be given, and kill is asked for such pids.
ASSUME TableAssumption == MaxPid \in Nat \ {0} /\ KillPid \subseteq 0..MaxPid

VARIABLES part, hart, cpuproc, tf, tctx, frame, local, tstate, tkilled, pending, claimed,
          started, want, pstate, pid, parent, killed, wait_lock, ppc, child, nextpid, named,
          free, data, task, kbuf, broken, calls

CPUSymmetry == Permutations(CPU)

Trap == INSTANCE Traps WITH None <- NoCPU, Boot <- Hart0, ctx <- tctx, state <- tstate,
                            killed <- tkilled, NPROC <- 64

\* CPUs, processes and neither are different things, some CPU boots, and the text of
\* the kernel ends in the RAM there is.
ASSUME TrapAssumption == /\ User \cap Hart = {} /\ NoCPU \notin User \cup Hart
                         /\ Hart0 \in Hart /\ Trap!NoIrq \notin Irq
                         /\ TextPages \in 1..32767
trapped == <<hart, cpuproc, tf, tctx, frame, local, tstate, tkilled, pending, claimed, started,
             want>>

Table == INSTANCE ProcTable WITH state <- pstate, pc <- ppc
table == <<pstate, pid, parent, killed, wait_lock, ppc, child, nextpid, named>>

memory == <<free, data, task, kbuf, broken, calls>>
Mem == INSTANCE Memory

\* what kill is called with: any pid but init's, and but 0, which is the pid of
\* every UNUSED slot
NamedPids == 2..MaxPid

\* programs of a page of text and one of data, complete or cut short
Text == [vaddr |-> 0, memsz |-> 2, filesz |-> 2, write |-> FALSE, short |-> FALSE]
Data == [vaddr |-> 2, memsz |-> 2, filesz |-> 1, write |-> TRUE, short |-> FALSE]
Images == {<<Text, Data>>, <<Text, [Data EXCEPT !.short = TRUE]>>}
ArgLists == {<< >>, <<1>>}
Deltas == {-9, -3, 1, 5}

MCInit(parts) ==
  /\ Init /\ Trap!Init /\ Table!Init /\ Mem!Init
  /\ part \in parts
  /\ {p \in User : tstate[p] = "runnable"}
       = IF part = "one process" THEN {CHOOSE p \in User : TRUE} ELSE User
MCNext == \/ part = "sched" /\ Next /\ UNCHANGED <<part, trapped, table, memory>>
          \/ /\ part \in {"one process", "one CPU"}
             /\ Trap!Next /\ UNCHANGED <<part, vars, table, memory>>
             /\ part = "one CPU" => \A h \in Hart \ {Hart0} : hart'[h] = hart[h]
          \/ part = "table" /\ Table!Next /\ UNCHANGED <<part, vars, trapped, memory>>
          \/ part = "memory" /\ Mem!Next /\ UNCHANGED <<part, vars, trapped, table>>
          \/ part = "memory" /\ calls = MaxCalls /\ UNCHANGED <<part, vars, trapped, table, memory>>
MCvars == <<part, vars, trapped, table, memory>>

\* of the run sched
MCSpec == MCInit({"sched", "one process", "one CPU"}) /\ [][MCNext]_MCvars
\* of the run proc_table
TableSpec == /\ MCInit({"table", "memory"}) /\ [][MCNext]_MCvars
             /\ \A p \in Table!Slot : SF_table(part = "table" /\ Table!GoOn(p))
             /\ SF_table(part = "table" /\ Table!Wait(Table!initproc))

\* A program finds its registers, its page table and its next instruction,
\* whatever interrupted it and wherever it ran since (UserIntact of Traps).
UserIntact == Trap!UserIntact

\* Kernel code finds its CPU, its stack, its registers and its interrupts as it
\* left them, through interrupts and swtch (KernelIntact of Traps).
KernelIntact == Trap!KernelIntact

\* Slots, pids and parents fit together, and no exit is missed (TableInv of ProcTable).
TableInv == Table!TableInv

\* Orphans are reaped by init in the end (OrphansReaped of ProcTable).
OrphansReaped == Table!OrphansReaped

\* Pages, page tables and processes fit together (MemInv of Memory).
MemInv == Mem!MemInv

\* Each process has bytes of its own (ImplementsUserMemory of Memory).
ImplementsUserMemory == Mem!ImplementsUserMemory
===============================================================================
