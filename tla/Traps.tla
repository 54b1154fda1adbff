----------------------------------- MODULE Traps -----------------------------------
(***************************************************************************)
(* The way into the kernel and out of it: entry.S, start.c, main.c, the        *)
(* trampoline, kernelvec.S, swtch.S, trap.c, syscall.c, plic.c and the calls of *)
(* swtch in proc.c.  Registers hold marks of the code that put them there; what *)
(* a CPU does with interrupts off is one step, unless it hands something over. *)
(***************************************************************************)
EXTENDS Integers, Sequences, FiniteSets, SequencesExt, FiniteSetsExt

CONSTANTS Hart, Boot,        \* the CPUs; the one with hartid 0
          User,              \* processes
          None,              \* no process; also the kernel's satp
          Irq,               \* what the PLIC passes on: the UART and the disk
          NPROC, TextPages   \* processes that have a stack; pages of kernel text

VARIABLES hart,              \* per CPU: its place, its registers and CSRs
          cpuproc,           \* cpus[].proc
          tf, ctx,           \* per process: p->trapframe; per thread: its context
          frame, local,      \* per thread: what kernelvec and kerneltrap keep on its stack
          state, killed,     \* per process
          pending, claimed,  \* the PLIC: irqs raised; per CPU, the irq it claimed
          started,           \* main's flag
          want               \* per process: what it must find in user mode

threads == <<ctx, frame, local>>
plic == <<pending, claimed>>
trapVars == <<hart, cpuproc, tf, threads, state, killed, plic, started, want>>

\* In the order in which the trapframe and the frame of kernelvec have them.
RegOrder == <<"ra", "sp", "gp", "tp", "t0", "t1", "t2", "s0", "s1",
              "a0", "a1", "a2", "a3", "a4", "a5", "a6", "a7",
              "s2", "s3", "s4", "s5", "s6", "s7", "s8", "s9", "s10", "s11",
              "t3", "t4", "t5", "t6">>
Reg == ToSet(RegOrder)
SwtchOrder == <<"ra", "sp", "s0", "s1", "s2", "s3", "s4", "s5", "s6", "s7", "s8", "s9",
                "s10", "s11">>
Saved == ToSet(SwtchOrder)                        \* by swtch; C keeps all of them but ra
CallerSaved == (Reg \ (Saved \cup {"gp", "tp"})) \cup {"ra"}

Thread == User \cup Hart                          \* a CPU stands for its scheduler
NoIrq == "none"

\* Marks: of the hartid, of a thread's kernel code and stack, of a program.
Id(h) == <<"hartid", h>>
Kern(t) == <<"kernel", t>>
Prog(p) == <<"program", p>>
Satp(p) == <<"satp", p>>
Result(p) == <<"result", p>>
Junk == <<"junk", None>>

Place(h) == hart[h].at[1]
At(h, place, n) == hart[h].at = <<place, n>>
Cpuid(h) == hart[h].regs["tp"][2]
Myproc(h) == cpuproc[Cpuid(h)]
Stack(h) == hart[h].regs["sp"][2]                 \* the thread whose stack it is on
Own(regs, t) == [r \in Reg |-> IF r \in {"sp", "gp", "tp"} THEN regs[r] ELSE Kern(t)]
Clobber(regs) == [r \in Reg |-> IF r \in CallerSaved THEN Junk ELSE regs[r]]

-------------------------------------------------------------------------------
(* The kernel's page table, in pages: kvmmake and proc_mapstacks *)

Region(va, pa, n, perm) == [va |-> va, pa |-> pa, n |-> n, perm |-> perm]
KERNBASE == 524288                                \* 2^19
PHYSTOP == KERNBASE + 32768
UART0 == 65536
VIRTIO0 == UART0 + 1
PLIC == 49152                                     \* 3 * 2^14
TRAMPOLINE == 67108863                            \* 2^26 - 1
KSTACK(n) == TRAMPOLINE - (n + 1) * 2
Etext == KERNBASE + TextPages                     \* the trampoline is its last page

Stacks == {Region(KSTACK(n), PHYSTOP - 2 - n, 1, {"R", "W"}) : n \in 0..(NPROC - 1)}
Kvmmake == {Region(UART0, UART0, 1, {"R", "W"}), Region(VIRTIO0, VIRTIO0, 1, {"R", "W"}),
            Region(PLIC, PLIC, 16384, {"R", "W"}),
            Region(KERNBASE, KERNBASE, TextPages, {"R", "X"}),
            Region(Etext, Etext, PHYSTOP - Etext, {"R", "W"}),
            Region(TRAMPOLINE, Etext - 1, 1, {"R", "X"})} \cup Stacks

-------------------------------------------------------------------------------
(* Boot *)

\* allocproc's context and the trapframe that fork or exec fills, for the processes
\* there are; CPUs just reset.
Init == /\ hart = [h \in Hart |-> [at |-> <<"entry", 0>>, regs |-> [r \in Reg |-> Junk],
                                   satp |-> None, stvec |-> "none", sie |-> FALSE,
                                   spp |-> "S", spie |-> FALSE, sepc |-> <<"none", 0>>,
                                   scause |-> "none", paging |-> FALSE]]
        /\ cpuproc = [h \in Hart |-> None]
        /\ tf = [p \in User |-> [epc |-> 0, ksp |-> Junk, khart |-> Junk, ksatp |-> None,
                                 regs |-> [r \in Reg |-> Prog(p)]]]
        /\ ctx = [t \in Thread |-> [pc |-> <<"return", 0>>,
                                    regs |-> [r \in Saved |-> Kern(t)]]]
        /\ frame = [t \in Thread |-> << >>] /\ local = [t \in Thread |-> << >>]
        /\ state \in [User -> {"runnable", "unused"}] /\ killed = [p \in User |-> FALSE]
        /\ pending = {} /\ claimed = [h \in Hart |-> NoIrq]
        /\ started = FALSE
        /\ want = [p \in User |-> [pc |-> 0, a0 |-> Prog(p)]]

\* _entry picks a stack of stack0, and start the hartid, and drops to main.
Start(h) == /\ Place(h) = "entry"
            /\ hart' = [hart EXCEPT ![h].at = <<"main", 0>>,
                          ![h].regs = [Own(@, h) EXCEPT !["sp"] = Kern(h), !["tp"] = Id(h)]]
            /\ UNCHANGED <<cpuproc, tf, threads, state, killed, plic, started, want>>

\* main: the boot CPU prepares the kernel for all; kvminithart, trapinithart.
Main(h) == /\ Place(h) = "main"
           /\ Cpuid(h) = Boot \/ started
           /\ started' = TRUE
           /\ hart' = [hart EXCEPT ![h].at = <<"sched", 0>>, ![h].paging = TRUE,
                                   ![h].stvec = "kernelvec"]
           /\ UNCHANGED <<cpuproc, tf, threads, state, killed, plic, want>>

-------------------------------------------------------------------------------
(* The hardware *)

CanInterrupt(h) == Place(h) = "user" \/ hart[h].sie

\* A trap goes where stvec says, with interrupts off.
Trap(h, cause) ==
  /\ hart' = [hart EXCEPT ![h].at = <<hart[h].stvec, 0>>, ![h].sepc = hart[h].at,
                          ![h].scause = cause, ![h].sie = FALSE, ![h].spie = hart[h].sie,
                          ![h].spp = IF Place(h) = "user" THEN "U" ELSE "S"]
  /\ UNCHANGED <<cpuproc, tf, threads, state, killed, plic, started>>

Timer(h) == CanInterrupt(h) /\ Trap(h, "timer") /\ UNCHANGED want
External(h) == /\ CanInterrupt(h) /\ pending \ {claimed[g] : g \in Hart} # {}
               /\ Trap(h, "external") /\ UNCHANGED want
Fault(h) == Place(h) = "user" /\ Trap(h, "fault") /\ UNCHANGED want
Ecall(h) == /\ Place(h) = "user" /\ Trap(h, "ecall")
            /\ want' = [want EXCEPT ![cpuproc[h]] = [pc |-> 1 - @.pc, a0 |-> Result(cpuproc[h])]]

\* The program computes.
Compute(h) == /\ Place(h) = "user"
              /\ hart' = [hart EXCEPT ![h].regs["a0"] = Prog(cpuproc[h])]
              /\ want' = [want EXCEPT ![cpuproc[h]].a0 = Prog(cpuproc[h])]
              /\ UNCHANGED <<cpuproc, tf, threads, state, killed, plic, started>>

Raise(irq) == /\ irq \notin pending
              /\ pending' = pending \cup {irq}
              /\ UNCHANGED <<hart, cpuproc, tf, threads, state, killed, claimed, started, want>>

-------------------------------------------------------------------------------
(* From user mode: uservec, usertrap, syscall *)

\* TRAPFRAME is the process's whose page table satp has.
Uservec(h) ==
  /\ Place(h) = "uservec"
  /\ LET p == hart[h].satp
     IN /\ tf' = [tf EXCEPT ![p].regs = hart[h].regs]
        /\ hart' = [hart EXCEPT ![h].at = <<"usertrap", 0>>, ![h].satp = tf[p].ksatp,
                                ![h].regs["sp"] = tf[p].ksp, ![h].regs["tp"] = tf[p].khart]
  /\ UNCHANGED <<cpuproc, threads, state, killed, plic, started, want>>

\* The trap's CSRs are read before a system call lets interrupts in.
Usertrap(h) ==
  /\ Place(h) = "usertrap"
  /\ LET p == Myproc(h)
         pc == hart[h].sepc[2]
         ecall == hart[h].scause = "ecall"
         next == CASE ecall /\ killed[p] -> <<"exit", 0>>
                   [] ecall /\ ~killed[p] -> <<"syscall", 0>>
                   [] hart[h].scause = "fault" -> <<"after", 0>>
                   [] OTHER -> <<"devintr", 0>>
     IN /\ tf' = [tf EXCEPT ![p].epc = IF ecall THEN 1 - pc ELSE pc]
        /\ killed' = [killed EXCEPT ![p] = @ \/ hart[h].scause = "fault"]
        /\ hart' = [hart EXCEPT ![h].at = next, ![h].stvec = "kernelvec",
                                ![h].sie = (next[1] = "syscall"), ![h].regs = Own(@, p)]
  /\ UNCHANGED <<cpuproc, threads, state, plic, started, want>>

\* argraw: the nth argument is the user's an.
Argraw(p, n) == tf[p].regs[RegOrder[10 + n]]

Syscall(h) ==
  /\ Place(h) = "syscall"
  /\ tf' = [tf EXCEPT ![Myproc(h)].regs["a0"] = Result(Myproc(h))]
  /\ hart' = [hart EXCEPT ![h].at = <<"after", 0>>]
  /\ UNCHANGED <<cpuproc, threads, state, killed, plic, started, want>>

-------------------------------------------------------------------------------
(* From the kernel: kernelvec and kerneltrap *)

Kernelvec(h) ==
  /\ Place(h) = "kernelvec"
  /\ frame' = [frame EXCEPT ![Stack(h)] = [r \in CallerSaved \cup {"gp", "tp"} |-> hart[h].regs[r]]]
  /\ local' = [local EXCEPT ![Stack(h)] = [sepc |-> hart[h].sepc, spp |-> hart[h].spp,
                                           spie |-> hart[h].spie]]
  /\ hart' = [hart EXCEPT ![h].at = <<"devintr", 1>>, ![h].regs = Clobber(@)]
  /\ UNCHANGED <<cpuproc, tf, ctx, state, killed, plic, started, want>>

\* The end of kerneltrap, kernelvec's restores, all but tp, and sret.
\* (No one reads scause before the next trap: it is forgotten.)
\* Mutant: tp too.
Restores_Tp(t) == frame[t]
Restores(t) == [r \in (DOMAIN frame[t]) \ {"tp"} |-> frame[t][r]]
\* sepc and sstatus as the trap left them. Mutant: as traps since then have.
Resumes_Now(h, t) == [sepc |-> hart[h].sepc, spp |-> hart[h].spp, spie |-> hart[h].spie]
Resumes(h, t) == local[t]
Kernelret(h) ==
  /\ At(h, "kernelret", 0)
  /\ LET t == Stack(h)
         to == Resumes(h, t)
     IN /\ hart' = [hart EXCEPT ![h].at = to.sepc, ![h].sepc = to.sepc,
                                ![h].spp = to.spp, ![h].sie = to.spie,
                                ![h].scause = "none",
                                ![h].regs = [r \in Reg |-> IF r \in DOMAIN Restores(t)
                                                           THEN Restores(t)[r] ELSE @[r]]]
        /\ frame' = [frame EXCEPT ![t] = << >>] /\ local' = [local EXCEPT ![t] = << >>]
  /\ UNCHANGED <<cpuproc, tf, ctx, state, killed, plic, started, want>>

-------------------------------------------------------------------------------
(* devintr: the PLIC gives an irq to one CPU, until that completes it. *)

Claim(h) ==
  /\ Place(h) = "devintr" /\ hart[h].scause = "external"
  /\ LET free == pending \ {claimed[g] : g \in Hart}
     IN \E irq \in IF free = {} THEN {NoIrq} ELSE free :
          /\ claimed' = [claimed EXCEPT ![Cpuid(h)] = irq]
          /\ pending' = pending \ {irq}
          /\ hart' = [hart EXCEPT ![h].at[1] = "handler"]
  /\ UNCHANGED <<cpuproc, tf, threads, state, killed, started, want>>

Complete(h) ==
  /\ Place(h) = "handler"
  /\ claimed' = [claimed EXCEPT ![Cpuid(h)] = NoIrq]
  /\ hart' = [hart EXCEPT ![h].at[1] = "after"]
  /\ UNCHANGED <<cpuproc, tf, threads, state, killed, pending, started, want>>

Clockintr(h) ==
  /\ Place(h) = "devintr" /\ hart[h].scause = "timer"
  /\ hart' = [hart EXCEPT ![h].at[1] = "after"]
  /\ UNCHANGED <<cpuproc, tf, threads, state, killed, plic, started, want>>

-------------------------------------------------------------------------------
(* yield, kexit and the scheduler *)

\* swtch from thread t, which will go on at pc, to thread u, p->lock held.
Swtch(h, t, pc, u) ==
  /\ ctx' = [ctx EXCEPT ![t] = [pc |-> pc, regs |-> [r \in Saved |-> hart[h].regs[r]]]]
  /\ hart' = [hart EXCEPT ![h].at = ctx[u].pc, ![h].sie = FALSE,
                          ![h].regs = [r \in Reg |-> IF r \in Saved THEN ctx[u].regs[r]
                                                                   ELSE Clobber(@)[r]]]

\* mycpu()->proc = 0 is the scheduler's first step after p's.
Leave(h, p, pc, st) == /\ state' = [state EXCEPT ![p] = st]
                       /\ Swtch(h, p, pc, Cpuid(h))
                       /\ cpuproc' = [cpuproc EXCEPT ![Cpuid(h)] = None]
                       /\ UNCHANGED <<tf, frame, local, killed, plic, started, want>>

Exits(h) == At(h, "exit", 0) \/ (At(h, "after", 0) /\ killed[Myproc(h)])
Yields(h) == /\ Place(h) = "after" /\ hart[h].scause = "timer" /\ Myproc(h) # None
             /\ At(h, "after", 0) => ~killed[Myproc(h)]
Onward(h) == IF At(h, "after", 0) THEN <<"return", 0>> ELSE <<"kernelret", 0>>

Exit(h) == Exits(h) /\ Leave(h, Myproc(h), <<"gone", 0>>, "zombie")
Yield(h) == Yields(h) /\ Leave(h, Myproc(h), Onward(h), "runnable")
GoOn(h) == /\ Place(h) = "after" /\ ~Exits(h) /\ ~Yields(h)
           /\ hart' = [hart EXCEPT ![h].at = Onward(h)]
           /\ UNCHANGED <<cpuproc, tf, threads, state, killed, plic, started, want>>

\* intr_on and intr_off; the scan of the table; wfi, and the loop again.
SchedOn(h) == /\ At(h, "sched", 0)
              /\ hart' = [hart EXCEPT ![h].at = <<"sched", 1>>, ![h].sie = TRUE,
                                      ![h].regs = Own(@, h)]
              /\ UNCHANGED <<cpuproc, tf, threads, state, killed, plic, started, want>>
Scans(h) == At(h, "sched", 1)                     \* interrupts off again
Pick(h, p) == /\ Scans(h) /\ state[p] = "runnable"
              /\ state' = [state EXCEPT ![p] = "running"]
              /\ cpuproc' = [cpuproc EXCEPT ![Cpuid(h)] = p]
              /\ Swtch(h, h, <<"sched", 0>>, p)
              /\ UNCHANGED <<tf, frame, local, killed, plic, started, want>>
Wfi(h) == /\ Scans(h) /\ \A p \in User : state[p] # "runnable"
          /\ hart' = [hart EXCEPT ![h].at = <<"sched", 0>>, ![h].sie = FALSE]
          /\ UNCHANGED <<cpuproc, tf, threads, state, killed, plic, started, want>>

Kill(p) == /\ ~killed[p]
           /\ killed' = [killed EXCEPT ![p] = TRUE]
           /\ UNCHANGED <<hart, cpuproc, tf, threads, state, plic, started, want>>

-------------------------------------------------------------------------------
(* To user mode: prepare_return and userret *)

ReturnOff(h) == /\ At(h, "return", 0)
                /\ hart' = [hart EXCEPT ![h].at = <<"return", 1>>, ![h].sie = FALSE]
                /\ UNCHANGED <<cpuproc, tf, threads, state, killed, plic, started, want>>

PrepareReturn(h) ==
  /\ At(h, "return", 1)
  /\ LET p == Myproc(h)
     IN /\ tf' = [tf EXCEPT ![p].ksatp = hart[h].satp, ![p].ksp = Kern(p),
                            ![p].khart = hart[h].regs["tp"]]
        /\ hart' = [hart EXCEPT ![h].at = <<"userret", 0>>, ![h].stvec = "uservec",
                                ![h].spp = "U", ![h].spie = TRUE,
                                ![h].sepc = <<"user", tf[p].epc>>, ![h].regs["a0"] = Satp(p)]
  /\ UNCHANGED <<cpuproc, threads, state, killed, plic, started, want>>

Userret(h) ==
  /\ Place(h) = "userret"
  /\ LET p == hart[h].regs["a0"][2]
     IN hart' = [hart EXCEPT ![h].at = hart[h].sepc, ![h].satp = p, ![h].sie = hart[h].spie,
                             ![h].scause = "none", ![h].regs = tf[p].regs]
  /\ UNCHANGED <<cpuproc, tf, threads, state, killed, plic, started, want>>

-------------------------------------------------------------------------------

Step(h) == \/ Start(h) \/ Main(h)
           \/ Uservec(h) \/ Usertrap(h) \/ Syscall(h)
           \/ Kernelvec(h) \/ Kernelret(h)
           \/ Claim(h) \/ Complete(h) \/ Clockintr(h)
           \/ Exit(h) \/ Yield(h) \/ GoOn(h)
           \/ SchedOn(h) \/ Wfi(h)
           \/ ReturnOff(h) \/ PrepareReturn(h) \/ Userret(h)

Next == \/ \E h \in Hart : \/ Step(h) \/ \E p \in User : Pick(h, p)
                           \/ Timer(h) \/ External(h) \/ Fault(h) \/ Ecall(h) \/ Compute(h)
        \/ \E irq \in Irq : Raise(irq)
        \/ \E p \in User : Kill(p)

Spec == Init /\ [][Next]_trapVars

-------------------------------------------------------------------------------
(* In user mode a program finds its registers, its page table and its next    *)
(* instruction, whatever interrupted it and wherever it ran since.              *)
UserIntact ==
  \A h \in Hart : Place(h) = "user" =>
     LET p == cpuproc[h]
     IN /\ p \in User /\ state[p] = "running"
        /\ hart[h].satp = p /\ hart[h].stvec = "uservec"
        /\ hart[h].at = <<"user", want[p].pc>>
        /\ \A r \in Reg : hart[h].regs[r] = IF r = "a0" THEN want[p].a0 ELSE Prog(p)

\* Nothing is mapped twice (mappages panics on that) or both writable and code,
\* each stack has a page on either side that traps, and all of RAM is there.
Covers(m, v) == v \in m.va..(m.va + m.n - 1)
Ram == {m \in Kvmmake : KERNBASE <= m.va /\ m.va < PHYSTOP}
MapFits ==
  /\ \A m, n \in Kvmmake : m = n \/ m.va + m.n <= n.va \/ n.va + n.n <= m.va
  /\ \A m \in Kvmmake : ~({"W", "X"} \subseteq m.perm)
  /\ \A s \in Stacks, m \in Kvmmake : ~Covers(m, s.va - 1) /\ ~Covers(m, s.va + 1)
  /\ \E m \in Ram : m.va = KERNBASE
  /\ \A m \in Ram : m.va + m.n = PHYSTOP \/ \E n \in Ram : n.va = m.va + m.n

\* Kernel code knows its CPU, is on its own stack with its own registers and can
\* take the interrupts it lets in; system calls see the program's arguments; a CPU
\* that turns paging on gets a map that fits.
InC(h) == Place(h) \in {"syscall", "devintr", "handler", "after", "exit", "return", "sched",
                        "kernelret"}
Runs(h) == IF cpuproc[h] = None THEN h ELSE cpuproc[h]
KernelIntact ==
  \A h \in Hart :
     /\ InC(h) =>
          LET regs == hart[h].regs
          IN /\ regs["tp"] = Id(h) /\ hart[h].satp = None /\ hart[h].paging
             /\ regs["sp"] = Kern(Runs(h))
             /\ \A r \in Saved \ {"ra"} : regs[r] = Kern(Runs(h))
             /\ hart[h].stvec = "kernelvec"
             /\ hart[h].sie => /\ Place(h) \in {"syscall", "after", "return", "sched"}
                               /\ \A r \in CallerSaved : regs[r] = Kern(Runs(h))
     /\ Place(h) = "syscall" =>
          \A n \in 0..5 : Argraw(Myproc(h), n) \in {Prog(Myproc(h)), Result(Myproc(h))}
     /\ Place(h) = "uservec" => hart[h].satp \in User
     /\ Place(h) = "usertrap" => hart[h].spp = "U"
     /\ Place(h) = "kernelvec" => hart[h].spp = "S"
     /\ claimed[h] # NoIrq => Place(h) = "handler"
     /\ Place(h) = "main" => MapFits
===============================================================================
