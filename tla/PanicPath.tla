------------------------------- MODULE PanicPath -------------------------------
(***************************************************************************)
(* What several CPUs do to the panic machinery at once: panic, printf and    *)
(* uartputc_sync (kernel/printf.c, uart.c), log_save_crash_context,          *)
(* log_flush, log_dump_crash_context and log_test (paniclog.c), the system   *)
(* calls crashme, logtest and dumppanic (sysproc.c), the timer interrupt     *)
(* with its yield (trap.c, proc.c), and the spinlocks under all of them.     *)
(*                                                                         *)
(* A CPU runs a continuation: code[c] is the sequence of steps it still has  *)
(* to take, the first one next.  A function is an operator that gives the    *)
(* steps of its body; a conditional is a step that puts the branch it takes  *)
(* in front of the rest; panic never returns, so it drops the rest.  A step  *)
(* makes at most one access another CPU could interleave with.               *)
(*                                                                         *)
(* Each CPU runs one process and does not exchange it for another.  The text *)
(* of a printf is one character, and printfs that follow each other with     *)
(* nothing but formatting in between are one: the two of an entry, the two   *)
(* of a panic message, the lines of a dump, and the frame of a flush with    *)
(* its first line.                                                           *)
(***************************************************************************)
EXTENDS Integers, Sequences, FiniteSets

CONSTANTS CPU, Boot,    \* the CPUs, and the one whose clock counts (hart 0)
          NoCPU,
          Work,         \* Work[c]: the calls processes may make on CPU c
          LOG_SIZE,
          MaxCalls,     \* bounds the calls made on each CPU
          MaxTimer,     \* bounds the timer interrupts of each CPU
          MaxFaults     \* bounds the kernel's own faults, over all CPUs

ASSUME CPUAssumption == Boot \in CPU /\ NoCPU \notin CPU
ASSUME WorkAssumption ==
  Work \in [CPU -> SUBSET {"logtest", "crashme", "dumppanic", "write", "bug"}]
ASSUME BoundAssumption ==
  LOG_SIZE \in Nat \ {0} /\ MaxCalls \in Nat /\ MaxTimer \in Nat /\ MaxFaults \in Nat

VARIABLES code, holder,             \* continuations; who holds each spinlock
          noff, intena, intr,       \* struct cpu, and sstatus.SIE
          panicking, panicked,
          count, flushing,          \* the log buffer's length, log_flush's flag
          ctx,                      \* saved_crash_ctx
          copy,                     \* what dumppanic gave each CPU's process
          calls, timers, faults,    \* how often the bounded things happened
          panics,                   \* history: the panics entered, in order
          printed,                  \* history: the panic messages on the console
          late,                     \* history: printf's characters after panicked = 1
          savers, overlap           \* history: concurrent saves of the context

cpuVars == <<noff, intena, intr>>
logVars == <<count, flushing>>
bounds == <<calls, timers, faults>>
saveVars == <<ctx, savers, overlap>>
history == <<panics, printed, late>>
vars == <<code, holder, cpuVars, panicking, panicked, logVars, saveVars, copy, bounds, history>>

-------------------------------------------------------------------------------
(* Steps and the functions they make up *)

LogLock == <<"logbuf">>
TicksLock == <<"tickslock">>
PrLock == <<"pr">>
TxLock == <<"tx_lock">>
ProcLock(c) == <<"p->lock", c>>     \* of the process that runs on c
Lock == {LogLock, TicksLock, PrLock, TxLock} \cup {ProcLock(c) : c \in CPU}

Step(op, x) == <<[op |-> op, arg |-> x]>>
Locked(l, body) == Step("acquire", l) \o body \o Step("release", l)

\* The author of a panic or a saved context: the CPU and the message.
Author(c, msg) == <<c, msg>>
Nobody == <<NoCPU, "">>

\* What the properties tell of a text: the panic message of its author, or
\* anything else.
Message(a) == <<"message", a>>
Other == <<"other", Nobody>>

Printf(text) == Step("printf", text)

\* Mutant: the magic number before the message.
SaveContext_MagicEarly(a) ==
  Step("save_clear", a) \o Step("save_regs", a)
    \o Locked(TicksLock, Step("save_ticks", a))
    \o Step("save_magic", a) \o Step("save_proc", a)

SaveContext(a) ==
  Step("save_clear", a) \o Step("save_regs", a)
    \o Locked(TicksLock, Step("save_ticks", a))
    \o Step("save_proc", a) \o Step("save_magic", a)

LogFlush == Step("flush", << >>)
DumpContext == Step("dump", << >>)

Panic(c, msg) ==
  Step("panicking", Author(c, msg))
    \o SaveContext(Author(c, msg)) \o LogFlush
    \o Printf(Message(Author(c, msg)))
    \o DumpContext
    \o Step("panicked", << >>) \o Step("hang", << >>)

LogTest(c) ==
  Locked(LogLock, Step("log_add", << >>))
    \o LogFlush \o SaveContext(Author(c, "log_test")) \o Printf(Other)

Crashme(c) ==
  Printf(Other) \o SaveContext(Author(c, "crashme")) \o LogFlush \o DumpContext

DumpPanic == Step("copy_regs", << >>) \o Step("copy_rest", << >>)

\* uartwrite with the transmitter idle: it never looks at panicked.
UartWrite == Locked(TxLock, Step("thr", << >>))

Yield(c) == Locked(ProcLock(c), Step("sched", << >>))

\* wakeup(&ticks) looks at every other process under its lock.
WakeupOthers(S) == IF S = {} THEN << >> ELSE Step("wakeup", S)

ClockIntr(c) == IF c = Boot THEN Locked(TicksLock, WakeupOthers(CPU \ {c})) ELSE << >>

\* the calls of a process, and kernel code that comes to a panic of its own
Body(c, call) ==
  CASE call = "logtest" -> LogTest(c)
    [] call = "crashme" -> Crashme(c)
    [] call = "dumppanic" -> DumpPanic
    [] call = "write" -> UartWrite
    [] call = "bug" -> Panic(c, "bug")

-------------------------------------------------------------------------------
Init == /\ code = [c \in CPU |-> << >>]
        /\ holder = [l \in Lock |-> NoCPU]
        /\ noff = [c \in CPU |-> 0]
        /\ intena = [c \in CPU |-> FALSE]
        /\ intr = [c \in CPU |-> TRUE]
        /\ panicking = FALSE /\ panicked = FALSE
        /\ count = 0 /\ flushing = FALSE
        /\ ctx = [regs |-> Nobody, ticks |-> Nobody, msg |-> Nobody, magic |-> FALSE]
        /\ copy = [c \in CPU |-> [regs |-> Nobody, msg |-> Nobody, magic |-> FALSE]]
        /\ calls = [c \in CPU |-> 0] /\ timers = [c \in CPU |-> 0] /\ faults = 0
        /\ panics = << >> /\ printed = {} /\ late = [c \in CPU |-> 0]
        /\ savers = {} /\ overlap = FALSE

At(c, op) == code[c] # << >> /\ Head(code[c]).op = op
Arg(c) == Head(code[c]).arg
Run(c, body) == code' = [code EXCEPT ![c] = body \o Tail(@)]
Skip(c) == Run(c, << >>)
Never(c, body) == code' = [code EXCEPT ![c] = body]

PushOff(c) == /\ intr' = [intr EXCEPT ![c] = FALSE]
              /\ intena' = IF noff[c] = 0 THEN [intena EXCEPT ![c] = intr[c]] ELSE intena
              /\ noff' = [noff EXCEPT ![c] = @ + 1]
PopOff(c) == /\ noff' = [noff EXCEPT ![c] = @ - 1]
             /\ intr' = [intr EXCEPT ![c] = noff[c] = 1 /\ intena[c]]
             /\ UNCHANGED intena
\* the two panics of pop_off
BadPop(c) == intr[c] \/ noff[c] < 1

-------------------------------------------------------------------------------
(* acquire, release *)

\* A lock found free by the first swap is taken at once.
AcquireCall(c) ==
  /\ At(c, "acquire")
  /\ PushOff(c)
  /\ IF holder[Arg(c)] = c THEN Never(c, Panic(c, "acquire")) /\ UNCHANGED holder
     ELSE IF holder[Arg(c)] = NoCPU THEN Skip(c) /\ holder' = [holder EXCEPT ![Arg(c)] = c]
     ELSE Run(c, Step("spin", Arg(c))) /\ UNCHANGED holder
  /\ UNCHANGED <<panicking, panicked, logVars, saveVars, copy, bounds, history>>

AcquireSpin(c) ==
  /\ At(c, "spin")
  /\ holder[Arg(c)] = NoCPU
  /\ holder' = [holder EXCEPT ![Arg(c)] = c]
  /\ Skip(c)
  /\ UNCHANGED <<cpuVars, panicking, panicked, logVars, saveVars, copy, bounds, history>>

\* release of lock l by c, after which c takes the steps `rest`
ReleaseLock(c, l, rest) ==
  IF holder[l] # c
  THEN Never(c, Panic(c, "release")) /\ UNCHANGED <<holder, cpuVars>>
  ELSE /\ holder' = [holder EXCEPT ![l] = NoCPU]
       /\ IF BadPop(c) THEN Never(c, Panic(c, "pop_off")) /\ UNCHANGED cpuVars
                       ELSE Run(c, rest) /\ PopOff(c)

Release(c) ==
  /\ At(c, "release")
  /\ ReleaseLock(c, Arg(c), << >>)
  /\ UNCHANGED <<panicking, panicked, logVars, saveVars, copy, bounds, history>>

-------------------------------------------------------------------------------
(* printf, uartputc_sync *)

PrintfCall(c) ==
  /\ At(c, "printf")
  /\ LET body == Step("putc", Arg(c)) \o Step("putc_write", Arg(c)) \o Step("printf_end", << >>)
     IN  Run(c, IF panicking THEN body ELSE Step("acquire", PrLock) \o body)
  /\ UNCHANGED <<holder, cpuVars, panicking, panicked, logVars, saveVars, copy, bounds, history>>

PrintfEnd(c) ==
  /\ At(c, "printf_end")
  /\ IF panicking THEN Skip(c) /\ UNCHANGED <<holder, cpuVars>>
                  ELSE ReleaseLock(c, PrLock, << >>)
  /\ UNCHANGED <<panicking, panicked, logVars, saveVars, copy, bounds, history>>

\* uartputc_sync up to its wait for the UART; once panicked, it spins for ever
PutcCall(c) ==
  /\ At(c, "putc")
  /\ IF panicking THEN UNCHANGED cpuVars ELSE PushOff(c)
  /\ IF panicked THEN Never(c, Step("hang", << >>)) ELSE Skip(c)
  /\ UNCHANGED <<holder, panicking, panicked, logVars, saveVars, copy, bounds, history>>

\* the rest of uartputc_sync
PutcWrite(c) ==
  /\ At(c, "putc_write")
  /\ printed' = printed \cup ({Arg(c)} \ {Other})
  /\ late' = IF panicked THEN [late EXCEPT ![c] = @ + 1] ELSE late
  /\ IF panicking THEN Skip(c) /\ UNCHANGED cpuVars
     ELSE IF BadPop(c) THEN Never(c, Panic(c, "pop_off")) /\ UNCHANGED cpuVars
     ELSE Skip(c) /\ PopOff(c)
  /\ UNCHANGED <<holder, panicking, panicked, logVars, saveVars, copy, bounds, panics>>

-------------------------------------------------------------------------------
(* panic *)

SetPanicking(c) ==
  /\ At(c, "panicking")
  /\ panicking' = TRUE
  /\ panics' = Append(panics, Arg(c))
  /\ Skip(c)
  /\ UNCHANGED <<holder, cpuVars, panicked, logVars, saveVars, copy, bounds, printed, late>>

SetPanicked(c) ==
  /\ At(c, "panicked")
  /\ panicked' = TRUE
  /\ Skip(c)
  /\ UNCHANGED <<holder, cpuVars, panicking, logVars, saveVars, copy, bounds, history>>

-------------------------------------------------------------------------------
(* log_add and log_flush, by the number of entries *)

LogAdd(c) ==
  /\ At(c, "log_add")
  /\ count' = IF count < LOG_SIZE THEN count + 1 ELSE count
  /\ Skip(c)
  /\ UNCHANGED <<holder, cpuVars, panicking, panicked, flushing, saveVars, copy, bounds, history>>

\* Mutant: log_flush keeps its lock.
FlushCall_NoRelease(c) ==
  /\ At(c, "flush")
  /\ Run(c, IF flushing THEN << >> ELSE Step("acquire", LogLock) \o Step("flush_begin", << >>))
  /\ UNCHANGED <<holder, cpuVars, panicking, panicked, logVars, saveVars, copy, bounds, history>>

\* The flag is read before the lock is taken.
FlushCall(c) ==
  /\ At(c, "flush")
  /\ Run(c, IF flushing THEN << >> ELSE Locked(LogLock, Step("flush_begin", << >>)))
  /\ UNCHANGED <<holder, cpuVars, panicking, panicked, logVars, saveVars, copy, bounds, history>>

FlushBegin(c) ==
  /\ At(c, "flush_begin")
  /\ flushing' = TRUE
  /\ Run(c, [i \in 1..(IF count = 0 THEN 1 ELSE count) |-> [op |-> "printf", arg |-> Other]]
              \o Step("flush_end", << >>))
  /\ UNCHANGED <<holder, cpuVars, panicking, panicked, count, saveVars, copy, bounds, history>>

FlushEnd(c) ==
  /\ At(c, "flush_end")
  /\ flushing' = FALSE
  /\ Skip(c)
  /\ UNCHANGED <<holder, cpuVars, panicking, panicked, count, saveVars, copy, bounds, history>>

-------------------------------------------------------------------------------
(* log_save_crash_context and its readers; no lock guards saved_crash_ctx *)

\* memset
SaveClear(c) ==
  /\ At(c, "save_clear")
  /\ ctx' = [regs |-> Nobody, ticks |-> Nobody, msg |-> Nobody, magic |-> FALSE]
  /\ overlap' = (overlap \/ savers # {})
  /\ savers' = savers \cup {c}
  /\ Skip(c)
  /\ UNCHANGED <<holder, cpuVars, panicking, panicked, logVars, copy, bounds, history>>

\* registers and CSRs; the clock, under tickslock
SaveField(c, op, field) ==
  /\ At(c, op)
  /\ ctx' = [ctx EXCEPT ![field] = Arg(c)]
  /\ Skip(c)
  /\ UNCHANGED <<holder, cpuVars, panicking, panicked, logVars, savers, overlap, copy,
                 bounds, history>>
SaveRegs(c) == SaveField(c, "save_regs", "regs")
SaveTicks(c) == SaveField(c, "save_ticks", "ticks")

\* Process, cpu and message, then the frame-pointer walk.  The walk reads
\* through whatever the frames hold: it comes to an end, or it faults and
\* kerneltrap, interrupts off, panics in its turn.
SaveProc(c) ==
  /\ At(c, "save_proc")
  /\ ctx' = [ctx EXCEPT !.msg = Arg(c)]
  /\ \/ Skip(c) /\ UNCHANGED <<cpuVars, faults>>
     \/ /\ faults < MaxFaults
        /\ faults' = faults + 1
        /\ intr' = [intr EXCEPT ![c] = FALSE]
        /\ Never(c, Printf(Other) \o Panic(c, "kerneltrap"))
        /\ UNCHANGED <<noff, intena>>
  /\ UNCHANGED <<holder, panicking, panicked, logVars, savers, overlap, copy, calls, timers,
                 history>>

SaveMagic(c) ==
  /\ At(c, "save_magic")
  /\ ctx' = [ctx EXCEPT !.magic = TRUE]
  /\ savers' = savers \ {c}
  /\ Skip(c)
  /\ UNCHANGED <<holder, cpuVars, panicking, panicked, logVars, overlap, copy, bounds, history>>

Dump(c) ==
  /\ At(c, "dump")
  /\ Run(c, Printf(Other))
  /\ UNCHANGED <<holder, cpuVars, panicking, panicked, logVars, saveVars, copy, bounds, history>>

\* sys_dumppanic's copyout reads the structure in address order: the
\* registers first, the message, the clock and the magic number last.
CopyRegs(c) ==
  /\ At(c, "copy_regs")
  /\ copy' = [copy EXCEPT ![c] = [regs |-> ctx.regs, msg |-> Nobody, magic |-> FALSE]]
  /\ Skip(c)
  /\ UNCHANGED <<holder, cpuVars, panicking, panicked, logVars, saveVars, bounds, history>>

CopyRest(c) ==
  /\ At(c, "copy_rest")
  /\ copy' = [copy EXCEPT ![c].msg = ctx.msg, ![c].magic = ctx.magic]
  /\ Skip(c)
  /\ UNCHANGED <<holder, cpuVars, panicking, panicked, logVars, saveVars, bounds, history>>

-------------------------------------------------------------------------------
(* Processes, the timer, the scheduler, user output *)

\* usertrap turns interrupts on before it runs the system call.
Call(c) ==
  /\ code[c] = << >>
  /\ calls[c] < MaxCalls
  /\ calls' = [calls EXCEPT ![c] = @ + 1]
  /\ \E call \in Work[c] :
       /\ code' = [code EXCEPT ![c] = Body(c, call)]
       /\ IF call = "bug" THEN faults < MaxFaults /\ faults' = faults + 1
                         ELSE faults' = faults
  /\ intr' = [intr EXCEPT ![c] = TRUE]
  /\ UNCHANGED <<holder, noff, intena, panicking, panicked, logVars, saveVars, copy,
                 timers, history>>

\* A timer interrupt, in user mode or in kernel code with interrupts on.
TimerIntr(c) ==
  /\ code[c] = << >> \/ intr[c]
  /\ timers[c] < MaxTimer
  /\ timers' = [timers EXCEPT ![c] = @ + 1]
  /\ intr' = [intr EXCEPT ![c] = FALSE]
  /\ code' = [code EXCEPT ![c] = ClockIntr(c) \o Yield(c) \o Step("sret", << >>) \o @]
  /\ UNCHANGED <<holder, noff, intena, panicking, panicked, logVars, saveVars, copy,
                 calls, faults, history>>

Sret(c) ==
  /\ At(c, "sret")
  /\ intr' = [intr EXCEPT ![c] = TRUE]
  /\ Skip(c)
  /\ UNCHANGED <<holder, noff, intena, panicking, panicked, logVars, saveVars, copy, bounds,
                 history>>

\* the next process in wakeup's loop
Wakeup(c) ==
  /\ At(c, "wakeup")
  /\ \E d \in Arg(c) :
       Run(c, Locked(ProcLock(d), << >>) \o WakeupOthers(Arg(c) \ {d}))
  /\ UNCHANGED <<holder, cpuVars, panicking, panicked, logVars, saveVars, copy, bounds, history>>

\* sched's checks, then a switch to the scheduler and back
Sched(c) ==
  /\ At(c, "sched")
  /\ IF noff[c] # 1 THEN Never(c, Panic(c, "sched locks")) ELSE Skip(c)
  /\ UNCHANGED <<holder, cpuVars, panicking, panicked, logVars, saveVars, copy, bounds, history>>

Thr(c) ==
  /\ At(c, "thr")
  /\ Skip(c)
  /\ UNCHANGED <<holder, cpuVars, panicking, panicked, logVars, saveVars, copy, bounds, history>>

Advance(c) ==
  \/ AcquireCall(c) \/ AcquireSpin(c) \/ Release(c)
  \/ PrintfCall(c) \/ PrintfEnd(c) \/ PutcCall(c) \/ PutcWrite(c)
  \/ SetPanicking(c) \/ SetPanicked(c)
  \/ LogAdd(c) \/ FlushCall(c) \/ FlushBegin(c) \/ FlushEnd(c)
  \/ SaveClear(c) \/ SaveRegs(c) \/ SaveTicks(c) \/ SaveProc(c) \/ SaveMagic(c)
  \/ Dump(c) \/ CopyRegs(c) \/ CopyRest(c)
  \/ Wakeup(c) \/ Sret(c) \/ Sched(c) \/ Thr(c)

Next == \E c \in CPU : Call(c) \/ TimerIntr(c) \/ Advance(c)

Spec == Init /\ [][Next]_vars

\* Every CPU keeps executing.  A spin that finds the lock free when it looks
\* takes it; who wins a race for a lock is left open.
FairSpec == Spec /\ \A c \in CPU : WF_vars(Advance(c))

-------------------------------------------------------------------------------
(* Properties *)

Ops == {"acquire", "spin", "release", "printf", "printf_end", "putc", "putc_write",
        "panicking", "panicked", "hang", "log_add", "flush", "flush_begin",
        "flush_end", "save_clear", "save_regs", "save_ticks", "save_proc",
        "save_magic", "dump", "copy_regs", "copy_rest", "wakeup", "sret",
        "sched", "thr"}
Authors == (CPU \cup {NoCPU}) \X {"", "bug", "crashme", "log_test", "kerneltrap",
                                   "sched locks", "acquire", "release", "pop_off"}

TypeOK ==
  /\ \A c \in CPU : \A i \in 1..Len(code[c]) : code[c][i].op \in Ops
  /\ holder \in [Lock -> CPU \cup {NoCPU}]
  /\ noff \in [CPU -> Nat] /\ intena \in [CPU -> BOOLEAN] /\ intr \in [CPU -> BOOLEAN]
  /\ panicking \in BOOLEAN /\ panicked \in BOOLEAN
  /\ count \in 0..LOG_SIZE /\ flushing \in BOOLEAN
  /\ ctx \in [regs : Authors, ticks : Authors, msg : Authors, magic : BOOLEAN]
  /\ copy \in [CPU -> [regs : Authors, msg : Authors, magic : BOOLEAN]]
  /\ calls \in [CPU -> 0..MaxCalls] /\ timers \in [CPU -> 0..MaxTimer]
  /\ faults \in 0..MaxFaults
  /\ panics \in Seq(Authors) /\ late \in [CPU -> Nat]
  /\ savers \subseteq CPU /\ overlap \in BOOLEAN

\* Until somebody panics, a CPU that is back in user mode holds no spinlock
\* and owes no pop_off: printf, uartputc_sync, log_add, log_flush and the
\* timer interrupt pair every acquire with a release.
Balanced ==
  ~panicking => \A c \in CPU : code[c] = << >> =>
                   noff[c] = 0 /\ intr[c] /\ \A l \in Lock : holder[l] # c
\* Without a panic every call and every interrupt returns: the lock orders
\* logbuf -> pr (log_flush) and tickslock -> p->lock (clockintr) never close
\* a cycle, and no interrupt handler spins on a lock its own CPU holds.
CallsReturn == [](panics = << >>) => <>[](\A c \in CPU : code[c] = << >>)

\* log_save_crash_context writes magic last: as long as no two saves have
\* overlapped, a valid magic number vouches for one whole context.
MagicPublishes ==
  ctx.magic /\ ~overlap => /\ ctx.regs = ctx.ticks /\ ctx.ticks = ctx.msg
                           /\ ctx.msg # Nobody

\* Saving and flushing inside panic never trips over a lock of the panicking
\* CPU itself, although they take tickslock and logbuf.lock (acquire, release).
NoLockPanic == \A i \in 1..Len(panics) : panics[i][2] \notin {"acquire", "release", "pop_off"}

\* After panicked = 1, uartputc_sync lets each CPU finish at most the one
\* character whose check it had already passed.
FrozenConsole == \A c \in CPU : late[c] =< 1

\* The path of a panic, and of the calls that run into one: what printf, panic and
\* uartputc_sync keep of each other (printf.c:70-158, uart.c:102-123).
PathInv == TypeOK /\ Balanced /\ MagicPublishes /\ NoLockPanic /\ FrozenConsole

Reported(a) == Message(a) \in printed

\* With two CPUs, a panic that is not followed by a second one gets its
\* message out, whatever the other CPU is logging, flushing or interrupted by.
ReportedUnlessSecondPanic ==
  \A a \in CPU \X {"bug", "kerneltrap"} :
    (panics = <<a>>) ~> (Reported(a) \/ Len(panics) > 1)

-------------------------------------------------------------------------------
(* What the README says and the code does not do *)

\* README.md:99: panic() prints the original panic message.  But it first takes
\* tickslock and logbuf.lock, which another CPU may hold for ever.
FirstPanicReported ==
  \A a \in CPU \X {"bug", "kerneltrap"} :
    (panics # << >> /\ panics[1] = a) ~> Reported(a)
===============================================================================
