---------------------------------- MODULE Uart -----------------------------------
(***************************************************************************)
(* kernel/uart.c and consolewrite: threads in uartwrite wait for interrupts    *)
(* under tx_lock, while printf and echo, in uartputc_sync, poll the device   *)
(* without it; the handler also reads what was typed.  (PanicPath has what a  *)
(* panic changes, Console what becomes of the input.)                         *)
(***************************************************************************)
EXTENDS Integers

CONSTANTS Writer, Sync,          \* threads in uartwrite; CPUs in uartputc_sync
          Handler, Nobody,       \* holders of tx_lock besides the writers
          MaxLen, BATCH,         \* the longest write; the size of consolewrite's buf
          MaxSync,               \* characters put by uartputc_sync, in all
          MaxTyped               \* characters typed, in all

VARIABLES tx_busy, tx_lock,
          sending,                  \* the device: LSR_TX_IDLE is clear
          rx, irq,                  \* characters not read; an interrupt is pending
          intr, idle,               \* the handler's place; the LSR it read
          pc, left, asleep,         \* per writer: place, characters of its batch
          more,                     \* and beyond it
          polled,                   \* Sync callers that have seen LSR idle
          puts, typed               \* characters from them and from the keyboard

writers == <<pc, left, more, asleep>>
vars == <<tx_busy, tx_lock, sending, rx, irq, intr, idle, writers, polled, puts, typed>>

TypeOK == /\ {tx_busy, sending, irq, idle} \subseteq BOOLEAN
          /\ tx_lock \in Writer \cup {Handler, Nobody}
          /\ intr \in {"out", "acked", "looked", "reading"}
          /\ pc \in [Writer -> {"user", "copyin", "write", "sleep"}]
          /\ left \in [Writer -> 0..BATCH] /\ more \in [Writer -> 0..MaxLen]
          /\ rx \in 0..typed /\ typed \in 0..MaxTyped /\ asleep \in [Writer -> BOOLEAN]
          /\ polled \subseteq Sync /\ puts \in 0..MaxSync
          /\ \A p \in Writer : pc[p] = "write" <=> tx_lock = p
          /\ intr = "looked" <=> tx_lock = Handler

\* uartinit
Init == /\ tx_busy = FALSE /\ tx_lock = Nobody
        /\ sending = FALSE /\ rx = 0 /\ irq = FALSE /\ intr = "out" /\ idle = FALSE
        /\ pc = [p \in Writer |-> "user"] /\ left = [p \in Writer |-> 0]
        /\ more = [p \in Writer |-> 0]
        /\ asleep = [p \in Writer |-> FALSE]
        /\ polled = {} /\ puts = 0 /\ typed = 0

\* WriteReg(THR): the device may take back its interrupt, but not for input
Transmit == sending' = TRUE /\ irq' \in {irq, irq /\ rx > 0}

-------------------------------------------------------------------------------
(* consolewrite and uartwrite *)

Goto(p, from, to) == pc[p] = from /\ pc' = [pc EXCEPT ![p] = to]

ConsoleWrite(p) == /\ Goto(p, "user", "copyin")
                   /\ \E n \in 0..MaxLen : more' = [more EXCEPT ![p] = n]
                   /\ UNCHANGED <<tx_busy, tx_lock, sending, rx, irq, intr, idle, left, asleep,
                                  polled, puts, typed>>

\* Everything written, or a batch that is not there to be copied.
Return(p) == /\ Goto(p, "copyin", "user")
             /\ more' = [more EXCEPT ![p] = 0]
             /\ UNCHANGED <<tx_busy, tx_lock, sending, rx, irq, intr, idle, left, asleep, polled, puts, typed>>

WriteCall(p) == /\ Goto(p, "copyin", "write")
                /\ more[p] > 0 /\ tx_lock = Nobody
                /\ tx_lock' = p
                /\ left' = [left EXCEPT ![p] = IF more[p] < BATCH THEN more[p] ELSE BATCH]
                /\ more' = [more EXCEPT ![p] = @ - left'[p]]
                /\ UNCHANGED <<tx_busy, sending, rx, irq, intr, idle, asleep, polled, puts, typed>>

WriteSleep(p) == /\ Goto(p, "write", "sleep")
                 /\ left[p] > 0 /\ tx_busy
                 /\ asleep' = [asleep EXCEPT ![p] = TRUE]
                 /\ tx_lock' = Nobody
                 /\ UNCHANGED <<tx_busy, sending, rx, irq, intr, idle, left, more, polled, puts, typed>>

WriteResume(p) == /\ Goto(p, "sleep", "write")
                  /\ ~asleep[p] /\ tx_lock = Nobody
                  /\ tx_lock' = p
                  /\ UNCHANGED <<tx_busy, sending, rx, irq, intr, idle, left, more, asleep, polled, puts, typed>>

WriteChar(p) == /\ Goto(p, "write", "write")
                /\ left[p] > 0 /\ ~tx_busy
                /\ Transmit
                /\ tx_busy' = TRUE
                /\ left' = [left EXCEPT ![p] = @ - 1]
                /\ UNCHANGED <<rx, tx_lock, intr, idle, more, asleep, polled, puts, typed>>

WriteEnd(p) == /\ Goto(p, "write", "copyin")
               /\ left[p] = 0
               /\ tx_lock' = Nobody
               /\ UNCHANGED <<tx_busy, sending, rx, irq, intr, idle, left, more, asleep, polled, puts, typed>>

\* kkill; a writer does not look at killed
Kill(p) == /\ asleep[p]
           /\ asleep' = [asleep EXCEPT ![p] = FALSE]
           /\ UNCHANGED <<tx_busy, tx_lock, sending, rx, irq, intr, idle, pc, left, more, polled, puts, typed>>

-------------------------------------------------------------------------------
(* uartputc_sync *)

SyncPoll(s) == /\ s \notin polled /\ ~sending
               /\ polled' = polled \cup {s}
               /\ UNCHANGED <<tx_busy, tx_lock, sending, rx, irq, intr, idle, writers, puts, typed>>

SyncPut(s) == /\ s \in polled /\ puts < MaxSync
              /\ Transmit
              /\ polled' = polled \ {s}
              /\ puts' = puts + 1
              /\ UNCHANGED <<rx, tx_busy, tx_lock, intr, idle, writers, typed>>

-------------------------------------------------------------------------------
(* The device, and uartintr *)

Sent == /\ sending
        /\ sending' = FALSE /\ irq' = TRUE
        /\ UNCHANGED <<rx, tx_busy, tx_lock, intr, idle, writers, polled, puts, typed>>

Typed == /\ typed < MaxTyped
         /\ typed' = typed + 1 /\ rx' = rx + 1 /\ irq' = TRUE
         /\ UNCHANGED <<tx_busy, tx_lock, sending, intr, idle, writers, polled, puts>>

\* ReadReg(ISR)
IntrAck == /\ irq /\ intr = "out"
           /\ intr' = "acked"
           /\ irq' = FALSE
           /\ UNCHANGED <<tx_busy, tx_lock, sending, rx, idle, writers, polled, puts, typed>>

\* acquire(&tx_lock) and ReadReg(LSR)
IntrLook == /\ intr = "acked" /\ tx_lock = Nobody
            /\ tx_lock' = Handler
            /\ intr' = "looked"
            /\ idle' = ~sending
            /\ UNCHANGED <<tx_busy, sending, rx, irq, writers, polled, puts, typed>>

\* Mutant: nobody woken.
IntrSent_NoWakeup == /\ intr = "looked"
                     /\ intr' = "reading" /\ tx_lock' = Nobody /\ idle' = FALSE
                     /\ tx_busy' = (tx_busy /\ ~idle)
                     /\ UNCHANGED <<asleep, sending, rx, irq, pc, left, more, polled, puts, typed>>
IntrSent == /\ intr = "looked"
            /\ intr' = "reading" /\ tx_lock' = Nobody /\ idle' = FALSE
            /\ tx_busy' = (tx_busy /\ ~idle)
            /\ asleep' = [p \in Writer |-> asleep[p] /\ ~idle]
            /\ UNCHANGED <<sending, rx, irq, pc, left, more, polled, puts, typed>>

\* uartgetc, until there is nothing left
IntrRead == /\ intr = "reading" /\ rx > 0
            /\ rx' = rx - 1
            /\ UNCHANGED <<tx_busy, tx_lock, sending, irq, intr, idle, writers, polled, puts, typed>>

\* Mutant: the interrupt is acknowledged here.
IntrEnd_Ack == /\ intr = "reading" /\ rx = 0
               /\ intr' = "out" /\ irq' = FALSE
               /\ UNCHANGED <<tx_busy, tx_lock, sending, rx, idle, writers, polled, puts, typed>>
IntrEnd == /\ intr = "reading" /\ rx = 0
           /\ intr' = "out"
           /\ UNCHANGED <<tx_busy, tx_lock, sending, rx, irq, idle, writers, polled, puts, typed>>

-------------------------------------------------------------------------------

Write(p) == WriteSleep(p) \/ WriteChar(p) \/ WriteEnd(p)
Intr == IntrAck \/ IntrSent \/ IntrRead \/ IntrEnd

Next == \/ \E p \in Writer : \/ ConsoleWrite(p) \/ Return(p) \/ WriteCall(p)
                              \/ WriteResume(p) \/ Write(p) \/ Kill(p)
        \/ \E s \in Sync : SyncPoll(s) \/ SyncPut(s)
        \/ Sent \/ Typed \/ Intr \/ IntrLook

Spec == Init /\ [][Next]_vars

\* The device sends, its interrupts are served, and a thread goes on.
\* Nobody loses every race for tx_lock.
Fairness == /\ WF_vars(Sent) /\ WF_vars(Intr) /\ SF_vars(IntrLook)
            /\ \A p \in Writer : SF_vars(WriteResume(p)) /\ WF_vars(Write(p))

-------------------------------------------------------------------------------
(* Properties *)

\* tx_busy is not left set: while it is, a character is being sent whose end
\* will interrupt, or an interrupt is pending, or the handler still looks.
NoLostTx == tx_busy => sending \/ irq \/ intr = "acked" \/ (intr = "looked" /\ idle)

\* A writer sleeps only while tx_busy is set.
WriterSleeps == \A p \in Writer : asleep[p] => tx_busy

\* What was typed is read, without more typing.
NoLostInput == rx > 0 => irq \/ intr # "out"
UartInv == TypeOK /\ NoLostTx /\ WriterSleeps /\ NoLostInput

\* Threads do not wait in uartwrite for good: again and again none is in it, or
\* one returns. (One thread can starve: others may set tx_busy before it each time.)
WriteReturns == \/ []<>(\A p \in Writer : pc[p] \in {"user", "copyin"})
                \/ []<><<\E p \in Writer : WriteEnd(p)>>_vars
===============================================================================
