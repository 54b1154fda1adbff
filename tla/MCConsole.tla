-------------------------------- MODULE MCConsole --------------------------------
(***************************************************************************)
(* Small instances of Console, of Uart, of VirtioDisk and of Descriptors,     *)
(* which share no variable: "part" says which of them a behaviour is about.   *)
(***************************************************************************)
EXTENDS Console, FiniteSets, TLC

CONSTANTS Writer, Sync, IntrHandler, Nobody, BATCH, MaxSync, MaxTyped,
          Thread, NoThread, Block, Val, NUM, IdxWrap,
          Proc, First, NFILE, NOFILE, Page, Inum, Dir, Root, Opens

\* Writes are at least a batch long, and the holders of tx_lock differ.
ASSUME UartAssumption ==
  /\ BATCH \in Nat \ {0} /\ MaxSync \in Nat /\ MaxTyped \in Nat
  /\ {IntrHandler, Nobody} \cap Writer = {} /\ IntrHandler # Nobody

\* A request fits in the descriptors; indices wrap as 2^16 does at a multiple of 8.
ASSUME DiskAssumption ==
  /\ NUM \in Nat /\ NUM >= 3 /\ IdxWrap \in Nat \ {0} /\ IdxWrap % NUM = 0
  /\ NoThread \notin Thread /\ Block # {}

\* Processes are finitely many, and open finds inodes.
ASSUME FilesAssumption ==
  /\ IsFiniteSet(Proc) /\ First \in Proc /\ NFILE \in Nat /\ NOFILE \in Nat
  /\ Root \in Inum /\ Opens \subseteq Inum

VARIABLES part, tx_busy, tx_lock, sending, rx, irq, intr, idle, wpc, wleft, wasleep, more,
          polled, puts, typed, disk, data, busy, free, next, addr, ops, info_b, status, avail,
          avail_idx, used, used_end, used_idx, flight, dev_idx, dirq, handling, dpc, dasleep,
          req, head, panicked, file, ofile, cwd, at, made, todo, pipe, iref

uart == <<tx_busy, tx_lock, sending, rx, irq, intr, idle, wpc, wleft, wasleep, more,
          polled, puts, typed>>
Out == INSTANCE Uart WITH Handler <- IntrHandler, MaxLen <- BATCH + 1, pc <- wpc,
                          left <- wleft, asleep <- wasleep

driver == <<disk, data, busy, free, next, addr, ops, info_b, status, avail, avail_idx, used,
            used_end, used_idx, flight, dev_idx, dirq, handling, dpc, dasleep, req, head,
            panicked>>
Disk == INSTANCE VirtioDisk WITH Wrap <- IdxWrap, irq <- dirq, pc <- dpc, asleep <- dasleep

table == <<file, ofile, cwd, at, made, todo, pipe, iref>>
Files == INSTANCE Descriptors

MCInit(parts) == Init /\ Out!Init /\ Disk!Init /\ Files!Init /\ part \in parts
MCNext == \/ part = "console" /\ Next /\ UNCHANGED <<part, uart, driver, table>>
          \/ part = "uart" /\ Out!Next /\ UNCHANGED <<part, vars, driver, table>>
          \/ part = "disk" /\ Disk!Next /\ UNCHANGED <<part, vars, uart, table>>
          \/ part = "files" /\ Files!Next /\ UNCHANGED <<part, vars, uart, driver>>
MCvars == <<part, vars, uart, driver, table>>

\* of the run console
MCSpec == MCInit({"console", "uart", "files"}) /\ [][MCNext]_MCvars /\ Out!Fairness
\* of the run virtio_disk, whose threads are alike
DiskSpec == MCInit({"disk"}) /\ [][MCNext]_MCvars
DiskSymmetry == Permutations(Thread)

\* The transmit and receive interrupts of the UART are not lost (UartInv of Uart).
UartInv == Out!UartInv

\* Threads do not wait in uartwrite for good (WriteReturns of Uart).
WriteReturns == part = "uart" => Out!WriteReturns

\* Descriptors of the disk, requests and wakeups are not lost (DescsInv of VirtioDisk).
DescsInv == Disk!DescsInv

\* Each request moves its own block, once, as DiskService says (VirtioDisk).
ImplementsService == Disk!ImplementsService

\* Open files have as many references as there are users of them (DescInv of Descriptors).
DescInv == Files!DescInv

\* Descriptors are numbers of open objects, as FdTable says (Descriptors).
ImplementsDescriptors == Files!ImplementsDescriptors
===============================================================================
