# A verification development for the xv6 kernel with a panic logger

The repository is the xv6-riscv teaching kernel with one addition, a *panic
logger*: a ring buffer of kernel messages, a record of the state of a crash, and
a `panic()` that saves and prints both. `xv6-riscv/` is the program that is built;
`code_snippets/`, `full_changed_files/` and `xv6-changes/` hold excerpts and earlier
copies of the changed files and are not modelled.

The kernel runs on several CPUs with interrupts, and keeps its file system on a
disk that must survive a crash. What is hard to test in it is what this
development is about: the order of steps of several CPUs, interrupt handlers,
devices and processes, sleeping and waking, failures half way through a call, and
crashes between two disk writes. Paths without a directory are relative to
`xv6-riscv/kernel/`.

## 1. Inventory

| Component | State | Operations | Interacts with | What makes it correct |
|---|---|---|---|---|
| event log (`paniclog.c`) | `logbuf` (entries, head, count, lock), `flushing` | `log_add` and its four callers, `log_flush` | `ticks`; called by `panic` | latest events, whole, in order; a flush is a snapshot |
| panic path (`printf.c`, `paniclog.c`, `uart.c`, `sysproc.c`) | `panicking`, `panicked`, `saved_crash_ctx`, locks | `panic`, `printf`, `uartputc_sync`, `log_save_crash_context`, `log_dump_crash_context`, `log_test`, `sys_crashme`, `sys_dumppanic` | every lock; clock interrupts | the message comes out; contexts are whole; nothing is left locked |
| formats (`printf.c`, `paniclog.c`, `user/printf.c`) | a buffer, or none | `printf`, `vsnprintf`, `vprintf`, `printint`, `printptr` | console, event log, `write` | one meaning of a format; no more than the buffer holds |
| spinlocks (`spinlock.c`) | `locked`, `cpu`, `noff`, `intena`, SIE | `acquire`, `release`, `holding`, `push_off`, `pop_off` | interrupts | one holder; interrupts off exactly as long as they must be |
| scheduler, sleep locks (`proc.c`, `sleeplock.c`, `trap.c`) | `p->state`, `p->chan`, `c->proc`, `intena` | `scheduler`, `sched`, `yield`, `sleep`, `wakeup`, `acquiresleep`, `releasesleep` | `p->lock` handed across `swtch` | one stack on one CPU; no lost wakeup |
| process table (`proc.c`) | slots, pids, parents, `killed` | `kfork`, `kexit`, `kwait`, `kkill` | `wait_lock` and `p->lock` | children are waited for; slots are reused safely |
| traps and boot (`trap.c`, `trampoline.S`, `kernelvec.S`, `swtch.S`, `syscall.c`, `start.c`, `main.c`, `plic.c`) | registers, `trapframe`, `context`, `stvec`, `sscratch`, `satp` | `uservec`, `usertrap`, `userret`, `kernelvec`, `kerneltrap`, `devintr`, `swtch`, `forkret` | every other part | programs and kernel threads find their registers again, on mapped stacks |
| memory (`kalloc.c`, `vm.c`, `exec.c`) | free list, page tables, `p->sz` | `kalloc`, `kfree`, `walk`, `mappages`, `uvm*`, `copyin`, `copyout`, `kfork`, `kexec`, `growproc`, `kexit` | every call that may find no page | no page leaked, shared or freed twice; each process has bytes of its own |
| file system log (`log.c`) | log header and blocks on disk, `log` | `begin_op`, `log_write`, `end_op`, `commit`, recovery | buffers; all file system calls | calls are atomic and durable across crashes |
| buffer cache (`bio.c`) | `bcache` list, `refcnt`, `valid`, sleep locks | `bread`, `bwrite`, `brelse`, `bpin`, `bunpin` | disk driver, log | one buffer and one content per block |
| disk driver (`virtio_disk.c`) | descriptors, rings, `info` | `virtio_disk_rw`, `virtio_disk_intr` | the device | each request transfers its own block once |
| inodes and directories (`fs.c`, `sysfile.c`) | inodes on disk, `itable` with `ref`, `valid`, sleep locks | `iget`, `ilock`, `iput`, `ialloc`, `ireclaim`, `namex`, `dirlink`; open, create, mkdir, link, unlink, close | log, file table | link and reference counts exact; no leak; no deadlock |
| file contents (`fs.c`, `file.c`, `mkfs/mkfs.c`) | bitmap, `addrs`, `size`, offsets | `balloc`, `bfree`, `bmap`, `itrunc`, `readi`, `writei`, `fileread`, `filewrite`, `filestat`; the image mkfs makes | log, copies from user memory | a block has one owner; files are sequences of bytes |
| file table and descriptors (`file.c`, `sysfile.c`, `proc.c`) | `ftable`, `p->ofile`, `p->cwd` | `filealloc`, `filedup`, `fileclose`, `fdalloc`; dup, close, open, pipe, fork, exit, chdir | pipes, inodes | an entry has as many references as users; what a failed call took is given back |
| pipes (`pipe.c`, `file.c`) | ring, `nread`, `nwrite`, open ends | read, write, close | `sleep`, `kkill` | a byte stream; freed once, after the last use |
| console (`console.c`) | input ring `r`, `w`, `e` | `consoleintr`, `consoleread` | UART interrupt | whole lines, once, in order |
| UART (`uart.c`) | `tx_busy`, `tx_chan` | `uartwrite`, `uartputc_sync`, `uartgetc`, `uartintr` | console, `printf` | output goes on; nobody sleeps for good |
| init and shell (`user/init.c`, `user/sh.c`, `echo.c`, `cat.c`) | processes, their descriptors, pipes | fork, exec, wait, pipe, dup, close; the parser | all of the kernel through system calls | lines do what they mean, and the prompt returns |
| heap of user programs (`user/umalloc.c`) | ring of free blocks | `malloc`, `free`, `morecore` | `sbrk` | every unit is in one block |
| other programs (`usertests`, `grind`, utilities), `test-xv6.py` | | tests of the kernel | | not modelled |

## 2. Modules

One module models one component; the modules named in the third column state
what the component promises, and the run checks that it implements it.

| Module | Source | Abstract specification | Run | Proved |
|---|---|---|---|---|
| `LogBuffer` | `paniclog.c` | `EventLog`: an atomic list of the latest events | `log_buffer` | `LogBufferProofs` |
| `PanicPath` | `printf.c`, `paniclog.c`, `uart.c`, `sysproc.c`, `trap.c` | | `panic`, `claim_reported` | `PanicPathProofs` |
| `SpinLock` | `spinlock.c`, `trap.c` | `LockSpec`: one holder at a time | `spin_lock` | `SpinLockProofs` |
| `Sched` | `proc.c`, `sleeplock.c` | `LockSpec`, for the sleep lock | `sched` | `SchedProofs` |
| `Traps` | `trap.c`, `syscall.c`, `plic.c`, boot, the assembly files | | `sched` | `SchedProofs` |
| `ProcTable` | `proc.c` | | `proc_table` | `SchedProofs` |
| `Memory` | `kalloc.c`, `vm.c`, `exec.c`, `proc.c`, `sysfile.c` | `UserMemory`: bytes of each process, by address | `proc_table` | |
| `FSLog` | `log.c` | `CrashDisk`: calls are atomic, and durable once committed | `fs_log` | `FSLogProofs` |
| `BufferCache` | `bio.c` | `BlockStore`: blocks with one content and one user | `buffer_cache` | `BufferCacheProofs` |
| `VirtioDisk` | `virtio_disk.c` | `DiskService`: one transfer per request | `virtio_disk` | `ConsoleProofs` |
| `Inodes` | `fs.c`, `sysfile.c` | | `inodes` | |
| `Files` | `fs.c`, `file.c`, `mkfs.c` | `FileStore`: files as sequences of bytes | `spin_lock` | |
| `Descriptors` | `file.c`, `sysfile.c`, `pipe.c`, `proc.c` | `FdTable`: numbers for open objects, a process's own | `console` | `ConsoleProofs` |
| `Pipe` | `pipe.c`, `file.c` | `ByteStream`: a bounded queue with two ends | `pipe` | `PipeProofs` |
| `Console` | `console.c` | `LineInput`: lines, editable until entered | `console` | `ConsoleProofs` |
| `Uart` | `uart.c`, `console.c` | | `console` | `ConsoleProofs` |
| `Shell`, `ShellParse` | `sh.c`, `init.c`, `echo.c`, `cat.c` | what each line means (`LinesDone`), and commands written down (`ReadsBack`) | `log_buffer` | |
| `Format` | `printf.c`, `paniclog.c`, `user/printf.c` | what a format means (`Means`) | `log_buffer` | |
| `Heap` | `user/umalloc.c` | | `log_buffer` | |

Four MC modules hold more than one instance: `MCSched` (`Sched` and `Traps` for the run
`sched`, `ProcTable` and `Memory` for `proc_table`), `MCConsole` (`Console`, `Uart` and
`Descriptors` for `console`, `VirtioDisk` for `virtio_disk`), `MCSpinLock` (`SpinLock` and
`Files`) and `MCLogBuffer` (`LogBuffer`, `Shell`, the parser, `Format` and `Heap`). The
instances share no variable. A variable `part`, chosen at the start, says which of them a
behaviour is about, and the others rest: the run explores them one after the other, not
their product. A proof module extends the module its run checks, so a theorem and a
run speak of the same definition. `FSLog` and `BufferCache` need no definitions for their
runs but the symmetry, and have no MC module.

The layers meet in their abstractions: `LogBuffer`, `PanicPath`, `FSLog`,
`VirtioDisk`, `Pipe`, `Console` and `Uart` use a lock as `LockSpec` has it, which
`SpinLock` implements; `Sched`'s sleep lock is one too; `BufferCache` makes a disk
transfer one step, as `DiskService` has it; `FSLog`, `Inodes` and `Files` change
blocks as `BlockStore` has them; `Inodes` and `Files` commit a call in one step, as
`CrashDisk` has it; `Descriptors` ends a pipe or an inode in one step, whose inside
`Pipe` and `Inodes` show; `Shell` runs on descriptors as `FdTable`, pipes as
`ByteStream` and processes as `ProcTable` have them; `ProcTable` sleeps and wakes as
`Sched` shows it.

How state and actions correspond to the code:

* Variables have the names of the C fields (`noff`, `intena`, `lh`, `refcnt`,
  `nread`, `ofile`, `freep`, ...). `pc`, `code`, `at` or `act` says where a thread is.
* An action is a step another actor can come between: an access to a shared word
  where no lock is held, or a whole critical section where one is and nobody looks
  in. `SpinLock` and `PanicPath` are at the grain of single accesses; `Pipe`,
  `Console` and `VirtioDisk` hold their lock over several steps because kills or
  the device do not take it. `Memory` and `Heap` are sequential: a call is a step.
* `PanicPath` keeps for each CPU the list of steps it has still to do: a C function
  is an operator giving its steps, a call puts them in front, and `panic`, which
  does not return, drops the rest. `Descriptors` keeps the closes a process has
  still to do in the same way (`todo`).
* `Memory` is a set of functions from a state of pages and tables to the next, with
  the number of pages left as a choice of the caller, so that each allocation fails
  once in some behaviour; what has failed undoes its work as the code does.
* `<X>Inv` of a module is its type invariant together with the conjuncts, named in
  the module, that say when the component is right. It is one property because these
  are the conjuncts of the invariant that a proof needs. The conjuncts that carry most:
  `MagicPublishes`, `NoLockPanic` and `FrozenConsole` in `PathInv`; `SleepsForReason`
  and `Durable` in `FSLogInv`; `NotStuck` and `NoOrphans` in `InodeInv`; `NoLostExit`
  and `OnlyNamedKilled` in `TableInv`; `NoLostRoom` and `NoLostIntr` in `DescsInv`;
  `NoLostWakeup`, `OneStack` and `IntrFollowsThread` in `SchedInv`; `SleepersMustWait` in
  `PipeInv`; `ReaderSleeps` in `RingInv`; `WriterSleeps` and `NoLostInput` in `UartInv`.
* An operator with a suffix (`Free_Any`, `PutUnlock_Valid`, ...) and the comment
  "Mutant" is not part of the model: it is a plausible bug, and putting it in the
  place of the definition without the suffix breaks a property.

## 3. Runs

Every run ends without error in TLC except `claim_reported`, which finds a documented
claim violated. The bounds are the constants of its cfg.

| Run | What it shows | Bounds, and why they are enough |
|---|---|---|
| `log_buffer` | `LogInv`; `ImplementsEventLog`: no event is lost or torn, and a flush prints one snapshot; `LockReleased`: the lock always comes free | 2 CPUs, 3 slots, 2 events, 2 ticks. The buffer is empty, partly filled, full and wrapped; a second flush meets the flag |
| ... its shell | `ShellInv` (lines do what they mean, descriptors are closed), `PromptReturns` (unless init's own fork fails); `ParserInv` | 6 sessions with every kind of command, 7 processes, pipes of a byte, one fork, exec, open or pipe that fails anywhere, those of init included; every line of up to 5 characters, every command of depth up to 3 over three small ones |
| ... its formats and heap | `FormatInv`; `HeapInv` | ints of 4 bits and longs of 8, so that every number is tried; formats of up to 5 characters, alone and behind others, buffers of 1 and 4. Requests of 1 to 4 units in a heap of 8, of which `morecore` takes 3 at least: blocks are split, joined below, above and on both sides, and a gap comes from a `sbrk` of the program |
| `panic` | `PathInv` (locks and push_offs are paired, contexts published whole), `CallsReturn`, `ReportedUnlessSecondPanic` | 2 CPUs; one makes any of crashme, dumppanic, write or hits a kernel bug, the other runs logtest; one timer interrupt each, one fault. Two panics, a panic inside a flush, in an interrupt and in `printf` all occur |
| `claim_reported` | `FirstPanicReported` is violated, see section 6 | as `panic`, with crashme against a bug |
| `spin_lock` | `SpinInv`, `HoldingExact`, `ImplementsLocks` | 2 CPUs, 2 nested locks, threads and handlers. All of it is also proved without bounds |
| ... its files | `FilesInv` (blocks have one owner, the log has room), `ImplementsFiles` | 2 processes, 7 blocks, 1 direct and 2 indirect ones per file, 2 bytes per block, 3 calls: files cross from direct to indirect, the disk and the file get full, a copy fails in a block, chunks are cut |
| `sched` | `SchedInv` (one stack, one CPU; no lost wakeup; no panic of sched), `ImplementsLock` | 2 CPUs, 3 processes: one more than the CPUs, so that a process waits, moves to the other CPU, and two sleep at once |
| ... its traps | `UserIntact`, `KernelIntact`: registers come back | from reset, 2 harts with one process that may move between them, and 1 hart with two processes; one device; traps nested in the kernel, with other threads running in between |
| `proc_table` | `TableInv`, `OrphansReaped` | 4 slots, 4 pids: init, its child, a grandchild and one more; a slot is reused while a kill is on its way |
| ... its memory | `MemInv` (no page is lost or shared), `ImplementsUserMemory` | 2 tasks, 26 pages of 2 bytes, tables of 2 entries, 5 calls, each of which may find any smaller number of pages |
| `fs_log` | `FSLogInv` (reserved space suffices, sleepers have a reason), `ImplementsCrashDisk` | 3 calls, 4 blocks, room for two reservations of 2, 5 writes, 2 crashes: group commit, absorption, a full log, a crash in recovery from a crash |
| `buffer_cache` | `CacheInv`, `ImplementsStore` | 2 threads, 4 blocks, 3 buffers, 1 pinned: there is always one more block than buffers, and every buffer is recycled |
| `virtio_disk` | `DescsInv`, `ImplementsService` | 3 requests, 7 descriptors (two chains and a rest of one, so that allocation fails half way), indices that wrap at 7 |
| `inodes` | `InodeInv`, `LinksExact` | 2 processes, root and 2 more inodes, 2 names, 3 calls in a transaction, crashes at any step: removal against use, reuse of an inode, hard links, a directory in a directory |
| `pipe` | `PipeInv`, `ImplementsStream` | 3 processes, 2 bytes of room, transfers of up to 2, of which the second byte may have to wait, counters that wrap at 4 |
| `console` | `RingInv`, `ImplementsInput` | 2 readers, 3 places, reads of up to 2, indices that wrap at 6 |
| ... its UART | `UartInv`, `WriteReturns` | 2 writers of up to 2 bytes, console writes in batches of 1, 2 polled characters, 2 typed ones: the handler runs between any two accesses |
| ... its open files | `DescInv`, `ImplementsDescriptors` | 2 processes, 3 entries, 2 descriptors each, one pipe, root and a file: entries, descriptors and the page run out in the middle of pipe and open, and a closed entry is in use again before its close has ended |

Counters that the code lets grow are cut in guards by constants named `Max...`
(`MaxTicks`, `MaxCalls`, `MaxTimer`, `MaxFaults`, `MaxWrites`, `MaxCrashes`, `MaxPid`,
`MaxLen`, `MaxPinned`, `MaxFails`, `MaxSync`, `MaxTyped`, `MaxBrk`; `MaxLine`,
`MaxTree`, `MaxFormat` for what is typed and printed); indices of 16 or 32 bits wrap
at `Wrap`, a multiple of the ring size as 2^16 and 2^32 are. `CHECK_DEADLOCK FALSE`
stands where the system may rest: a kernel that has panicked (`panic`,
`claim_reported`, `fs_log`), processes that have exited (`pipe`), users and a typist
that do nothing more (`console`).

Symmetry is used for interchangeable processes, threads, CPUs, blocks and bytes,
in runs without liveness properties only.

## 4. Fairness

* `LogBuffer`: weak fairness of each CPU inside `log_add` or `log_flush`. It has
  interrupts off while it holds the lock, so it goes on. Nothing is assumed about
  who wins a race for the lock, about new calls, nor about the clock.
* `PanicPath`: weak fairness of each CPU: CPUs go on executing. A spin is a step
  that can be taken only while the lock is free.
* `ProcTable`: strong fairness of what a process does inside a call, and of init's
  loop of `wait` (`user/init.c`). A process spins for `wait_lock` until it has it,
  which every other process keeps taking and releasing, so weak fairness would let
  it starve. A real test-and-set spinlock gives no such guarantee but by chance, so
  `OrphansReaped` says that nothing except losing that race for ever stops init.
* `Shell`: weak fairness of init and of every process: the scheduler runs each one
  that can go on, in turn. A read of an empty pipe is no step. Once init has exited and
  the kernel panics nothing is assumed of the others, which may go on or not. The number
  of failures is bounded (`MaxFails`): if every exec of `sh` failed, init would start
  shells for ever and no prompt would come.
* `Uart`: weak fairness of the device, which sends what it has, of the interrupt and
  of a writer that runs; strong fairness of the handler at `acquire(&tx_lock)` and of
  a writer that was woken and must take it again: as above, nobody loses every race
  for a spinlock.
* The other modules have safety properties only. What their sleepers need is stated
  as an invariant: whoever sleeps has a reason to.

## 5. What is proved

The theorems hold for every number of CPUs, every set of events, locks or bytes,
every finite set of processes or threads (of readers and writers of the console, every
set), every `LOG_SIZE`, `PIPESIZE`, `INPUT_BUF_SIZE`, `NPROC`, `NFILE` and `NOFILE`, any
set of blocks, pages and inodes, any number of pids and disk descriptors,
whatever calls each CPU makes in `PanicPath`, and however often calls write, timers
interrupt and the machine crashes. The constants' assumptions are: `LOG_SIZE`, `NPROC`
and the sizes of rings and batches are positive; a pipe's and the console's indices wrap
at a larger multiple of the ring size (in the code 2^32, and 512 and 128); a file system
call writes at most `MAXOPBLOCKS` blocks and the log has room for so many (10 and 30);
there is at least one buffer; a disk request fits in the descriptors (3 of 8), whose
rings' indices wrap at a multiple of their number (2^16); some pid can be given; the
kernel's text has a page at least and leaves one of the RAM's 32768; the root is an inode,
and so is what open finds; the model values for
"none", and for the interrupt handler, are not CPUs, processes, events, locks or blocks,
and a CPU is not a process; and the order in which callers nest spinlocks is irreflexive.
TLC evaluates them in the runs.

**`LogBufferProofs`.** `TypeCorrect`; `LogInvariant` (`LogInv` is inductive);
`StampsSorted` (a conjunct of `LogInv`); `Refinement` (`ImplementsEventLog`).
The ring is read backwards from `head`, and the abstract log is that sequence. The
invariant has to say, apart from who holds the lock: which parts of the entry at
`head` the writer has filled in; that what a flush has shown is the first part of
that sequence; and that no stamp is ahead of the clock. An event enters the abstract
log at `AddHeader`, when its slot has stopped holding the oldest event, not when
`head` moves: the mapping counts the slot being written as the latest entry
(`Recent`), so `AddMsg` and `AddPublish` leave the abstract log as it is
(`HeaderPushes`, `MsgKeeps`, `PublishKeeps`).

**`SpinLockProofs`.** `SpinInvariant`, and from it `TypeCorrect`, `CountExact`,
`InterruptsOff`, `InterruptsBackOn`, `PanicFree`, `HoldingCorrect` and `Refinement`
(`ImplementsLocks`). An *activation* is the thread or the handler of a CPU. The
invariant relates the four things the code keeps apart: `locked` and `cpu` of a lock
with the activation that holds it, between the two steps in which they change;
`noff` with the locks held plus the calls under way (`NoffExact`); SIE and
`intena` with `noff` and with being in a handler; and it says that a handler runs
only over a thread that holds nothing. `PanicFree` says that "acquire", "release",
"pop_off - interruptible" and "pop_off" are not reached by callers that take locks
in order and release what they hold.

**`PipeProofs`.** `PipeInvariant` (`PipeInv`), `NoNeedlessSleep` and `Refinement`
(`ImplementsStream`). The inductive part of `PipeInv` is `Core`: types, with the
count of each end's references equal to the number of its descriptors; who holds the
lock; that an end is open while anybody has it or is about to close it; and a reason
for each sleeper that also covers the time between two bytes of a call, when the ring
has already changed and the wakeup is still to come. What is asked of a state with the
lock free (`SleepersMustWait`) and of a freed pipe (`FreedUnused`) follows
(`CoreSuffices`). One lemma per action shows that it keeps `Core`. For the stream,
`Counters` says how far two counters that wrap are apart, and `RoundKeeps` and
`PlacesDiffer` that a wrap does not move a place of the ring and that places less than
a ring apart differ, so a byte written goes behind the others (`WritePuts`) and a byte
read is the one in front (`ReadGets`). That the counters wrap at a multiple of the size
is used there: without it the theorem is false.

**`FSLogProofs`.** `FSLogInvariant` (`FSLogInv`) and `Refinement`
(`ImplementsCrashDisk`). What is not inductive, that the space `begin_op` reserves
suffices and that a crash at rest loses nothing, follows from `Core`. `Reserved` is
the argument for the space: the log's length and the reservations under way exceed
`LOGBLOCKS` by no more than the pairs of a call and a block it has written that the log
holds already. A call that is short of `MAXOPBLOCKS` blocks makes that number less than
the reservations (`PairsLess`), so its `log_write` finds room (`PanicOnlyFull`). The
pairs are counted without a sum, which would need induction: `RowsOf` lays them out in
rows of `MAXOPBLOCKS`, one row to a call. `CommitInOrder` follows a commit: what is not
home is in the log or about to be, `write_log` has copied the first `tail - 1` blocks,
from `write_head` on the disk's header has them all, and what `install_trans` has
passed is home. `RecoverInOrder` says it of recovery, which may be cut short and begin
again. A replay of the disk's log then gives what it must: the memory, from
`write_head` until the header is erased (`ReplayCommitted`); what it gave before, when
a block of it goes home (`ReplayKept`); and the home blocks, when it is empty. So
`write_head` alone maps to the abstract commit (`WriteHeadMaps`), and every other
write to the disk, before or after it or in recovery, maps to a stutter.

**`BufferCacheProofs`.** `CacheInvariant` (`CacheInv`, which is inductive) and
`Refinement` (`ImplementsStore`). Besides the counts, `CacheInv` says who holds the lock
of a buffer (`HoldersExact`) and that content differs from the disk only in a buffer that
is pinned or about to be logged or written (`PinnedOrWritten`), which makes recycling
safe: `FreeUnused` turns `refcnt = 0` into "no thread, no pin, no lock", and
`BgetMissMaps` then shows that taking the buffer away changes the content of no block.
`OldestFree` says that the scan from the tail finds a free buffer if there is one,
`ListKept` that `brelse` loses none from the list. `NoPanic` is a counting argument
(`BufferLeft`) and holds where there are as many buffers as threads and blocks to pin;
with its `NBUF` of 30 and up to 30 blocks in the log the kernel does not promise that.

**`SchedProofs`.** `SchedInvariant` (`SchedInv`) and `Refinement` (`ImplementsLock`), for
any set of CPUs and any number of processes. The parts of `SchedInv` that are not
inductive, that a process whose lock is free is RUNNING exactly when a CPU has it
(`RunningOnCPU`), that interrupts follow the thread and that no wakeup is lost, follow
from `Core` (`CoreSuffices`). `ThreadsInPlace` says, for every place a thread can be at,
what its state is and on which side of the context switch its lock is held;
`LocksInPlace` that a CPU holds at most the lock of the process its scheduler is at and
the sleep lock's spinlock, so that `noff`, a cardinality, is a sum of two conditions
(`NoffIs`); from it the panics of `sched` are out of reach (`OwnLock`). `IntrsInPlace`
follows `intr` and `intena` from the first lock of `acquiresleep` into `sched` and out
again. `SleepersWoken` is the argument against lost wakeups: from the look at the sleep
lock to the release of its spinlock the lock stays held (`sleep`, `sleep_release`), and
from there on it is held or a wakeup has yet to come to this process, which waits for
`p->lock` (`SleepReleaseKeeps`, `WakeOneKeeps`).

`TableInvariant` (`TableInv` of `ProcTable`, which is inductive) stands in the same
module. What makes `NoLostExit` inductive is `UnderWaitLock`: `kexit` wakes its parent
before it becomes a ZOMBIE, which is safe because it keeps `wait_lock` in between and
its parent cannot look (`ExitZombieKeeps`); and what `kwait`'s scan has found stays so up
to the sleep, because nobody exits or forks into `parent` without that lock
(`WaitSleepKeeps`). `CallsInPlace` says that a slot is USED while exactly one process
forks it, `Family` that a parent is alive, so that a freed slot has no children left
(`WaitReapKeeps`), and `PidsInOrder` that a pid given is new. `OnlyNamedKilled` is false
once `kkill(0)` is called, which it says (section 6).

`UserSafety` (`UserIntact` of `Traps`) and `KernelSafety` (`KernelIntact`), for any CPUs,
processes and irqs, from one inductive invariant, `TrapInv`. It says where everything a
program or a kernel thread needs is at every point of the way in and out. A thread on a
CPU has its registers there (`KernelAt`), or a nested trap has them on the thread's stack
(`Held`); a program's are in its trapframe from `uservec` to `userret` (`FrameAt`,
`Trapped`), together with the stack and the hartid for the next `uservec` (`Entry`); a
thread that waits has its callee-saved registers in its context (`Switched`), which is
enough because the others are on its stack or dead. Interrupts are on only where the
caller-saved registers can be given back (`OnPoints`), which is what makes `kernelvec`
right, and `tp` is not given back, because the thread may wake up on another CPU
(`KernelretStep`, where restoring it fails). The delicate point is `PrepareReturnStep`:
between it and `userret` no interrupt comes, so the hartid in the trapframe is still
this CPU's. A CPU's step is shown to keep what is said of that CPU; `LocalStep` and
`OtherCPUs` do the rest, once, because no two CPUs run the same thread (`OnOne`). Only
`swtch` needs more (`LeaveStep`, `PickStep`). That the kernel's map fits (`MapFit`) is
arithmetic over the 64 stacks and any size of the text: the regions do not overlap, a
page on either side of each stack traps, and RAM is mapped without a hole.

**`PanicPathProofs`.** `PathSafety` (`PathInv`), from `Safety`. `PanicPath` keeps what a
CPU has still to do as a list of steps, into which functions put theirs, so the invariant
is a proof outline. A `Point` says what is owed at a place of the code: how many
pop_offs, which locks, what SIE is below them, and how far a `printf` and a save of the
context have come. `Effect` gives for each kind of step the points it leads from and to,
and `Leads` says that a list leads from one point to another, through some annotation of
its steps. Outlines are composed (`LeadsOn`) and taken apart (`LeadsApart`), and a panic
elsewhere invalidates none (`LeadsStill`); so each C function has a lemma (`SaveLeads`,
`DumpLeads`, `PanicLeads`, `LogTestLeads`, ..., `BodyLeads`). The invariant says that
each CPU's list leads from a point that describes its `noff`, SIE, locks, characters
and part of the context (`Data`) to one where nothing is owed (`Outline`), and that two
saves are under way at once only if `overlap` says so (`SavesApart`). `OthersKeep` is
the interference: no step of a CPU touches what describes another. A point only bounds
what holds after somebody has panicked, because `printf` and `uartputc_sync` then skip
a `pop_off`, or a `release`, they owe: `noff` is at least what is owed, and a lock may
stay held. The delicate steps are the acquires (`AcquireCallStep`: never of a lock the
CPU holds), `release` (`ReleaseKeeps`), the end of a `printf` overtaken by a panic
(`PrintfEndStep`), the timer in every place where nothing is owed (`TimerIntrStep`) and
`sched`, which panics if a panic elsewhere has left `noff` too high (`SchedStep`). The
annotations are quantified, so TLC cannot evaluate `IInv` itself; it checks the conjuncts
of `PathInv` that follow from it.

**`ConsoleProofs`.** `RingInvariant` (`RingInv`), `RingRefinement` (`ImplementsInput`)
and `UartInvariant` (`UartInv`, which is inductive). The ring has three indices that
wrap: `IndexArithmetic` and `IndicesMove` turn their distances into differences once and
for all, `PlacesApart` says that one stretch of the ring has each place once. `RingCore`
adds to the types that nobody sleeps while something is entered, also while the lock
is held (`ReadersInPlace`), and that the line being edited holds no newline
(`LineOpen`): that is why `^U`, which stops at one, erases the whole line (`KillsAll`).
For `LineInput`, a stretch of the ring is a sequence (`StretchIs`), and a character
stored goes behind it (`StoreTypes`), one erased or read is taken from its ends
(`EraseCharErases`, `ReadGets`).

The same module has the disk driver: `DescsInvariant` (`DescsInv` of `VirtioDisk`, which
is inductive) and `DiskRefinement` (`ImplementsService`). The inductive part says where
a request is. `ChainsInPlace` gives its descriptors and what they hold; `StagesInPlace`
has its head in the avail ring, in the device, in the used ring or nowhere once its
thread may go on; `RingsInPlace` says that a ring has its entries at the places from one
index to the other, each once. That a ring never overflows is then a count: no more
requests than descriptors (`DescsAccounted`), less one ring place. A chain freed was in
use (`NoPanic`), and frees enough for whoever sleeps, who is woken. For `DiskService`,
the device's transfer is the one step that is seen: the block and buffer it uses are the
ones the thread asked for, although the device finds them through `ops` and `addr`.

And it has the file table: `DescInvariant` (`DescInv` of `Descriptors`) and
`DescriptorsRefinement` (`ImplementsDescriptors`). `DescInv` counts: an entry's `ref` is
the number of descriptors, calls and closes under way that stand for it, and likewise for
pipe ends and inodes. It is not inductive alone. `CallsInPlace` says how many entries a
call has been given at each place, that they differ and that nothing is left to close
before it ends, so that `Given` and `GiveBack` find what they hand on; `EntriesInPlace`
that an entry is of no type while it is free or a call has just been given it, with the
`ref` of 1, and that a type goes with an object of its kind. With both, `FdInv` is
inductive (`FdInit`, `FdNext`). A count over processes is the cardinality of a set of pairs, so it
changes by what one process's set changes (`CountStep`, and from it `RefStep`, `TodoStep`
and `EntriesStep`) and no sum is needed; a step that closes, dups or gives back is then a
lemma that balances the three (`ClosesFd`, `DupInv`, `GiveBackStep`), and `fork` balances
all entries at once. That the count is exact is used the other way round as well: an
entry of `ref` 1 that a call has been given, or that a close lets go, has no descriptor
(`MadeAlone`, `LastUnseen`). For `FdTable`, what a
descriptor shows is the object of its entry. Steps that write entries keep those with a
descriptor (`AllKept`): `filealloc` reuses, `pipealloc` fills and `fileclose` empties only
unseen ones. A new pipe has a page whose ends nobody shows, because by `EndsExact` an
entry for one would keep it open (`EndsUnseen`).

**Only model-checked**: `Memory`, `Inodes`, `Files`, `Shell`,
`Format` and `Heap`; and all liveness
(`LockReleased`, `CallsReturn`, `ReportedUnlessSecondPanic`, `OrphansReaped`,
`PromptReturns`, `WriteReturns`), which is out of the prover's reach, as are ENABLED
and induction over data. `Format` and `ShellParse` are recursive over their input, so what they
compute for every input cannot be proved with it either; they are compared with a
reference definition over bounded inputs. `Files` begins with the disk that `Mkfs` makes,
a fold over the contents of its files: that its blocks are in one place each to begin
with is induction over data too, so `FilesInv` has no proof of its first step. `Memory`
and `Heap` count pages and units with folds; their invariants could be proved of a model
that has sets and functions there instead, as `Descriptors` has. `Inodes` has no fold, and no proof yet: that a
link count is never lowered below 0 rests on `LinksExact`, and that on where each call
is, so its invariants would have to be proved together.

## 6. Where the code differs from what it says

`claim_reported` is a run; for the others the model contains the step and the
property of the run excepts exactly it, or the model shows the code does it.

1. *The message of a panic may never appear* (`paniclog.c:300`, `FirstPanicReported`).
   `panic` takes `tickslock` and `logbuf.lock` before it prints. A CPU that was inside
   `printf` when `panicking` was set leaves a `push_off` behind, panics in its next
   yield with its own `p->lock` held, and the clock interrupt of the first panicking
   CPU waits for that lock holding `tickslock`. `ReportedUnlessSecondPanic` is what
   does hold.
2. A flush in a panic is skipped when another CPU is flushing (`paniclog.c:231`),
   contrary to "circular buffer is printed ... before the panic message".
3. The last of two simultaneous panics keeps the crash context, not the first
   (`paniclog.c:261`).
4. `panicked` does not silence `uartwrite` (`uart.c:93`).
5. `log_test` and `crashme` make the context valid without a panic (`paniclog.c:432`).
6. `sys_dumppanic` copies the context while it may be written (`sysproc.c:96`), so a
   valid magic number does not vouch for the copy. `MagicPublishes` speaks of the
   context itself, and of saves that do not overlap.
7. `log_write` looks whether the log is full before it looks whether the block is in
   it (`log.c:221`): `PanicOnlyFull` excepts that.
8. `kkill(0)` marks unused slots, whose next process dies (`proc.c:599`). The run
   `proc_table` leaves 0 and init out of the arguments of kill.
9. A kill between the test of `killed` and `sleep` is missed (`proc.c:413`).
10. A killed writer leaves bytes without waking the readers (`pipe.c:84`).
    `SleepersMustWait` excepts that.
11. `uartwrite` writes while `uartputc_sync`'s character is being sent (`uart.c:86`);
    the FIFO absorbs it.
12. `iput` frees an inode and drops its own reference later (`fs.c:361`); when the
    inode is allocated again in between, unlinked and closed, it is leaked until the
    next boot. `NoOrphans` excepts it (`revived`).
13. `..` of a removed directory may lead to a freed inode, and `ilock` panics
    (`fs.c:316`); and
14. `create` and `link` may put an entry into a directory that has been removed while
    it was unlocked (`sysfile.c:254`, `151`), whose inode then keeps a link for good.
    `InodeInv` and `LinksExact` hold up to the first such use (`strayed`).
15. `iput` does not clear `valid` when `ref` reaches zero; `iget` does (`fs.c:354`).
16. `mkfs` makes the root directory one block longer than it is when its entries fill
    the last block exactly (`mkfs/mkfs.c:168`). A search or a read of the directory
    then allocates a block, outside of a transaction if it is a plain read, and
    panics. The run `spin_lock` reaches it; `FilesInv` excepts it (`Holed`).
17. When a copy from user memory fails in the middle of a block, `writei` leaves the
    bytes copied so far in the buffer without logging them (`fs.c:545`): they are
    read until the buffer is recycled, and then gone. `FileStore` lets them be unknown.
18. `vmfault` has nothing to do (`vm.c:448`): `sys_sbrk` ignores the lazy flag.
19. `pause` does not pause (`sysproc.c:66`).
20. The walk of the crash context looks for a frame at `s0` and `s0+8`, where there is
    none (`paniclog.c:323`): the record of this ABI is below `s0`. What it prints need
    not be return addresses, and it may fault, which `PanicPath` allows.
21. `malloc` of 2^31 bytes or more gives memory that is not there
    (`user/umalloc.c:54`): the number of bytes goes through the `int` of `sbrk`.
22. `vprintf` of user programs is said to understand only `%d`, `%x`, `%p`, `%c` and `%s`
    (`user/printf.c:50`). It converts `%u`, the `l` and `ll` forms and `%%` as well, as
    `printf` of the kernel does, and `FormatInv` says so.

## 7. What the models assume, and leave out

* Spinlock clients: the mutual exclusion of `SpinLock`. Memory is sequentially
  consistent: the code has a fence in `acquire` and `release` and everything else that
  is shared is a single word.
* A block write to disk is atomic, the header of the log included. The device serves
  requests in any order, once each.
* `PanicPath`: each CPU has one process; the text of a `printf` is one character and
  `printf`s that follow each other are one.
* `ProcTable`: `RUNNABLE` stands for `RUNNING` too; the files and the memory of a
  process are in `Descriptors` and `Memory`.
* `Traps`: a register holds a mark of who put its value there. `main` sets up what
  traps need; the initial states of the other models are what the other `init`
  functions leave. The stacks are mapped as `proc_mapstacks` maps them, without depth.
* `Memory`: one call at a time, as `kmem.lock` and the ownership of page tables give
  it; other CPUs show only in how few pages a call finds. A page table has three levels
  of two entries, where the machine has three of 512. The header of a program file is
  whole or cut short; other checks of it (magic numbers, alignment) are left out.
* `BufferCache`: a thread holds one buffer at a time; at most `MaxPinned` are logged.
  `NBUF` and `LOGBLOCKS` are both 30 in `param.h`, so the kernel itself has no buffer
  to spare when the log is full.
* `FSLog`: once a call has panicked the instance stops. Which blocks a call writes is
  left open; `Files` shows for reads, writes and truncation that they keep to
  `MAXOPBLOCKS`. That count (`LogFits`) relies on one bitmap block, as `FSSIZE` is below
  `BPB`.
* `Inodes`: the table has an entry for each inode, a process has one file and does not
  fork, opens without `O_CREATE` are read-only; the content of files is in `Files`, and
  running out of blocks is a choice of `dirlink`. `unlink` of `.` and `..` is refused
  before anything changes and is left out. No call begins after a removed directory
  was used; those that had begun end.
* `Descriptors`: devices are files that are inodes; `kill` does not interrupt calls in
  the table, and `copyout` of two descriptors fails or does not.
* `Shell`: the programs are echo and cat; a write that meets a full pipe or a closed
  end does what `Pipe` shows. No process is killed, so the `wait` of init always has the
  shell to wait for. When init's fork fails it exits, and the kernel panics with "init
  exiting" (`NoShell`): there `PromptReturns` promises nothing. When its child cannot
  exec `sh` the child exits and init starts another (`NoExec`). After a failure `LinesDone`
  promises no output, but the descriptors stay clean. Messages of failure are not shown.
* `Format`: an argument has the type its conversion asks for, and numbers have the
  digits and widths of 4 and 8 bits.
* `Heap`: programs free what they have, once, and ask for less than 2^31 bytes.
* Not modelled: `mknod` and `skipelem` (paths are sequences of names); relative paths;
  `plicinit`, `virtio_disk_init` and the like, which only store to device registers;
  the string functions of `string.c` and `ulib.c`; `usertests`, `grind` and the other
  utilities, which are tests and clients of the kernel; `test-xv6.py`. They keep no
  state that another part relies on, or are drivers of the system from outside.
* Earlier copies of the changed files are not built.

## 8. Plan

Done, in this order: the event log and the panic path, which are the repository's
own code; spinlocks, which they stand on; the file system log; the scheduler and
process table; pipe, disk, buffers, console; inodes; then traps with boot, memory
with exec, the UART, the contents of files with mkfs, the shell, descriptors, the
heap and formats.

Next, most important first:

1. Proofs of `RefExact` of `Inodes` and of the page accounts of `Memory`.
2. `FSLog` over `BufferCache`: the two composed through `bpin`, instead of through
   their abstractions; `Shell` over `Descriptors` and `Pipe` in the same way.
3. `Inodes` with relative paths, `chdir` and a file shared by fork.
