------------------------------- MODULE MCSpinLock -------------------------------
(***************************************************************************)
(* Small instances of SpinLock, two locks taken in one order, and of Files,   *)
(* which share no variable: "part" says which of them a behaviour is about.   *)
(***************************************************************************)
EXTENDS SpinLock

CONSTANTS outer, inner,
          Proc, File, NB, NDIRECT, BSIZE, MAXOPBLOCKS, Sizes, MaxCalls
VARIABLES part, fs, off, lock, op, logged, got, panicked, calls

OuterInner == {<<outer, inner>>}

\* The inodes of the open files, the first of them the root directory's; what mkfs is
\* given: as many files as make a whole number of blocks of directory, and one more.
Opened(f) == CASE f = 0 -> 1 [] f = 3 -> 3 [] OTHER -> 2
TwoAndThree == {<< <<7, 7, 7>>, << >> >>, << <<7>>, <<7, 7>>, << >> >>}
files == <<fs, off, lock, op, logged, got, panicked, calls>>
Data == INSTANCE Files WITH Of <- Opened, Images <- TwoAndThree

MCInit == Init /\ Data!Init /\ part \in {"locks", "files"}
MCNext == \/ part = "locks" /\ Next /\ UNCHANGED <<part, files>>
          \/ part = "files" /\ Data!Next /\ UNCHANGED <<part, vars>>
          \/ /\ part = "files" /\ UNCHANGED <<part, vars, files>>
             /\ panicked # "no" \/ (calls = MaxCalls /\ \A p \in Proc : op[p].at = "user")
MCSpec == MCInit /\ [][MCNext]_<<part, vars, files>>

\* Data blocks, inodes and the log fit together (FilesInv of Files).
FilesInv == Data!FilesInv

\* Open files behave as FileStore says (ImplementsFiles of Files).
ImplementsFiles == Data!ImplementsFiles
===============================================================================
