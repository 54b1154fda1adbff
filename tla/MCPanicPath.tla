------------------------------ MODULE MCPanicPath ------------------------------
(* Small instances of PanicPath for TLC. *)
EXTENDS PanicPath, TLC

TwoCPUs == {0, 1}

\* Every system call and a kernel bug on one CPU, against a process that logs,
\* flushes and saves a context on the boot CPU, which also runs the clock.
MixedWork == [c \in CPU |-> IF c = Boot THEN {"logtest"}
                            ELSE {"crashme", "dumppanic", "write", "bug"}]

\* the pair of calls that the documented claim is checked against
CrashmeAndBug == [c \in CPU |-> IF c = Boot THEN {"bug"} ELSE {"crashme"}]
===============================================================================
