\* Two CPUs, a buffer of three slots: it fills, wraps and overwrites.
\* Pipes of a byte; one fork, exec, open or pipe that fails.
CONSTANTS
  CPU = {c1, c2}
  Event = {e1, e2}
  LOG_SIZE = 3
  MaxTicks = 1
  NoCPU = NoCPU
  NoEvent = NoEvent
  MAXARGS = 4
  Pid = {1, 2, 3, 4, 5, 6, 7}
  PIPESIZE = 1
  MaxFails = 1
  MaxLine = 5
  MaxTree = 3
  IntBits = 4
  LongBits = 8
  BufSize = 4
  MaxFormat = 5
  Requests = {0, 1, 17, 40}
  HeaderSize = 16
  MinUnits = 3
  Base = 1
  Start = 3
  MaxBrk = 11
SPECIFICATION MCSpec
INVARIANTS LogInv ShellInv ParserInv FormatInv HeapInv
PROPERTIES ImplementsEventLog LockReleased PromptReturns
