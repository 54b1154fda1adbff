CONSTANTS
  CPU <- TwoCPUs
  Boot = 0
  NoCPU = NoCPU
  Work <- MixedWork
  LOG_SIZE = 1
  MaxCalls = 1
  MaxTimer = 1
  MaxFaults = 1
SPECIFICATION FairSpec
INVARIANTS PathInv
PROPERTIES CallsReturn ReportedUnlessSecondPanic
CHECK_DEADLOCK FALSE
