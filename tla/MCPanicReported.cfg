CONSTANTS
  CPU <- TwoCPUs
  Boot = 0
  NoCPU = NoCPU
  Work <- CrashmeAndBug
  LOG_SIZE = 1
  MaxCalls = 1
  MaxTimer = 1
  MaxFaults = 1
SPECIFICATION FairSpec
PROPERTIES FirstPanicReported
CHECK_DEADLOCK FALSE
