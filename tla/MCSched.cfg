CONSTANTS
  CPU = {c1, c2}
  NoCPU = NoCPU
  NPROC = 3
  Hart = {h0, h1}
  Hart0 = h0
  User = {u1, u2}
  Irq = {disk}
  TextPages = 8
  MaxPid = 4
  KillPid <- NamedPids
  Task = {1, 2}
  First = 1
  NPAGES = 10
  PGSIZE = 2
  FAN = 2
  Image <- Images
  Args <- ArgLists
  USERSTACK = 1
  MAXARG = 2
  Delta <- Deltas
  MaxCalls = 5
SPECIFICATION MCSpec
INVARIANTS SchedInv UserIntact KernelIntact
PROPERTIES ImplementsLock
SYMMETRY CPUSymmetry
