CONSTANTS
  CPU = {c1}
  NoCPU = NoCPU
  Hart = {h0}
  Hart0 = h0
  User = {u1}
  Irq = {disk}
  TextPages = 8
  NPROC = 4
  MaxPid = 4
  KillPid <- NamedPids
  Task = {1, 2}
  First = 1
  NPAGES = 26
  PGSIZE = 2
  FAN = 2
  Image <- Images
  Args <- ArgLists
  USERSTACK = 1
  MAXARG = 2
  Delta <- Deltas
  MaxCalls = 5
SPECIFICATION TableSpec
INVARIANTS TableInv MemInv
PROPERTIES OrphansReaped ImplementsUserMemory
