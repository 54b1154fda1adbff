CONSTANTS
  CPU = {c1, c2}
  outer = outer
  inner = inner
  Lock = {outer, inner}
  NoCPU = NoCPU
  NoLock = NoLock
  Order <- OuterInner
  Proc = {1, 2}
  File = {0, 1, 2, 3}
  NB = 7
  NDIRECT = 1
  BSIZE = 2
  MAXOPBLOCKS = 6
  Sizes = {1, 3}
  MaxCalls = 3
SPECIFICATION MCSpec
INVARIANTS SpinInv HoldingExact FilesInv
PROPERTIES ImplementsLocks ImplementsFiles
