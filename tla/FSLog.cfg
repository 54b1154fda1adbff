\* Three calls reserve a log of two reservations; it fills, and a panic stops it.
CONSTANTS
  Op = {o1, o2, o3}
  Block = {b1, b2, b3, b4}
  NoBlock = NoBlock
  MAXOPBLOCKS = 2
  LOGBLOCKS = 4
  OpBlocks = 2
  MaxWrites = 5
  MaxCrashes = 2
SPECIFICATION Spec
INVARIANTS FSLogInv
PROPERTIES ImplementsCrashDisk
SYMMETRY Symmetry
CHECK_DEADLOCK FALSE
