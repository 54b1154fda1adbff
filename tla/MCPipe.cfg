CONSTANTS
  Proc = {p1, p2, p3}
  Creator = p1
  NoProc = NoProc
  Byte = {a, b}
  PIPESIZE = 2
  Wrap = 4
  MaxLen = 2
SPECIFICATION Spec
INVARIANTS PipeInv
PROPERTIES ImplementsStream
SYMMETRY Symmetry
CHECK_DEADLOCK FALSE
