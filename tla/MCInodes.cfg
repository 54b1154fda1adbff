CONSTANTS
  Proc = {p1, p2}
  NoProc = NoProc
  MaxOps = 3
  NINODES = 4
  Name = {"d", "f"}
  Calls <- SmallCalls
SPECIFICATION Spec
INVARIANTS InodeInv LinksExact
SYMMETRY Symmetry
