CONSTANTS
  Thread = {t1, t2}
  Nobody = Nobody
  Block = {k1, k2, k3, k4}
  NoBlock = NoBlock
  Val = {0, 1}
  NBUF = 3
  MaxPinned = 1
SPECIFICATION Spec
INVARIANTS CacheInv
PROPERTIES ImplementsStore
SYMMETRY Symmetry
