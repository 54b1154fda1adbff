CONSTANTS
  Thread = {t1, t2, t3}
  NoThread = NoThread
  Block = {k1}
  Val = {0, 1}
  NUM = 7
  IdxWrap = 7
  Reader = {p1}
  NoReader = NoReader
  INPUT_BUF_SIZE = 1
  Wrap = 2
  MaxLen = 1
  Writer = {w1}
  Sync = {s1}
  IntrHandler = IntrHandler
  Nobody = Nobody
  BATCH = 1
  MaxSync = 1
  MaxTyped = 1
  Proc = {1}
  First = 1
  NFILE = 1
  NOFILE = 1
  Page = {page}
  Inum = {0}
  Dir = {0}
  Root = 0
  Opens = {0}
SPECIFICATION DiskSpec
INVARIANTS DescsInv
PROPERTIES ImplementsService
SYMMETRY DiskSymmetry
