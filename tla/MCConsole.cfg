CONSTANTS
  Reader = {p1, p2}
  NoReader = NoReader
  INPUT_BUF_SIZE = 3
  Wrap = 6
  MaxLen = 2
  Writer = {w1, w2}
  Sync = {s1, s2}
  IntrHandler = IntrHandler
  Nobody = Nobody
  BATCH = 1
  MaxSync = 2
  MaxTyped = 2
  Thread = {t1}
  NoThread = NoThread
  Block = {k1}
  Val = {0}
  NUM = 3
  IdxWrap = 3
  Proc = {1, 2}
  First = 1
  NFILE = 3
  NOFILE = 2
  Page = {page}
  Inum = {0, 1}
  Dir = {0}
  Root = 0
  Opens = {1}
SPECIFICATION MCSpec
INVARIANTS RingInv UartInv DescInv
PROPERTIES ImplementsInput WriteReturns ImplementsDescriptors
CHECK_DEADLOCK FALSE
