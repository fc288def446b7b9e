SPECIFICATION Spec
CONSTANTS
  MemTx = 1
  MemXdp = 0
  MemRx = 1
  DescMin = 2
  DescMax = 4
  DescMultiple = 2
  Jumbo = TRUE
  MaxResizes = 2
INVARIANT FreesOwn
CHECK_DEADLOCK FALSE
