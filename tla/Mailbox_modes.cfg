SPECIFICATION FairSpec
CONSTANTS
  Threads = {t1, t2}
  Unlocked = {}
  Modes <- AllModes
  MaxReq = 3
  None = None
INVARIANTS BufferExclusive AnswersMatch
PROPERTIES RequestsEnd ImplementsExchange
