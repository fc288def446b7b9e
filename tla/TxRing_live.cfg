SPECIFICATION FairSpec
CONSTANTS
  Count = 3
  MaxData = 1
  Gap = 1
  DescNeeded = 1
  Skbs = {s1, s2}
  Ctxs = {TRUE}
  Mores = {FALSE}
  SleepOutlastsPoll = TRUE
  None = None
PROPERTIES TxRecovers
