SPECIFICATION SteadySpec
CONSTANTS
  Count = 5
  Gap = 2
  DescNeeded = 2
  MaxData = 2
  Skbs = {s1, s2}
  Ctxs = {TRUE, FALSE}
  Mores = {FALSE}
  SleepOutlastsPoll = TRUE
  None = None
VIEW RingView
INVARIANTS HwReadsMapped NothingLost
PROPERTIES StoppedQueueWakes
