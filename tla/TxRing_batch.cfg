SPECIFICATION SteadySpec
CONSTANTS
  Count = 5
  MaxData = 1
  Gap = 1
  DescNeeded = 2
  Skbs = {s1, s2, s3}
  Ctxs = {TRUE}
  Mores = {TRUE, FALSE}
  SleepOutlastsPoll = TRUE
  None = None
PROPERTIES StoppedQueueWakes
