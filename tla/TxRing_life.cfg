SPECIFICATION Spec
CONSTANTS
  Count = 5
  Gap = 1
  DescNeeded = 2
  MaxData = 1
  Skbs = {s1, s2}
  Ctxs = {TRUE}
  Mores = {FALSE}
  SleepOutlastsPoll = TRUE
  None = None
VIEW RingView
SYMMETRY SkbSymmetry
INVARIANTS TypeOK XmitExcluded RingInv NothingLost
PROPERTIES PendingStable ImplementsQueue
