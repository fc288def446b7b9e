SPECIFICATION FairSpec
CONSTANTS
  Count = 3
  Pages = {p1, p2}
  Write = 1
  Budget = 1
  BiasMax = 1
  MaxHold = 1
  MaxBufs = 1
  Fates = {"frag"}
  Progs = {FALSE}
  None = None
VIEW RingView
PROPERTIES RxProgress
