SPECIFICATION Spec
CONSTANTS
  Count = 3
  Pages = {p1, p2}
  Write = 2
  Budget = 1
  BiasMax = 2
  MaxHold = 2
  MaxBufs = 2
  Fates = {"frag", "copy", "tx", "drop"}
  Progs = {TRUE, FALSE}
  None = None
VIEW RingView
SYMMETRY PageSymmetry
INVARIANTS RingInv HalvesExclusive PagesAccounted FramesWhole
