SPECIFICATION SteadySpec
CONSTANTS
  Count = 3
  Pages = {p1, p2, p3}
  Write = 1
  Budget = 1
  BiasMax = 2
  MaxHold = 2
  MaxBufs = 1
  Fates = {"frag"}
  Progs = {FALSE}
  None = None
SYMMETRY PageSymmetry
INVARIANTS MappingsOnRing
