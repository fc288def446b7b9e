SPECIFICATION FairSpec
CONSTANTS
  Devs = {"vf", "e610", "hv"}
  Tops = {17, 15, 11}
  MaxEvents = 2
INVARIANTS SessionInv
PROPERTIES MuteEnds SessionRestored CarrierComes
