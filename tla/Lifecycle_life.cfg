SPECIFICATION FairSpec
CONSTANTS
  Adverse = {"queue_reset", "stale_schedule"}
  None = None
INVARIANTS BitsTell UpHasRings GivenUp ResetAlone
PROPERTIES CallsReturn RequestsServed
