CONSTANTS
  k1 = k1
  k2 = k2
  Keys = {k1}
  Buffers = {"a"}
  SyncKind <- OneIncremental
  GiveUp = 2
  MaxEdits = 1
  MaxCrashes = 2
  MaxStops = 1
  MaxOps = 2
SPECIFICATION FairSpec
PROPERTIES DocConverges EnsuredServes StopGoesDown
CHECK_DEADLOCK FALSE
