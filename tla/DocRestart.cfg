CONSTANTS
  k1 = k1
  k2 = k2
  Keys = {k1}
  Buffers = {"a"}
  SyncKind <- OneIncremental
  GiveUp = 2
  MaxEdits = 1
  MaxCrashes = 1
  MaxStops = 1
  MaxOps = 1
SPECIFICATION FairSpec
PROPERTY RestartReopens
CHECK_DEADLOCK FALSE
