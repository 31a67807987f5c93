CONSTANTS
  k1 = k1
  k2 = k2
  Keys = {k1, k2}
  Buffers = {"a", "b"}
  SyncKind <- Mixed
  GiveUp = 2
  MaxEdits = 3
  MaxCrashes = 1
  MaxStops = 0
  MaxOps = 2
SPECIFICATION Spec
INVARIANT DeltasFit
CHECK_DEADLOCK FALSE
