CONSTANTS
  k1 = k1
  k2 = k2
  Keys = {k1}
  Buffers = {"a"}
  SyncKind <- OneIncremental
  GiveUp = 2
  MaxEdits = 1
  MaxCrashes = 0
  MaxStops = 1
  MaxOps = 1
SPECIFICATION Spec
INVARIANT NoPhantomClient
CHECK_DEADLOCK FALSE
