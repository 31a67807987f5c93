SPECIFICATION Spec
CONSTANTS
  Buffers = {1}
  Windows = {w1}
  MaxTick = 3
  MaxSeq = 1
  LinkFails = FALSE
  AsyncHandlers = FALSE
  HandlerWrites = FALSE
CHECK_DEADLOCK FALSE
INVARIANT CleanMatchesDisk
