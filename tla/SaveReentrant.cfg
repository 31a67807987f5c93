SPECIFICATION Spec
CONSTANTS
  Buffers = {1}
  Windows = {w1}
  MaxTick = 1
  MaxSeq = 3
  LinkFails = FALSE
  AsyncHandlers = FALSE
  HandlerWrites = TRUE
CHECK_DEADLOCK FALSE
INVARIANT OneWriteInFlight
