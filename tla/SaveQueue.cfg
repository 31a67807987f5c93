SPECIFICATION Spec
CONSTANTS
  Buffers = {1, 2}
  Windows = {w1}
  MaxTick = 1
  MaxSeq = 2
  LinkFails = TRUE
  AsyncHandlers = TRUE
  HandlerWrites = FALSE
CHECK_DEADLOCK FALSE
INVARIANTS OneWriteInFlight GateHasOwners AllAckedThenQuit
PROPERTY AckIsExact
