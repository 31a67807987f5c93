SPECIFICATION Spec
CONSTANTS
  Buffers = {1, 2}
  Windows = {w1, w2}
  MaxTick = 1
  MaxSeq = 1
  LinkFails = FALSE
  AsyncHandlers = FALSE
  HandlerWrites = FALSE
CHECK_DEADLOCK FALSE
PROPERTY WqClosesItsWindow
