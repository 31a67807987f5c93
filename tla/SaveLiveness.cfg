SPECIFICATION FairSpec
CONSTANTS
  Buffers = {1}
  Windows = {w1, w2}
  MaxTick = 2
  MaxSeq = 2
  LinkFails = TRUE
  AsyncHandlers = TRUE
  HandlerWrites = FALSE
CHECK_DEADLOCK FALSE
PROPERTIES SnapshotOrder WqaSettles
