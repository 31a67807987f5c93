SPECIFICATION Spec
CONSTANTS
  MAX_FRAME = 4
  MAX_DEPTH = 5
  MAX_VALUES = 4
  MaxRead = 2
  MaxBuf = 6
  Frames <- DecodedFrames
  Bytes = {0, 1, 2, 129, 145, 146, 196, 199, 204, 212, 217, 220}
INVARIANTS AcceptedDecodes RefusalJustified
CHECK_DEADLOCK FALSE
