SPECIFICATION FullSpec
CONSTANTS
  MaxTick = 3
  MaxSaves = 2
  Levels <- SmallLevels
  Counts = {1, 2}
  Extras = {"rubout"}
INVARIANT NothingUnrecorded
CHECK_DEADLOCK FALSE
