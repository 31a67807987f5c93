SPECIFICATION Spec
CONSTANTS
  MaxTick = 5
  MaxSaves = 2
  Levels <- SmallLevels
  Counts = {1, 2}
  Extras = {}
INVARIANTS StepPerChange CleanIsOnDisk TravelInOrder WritesInOrder NothingUnrecorded
CHECK_DEADLOCK FALSE
