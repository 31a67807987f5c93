SPECIFICATION Spec
CONSTANTS
  MaxTick = 3
  MaxSaves = 2
  Levels <- SmallLevels
  Counts = {1, 2}
  Extras = {}
PROPERTY OneShotIsAStep
CHECK_DEADLOCK FALSE
