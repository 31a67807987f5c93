SPECIFICATION SeamFairSpec
CONSTANTS
  MaxAttempts = 1
  MaxCmds = 1
  s1 = s1
  Spawns = {s1}
PROPERTY FailsLoud
CHECK_DEADLOCK FALSE
