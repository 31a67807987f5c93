SPECIFICATION SeamFairSpec
CONSTANTS
  MaxAttempts = 1
  MaxCmds = 1
  s1 = s1
  Spawns = {s1}
INVARIANTS ExitOnce InflightOwned
PROPERTIES LostSpawnExits KillEndsRun ChildrenReaped
CHECK_DEADLOCK FALSE
