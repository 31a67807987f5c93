SPECIFICATION Spec
CONSTANTS
  MaxAttempts = 3
  MaxCmds = 2
INVARIANT ResyncedAfterReconnect
CHECK_DEADLOCK FALSE
