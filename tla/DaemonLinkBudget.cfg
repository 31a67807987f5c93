SPECIFICATION Spec
CONSTANTS
  MaxAttempts = 3
  MaxCmds = 2
INVARIANT BudgetReset
CHECK_DEADLOCK FALSE
