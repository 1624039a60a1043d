SPECIFICATION Spec
CONSTANTS
  Schedules = {jobs}
  Chains = {c1, c2}
  Checkers = {monitor}
  Caller = main
  None = None
PROPERTY StopReturns
CHECK_DEADLOCK FALSE
