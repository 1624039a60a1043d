SPECIFICATION Spec
CONSTANTS
  Schedules = {jobs}
  Chains = {c1, c2, c3}
  Checkers = {monitor}
  Caller = main
  None = None
INVARIANTS
  ScheduleAlive
  NoRearmAfterStop
PROPERTIES
  DisabledStops
  KeepsCollecting
CHECK_DEADLOCK FALSE
