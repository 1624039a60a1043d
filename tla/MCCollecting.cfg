SPECIFICATION MCSpec
CONSTANTS
  Collectors = {jobs, nodes}
  AllCalls = {all}
  NowCalls = {now}
  MaxConcurrency = 1
  None = None
  Timed = {jobs}
  MaxStarts = 3
  NoStart = NoStart
  PipeCapacity = 1
  MaxMetrics = 3
INVARIANTS
  MetricsDelivered
  SlotsAccounted
  ResultsComplete
  PanicOnlyByReuse
  TimersAlive
PROPERTIES
  PipeReturns
  CallsReturn
  StopEndsTimers
CHECK_DEADLOCK FALSE
