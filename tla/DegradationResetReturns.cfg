SPECIFICATION DegradationSpec
CONSTANTS
  MaxFailures = 1
  ResetTimeout = 1
  Collectors = {jobs}
  Executors = {e1}
  Updaters = {}
  Resetters = {r1}
  UseCachedMetrics = FALSE
  CountBound = 2
PROPERTY ResetReturns
