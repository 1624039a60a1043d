SPECIFICATION DegradationSpec
CONSTANTS
  MaxFailures = 1
  ResetTimeout = 1
  Collectors = {jobs, nodes}
  Executors = {e1}
  Updaters = {u1}
  Resetters = {r1}
  UseCachedMetrics = TRUE
  CountBound = 1
PROPERTY
  WalkIsStable
  OperationsReturn
VIEW WithoutGauges
