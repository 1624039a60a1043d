SPECIFICATION MCSpec
CONSTANTS
  Requests = {r1}
  Probes = {r1}
  Checks = {service, registry}
  NoStatus = NoStatus
  NoResult = NoResult
  Callers = {s1, s2}
  Metrics = {jobs}
  Labels = {user}
  Wildcard = Wildcard
  Series = Series
  None = None
  Limits <- MCLimits
  Samples <- MCSamples
  Capacity = 1
  MaxScrapes = 2
  MaxChanges = 1
INVARIANTS
  OneAnswer
  ReportIsWorst
  SamplesAccounted
  LimitHolds
PROPERTIES
  RequestsReturn
  ScrapesEnd
CHECK_DEADLOCK FALSE
