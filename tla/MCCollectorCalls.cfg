SPECIFICATION Spec
CONSTANTS
  MaxFailures = 2
  ResetTimeout = 2
  Callers = {c1, c2, c3}
  FailureBound = 4
PROPERTIES
  CoolDownRespected
  KeepsPromise
  Recovers
