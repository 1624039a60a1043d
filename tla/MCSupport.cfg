SPECIFICATION MCSpec
CONSTANTS
  Types = {gauge}
  Keys = {k1, k2}
  MaxItems = 3
  MaxBatchSize = 2
  RetryAttempts = 1
  Operations = {o1, o2}
  Continuous = {round}
  Readers = {r1}
  ProfileSizes = {1}
  StorageLimit = 2
  MaxStored = 3
  Nobody = Nobody
  ApiCalls = {jobs, nodes}
  Testers = {t1}
  MaxRetries = 1
  MaxRetryCount = 2
INVARIANTS
  ItemsConserved
  NothingOutlived
PROPERTIES
  EarlyItemsSettle
  ProfilingReturns
  ApiCallsReturn
CHECK_DEADLOCK FALSE
