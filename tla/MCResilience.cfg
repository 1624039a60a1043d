SPECIFICATION MCSpec
CONSTANTS
  Callers = {c1, c2, c3, c4}
  FailureThreshold = 2
  ResetTimeout = 2
  HalfOpenRequests = 2
  FailureBound = 5
  Users = {u1, u2, u3}
  Resetters = {r1}
  Names = {reads, writes}
  NoBreaker = NoBreaker
  CacheKeys = {k1, k2, k3}
  StoreKeys = {k1, k2, k3}
  Getters = {g1, g2}
  Clients = {g1, g2}
  Sizes <- TwoSizes
  MaxEntries = 2
  MaxSize = 2
  ChangeTracking = TRUE
  NoEntry = NoEntry
  MaxSets = 3
  MaxEvictions = 2
SYMMETRY CallerSymmetry
INVARIANTS
  TestsBounded
  CoolDownPeriodIsTested
  NoStrayBreaker
  CacheAccounts
  OrderIsRecency

