SPECIFICATION FairSpec
CONSTANTS
  c1 = c1
  c2 = c2
  c3 = c3
  s1 = s1
  Clients = {c1, c2, c3}
  Settings = {s1}
  MaxIdleCount = 0
  MaxAge = 1
  Scenarios <- AllScenarios
CHECK_DEADLOCK FALSE
INVARIANTS PoolTypeOK CountersMatch ActiveWithinCapacity
PROPERTIES IdleReachesWaiter CloseWakesWaiters
