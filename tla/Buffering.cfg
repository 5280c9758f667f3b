SPECIFICATION FairSpec
CONSTANTS
  r1 = r1
  r2 = r2
  s1 = s1
  NoRequest = NoRequest
  Requests = {r1, r2}
  Shards = {s1}
  ShardOf <- OneShard
  SingleQuery = {r1}
  DrainConcurrency = 1
  MaxBufferingRetries = 1
  Scenarios <- AllScenarios
CHECK_DEADLOCK FALSE
INVARIANTS OneOwner SlotsAccounted DrainBackpressure
PROPERTIES BufferingEndsForCause EveryRequestAnswered ShardReturnsToIdle
