CONSTANTS
    p1 = p1
    p2 = p2
    p3 = p3
    None = None
    CellOf <- OneCell
    Coordinators = {"orch1", "orch2"}
    CoordinatorOf <- Orchs2
    Poolers <- Pair
    InitialRule <- PairRule
    NumRounds = 2
    MaxWrites = 1
    MaxCrashes = 1
    MaxCohortChanges = 0
    MaxAborts = 1
    MaxRewindLoss = 1
SPECIFICATION Spec
INVARIANTS TypeOK RuleHistoryOrdered OneWinner
PROPERTIES PromisesKept
CHECK_DEADLOCK FALSE
