CONSTANTS
    p1 = p1
    p2 = p2
    p3 = p3
    None = None
    CellOf <- OneCell
    Coordinators = {"orch1", "orch2"}
    CoordinatorOf <- Orchs2
    Poolers <- Trio
    InitialRule <- TrioRule
    NumRounds = 2
    MaxWrites = 1
    MaxCrashes = 1
    MaxCohortChanges = 0
    MaxAborts = 0
    MaxRewindLoss = 1
SPECIFICATION BudgetSpec
SYMMETRY Followers
INVARIANTS RuleAgreement LeaderCompleteness
PROPERTIES RevokedTermsFenced
CHECK_DEADLOCK FALSE
