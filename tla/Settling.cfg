CONSTANTS
    p1 = p1
    p2 = p2
    p3 = p3
    None = None
    CellOf <- OneCell
    Coordinators = {"orch1", "orch2"}
    CoordinatorOf <- Orchs1
    Poolers <- Trio
    InitialRule <- TrioRule
    NumRounds = 1
    MaxWrites = 1
    MaxCrashes = 0
    MaxCohortChanges = 1
    MaxAborts = 1
    MaxRewindLoss = 1
SPECIFICATION AdvanceSpec
PROPERTIES AbandonedRecruitRejoins
    ProposedRoundSettles
CHECK_DEADLOCK FALSE
