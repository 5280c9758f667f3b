SPECIFICATION FairSpec
CONSTANTS
    Clients = {c1, c2}
    n1 = n1
    n2 = n2
    Conns = {n1, n2}
    None = None
    Scenarios <- AllScenarios
CHECK_DEADLOCK FALSE
INVARIANTS
    ReservationsCounted
    OutlastsLent
    ForcedDrainLeavesNone
PROPERTIES
    ChangeCompletes
