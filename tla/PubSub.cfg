SPECIFICATION FairSpec
CONSTANTS
    s1 = s1
    s2 = s2
    Streams = {s1, s2}
    Channels = {c1, c2}
    None = None
    Scenarios <- AllScenarios
CHECK_DEADLOCK FALSE
INVARIANTS
    ListensMatch
    StreamNotStranded
PROPERTIES
    EveryRequestReturns
    StopCompletes
    SubscribedIsListened
