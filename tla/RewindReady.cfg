SPECIFICATION FairReadinessSpec
CONSTANT MaxTerm = 4
INVARIANT ReadyMeansCheckpointed
PROPERTY LeaderBecomesReady
CHECK_DEADLOCK FALSE
