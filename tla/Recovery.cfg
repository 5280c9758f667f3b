SPECIFICATION FairSpec
CONSTANTS
  RuleLsn = 2
  MaxLsn = 3
  MaxFork = 1
  MaxFaults = 3
  MinAttempts = 2
  MayStop = TRUE
  RewindBroken = FALSE
INVARIANTS NodeTypeOK InterruptedRewindMarked NoSuspectReads
PROPERTIES NoArchiveReplayAfterRewind InterruptedRewindResolves DivergedNodeRejoins
