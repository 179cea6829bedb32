CONSTANTS
    None = None
    MaxImage = 3
    Broken <- BrokenReleases
    MaxUpdates = 2
    MaxNames = 7
    MaxWrites = 2
    MaxFaults = 3
SPECIFICATION FairSpec
INVARIANTS RunsWhole RecoveryPoint NothingLost LastWord
PROPERTIES ComesUp
CHECK_DEADLOCK FALSE
