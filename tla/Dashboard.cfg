SPECIFICATION FairSpec
CONSTANTS
    PageSizes = {2}
    MaxRows = 4
    MaxInFlight = 3
    MaxChanges = 1
    MaxTurns = 1
    MaxFailures = 1
    Threads = {t1, t2}
    MaxRequests = 2
    MaxRepetitions = 1
    MaxNavigations = 4
    MaxFailedCalls = 2
    None = None
INVARIANTS
    ShownIsCurrent
    OwnAnswer
PROPERTIES
    SettlesOnTruth
    WaitEnds
    NavigationEnds
CHECK_DEADLOCK FALSE
