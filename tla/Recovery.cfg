SPECIFICATION FairSpec
CONSTANTS
    NumSFCs = 2
    SFCIsPerSFC = 2
    AutoRecovery = {1, 2}
    MAX_RETRY_NUM = 1
    Scenarios <- RecoveryScenarios
    None = None
INVARIANTS
    OneCommandAtATime
    DeletedSFCIsReleased
PROPERTIES
    EventuallyRecovered
    TasksEnd
