SPECIFICATION Spec
CONSTANTS
    SFCs = {s1}
    SFCIsPerSFC = 2
    MaxRequests = 4
    BatchSize = 2
    MAX_RETRY_NUM = 1
    Scenarios <- SafetyScenarios
    None = None
INVARIANTS NoneStuckInProcessing ActiveIsListed TableTellsTruth
PROPERTY RequestLifecycle
CHECK_DEADLOCK FALSE
