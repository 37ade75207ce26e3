SPECIFICATION FairSpec
CONSTANTS
    SFCs = {s1}
    SFCIsPerSFC = 1
    MaxRequests = 3
    BatchSize = 2
    MAX_RETRY_NUM = 1
    Scenarios <- LivenessScenarios
    None = None
PROPERTY EventuallySettled
