SPECIFICATION FairSpec
CONSTANTS
    MaxIDs = 5
    MAX_OVER_LOAD_NUM_THRESHOLD = 1
    MAX_UNDER_LOAD_NUM_THRESHOLD = 3
    MAX_RETRY_NUM = 1
    Scenarios <- ScalingScenarios
    None = None
INVARIANT
    WithinLimits
PROPERTY
    TargetReached
