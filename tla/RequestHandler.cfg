SPECIFICATION FairSpec
CONSTANTS
    NumSFCIs = 1
    NumRequests = 3
    Types = {"UPDATE_SFC_STATE", "ADD_SFC", "ADD_SFCI", "DEL_SFCI", "DEL_SFC"}
    REQUEST_WAITING_TIMEOUT = 1
    LoopTime = 2
    FailureMayHappen = TRUE
    None = None
INVARIANT
    LeavesOnce
PROPERTY
    ServedWhenValid
