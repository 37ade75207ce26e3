SPECIFICATION Spec
CONSTANTS
    SFCIs = {s1, s2}
    SFCLength = 2
    maxCPUNum = 2
    MAX_VIO_NUM = 6
    Sockets = 2
    CoresPerSocket = 3
    MaxPort = 4
    MaxCmds = 4
    MaxFaults = 1
    None = None
INVARIANTS CoresArePartitioned VioIsExclusive
PROPERTY SuccessIsTrueOrRepeated
CHECK_DEADLOCK FALSE
