SPECIFICATION FairSpec
CONSTANTS
    Cmds = {c1}
    Zones = {"SIMULATOR_ZONE", "TURBONET_ZONE", "PUFFER_ZONE", "UNKNOWN_ZONE"}
    CmdTypes = {"ADD_SFC", "ADD_SFCI", "DEL_SFCI", "DEL_SFC", "GET_SERVER_SET", "GET_TOPOLOGY", "GET_SFCI_STATE", "UNKNOWN_TYPE"}
    ClassifierType = "Server"
    Redeliverable = {"childCmd", "rply"}
    MaxRedeliveries = 1
    MaxLosses = 1
    None = None
INVARIANTS TypeOK AtMostOneRply VerdictIsJustified VNFAfterSFF
PROPERTIES NoReleaseAfterRply ImplementsFanOut EventuallyAnswered
CHECK_DEADLOCK FALSE
