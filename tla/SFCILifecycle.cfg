SPECIFICATION LifecycleSpec
CONSTANTS
    Cmds = {c1, c2, c3}
    Zones = {"TURBONET_ZONE"}
    CmdTypes = {"ADD_SFCI", "DEL_SFCI"}
    ClassifierType = "Server"
    Redeliverable = {"childCmd", "rply"}
    MaxRedeliveries = 1
    MaxLosses = 1
    None = None
INVARIANTS TablesAgree ActiveIsDeployedAtFirst UndeletedForEver ForgottenUnlessVNFHeldBack
SYMMETRY CmdSymmetry
CHECK_DEADLOCK FALSE
