SPECIFICATION Spec
CONSTANTS
    SFCs = {s1, s2, s3}
    SFCIsPerSFC = 1
    Scenarios <- DispatcherScenarios
    None = None
SYMMETRY SFCSymmetry
INVARIANTS
    OneOrchestratorPerSFC
    RuntimeStateSettles
    OnlyUnansweredRemain
    PodsArePartitioned
    RoundRobinBalances
CHECK_DEADLOCK FALSE
