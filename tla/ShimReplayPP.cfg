SPECIFICATION Spec
CONSTANTS
    Ranks = {0, 1, 2, 3}
    Groups = {"dp0", "dp1", "ppA", "ppB"}
    Members <- GridMembers
    BackendOf <- GridBackend
    PPEnabled = TRUE
    Unmanaged = {}
    Coalesced = {}
    Program <- ReplayProgram
    Fenced <- NoFences
    Pattern <- NoStages
    Replays = {TRUE}
    Schedule <- GridSchedule
    Mode = 1
    UseCudaStream = 0
    MayTimeout = {}
    PP_INTERVAL <- Interval
    PP_BACKEND_INTERVAL <- BackendInterval
    InitialTopo = {}
CHECK_DEADLOCK FALSE
INVARIANTS
    OneTransaction
