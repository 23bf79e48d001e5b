SPECIFICATION Spec
CONSTANTS
    Ranks = {0, 1, 2, 3}
    Groups = {"dp0", "dp1", "ppA", "ppB"}
    Members <- GridMembers
    BackendOf <- GridBackend
    PPEnabled = TRUE
    Unmanaged = {}
    Coalesced = {"ppA"}
    Program <- GridProgram
    Fenced <- AllFenced
    Pattern <- GridStages
    Replays = {FALSE}
    Schedule <- NoSchedule
    Mode = 0
    UseCudaStream = 0
    MayTimeout = {}
    PP_INTERVAL <- Interval
    PP_BACKEND_INTERVAL <- BackendInterval
    InitialTopo = {}
CHECK_DEADLOCK FALSE
INVARIANTS
    RightTopology
PROPERTY
    JobFinishes
