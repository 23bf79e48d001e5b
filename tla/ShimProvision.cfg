SPECIFICATION Spec
CONSTANTS
    Ranks = {0, 1}
    Groups = {"dpA", "dpB", "tp"}
    Members <- TurnsMembers
    BackendOf <- TurnsBackend
    PPEnabled = FALSE
    Unmanaged = {"tp"}
    Coalesced = {}
    Program <- TurnsProgram
    Fenced <- NoFences
    Pattern <- TurnsStages
    Replays = {TRUE, FALSE}
    Schedule <- TurnsSchedule
    Mode = 1
    UseCudaStream = 0
    MayTimeout = {0}
    PP_INTERVAL <- Interval
    PP_BACKEND_INTERVAL <- BackendInterval
    InitialTopo = {}
CHECK_DEADLOCK FALSE
INVARIANTS
    TypeOK
    StageGate
    StageFinished
    OneTransaction
    AckIsForRequest
    RequestFirst
PROPERTIES
    EveryRequestGranted
    JobFinishes
