SPECIFICATION Spec
CONSTANTS
    Conns = {0, 1, 2}
    Rails = {0}
    Bits = {0, 1, 2}
    Emulation = {0}
    FailsLate = {}
    Installable <- AllTopos
    Groups = {"dp_s0", "pp"}
    Members <- PipeMembers
    Requests <- PipeRequests
    Senders <- PipeSenders
    PP_INTERVAL <- Interval
    PP_BACKEND_INTERVAL <- BackendInterval
    ServerIdx <- OneRailServerIdx
    LocalRank <- OneRailLocalRank
    ForcedDomain <- Unknown
    InitialTopo = {0, 1, 2}
    MayExit = {}
CHECK_DEADLOCK FALSE
PROPERTY
    EveryoneAcked
