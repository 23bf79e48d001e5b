SPECIFICATION Spec
CONSTANTS
    Conns = {0, 1, 2, 3}
    Rails = {0}
    Bits = {0, 1}
    Emulation = {0}
    FailsLate = {}
    Installable <- AllTopos
    Groups = {"dp_s0", "dp_s1"}
    Members <- StagesMembers
    Requests <- StagesRequests
    Senders <- StagesSenders
    PP_INTERVAL <- Interval
    PP_BACKEND_INTERVAL <- BackendInterval
    ServerIdx <- OneRailServerIdx
    LocalRank <- OneRailLocalRank
    ForcedDomain <- Unknown
    InitialTopo = {0, 1}
    MayExit = {}
CHECK_DEADLOCK FALSE
INVARIANT
    QuietAckMeansInstalled
