SPECIFICATION Spec
CONSTANTS
    Conns = {0, 1, 2, 3}
    Rails = {0, 1}
    Bits = {0}
    Emulation = {0, 1}
    FailsLate = {}
    Installable <- AllTopos
    Groups = {"dp0", "dp1"}
    Members <- RailsMembers
    Requests <- RailsRequests
    Senders <- RailsSenders
    PP_INTERVAL <- Interval
    PP_BACKEND_INTERVAL <- BackendInterval
    ServerIdx <- RailsServerIdx
    LocalRank <- RailsLocalRank
    ForcedDomain <- Unknown
    InitialTopo = {0}
    MayExit = {1}
CHECK_DEADLOCK FALSE
INVARIANTS
    BarrierSafe
    RailIsAssigned
    AckMeansInstalled
PROPERTY
    ImplementsBarrier
