SPECIFICATION Spec
CONSTANTS
    Conns = {0, 1, 2}
    Rails = {0}
    Bits = {0, 1}
    Emulation = {}
    FailsLate = {0}
    Installable <- NotEmpty
    Groups = {"dp", "pp", "none"}
    Members <- FaultsMembers
    Requests <- FaultsRequests
    Senders <- FaultsSenders
    PP_INTERVAL <- Interval
    PP_BACKEND_INTERVAL <- BackendInterval
    ServerIdx <- FaultsServerIdx
    LocalRank <- FaultsLocalRank
    ForcedDomain <- Unknown
    InitialTopo = {0}
    MayExit = {0}
CHECK_DEADLOCK FALSE
INVARIANTS
    TypeOK
PROPERTY
    ImplementsBarrier
