SPECIFICATION FairSpec
CONSTANTS
    a = a
    b = b
    c = c
    Devices <- MCDevices
    Topos <- MCTopos
    Bw <- MCBw
    InitTopo = 11
    Msgs <- MCMsgs
    Src <- MCSrc
    Dst <- MCDst
    Needs <- MCNeeds
    Collective <- MCCollective
INVARIANTS TypeOK LinkServed NoChunkStranded InflightExact HandledOnce
PROPERTIES ImplementsGate ReconfigFinishes MessageHandled
CHECK_DEADLOCK FALSE
