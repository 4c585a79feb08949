SPECIFICATION TopologySpec
CONSTANTS
    me = me
    p1 = p1
    p2 = p2
    a1 = a1
    a2 = a2
    IDs <- MCIDs
    localID = me
    Addrs <- OneAddr
    NoAddr = NoAddr
    NoPeer = NoPeer
    refreshInterval = 1
    peerTTL = 3
    MaxTime = 2
PROPERTY LivePeerKept

SYMMETRY MCSymmetry
CHECK_DEADLOCK FALSE
