SPECIFICATION TopologySpec
CONSTANTS
    me = me
    p1 = p1
    p2 = p2
    a1 = a1
    a2 = a2
    IDs <- MCIDs
    localID = me
    Addrs <- MCAddrs
    NoAddr = NoAddr
    NoPeer = NoPeer
    refreshInterval = 1
    peerTTL = 1
    MaxTime = 3
INVARIANTS TopologyTypeOK SharedAddressSameAge
PROPERTY FreshestSurvives
SYMMETRY MCSymmetry
CHECK_DEADLOCK FALSE
