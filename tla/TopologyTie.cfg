\* The same instance with PROPERTY AddressAsFresh shows an old report that puts back an address.
SPECIFICATION TopologySpec
CONSTANTS
    me = me
    p1 = p1
    p2 = p2
    a1 = a1
    a2 = a2
    IDs <- MCIDs
    localID = me
    Addrs <- MCAddrs
    NoAddr = NoAddr
    NoPeer = NoPeer
    refreshInterval = 1
    peerTTL = 3
    MaxTime = 4
INVARIANT OneAddressOneNode

SYMMETRY MCSymmetry
CHECK_DEADLOCK FALSE
CONSTRAINT Undisturbed
