SPECIFICATION FairPeerSpec
CONSTANTS
    IP = {1, 2}
    startingIP = 1
    MaxPeers = 2
    Initial <- NoRow
    Mortal = {1}
    Deletable = {1}
    Creators = {"create"}
    MaxTroubles = 1
    Remote = Remote
    None = None
CHECK_DEADLOCK FALSE
INVARIANT PeerTypeOK
PROPERTY ServedStays
PROPERTY EveryPeerServed
PROPERTY ExpiredGone
