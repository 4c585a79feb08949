SPECIFICATION FairPeerSpec
CONSTANTS
    IP = {1, 2}
    startingIP = 1
    MaxPeers = 1
    Initial <- OneRow
    Mortal = {}
    Deletable = {1}
    Creators = {"create"}
    MaxTroubles = 1
    Remote = Remote
    None = None
CHECK_DEADLOCK FALSE
PROPERTY DeletedPeerGone
