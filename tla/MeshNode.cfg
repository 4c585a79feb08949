SPECIFICATION FairNodeSpec
CONSTANTS
    Session = {1, 2}
    peerOf <- PeerOf
    NoSession = NoSession
    Feeds = {"peers"}
    FeedRoom = 1
CHECK_DEADLOCK FALSE
INVARIANTS
    NodeTypeOK
    NoPanic
PROPERTIES
    EverySessionStreams
    ShutdownCompletes
