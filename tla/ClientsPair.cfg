SPECIFICATION FairClientsSpec
CONSTANTS
    Node <- TwoNodes
    Links <- TwoLinks
    Homes <- OwnRanges
    IP = {1, 2}
    NoNode = NoNode
    QueueCap = 1
    WireCap = 1
    MaxChanges = 2
    MaxBreaks = 1
    MaxRestarts = 1
INVARIANTS
    OwnRouteHasPeer
PROPERTIES
    OwnClientKept
    RoutesConverge
