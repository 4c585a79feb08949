SPECIFICATION ClientsSpec
CONSTANTS
    Node <- TwoNodes
    Links <- TwoLinks
    Homes <- SharedRange
    IP = {1}
    NoNode = NoNode
    QueueCap = 1
    WireCap = 1
    MaxChanges = 3
    MaxBreaks = 1
    MaxRestarts = 1
PROPERTIES
    OwnClientKept
