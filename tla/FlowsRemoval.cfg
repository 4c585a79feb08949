SPECIFICATION FlowsSpec
CONSTANTS
    w1 = w1
    w2 = w2
    c1 = c1
    c2 = c2
    Nil = Nil
    NoRule = NoRule
    NoHole = NoHole
    NodeIDs <- MCNodeIDs
    RuleIDs <- MCRuleIDs
    Addresses <- MCAddresses
    Ports <- MCPorts
    PortRules <- MCPortRules
    ShortMod = 2
    LocalMod = 2
    Packets <- MCPackets
    MeshPackets <- NoPackets
    Workers <- MCWorkers
    Hash <- MCHash
    Controllers <- OneController
    HoleTTL = 1
    MaxTime = 0
    MaxDeletes = 1
\* The other sentence about a removal: PROPERTY UnrelatedRemovalKeepsFlow
INVARIANT RemovalClosesFlow
CHECK_DEADLOCK FALSE
