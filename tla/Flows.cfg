SPECIFICATION FlowsSpec
CONSTANTS
    w1 = w1
    w2 = w2
    c1 = c1
    c2 = c2
    Nil = Nil
    NoRule = NoRule
    NoHole = NoHole
    NodeIDs <- MCNodeIDs
    RuleIDs <- MCRuleIDs
    Addresses <- MCAddresses
    Ports <- MCPorts
    PortRules <- MCPortRules
    ShortMod = 2
    LocalMod = 2
    Packets <- MCPackets
    MeshPackets <- RepliesFromMesh
    Workers <- MCWorkers
    Hash <- MCHash
    Controllers <- MCControllers
    HoleTTL = 1
    MaxTime = 1
    MaxDeletes = 2
INVARIANTS
    SweepComplete
PROPERTIES
    HoleJustified
    OnlyExpiredDeleted
CHECK_DEADLOCK FALSE
SYMMETRY MCSymmetry
