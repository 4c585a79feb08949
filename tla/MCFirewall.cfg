SPECIFICATION FirewallSpec
CONSTANTS
    n1 = n1
    n2 = n2
    n3 = n3
    Nil = Nil
    NoRule = NoRule
    NodeIDs <- MCNodeIDs
    RuleIDs <- MCRuleIDs
    Addresses <- MCAddresses
    Ports <- MCPorts
    PortRules <- MCPortRules
    ShortMod = 3
    LocalMod = 2
SYMMETRY MCSymmetry
INVARIANTS
    FirewallTypeOK
    IndexMatchesStore
    ShortIDsUnique
    DecisionMatchesTable
    DumpMatchesTable
PROPERTY ImplementsTable
