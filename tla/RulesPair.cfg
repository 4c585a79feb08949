SPECIFICATION FairRulesSpec
CONSTANTS
    Node <- TwoNodes
    Links <- TwoLinks
    Rules <- TwoRules
    QueueCap = 1
    WireCap = 1
    MaxBreaks = 1
    MaxRestarts = 1
INVARIANT RulesTypeOK
PROPERTIES
    OnlyOwnerCreates
    OnlyOwnerRemoves
    LiveRuleStays
    Converges
