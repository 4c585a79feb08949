SPECIFICATION FairRulesSpec
CONSTANTS
    Node <- ThreeNodes
    Links <- OwnerAndPeers
    Rules <- OneRule
    QueueCap = 1
    WireCap = 1
    MaxBreaks = 0
    MaxRestarts = 0
PROPERTY RemovedRuleVanishes
