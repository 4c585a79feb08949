SPECIFICATION ManagerSpec
CONSTANTS
    Rule <- TwoRules
    Partial <- OpenTarget
    Callers = {"a", "b"}
    MaxPeers = 2
    MaxRules = 2
    MaxRestarts = 1
INVARIANT RemovedStaysRemoved
PROPERTY RuleStaysInForce
