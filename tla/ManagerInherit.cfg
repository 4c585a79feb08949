SPECIFICATION ManagerSpec
CONSTANTS
    Rule <- TwoRules
    Partial <- OpenTarget
    Callers = {"a", "b"}
    MaxPeers = 2
    MaxRules = 1
    MaxRestarts = 0
INVARIANT NoInheritedRule
