SPECIFICATION AppSpec
CONSTANTS
    Cap = 1
    MaxPackets = 1
CHECK_DEADLOCK FALSE
\* The other sentence about the way down: INVARIANT RulesCleaned.  The calls that the
\* shutdown does not wait for: INVARIANT DbUnused
INVARIANT TunTakenDown
