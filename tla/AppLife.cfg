SPECIFICATION FairAppSpec
CONSTANTS
    Cap = 1
    MaxPackets = 1
CHECK_DEADLOCK FALSE
INVARIANT NothingLeftOpen
INVARIANT ClosedMeansDown
PROPERTY ProcessEnds
