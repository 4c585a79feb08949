SPECIFICATION FairAppSpec
CONSTANTS
    Cap = 1
    MaxPackets = 3
CHECK_DEADLOCK FALSE
PROPERTY ReadLoopEnds
