SPECIFICATION FairPathSpec
CONSTANTS
    Flows <- AllFlows
    From <- AllFrom
    To <- AllTo
    Worker <- AllWorker
    PerFlow <- AllPerFlow
    Shards = {1, 2}
    Senders = {1}
    Objects = {1, 2, 3, 4, 5}
    Cap = 1
    BatchSize = 2
    ringSize = 3
CHECK_DEADLOCK FALSE
INVARIANT OwnedOnce
INVARIANT FlowOrder
PROPERTY AllDrained
