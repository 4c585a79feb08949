SPECIFICATION PathSpec
CONSTANTS
    Flows <- AllFlows
    From <- AllFrom
    To <- AllTo
    Worker <- AllWorker
    Shards = {1, 2}
    Senders = {1}
    Objects = {1, 2, 3, 4, 5}
    PerFlow <- AllPerFlow
    Cap = 1
    BatchSize = 2
    ringSize = 3
CHECK_DEADLOCK FALSE
INVARIANT SliceIntact
