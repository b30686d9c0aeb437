SPECIFICATION FairSpec
CONSTANTS
    u1 = u1
    u2 = u2
    Users = {u1, u2}
    NoUser = NoUser
    Fallback = Fallback
    NoID = NoID
    Malformed = Malformed
    NoCursor = NoCursor
    Wires <- MCWires
    Batches <- LiveBatches
    MaxConcurrentHandlers = 2
    UpdateQueueCapacity = 1
    MaxBatches = 2
    MaxLen = 2
PROPERTIES
    ProcessorEnds
    BatchesCommitted
