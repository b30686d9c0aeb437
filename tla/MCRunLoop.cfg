CONSTANTS
    u1 = u1
    Users = {u1}
    NoUser = NoUser
    Fallback = Fallback
    NoID = NoID
    Malformed = Malformed
    NoCursor = 0
    Wires <- MCWires
    ServerLog <- MCServerLog
    Batches <- MCBatches
    MaxBatches = 5
    MaxLen = 3
    UpdateQueueCapacity = 1
    MaxFaults = 2
SPECIFICATION Spec
INVARIANTS
    NothingLost
    RecordedOnce
    EndReported
    ProcessorGone
