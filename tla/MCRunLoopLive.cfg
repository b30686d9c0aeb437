CONSTANTS
    u1 = u1
    Users = {u1}
    NoUser = NoUser
    Fallback = Fallback
    NoID = NoID
    Malformed = Malformed
    NoCursor = 0
    Wires <- MCWires
    ServerLog <- ShortLog
    Batches <- ShortBatches
    MaxBatches = 4
    MaxLen = 2
    UpdateQueueCapacity = 1
    MaxFaults = 2
SPECIFICATION FairSpec
PROPERTIES
    RunReturns
    AllHandled
