SPECIFICATION Spec
CONSTANTS
    u1 = u1
    u2 = u2
    Users = {u1, u2}
    NoUser = NoUser
    Fallback = Fallback
    NoID = NoID
    Malformed = Malformed
    NoCursor = NoCursor
    Wires <- MCWires
    Batches <- MCBatches
    MaxConcurrentHandlers = 2
    UpdateQueueCapacity = 2
    MaxBatches = 2
    MaxLen = 2
INVARIANTS
    TypeOK
    CursorNeverSkips
    ConversationOrder
    PlacesBalanced
    RemainingExact
    FrontierMaximal
    ReplaySuppressed
PROPERTIES
    DeliveryMovesForward
    ImplementsOrderedDelivery
