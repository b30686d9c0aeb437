CONSTANTS
    Callers = {c1, c2}
    Users = {u1}
    InitialRetryDelay = 1
    MaxRetryDelay = 2
    RetryDelays <- MCRetryDelays
    TTL = 2
    MaxTime = 2
    MaxGeneration = 2
SPECIFICATION FairSpec
CHECK_DEADLOCK FALSE
INVARIANTS
    TicketOfSession
PROPERTIES
    FetchesPaced
    TypingReturns
