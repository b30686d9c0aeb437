CONSTANTS
    Callers = {c1}
    Contents <- MCContents
    NotifyErrors = TRUE
    MaxGeneration = 3
    MaxTries = 2
SPECIFICATION FairSpec
CHECK_DEADLOCK FALSE
INVARIANTS
    TokenOfSession
    PrefixSent
PROPERTIES
    CallsReturn
