SPECIFICATION Spec
CONSTANTS
    Tokens = {tA, tB}
    Accounts = {a, b}
    ConfiguredAccounts = {None, b}
    Senders = {s}
    Poll = Poll
    LoginProc = LoginProc
    None = None
    MaxLogins = 3
    MaxCrashes = 1
    MaxFailures = 1
INVARIANTS
    StaysReady
    MarkerBlocks
    FreshContexts
    InFlightCurrent
    ReauthenticateHasState
PROPERTIES
    MarkerRemovedLast
    RejectedNotReused
CHECK_DEADLOCK FALSE
