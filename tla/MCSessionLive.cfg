SPECIFICATION FairSpec
CONSTANTS
    Tokens = {tA, tB}
    Accounts = {a}
    ConfiguredAccounts = {a}
    Senders = {s}
    Poll = Poll
    LoginProc = LoginProc
    None = None
    MaxLogins = 2
    MaxCrashes = 0
    MaxFailures = 1
PROPERTIES
    NobodyWaitsForEver
CHECK_DEADLOCK FALSE
