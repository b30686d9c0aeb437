CONSTANTS
    Tokens = {t1, t2}
    NoToken = NoToken
    Absent = Absent
    Damaged = Damaged
    Hosts = {h}
    NoHost = NoHost
    FixedQRBaseURL = fixed
    Codes = {c}
    NoCode = NoCode
    MaxQRRefreshCount = 3
    MaxOthers = 1
SPECIFICATION FairSpec
INVARIANTS
    StaysWithItsCode
PROPERTIES
    LoginContract
    LoginEnds
