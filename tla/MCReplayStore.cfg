CONSTANTS
    Keys = {k1, k2}
    Callers = {c1, c2}
    TTL = 1
    MaxTime = 3
    MaxCrashes = 1
    Nobody = Nobody
    Torn = Torn
SPECIFICATION Spec
INVARIANTS
    WindowKept
    MemoryIsDurable
