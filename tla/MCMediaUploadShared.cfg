CONSTANTS
    Uploads = {u1, u2}
    GeneratedKey <- MCGeneratedKey
    Slices <- AdjacentSlices
    MemorySize = 4
    Bytes = {1, 2}
    BlockSize = 2
    MaxDownloadBytes = 6
SPECIFICATION Spec
CHECK_DEADLOCK FALSE
INVARIANTS
    SentAsGiven
