CONSTANTS
    MaxLen = 9
    Texts <- MCTexts
    Limits = {0, 1, 4, 7}
    MaxErrors = 4
    Errors <- MCErrors
    FirstWaits = {35, 50}
    Waits = {5, 60, 105, 130}
    Transits = {0, 14, 15}
    MaxFailures = 6
    BlockSize = 3
    MaxDownloadBytes = 6
    Keys <- MCKeys
    Bytes = {1, 2, 3}
    MaxBytes = 6
    Contents <- MCContents
SPECIFICATION Spec
CHECK_DEADLOCK FALSE
INVARIANTS
    OnlySecretsLost
    PollTimed
    MediaRoundTrip
PROPERTIES
    ChunksWhole
