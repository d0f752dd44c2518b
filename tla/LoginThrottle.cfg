CONSTANTS
    MaxAttempts = 2
    Window = 1
    Duration = 2
    SliceExtra = 1
    Workers = {w1, w2, w3}
SPECIFICATION FairSpec
INVARIANTS
    TypeOK
    LockMatchesRule
    FailuresBounded
PROPERTIES
    UnlockOnlyByTime
    LockoutRunsOut
    LockoutEnds
