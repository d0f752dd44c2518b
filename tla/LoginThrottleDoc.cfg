CONSTANTS
    MaxAttempts = 2
    Window = 1
    Duration = 3
    SliceExtra = 1
    Workers = {w1, w2}
SPECIFICATION Spec
PROPERTY LockoutPersists
