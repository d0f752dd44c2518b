CONSTANTS
    Workers = {w1, w2}
    Devices = {d1}
    Codes = {c1, c2, c3, c4}
    CodeCount = 2
SPECIFICATION Spec
INVARIANT OneBatch
