CONSTANTS
    Workers = {w1, w2}
    Devices = {d1, d2}
    Codes = {c1, c2, c3, c4, c5}
    CodeCount = 2
SPECIFICATION Spec
INVARIANTS
    TypeOK
    ConfirmedProven
    UsesBounded
    CodesBounded
    BatchComplete
PROPERTIES
    ReplacedStayDead
    KeepsPromise
SYMMETRY Symmetry
