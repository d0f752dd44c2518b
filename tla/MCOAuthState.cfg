CONSTANTS
    Browsers = {b1, b2}
    Workers = {w1, w2}
    Keys = {k1, k2, k3}
    States = {s1, s2}
    Providers = {google, github}
    None = None
SPECIFICATION Spec
INVARIANTS
    TypeOK
    OwnState
    RetiredRefused
    DueHonoured
SYMMETRY Symmetry
