CONSTANTS
    Users = {u1, u2}
    Workers = {w1, w2}
    Keys = {k1, k2}
    None = None
SPECIFICATION Spec
INVARIANTS
    TypeOK
PROPERTIES
    MfaGate
    AuditedBeforeOpen
    ActiveGate
    KeysRotate
    DeletedStayDeleted
    KeepsPromise
SYMMETRY Symmetry
