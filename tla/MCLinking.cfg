CONSTANTS
    Workers = {w1, w2}
    Users = {u1, u2}
    Identities = {i1}
    Spellings <- MCSpellings
    Lower <- MCLower
SPECIFICATION Spec
INVARIANTS
    TypeOK
    OneAccountPerAddress
    LinkVouched
    MovesBounded
PROPERTIES
    MovesNeedNewAddress
    KeepsPromise
SYMMETRY Symmetry
