CONSTANTS
    Tokens = {t1, t2}
    Workers = {w1, w2, w3}
    TTL <- MCTTL
    Timeout = 1
SPECIFICATION Spec
INVARIANTS
    TypeOK
    GrantsBounded
PROPERTIES
    GrantsInTime
    VerifiedSpendsLink
    KeepsPromise
SYMMETRY Symmetry
