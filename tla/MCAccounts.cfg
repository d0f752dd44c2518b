CONSTANTS
    Workers = {w1, w2}
    Sessions = {s1, s2, s3}
    MaxPassword = 2
SPECIFICATION Spec
INVARIANT TypeOK
PROPERTIES
    FormerPasswordsEnd
    RevivedByOverlap
    StaysSignedIn
SYMMETRY Symmetry
