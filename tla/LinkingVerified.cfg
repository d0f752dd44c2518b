CONSTANTS
    Workers = {w1}
    Users = {u1, u2}
    Identities = {i1}
    Spellings <- MCSpellings
    Lower <- MCLower
SPECIFICATION Spec
INVARIANT CreatedVerified
