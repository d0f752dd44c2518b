CONSTANTS
    Workers = {w1}
    Sessions = {s1, s2}
    MaxPassword = 1
SPECIFICATION Spec
PROPERTY FormHasStash
