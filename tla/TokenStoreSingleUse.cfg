CONSTANTS
    Tokens = {t1}
    Workers = {w1, w2}
    TTL <- MCTTL
    Timeout = 1
SPECIFICATION Spec
INVARIANT SingleUse
