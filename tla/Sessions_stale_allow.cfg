SPECIFICATION Spec
CONSTANTS
    Workers = {w1, w2}
    Tokens = {t1}
    MaxVersion = 2
    NULL = NULL
INVARIANTS
    CacheNotBehind
CHECK_DEADLOCK FALSE
