SPECIFICATION Corners
CONSTANTS
    Workers = {w1, w2}
    Tokens = {t1, t2, t3}
    MaxVersion = 3
    NULL = NULL
SYMMETRY Symmetry
INVARIANTS
    TypeOK
    ChildOfUsed
    FamilyRevokedTogether
    DisabledHasNoLive
    CacheFollows
PROPERTIES
    RevocationSticks
    KeepsBook
    BumpKillsAccess
CHECK_DEADLOCK FALSE
