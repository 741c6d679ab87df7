SPECIFICATION Accounts
CONSTANTS
    Workers = {w1, w2}
    Resets = {r1}
    Codes = {c1, c2, c3, c4}
    RecoveryCount = 2
    MaxVersion = 3
    Users = {u1, u2}
    Rows = {b1, b2}
    Approval = TRUE
    Limit = 2
    Window = 3
    MaxNow = 7
    NULL = NULL
SYMMETRY Symmetry
INVARIANT ResetSingleUse
CHECK_DEADLOCK FALSE
