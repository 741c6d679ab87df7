SPECIFICATION Spec
CONSTANTS
    Workers = {p1}
    Buyers = {b1}
    Offers = {o1}
    Moves = {"available", "pending", "under_contract"}
    MaxAcks = 1
    MaxRevisions = 2
    NULL = NULL
PROPERTIES CurrentNoticeAccepted
CHECK_DEADLOCK FALSE
