SPECIFICATION Spec
CONSTANTS
    Workers = {p1}
    Buyers = {b1}
    Offers = {o1}
    Moves = {"available", "pending", "under_contract"}
    MaxAcks = 2
    MaxRevisions = 1
    NULL = NULL
INVARIANTS AcknowledgedMayOffer
CHECK_DEADLOCK FALSE
