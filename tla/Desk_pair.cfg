SPECIFICATION Desk
CONSTANTS
    Workers = {p1, p2}
    Buyers = {b1}
    Offers = {o1, o2, o3}
    Moves <- FewMoves
    MaxAcks = 1
    MaxRevisions = 2
    Guests = {g1, g2, g3, g4}
    Windows = {win1}
    Capacities <- SmallCapacities
    DefaultCapacity = 2
    NULL = NULL
INVARIANTS
    TypeOK
    OpenOffersBound
    OneOpenOffer
    OffersAcknowledged
    SeatsTyped
    SeatsBound
PROPERTIES
    TerminalOffersStay
    DealMovesAlongTable
SYMMETRY Symmetry
CHECK_DEADLOCK FALSE
