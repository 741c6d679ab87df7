SPECIFICATION Corners
CONSTANTS
    Workers = {w1, w2, w3}
    b1 = b1
    b2 = b2
    Buyers = {b2}
    TierA <- MCTierA
    Budget <- MCBudget
    Prices = {1, 2}
    Targets = {"coming_soon", "available", "under_contract", "assigned"}
    EarlyHours = TRUE
    MaxMoves = 3
    MaxCuts = 2
    MaxPhotos = 4
    NULL = NULL
INVARIANTS
    TypeOK
    PriceHistoryChains
    StatusHistoryChains
    ToldOncePerOccasion
    CoversBound

    
SYMMETRY Symmetry
CHECK_DEADLOCK FALSE
