SPECIFICATION BackOffice
CONSTANTS
    Workers = {w1, w2}
    Buyers = {b1, b2}
    MaxLost = 1
    Mails = {1, 2}
    Named = {1}
    Drawn = {n1, n2}
    Recips = {p1, p2, p3}
    MaxPosts = 1
    Threads = {t1, t2, t3}
    Cities = {c1, c2}
    Managers = {g1}
    Deals = {d1}
    MaxClosings = 1
    NULL = NULL
SYMMETRY Symmetry
INVARIANT ThreeBouncesToStop
CHECK_DEADLOCK FALSE
