SPECIFICATION Spec
CONSTANTS
    NULL = NULL
    t1 = t1
    t2 = t2
    t3 = t3
    p = p
    q = q
    i1 = i1
    i2 = i2
    i3 = i3
    Pool = {p, q}
    Item = {i1, i2, i3}
    Task = {t1, t2, t3}
    StringLen <- Strings
    Heap <- Heaps
    PoolOf <- OnePool
    MaxRequests = 4
CHECK_DEADLOCK FALSE
INVARIANTS TypeOK ListFollowsOrder FreeOrHeld ItemsOwned OutputWhole
PROPERTIES RequestBegun TaskReturns
