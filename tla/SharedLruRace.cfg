SPECIFICATION MCSpec
CONSTANTS
    k1 = k1
    k2 = k2
    k3 = k3
    v1 = v1
    v2 = v2
    Keys <- MCKeys
    Values <- MCValues
    Timeouts = {1, 2}
    Capacities = {1, 2}
    MaxTime = 3
    TtlKeys <- MCKeys
    TtlValues <- MCValues
    TIMEOUT = 2
    CAPACITY = 2
    MaxTtlTime = 5
    SharedKeys <- MCKeys
    Threads = {t1, t2, t3}
    NoThread = NoThread
    NoKey = NoKey
    ShareExpiring = TRUE
    SharedCapacity = 2
    Caches = {"shared"}
INVARIANT SharedGetSafe
CHECK_DEADLOCK FALSE
