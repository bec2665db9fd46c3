SPECIFICATION MCSpec
CONSTANTS
    c1 = c1
    c2 = c2
    c3 = c3
    k1 = k1
    k2 = k2
    g1 = g1
    g2 = g2
    g3 = g3
    l1 = l1
    l2 = l2
    l3 = l3
    Callers = {c1, c2}
    Keys = {k1}
    Shards = {"shard"}
    Shard <- OneShard
    Rate = 3
    Capacity = 4
    Token = 2
    Second = 2
    Half = 1000
    Loop = TRUE
    MaxClock = 3
    Instances = {c1, c2}
    Adjusters <- TwoAndOne
    Expected = 2
    GlobalRate = 20
    Rates = {1, 3}
INVARIANTS
    TypesOK
    GrantsBounded
    WaitsBounded
PROPERTIES
    GrantedOnce
    LockIsSafe
    LockWatchdogsEnd
CHECK_DEADLOCK FALSE
