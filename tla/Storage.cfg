SPECIFICATION MCSpec
CONSTANTS
    p1 = p1
    p2 = p2
    k1 = k1
    k2 = k2
    a1 = a1
    a2 = a2
    c1 = c1
    c2 = c2
    e1 = e1
    e2 = e2
    g1 = g1
    g2 = g2
    r1 = r1
    r2 = r2
    Aggregates = {a1}
    Clients = {c1}
    EventIDs = {e1, e2}
    MaxEvents = 3
    Owners <- EveryClient
    NoFile = NoFile
    Empty = Empty
    Torn = Torn
    NoCall = NoCall
INVARIANTS TypesOK NoTornFile StreamsComplete DerivedStateMatches AcknowledgedIsKept
    SharedFilesHold
PROPERTIES SaveIsAllOrNothing WritesAreKept ImplementsDurableLog
