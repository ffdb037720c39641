\* Two replicas, one of them with overlapping flushes, and a matcher; one fault of any kind,
\* after which one replica is sound.
SPECIFICATION FairSpec
CONSTANTS
    a1 = a1
    a2 = a2
    f1 = f1
    f2 = f2
    f3 = f3
    t1 = t1
    t2 = t2
    Event = {1, 2, 3, 4}
    Matched = {3}
    TripOf <- FourEvents
    Api = {a1, a2}
    Flush = {f1, f2, f3}
    ApiOf <- TwoReplicas
    Publisher = {p1}
    Limit = 2
    FaultKinds = {"refused_request", "refused_timer", "send", "abort", "crash"}
    MaxFaults = 1
INVARIANTS
    TypeOK
    RowsExclusive
PROPERTIES
    ImplementsFeed
    InOrder
    EventuallyPublished
