\* One connection refused to the flush of a request.
SPECIFICATION FairSpec
CONSTANTS
    a1 = a1
    a2 = a2
    f1 = f1
    f2 = f2
    f3 = f3
    t1 = t1
    t2 = t2
    Event = {1, 2, 3}
    Matched = {}
    TripOf <- TwoTrips
    Api = {a1}
    Flush = {f1, f2}
    ApiOf <- OneReplica
    Publisher = {}
    Limit = 2
    FaultKinds = {"refused_request"}
    MaxFaults = 1
PROPERTY ReliablePublishing
\* With the flag of the only replica stuck nothing is left to do.
CHECK_DEADLOCK FALSE
