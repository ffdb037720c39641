\* Two requests at a time everywhere, three vehicles, four rides, three members of the ring.
SPECIFICATION ServerSpec
CONSTANTS
    Vehicle = {v1, v2, v3}
    NoVehicle = NoVehicle
    Client = {c1, c2}
    r1 = r1
    r2 = r2
    r3 = r3
    r4 = r4
    d1 = d1
    p1 = p1
    p2 = p2
    Ride = {r1, r2, r3, r4}
    Rateable = {r1, r2, r3}
    Cab = {d1}
    CabOf <- OneCab
    Rating = {q1, q2}
    Star = {1, 4, 5}
    Account = {a1, a2, a3}
    NoAccount = NoAccount
    Form <- Forms
    NoForm = NoForm
    Signup = {s1, s2}
    Node = {n1, n2, n3}
    Matcher = {n1, n2}
    Vnodes = 2
    MaxHash = 2
    Key = {k1, k2}
    MaxKeys = 1
    Unit = 2
    Refill = 1
    Full = 4
    LastTime = 3
    MaxCalls = 2
    MaxLives = 2
    Replica = {p1, p2}
    Skew <- OneAhead
    Token = 3
    Rate = 2
    Burst = 6
    Ttl = 4
    MaxTime = 5
    MaxAdmitted = 4
    MaxSent = 1
INVARIANTS
    ServerTypeOK
    WithinRate
    OneActive
    HoldersNeverWait
    CountAgrees
    AverageDrift
    AnswersAreTrue
    OneWholeAccount
    Clockwise
    RingsAgree
    RatePerLife
PROPERTIES
    SwapIsAtomic
    OthersKeepTheirs
    RetryHonoured
\* The clocks and the ids are bounded.
CHECK_DEADLOCK FALSE
