\* Two replicas with exact clocks, the scripts of which may overtake each other.
SPECIFICATION Spec
CONSTANTS
    p1 = p1
    p2 = p2
    Replica = {p1, p2}
    Skew <- Exact
    Token = 3
    Rate = 2
    Burst = 6
    Ttl = 4
    MaxTime = 5
    MaxAdmitted = 4
    MaxSent = 2
\* Time is bounded.
CHECK_DEADLOCK FALSE
INVARIANT ExactlyLimited
