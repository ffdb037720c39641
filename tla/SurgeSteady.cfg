\* Ticks that end before the next one, in one zone whose multiplier rises and falls; one fault.
SPECIFICATION FairSpec
CONSTANTS
    Delivery = {e1, e2}
    Zones = 1
    Ring = 3
    Run = {k1}
    Flush = {f1}
    MaxDrivers = 1
    MaxMultiplier = 104
    High = 15
    Low = 5
    MaxFaults = 1
INVARIANTS
    TypeOK
    SlidingWindow
    FareWithinBounds
PROPERTY SurgeEnds
