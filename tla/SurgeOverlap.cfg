\* Two ticks overlap, and ticks fail.
SPECIFICATION Spec
CONSTANTS
    Delivery = {e1, e2}
    Zones = 2
    Ring = 4
    Run = {k1, k2}
    Flush = {}
    MaxDrivers = 1
    MaxMultiplier = 100
    High = 15
    Low = 5
    MaxFaults = 1
PROPERTIES
    KeptForTheWindow
    EveryRequestCounts
