\* One rejected await of a tick.
SPECIFICATION Spec
CONSTANTS
    Delivery = {e1, e2}
    Zones = 2
    Ring = 3
    Run = {k1}
    Flush = {}
    MaxDrivers = 1
    MaxMultiplier = 100
    High = 15
    Low = 5
    MaxFaults = 1
INVARIANT OneMinuteWindow
