\* One trip, nothing fails.
SPECIFICATION Spec
CONSTANTS
    Trip = {t1}
    NoTrip = NoTrip
    Call = {c1, c2}
    MaxBatch = 2
    MaxFaults = 0
INVARIANT EveryChangePushed
CHECK_DEADLOCK FALSE
