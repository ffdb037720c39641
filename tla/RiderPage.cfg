\* Two trips of one rider, two requests under way, one fault.
SPECIFICATION Spec
CONSTANTS
    Trip = {t1, t2}
    NoTrip = NoTrip
    Call = {c1, c2}
    MaxBatch = 2
    MaxFaults = 1
SYMMETRY Symmetry
INVARIANTS
    TypeOK
    LiveTripOnPage
    EndIsUnderWay
    ShownHasHappened
CHECK_DEADLOCK FALSE
