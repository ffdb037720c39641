\* One driver whose app keeps pinging, crashes allowed.
SPECIFICATION FairSpec
CONSTANTS
    Trip = {t1}
    Driver = {d1}
    Handler = {h1, h2}
    Matcher = {m1}
    NoDriver = NoDriver
    Faults = TRUE
PROPERTY IndexConverges
\* With every trip ended and the driver suspended nothing is left to do.
CHECK_DEADLOCK FALSE
