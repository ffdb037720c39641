\* Two replicas of everything compete for one driver.
SPECIFICATION Spec
CONSTANTS
    Trip = {t1, t2}
    Driver = {d1}
    Handler = {h1, h2}
    Matcher = {m1, m2}
    NoDriver = NoDriver
    Faults = TRUE
SYMMETRY Symmetry
INVARIANTS
    TypeOK
    StatusAgrees
    AuditTellsAll
PROPERTY ImplementsLifecycle
\* With every trip ended and the driver suspended nothing is left to do.
CHECK_DEADLOCK FALSE
