\* One panel and one other client over two vehicles; one driver's page with two trips,
\* and requests of the page before; a tab with two riders and a driver; a map with two
\* markers.
SPECIFICATION WebSpec
CONSTANTS
    Vehicle = {v1, v2}
    NoVehicle = NoVehicle
    Client = {c1, c2}
    Panel = {c1}
    Scripted = {"create", "remove"}
    Assignment = {1, 2}
    Nothing = Nothing
    ListLimit = 1
    Call = {h1, h2}
    Poll = {p1, p2}
    MaxPings = 1
    u1 = u1
    u2 = u2
    u3 = u3
    User = {u1, u2, u3}
    Nobody = Nobody
    Role = {"rider", "driver"}
    RoleOf <- Roles
    MaxReads = 1
    MaxLogins = 2
    Marker = {m1, m2}
    Place = {1, 2}
    Label = {1, 2}
    Absent = Absent
    Center = {z1, z2}
SYMMETRY WebSymmetry
INVARIANTS
    WebTypeOK
    PanelUpToDate
    StoppedMeansOffline
    CardAgrees
    OneIdentity
    MapShowsThePage
\* Every trip may have been given, and every panel used up its ids.
CHECK_DEADLOCK FALSE
