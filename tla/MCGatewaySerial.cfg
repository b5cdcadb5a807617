\* One request at a time, of every kind, with failures.
SPECIFICATION Spec
CONSTANTS
    None = None
    AnyTenant = AnyTenant
    o1 = o1
    o2 = o2
    o3 = o3
    v1 = v1
    Vehicle = {v1}
    Operator = {o1}
    Request = {r1, r2, r3}
    Poller = {p}
    Authorized <- Controllers
    LeaseTTL = 2
    Grace = 1
    LongRun = FALSE
    Kinds = {"acquire", "renew", "release", "view", "unview", "poll"}
    MaxInFlight = 1
    Faults = TRUE
INVARIANTS ControlImpliesVideo WatchedImpliesActive ViewersCovered
SYMMETRY Interchangeable
