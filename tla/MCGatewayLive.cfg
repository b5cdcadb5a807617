\* Every kind of request and failure, over hours, with a client that polls the video.
SPECIFICATION FairSpec
CONSTANTS
    None = None
    AnyTenant = AnyTenant
    o1 = o1
    o2 = o2
    o3 = o3
    v1 = v1
    Vehicle = {v1}
    Operator = {o1}
    Request = {r1, r2}
    Poller = {p}
    Authorized <- Controllers
    LeaseTTL = 1
    Grace = 1
    LongRun = TRUE
    Kinds = {"acquire", "renew", "release", "view", "unview", "poll"}
    MaxInFlight = 3
    Faults = TRUE
INVARIANT VideoRecordConsistent
PROPERTIES LeaseFreed UnusedGoesStandby
