\* Concurrent acquire, renew and release requests, with failures.
SPECIFICATION Spec
CONSTANTS
    None = None
    AnyTenant = AnyTenant
    o1 = o1
    o2 = o2
    o3 = o3
    v1 = v1
    Vehicle = {v1}
    Operator = {o1, o2, o3}
    Request = {r1, r2, r3}
    Poller = {}
    Authorized <- Controllers
    LeaseTTL = 2
    Grace = 1
    LongRun = FALSE
    Kinds = {"acquire", "renew", "release"}
    MaxInFlight = 2
    Faults = TRUE
INVARIANTS TypeOK LeaseIndexAgree ExpiryWithinLease GrantedIsHeld
PROPERTIES OnlyOwnerChanges LeaseSpec
SYMMETRY Interchangeable
