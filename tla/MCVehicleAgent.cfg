\* Everything that ends the process happens, again and again.
SPECIFICATION FairSpec
CONSTANTS
    Text = Text
    Unit = 2
    Offered <- Sample
    WatchTimeout = 1
    CheckInterval = 2
    AuditInterval = 1
    PostTimeout = 2
    RateLimit = 2
    TelemetryInterval = 3
    Cameras = 2
    OpenTime = 1
    Outages = {"gatewayHangs", "startUp", "liveKit", "noLibrary", "signal"}
INVARIANTS TypeOK WatchedStops
PROPERTY EventuallyStops
