\* The gateway accepts a POST and does not answer.
SPECIFICATION Spec
CONSTANTS
    Text = Text
    Unit = 2
    Offered <- Sample
    WatchTimeout = 1
    CheckInterval = 1
    AuditInterval = 2
    PostTimeout = 3
    RateLimit = 4
    TelemetryInterval = 4
    Cameras = 1
    OpenTime = 1
    Outages = {"gatewayHangs"}
INVARIANT SilenceStops
