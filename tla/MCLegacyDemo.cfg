\* Three packets, two connections at a time, a registration loaded twice, a clock ahead.
SPECIFICATION FairSpec
CONSTANTS
    None = None
    Key = {k1, k2}
    DemoKey = k1
    Interval = 1
    MaxStale = 1
    MaxSkew = 1
    Timeout = 1
    Look = 1
    Ahead = 2
    MaxSeq = 3
    MaxLoads = 2
INVARIANTS TypeOK InOrderAccepted Accounted LegacyStops
PROPERTIES ReplayBounded Served
