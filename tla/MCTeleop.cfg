\* Two sessions, one after the other, with failing refreshes and duplicated packets.
SPECIFICATION FairSpec
CONSTANTS
    None = None
    o1 = o1
    v1 = v1
    s1 = s1
    s2 = s2
    Me = v1
    Vehicle = {v1}
    Operator = {o1}
    Request = {s1, s2}
    Authorized <- AnyPair
    LeaseTTL = 4
    ExpiresIn <- Prompt
    SendAge <- InStep
    MaxAge = 0
    MaxSkew = 0
    RefreshInterval = 1
    HttpTimeout = 1
    MaxSeq <- TwoAndOne
INVARIANT TypeOK
PROPERTIES ExpiredNeverControls ReleaseTakesEffect NoReplayUnlessLapsed TakesOver
