\* Two clicks on Connect; a lease of 30 s, half of it the timeout of the connection.
SPECIFICATION FairSpec
CONSTANTS
    None = None
    Call = {c1, c2}
    LeaseTTL = 4
    ConnectTimeout = 2
INVARIANTS KeptWhileRenewed RenewsOnlyCurrent MoveIsStoppable
PROPERTY AbandonedEnds
