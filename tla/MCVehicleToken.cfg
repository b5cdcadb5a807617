\* The delays of the code, in seconds.
SPECIFICATION FairSpec
CONSTANTS
    RefreshBefore = 300
    Retry = 30
    MinSleep = 1
    PostTimeout = 5
    Lives = {301, 600, 900}
INVARIANTS TypeOK ValidUnlessFailing
PROPERTY Recovers
