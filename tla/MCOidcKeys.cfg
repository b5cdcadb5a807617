\* Two handlers and two names of keys, of which any may be published, one also twice.
SPECIFICATION FairSpec
CONSTANTS
    None = None
    Handler = {h1, h2}
    Key = {k1, k2}
    Twice = {k2}
    MaxCacheAge = 2
    FetchTimeout = 1
INVARIANT TypeOK
PROPERTIES WithdrawnRefused PublishedFound Answered
