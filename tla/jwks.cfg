\* Two requests that ask again and again, the TTL shorter than max_stale.
CONSTANTS
    Requests = {r1, r2}
    Startup = Startup
    k1 = k1
    k2 = k2
    Kids = {k1, k2}
    KeySets <- MCKeySets
    CacheTtl = 1
    MaxStale = 2
SPECIFICATION Spec
PROPERTIES
    SetNeverGoesBack
    FetchedKeyIsFound
    EveryRequestAnswered
