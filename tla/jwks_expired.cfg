\* A known key id once the set is older than max_stale.
CONSTANTS
    Requests = {r1, r2}
    Startup = Startup
    k1 = k1
    k2 = k2
    Kids = {k1, k2}
    KeySets <- MCKeySets
    CacheTtl = 1
    MaxStale = 2
SYMMETRY MCSymmetry
SPECIFICATION Spec
PROPERTIES
    ExpiredSetIsRefreshed
