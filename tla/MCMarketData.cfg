CONSTANTS
    Size <- MCSize
    Expected <- MCExpected
    Symbols = {s1, s2}
    Requests = {q1, q2}
    TTL = 2
    CacheMax = 1
    MaxClock = 2
    Fresh = Fresh
SPECIFICATION Spec
SYMMETRY Symmetry
INVARIANTS
    TypeOK
    LoadIsTrue
    CacheBounded
    ServedIsFresh
