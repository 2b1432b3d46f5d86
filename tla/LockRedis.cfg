\* RedisLock: two callers in one process and one in another; all may overrun
\* their leases, and each process may stop twice.
SPECIFICATION FairSpec
CONSTANTS
    a = a
    b = b
    c = c
    p = p
    q = q
    Callers <- Three
    Keys = {k1}
    NoKey = NoKey
    Processes = {p, q}
    Home <- TwoAndOne
    Redis = TRUE
    TTL = 3
    MaxStops = 2
INVARIANTS
    LeasesProtected
    LeasesExclusive
PROPERTIES
    KeyTakenOver
