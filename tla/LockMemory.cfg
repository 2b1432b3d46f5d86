\* MemoryLock: three callers of one process, which may overrun their leases.
SPECIFICATION Spec
CONSTANTS
    a = a
    b = b
    c = c
    p = p
    q = q
    Callers <- Three
    Keys = {k1, k2}
    NoKey = NoKey
    Processes = {p}
    Home <- Threesome
    Redis = FALSE
    TTL = 3
    MaxStops = 1
INVARIANTS
    LeasesProtected
    LeasesExclusive
