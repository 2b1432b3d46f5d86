\* Violation: two callers share a process, a third is in another one.
SPECIFICATION Spec
CONSTANTS
    a = a
    b = b
    c = c
    p = p
    q = q
    Callers <- Three
    Keys = {k1}
    NoKey = NoKey
    Processes = {p, q}
    Home <- TwoAndOne
    Redis = TRUE
    TTL = 2
    MaxStops = 0
INVARIANTS
    InstancesExclusive
