\* One store at a time: up to five entries in the heap, five events in the
\* log, three data records, three nodes.  A status that the load balancer does
\* not know is to it what "offline" is.
SPECIFICATION Spec
CONSTANTS
    t1 = t1
    t2 = t2
    t3 = t3
    n1 = n1
    n2 = n2
    n3 = n3
    d1 = d1
    d2 = d2
    d3 = d3
    v1 = v1
    v2 = v2
    Tasks = {t1, t2, t3}
    Nodes = {n1, n2, n3}
    NoTask = NoTask
    NoNode = NoNode
    Never = Never
    Unset = Unset
    Priority <- MCPriority
    CreatedAt <- MCCreatedAt
    Weight <- MCWeight
    Data = {d1, d2, d3}
    Fields = {"target", "telescope"}
    Values = {v1, v2}
    FieldOf <- MCFieldOf
    SizeOf <- MCSizeOf
    CreationOf <- MCCreationOf
    Bounds = {0, 1, 2}
    DefaultLimit = 2
    Limits <- MCLimits
    Offsets <- MCOffsets
    MaxEntries = 5
    MaxEvents = 5
    ReportedStatus = {"idle"}
    ReportedLoads <- MCLoads
    MaxLoad = 2
    MaxTurns = 2
INVARIANTS
    LogReplays
    LogAnswers
    SearchExact
    PagesExact
    LoadSpread
PROPERTIES
    QueueImplemented
CHECK_DEADLOCK FALSE
