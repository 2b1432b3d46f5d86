\* The scheduler over RedisLock: reentrant within the process, calls may fail,
\* keys may expire.
SPECIFICATION Spec
CONSTANTS
    low = low
    high = high
    Tasks <- MCTasks
    Nodes = {n1}
    NoTask = NoTask
    NoNode = NoNode
    Handlers = {h1, h2}
    Priority <- MCPriority
    CreatedAt <- MCCreatedAt
    MaxRetries <- MCMaxRetries
    RetriesOfLow = 1
    RetriesOfHigh <- NoRetries
    DispatchCap = 1
    RetryCap = 1
    Reentrant = TRUE
    LockErrors = TRUE
    LeaseExpiry = TRUE
    ReportedStatus = {"unheard-of"}
    ReportedLoads <- MCLoads
    MaxReports = 2
    MaxNodeEvents = 1
SYMMETRY HandlerSymmetry
INVARIANTS
    NoStrandedTask
PROPERTIES
    CompletedNeverFails
CHECK_DEADLOCK FALSE
