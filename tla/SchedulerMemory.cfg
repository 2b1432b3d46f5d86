\* The scheduler over MemoryLock: not reentrant, never failing, no lease expires.
SPECIFICATION Spec
CONSTANTS
    low = low
    high = high
    Tasks <- MCTasks
    Nodes = {n1}
    NoTask = NoTask
    NoNode = NoNode
    Handlers = {h1, h2}
    Priority <- MCPriority
    CreatedAt <- MCCreatedAt
    MaxRetries <- MCMaxRetries
    RetriesOfLow = 2
    RetriesOfHigh <- NoRetries
    DispatchCap = 1
    RetryCap = 1
    Reentrant = FALSE
    LockErrors = FALSE
    LeaseExpiry = FALSE
    ReportedStatus = {"idle", "unheard-of"}
    ReportedLoads <- MCLoads
    MaxReports = 2
    MaxNodeEvents = 2
SYMMETRY HandlerSymmetry
INVARIANTS
    TypeOK
    DispatchLedger
    DeliveryLedger
    AlertsMatchRetries
    NoEntrySkipped
    NoStrandedTask
    StatusSerialised
PROPERTIES
    ImplementsAttempts
CHECK_DEADLOCK FALSE
