\* Violation: a completed task does not stay completed.
SPECIFICATION Spec
CONSTANTS
    low = low
    high = high
    Tasks <- MCTasks
    Nodes = {n1}
    NoTask = NoTask
    NoNode = NoNode
    Handlers = {h1, h2}
    Priority <- MCPriority
    CreatedAt <- MCCreatedAt
    MaxRetries <- MCMaxRetries
    RetriesOfLow = 1
    RetriesOfHigh <- NoRetries
    DispatchCap = 1
    RetryCap = 1
    Reentrant = FALSE
    LockErrors = FALSE
    LeaseExpiry = FALSE
    ReportedStatus = {"idle"}
    ReportedLoads <- MCLoads
    MaxReports = 3
    MaxNodeEvents = 1
PROPERTIES
    CompletedIsFinal
CHECK_DEADLOCK FALSE
