\* Progress without a receiver, when reports of failure fill retryCh.
SPECIFICATION FairSpec
CONSTANTS
    low = low
    high = high
    Tasks <- OneTask
    Nodes = {n1}
    NoTask = NoTask
    NoNode = NoNode
    Handlers = {h1}
    Priority <- OneValue
    CreatedAt <- OneValue
    MaxRetries <- OneMaxRetries
    RetriesOfLow = 1
    RetriesOfHigh <- NoRetries
    DispatchCap = 1
    RetryCap = 1
    Reentrant = FALSE
    LockErrors = FALSE
    LeaseExpiry = FALSE
    ReportedStatus = {"idle"}
    ReportedLoads <- MCLoads
    MaxReports = 3
    MaxNodeEvents = 3
PROPERTIES
    WaitingTaskDispatched
    FailedTaskRetried
    ReportsAnswered
    RoundsEnd
CHECK_DEADLOCK FALSE
