\* Heartbeats with wrong clocks, task counts, an agent, and a checker at its
\* own pace.
SPECIFICATION FairSpec
CONSTANTS
    Tasks = {}
    Nodes = {n1, n2}
    NoTask = NoTask
    NoNode = NoNode
    Agents = {n2}
    Timeout = 1
    Horizon = 2
    Skews <- WrongClocks
    Ahead = 1
    ReportedStatus = {"disabled", "idle", "unheard-of"}
    ReportedLoads <- AnyLoads
    Counting = TRUE
    MaxRunning = 1
INVARIANTS
    AlertsEarned
    SilenceNoticed
    CountsAgree
    AgentsKnown
PROPERTIES
    SilentNodeFound
    AgentReturns
