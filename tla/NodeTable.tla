----------------------------- MODULE NodeTable -----------------------------
(***************************************************************************)
(* The node table of internal/node/store.go: what one call of a NodeStore  *)
(* method, made under store.mu, does to the fields the scheduler and the   *)
(* health checker read.  A node that is not in the map is "absent".        *)
(***************************************************************************)
EXTENDS Identifiers, Integers

CONSTANTS ReportedStatus,  \* statuses that heartbeats carry, whatever strings
          ReportedLoads    \* running counts that heartbeats carry, any integers

\* Nothing is asked of the strings; "absent" is the model's own.
ASSUME HeartbeatAssumption ==
    /\ "absent" \notin ReportedStatus
    /\ ReportedLoads \subseteq Int

VARIABLES nodeStatus,    \* Node.Status
          runningTasks   \* Node.Stats.RunningTasks

nodeVars == <<nodeStatus, runningTasks>>

\* The statuses the code knows; a heartbeat may store any other.
NodeStatus == {"online", "offline", "busy", "idle", "disabled"}

StoredStatus == NodeStatus \cup ReportedStatus

NodeTableTypeOK ==
    /\ nodeStatus \in [Nodes -> StoredStatus \cup {"absent"}]
    /\ runningTasks \in [Nodes -> Int]

NodeTableInit ==
    /\ nodeStatus = [n \in Nodes |-> "absent"]
    /\ runningTasks = [n \in Nodes |-> 0]

Registered(n) == nodeStatus[n] # "absent"

\* NodeManager.GetAvailableNodes
AvailableNodes == {n \in Nodes : nodeStatus[n] \in {"online", "idle", "busy"}}

RegisterNode(n) ==
    /\ ~Registered(n)
    /\ nodeStatus' = [nodeStatus EXCEPT ![n] = "online"]
    /\ UNCHANGED runningTasks

DeregisterNode(n) ==
    /\ Registered(n)
    /\ nodeStatus' = [nodeStatus EXCEPT ![n] = "absent"]
    /\ runningTasks' = [runningTasks EXCEPT ![n] = 0]

\* A heartbeat overwrites both the status and the running count, unchecked.
UpdateHeartbeat(n, s, r) ==
    /\ Registered(n)
    /\ nodeStatus' = [nodeStatus EXCEPT ![n] = s]
    /\ runningTasks' = [runningTasks EXCEPT ![n] = r]

MarkNodeOffline(n) ==
    /\ Registered(n)
    /\ nodeStatus' = [nodeStatus EXCEPT ![n] = "offline"]
    /\ UNCHANGED runningTasks

\* Mutant: the count is not clamped.
CountAfter_Unclamped(n, delta) == runningTasks[n] + delta

\* The count is clamped at zero; a positive count makes the node busy from
\* whatever status it had, a zero count makes a busy node idle.
CountAfter(n, delta) ==
    IF runningTasks[n] + delta < 0 THEN 0 ELSE runningTasks[n] + delta

StatusAfter(n, delta) ==
    IF CountAfter(n, delta) > 0 THEN "busy"
    ELSE IF nodeStatus[n] = "busy" THEN "idle" ELSE nodeStatus[n]

UpdateTaskCount(n, delta) ==
    /\ Registered(n)
    /\ runningTasks' = [runningTasks EXCEPT ![n] = CountAfter(n, delta)]
    /\ nodeStatus' = [nodeStatus EXCEPT ![n] = StatusAfter(n, delta)]

=============================================================================
