------------------------ MODULE NodeHealthProperties ------------------------
(***************************************************************************)
(* What the health checker promises to the scheduler and to the operator.  *)
(***************************************************************************)
EXTENDS NodeHealth

\* One alert for each outage (checkNodeHealth, CheckOfflineNodes): a node is
\* listed again only if the server heard of it since it was last marked, or
\* a task count brought it back.  As each alert follows a marking of its own,
\* no node that stays offline is reported twice.  The heartbeat may come before
\* the first of the two alerts, which is created after the marking.
AlertsEarned == suspects \subseteq heard

\* The status of an agent's node and its running count agree (UpdateTaskCount,
\* UpdateHeartbeat, which overwrites the count the scheduler keeps): never a
\* count below zero, no busy node without a task, and no node with a task that
\* passes for idle.  Only the health checker's mark hides a count.  Nothing of
\* the kind holds of nodes that report what they like.
CountsAgree ==
    \A n \in Agents :
        /\ runningTasks[n] >= 0
        /\ nodeStatus[n] = "busy" => runningTasks[n] > 0
        /\ runningTasks[n] > 0 => nodeStatus[n] \in {"busy", "offline"}

\* Between two rounds of checkNodeHealth the scheduler is given no node
\* (GetAvailableNodes) that had been silent for longer than the timeout when
\* the last round began, allowing for clocks that run ahead, except one that
\* UpdateNodeTaskCount brought back since.
SilenceNoticed ==
    RoundIdle /\ sinceCheck < Horizon =>
        \A n \in AvailableNodes :
            silence[n] <= Timeout + Ahead + sinceCheck \/ n \in revived

\* A node that went silent for good is found out, again each time the
\* scheduler's late counts revive it, whatever its last timestamp was.
SilentNodeFound ==
    \A n \in Nodes : <>[](silence[n] > 0) => []<>(n \notin AvailableNodes)

\* Only a deregistration or a restart of the server takes the node of a
\* running agent from the table; the health checker and an agent that comes
\* back under its old ID (409) never do.
AgentsKnown == \A n \in running : Registered(n) \/ n \in lost

\* An agent that sends its heartbeats gets its node back whatever the health
\* checker, the scheduler or its own restarts did to it.  After a loss it does
\* not: the agent registers once and does not look at the 404.
AgentReturns ==
    \A n \in Agents :
        n \in running ~> n \in AvailableNodes \/ n \in lost \/ n \notin running

=============================================================================
