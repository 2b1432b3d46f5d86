----------------------------- MODULE LoadBalancer -----------------------------
(***************************************************************************)
(* GetBestNodeForTask: the available nodes are listed in the order of a Go *)
(* map, and the load balancer of internal/node/loadbalancer.go chooses     *)
(* among them with the statuses and counts they have by then.  A choice    *)
(* that is random in the code is a set here.                               *)
(***************************************************************************)
EXTENDS NodeTable, SequencesExt

CONSTANTS
    Weight,     \* Node.Weight, positive after NodeHandler.RegisterNode
    MaxLoad,    \* bound on the counts UpdateTaskCount counts up to
    MaxTurns    \* bound on rrIndex

ASSUME BalancerAssumption ==
    /\ Weight \in [Nodes -> Nat \ {0}]
    /\ IsFiniteSet(Nodes)

VARIABLES listed,   \* what GetAvailableNodes returned, <<>> before it is called
          rrIndex   \* LoadBalancer.rrIndex

balancerVars == <<nodeVars, listed, rrIndex>>

Low == 1
Medium == 5
High == 10

BalancerInit ==
    /\ NodeTableInit
    /\ listed = <<>>
    /\ rrIndex = 0

\* The nodes of the list that are still available.
Fit(nodes) ==
    LET fit[i \in 0 .. Len(nodes)] ==
            IF i = 0 THEN <<>>
            ELSE IF nodes[i] \in AvailableNodes THEN Append(fit[i - 1], nodes[i])
            ELSE fit[i - 1]
    IN  fit[Len(nodes)]

roundRobin(nodes) == nodes[(rrIndex % Len(nodes)) + 1]

\* The first node of the list with the least running tasks, where a best node
\* with the count -1 is taken for none: -1 is what minTasks starts with.
leastConnections(nodes) ==
    LET best[i \in 0 .. Len(nodes)] ==
            IF i = 0 THEN Head(nodes)
            ELSE IF \/ runningTasks[best[i - 1]] = -1
                    \/ runningTasks[nodes[i]] < runningTasks[best[i - 1]]
                 THEN nodes[i] ELSE best[i - 1]
    IN  best[Len(nodes)]

\* Mutant: the running counts are compared as they are.
Lighter_IgnoresWeight(m, n) == runningTasks[m] < runningTasks[n]

\* running / weight of m is less than that of n.
Lighter(m, n) == runningTasks[m] * Weight[n] < runningTasks[n] * Weight[m]

\* What sort.Slice may make of the nodes.
SortedNodes(nodes) ==
    {s \in SetToSeqs(Range(nodes)) : \A i, j \in DOMAIN s : i < j => ~Lighter(s[j], s[i])}

\* Urgent tasks get the lighter half, tasks that can wait the other one.
Half(s, priority) ==
    IF Len(s) > 1 /\ priority >= High THEN SubSeq(s, 1, Len(s) \div 2)
    ELSE IF Len(s) > 1 /\ priority <= Low THEN SubSeq(s, (Len(s) \div 2) + 1, Len(s))
    ELSE s

priorityAware(nodes, priority) == UNION {Range(Half(s, priority)) : s \in SortedNodes(nodes)}

\* SelectNodeWithPriority: the nodes it may return.  As weights are positive,
\* weighted may return every node.
Selectable(strategy, nodes, priority) ==
    LET fit == Fit(nodes)
    IN  CASE fit = <<>> -> {Head(nodes)}
          [] fit # <<>> /\ strategy = "round_robin" -> {roundRobin(fit)}
          [] fit # <<>> /\ strategy = "least_connections" -> {leastConnections(fit)}
          [] fit # <<>> /\ strategy \in {"weighted", "random"} -> Range(fit)
          [] fit # <<>> /\ strategy = "priority_aware" -> priorityAware(fit, priority)

GetAvailableNodes ==
    /\ listed = <<>>
    /\ listed' \in SetToSeqs(AvailableNodes)
    /\ UNCHANGED <<nodeVars, rrIndex>>

\* Statuses and counts are read in one step.  The code reads them one by one
\* without the store's lock, so that it may rank a mixture of old and new ones;
\* what it chooses by is then no state the table was ever in.  Only a round-robin
\* selection leaves a trace in the load balancer.
SelectNode ==
    /\ listed # <<>>
    /\ rrIndex < MaxTurns
    /\ rrIndex' \in IF Fit(listed) = <<>> THEN {rrIndex} ELSE {rrIndex, rrIndex + 1}
    /\ listed' = <<>>
    /\ UNCHANGED nodeVars

\* What may happen to the nodes meanwhile.  A node that is deregistered stays in
\* the list as it was, so that leaving it out of the window loses nothing.
NodeChanges ==
    /\ \E n \in Nodes :
          \/ RegisterNode(n)
          \/ listed = <<>> /\ DeregisterNode(n)
          \/ \E s \in ReportedStatus, r \in ReportedLoads : UpdateHeartbeat(n, s, r)
          \/ runningTasks[n] < MaxLoad /\ UpdateTaskCount(n, 1)
          \/ UpdateTaskCount(n, -1)
          \/ MarkNodeOffline(n)
    /\ UNCHANGED <<listed, rrIndex>>

BalancerNext == GetAvailableNodes \/ SelectNode \/ NodeChanges

BalancerSpec == BalancerInit /\ [][BalancerNext]_balancerVars

=============================================================================
