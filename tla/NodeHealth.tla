----------------------------- MODULE NodeHealth -----------------------------
(***************************************************************************)
(* The node manager of internal/node and the requests that reach it:       *)
(* registrations, heartbeats, the scheduler's task counts and the health   *)
(* checker, which lists the silent nodes first and marks and reports them  *)
(* one by one afterwards, without the lock in between.  The table is kept  *)
(* in memory only, and the agents of cmd/node-agent, which may stop at any *)
(* time as the server may, register once, when they start.                 *)
(*                                                                         *)
(* Time is counted in ticks since a node was seen, by the clock of whoever *)
(* stamped the heartbeat (age) and by the server's own (silence), each up  *)
(* to the first value that makes no further difference.                    *)
(***************************************************************************)
EXTENDS NodeTable, FiniteSets

CONSTANTS
    Agents,          \* nodes that run cmd/node-agent
    Timeout,         \* heartbeatTimeout
    Horizon,         \* bound on the ticks counted between two rounds
    Skews,           \* how far a timestamp is behind the server's clock
    Ahead,           \* the lead of the fastest clock that stamps heartbeats
    Counting,        \* does the scheduler count tasks on these nodes?
    MaxRunning       \* bound on the running counts the scheduler counts up to

ASSUME HealthAssumption ==
    /\ Agents \subseteq Nodes
    /\ Timeout \in Nat
    /\ Horizon \in Nat
    /\ Skews \subseteq Int
    /\ Ahead \in Nat
    /\ \A d \in Skews : -d <= Ahead
    /\ Counting \in BOOLEAN
    /\ MaxRunning \in Nat

VARIABLES
    age,       \* server time less Node.LastSeen
    silence,   \* ticks since the server last heard of the node
    suspects,  \* nodes of CheckOfflineNodes that are still to be marked
    reporting, \* the node that was marked and is not reported yet
    heard,     \* nodes heard of, or brought back, since they were last marked
    revived,   \* nodes that a task count brought back since the last round
    sinceCheck, \* ticks since the last round began
    running,   \* agents that have registered and send heartbeats
    lost       \* those of them whose node was taken from the table since

healthVars == <<suspects, reporting, sinceCheck>>
clockVars == <<age, silence>>
agentVars == <<running, lost>>
vars == <<nodeVars, clockVars, healthVars, heard, revived, agentVars>>

MaxSilence == Timeout + Ahead + Horizon

TypeOK ==
    /\ NodeTableTypeOK
    /\ age \in [Nodes -> Int]
    /\ silence \in [Nodes -> 0 .. MaxSilence]
    /\ suspects \subseteq Nodes
    /\ reporting \in Nodes \cup {NoNode}
    /\ heard \subseteq Nodes
    /\ revived \subseteq Nodes
    /\ sinceCheck \in 0 .. Horizon
    /\ running \subseteq Agents
    /\ lost \subseteq running

Init ==
    /\ NodeTableInit
    /\ age = [n \in Nodes |-> 0]
    /\ silence = [n \in Nodes |-> 0]
    /\ suspects = {}
    /\ reporting = NoNode
    /\ heard = {}
    /\ revived = {}
    /\ sinceCheck = 0
    /\ running = {}
    /\ lost = {}

RoundIdle == suspects = {} /\ reporting = NoNode

\* Nodes that CheckOfflineNodes looks at.
Live(n) == nodeStatus[n] \notin {"absent", "offline", "disabled"}

\* The server hears of n, with a timestamp that is d behind its clock.
Contact(n, d) ==
    /\ age' = [age EXCEPT ![n] = d]
    /\ silence' = [silence EXCEPT ![n] = 0]
    /\ heard' = heard \cup {n}
    /\ UNCHANGED <<healthVars, revived>>

Register(n) ==
    /\ RegisterNode(n)
    /\ Contact(n, 0)
    /\ lost' = lost \ {n}
    /\ UNCHANGED running

Deregister(n) ==
    /\ DeregisterNode(n)
    /\ lost' = lost \cup (running \cap {n})
    /\ UNCHANGED <<clockVars, healthVars, heard, revived, running>>

\* ProcessHeartbeat takes status, load and timestamp as they come.
Heartbeat(n, s, r, d) ==
    /\ UpdateHeartbeat(n, s, r)
    /\ Contact(n, d)
    /\ UNCHANGED agentVars

\* main of the agent: 201 and 409 will both do.  Without a server it returns.
StartAgent(n) ==
    /\ n \in Agents \ running
    /\ IF Registered(n)
         THEN UNCHANGED <<nodeVars, clockVars, healthVars, heard, revived>>
         ELSE RegisterNode(n) /\ Contact(n, 0)
    /\ running' = running \cup {n}
    /\ UNCHANGED lost

StopAgent(n) ==
    /\ n \in running
    /\ running' = running \ {n}
    /\ lost' = lost \ {n}
    /\ UNCHANGED <<nodeVars, clockVars, healthVars, heard, revived>>

\* Mutant: the status of a heartbeat is not stored.
AgentHeartbeat_KeepsStatus(n) ==
    /\ n \in running
    /\ UpdateHeartbeat(n, nodeStatus[n], 0)
    /\ Contact(n, 0)
    /\ UNCHANGED agentVars

\* sendHeartbeats of the agent: always idle, no running task, the time of
\* its own clock, which the model takes to be right.  It does not look at the
\* answer, a 404 if the node is not in the table.
AgentHeartbeat(n) == n \in running /\ Heartbeat(n, "idle", 0, 0)

\* The server stops, in whatever order, and is started again.
RestartServer ==
    /\ nodeStatus' = [n \in Nodes |-> "absent"]
    /\ runningTasks' = [n \in Nodes |-> 0]
    /\ age' = [n \in Nodes |-> 0]
    /\ silence' = [n \in Nodes |-> 0]
    /\ suspects' = {}
    /\ reporting' = NoNode
    /\ heard' = {}
    /\ revived' = {}
    /\ sinceCheck' = 0
    /\ lost' = running
    /\ UNCHANGED running

\* The scheduler counts a task in or out, which brings back a node that is
\* offline or disabled.
CountTask(n, delta) ==
    /\ Counting
    /\ delta > 0 => runningTasks[n] < MaxRunning
    /\ UpdateTaskCount(n, delta)
    /\ IF ~Live(n) /\ Live(n)'
         THEN heard' = heard \cup {n} /\ revived' = revived \cup {n}
         ELSE UNCHANGED <<heard, revived>>
    /\ UNCHANGED <<clockVars, healthVars, agentVars>>

\* Mutant: nodes that are offline already are listed again.
Silent_AlsoOffline(n) == nodeStatus[n] \notin {"absent", "disabled"} /\ age[n] > Timeout

Silent(n) == Live(n) /\ age[n] > Timeout

\* Mutant: a busy node cannot be offline.
CheckOfflineNodes_SkipsBusy ==
    /\ RoundIdle
    /\ suspects' = {n \in Nodes : Silent(n) /\ nodeStatus[n] # "busy"}
    /\ sinceCheck' = 0
    /\ revived' = {}
    /\ UNCHANGED <<nodeVars, clockVars, heard, reporting, agentVars>>

CheckOfflineNodes ==
    /\ RoundIdle
    /\ suspects' = {n \in Nodes : Silent(n)}
    /\ sinceCheck' = 0
    /\ revived' = {}
    /\ UNCHANGED <<nodeVars, clockVars, heard, reporting, agentVars>>

\* Mutant: a silent node is taken out of the table.
MarkSuspect_Removes(n) ==
    /\ reporting = NoNode
    /\ n \in suspects
    /\ nodeStatus' = [nodeStatus EXCEPT ![n] = "absent"]
    /\ suspects' = suspects \ {n}
    /\ reporting' = n
    /\ heard' = heard \ {n}
    /\ UNCHANGED <<runningTasks, clockVars, revived, sinceCheck, agentVars>>

\* MarkNodeOffline does not look at LastSeen again.
MarkSuspect(n) ==
    /\ reporting = NoNode
    /\ n \in suspects
    /\ IF Registered(n) THEN MarkNodeOffline(n) ELSE UNCHANGED nodeVars
    /\ suspects' = suspects \ {n}
    /\ reporting' = n
    /\ heard' = heard \ {n}
    /\ UNCHANGED <<clockVars, revived, sinceCheck, agentVars>>

\* CreateAlert: the node "has been offline for more than" the timeout.
ReportOffline ==
    /\ reporting # NoNode
    /\ reporting' = NoNode
    /\ UNCHANGED <<nodeVars, clockVars, heard, revived, suspects, sinceCheck, agentVars>>

CheckNodeHealth ==
    \/ CheckOfflineNodes
    \/ \E n \in Nodes : MarkSuspect(n)
    \/ ReportOffline

UpTo(max, n) == IF n < max THEN n + 1 ELSE max

Tick ==
    /\ age' = [n \in Nodes |-> UpTo(Timeout + 1, age[n])]
    /\ silence' = [n \in Nodes |-> UpTo(MaxSilence, silence[n])]
    /\ sinceCheck' = UpTo(Horizon, sinceCheck)
    /\ UNCHANGED <<nodeVars, suspects, reporting, heard, revived, agentVars>>

Next ==
    \/ \E n \in Nodes : Register(n) \/ Deregister(n)
    \/ \E n \in Agents : StartAgent(n) \/ StopAgent(n) \/ AgentHeartbeat(n)
    \/ RestartServer
    \/ \E n \in Nodes \ Agents, s \in ReportedStatus, r \in ReportedLoads, d \in Skews :
          Heartbeat(n, s, r, d)
    \/ \E n \in Nodes : CountTask(n, 1) \/ CountTask(n, -1)
    \/ CheckNodeHealth
    \/ Tick

Spec == Init /\ [][Next]_vars

\* Time passes, the health checker runs, running agents send heartbeats.
Fairness ==
    /\ WF_vars(Tick)
    /\ WF_vars(CheckOfflineNodes)
    /\ WF_vars(ReportOffline \/ \E n \in Nodes : MarkSuspect(n))
    /\ \A n \in Agents : WF_vars(AgentHeartbeat(n))

FairSpec == Spec /\ Fairness

=============================================================================
