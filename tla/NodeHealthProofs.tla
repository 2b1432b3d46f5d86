-------------------------- MODULE NodeHealthProofs --------------------------
(***************************************************************************)
(* Proofs about the health checker, for any nodes, clocks and counts.      *)
(*                                                                         *)
(* AlertsEarned is not inductive: a live node that is not listed yet may   *)
(* be listed by the next round.  The strengthening says that the server    *)
(* has heard of every live node, too.  SilenceNoticed holds between rounds *)
(* only; SilenceInv says what is true of the nodes that a running round    *)
(* has not listed, and relates the two clocks.                             *)
(***************************************************************************)
EXTENDS NodeHealthProperties, TLAPS

\* What a step must keep for the alerts to stay earned.
HealthInv ==
    /\ nodeStatus \in [Nodes -> StoredStatus \cup {"absent"}]
    /\ suspects \subseteq heard
    /\ heard \subseteq Nodes
    /\ \A n \in Nodes : Live(n) => n \in heard

LEMMA HealthInvStep ==
    ASSUME HealthInv, [Next]_vars
    PROVE  HealthInv'
<1> USE DEF HealthInv, StoredStatus
<1>1. ASSUME NEW n \in Nodes, NEW d, Contact(n, d),
             \E s \in StoredStatus : nodeStatus' = [nodeStatus EXCEPT ![n] = s]
      PROVE  HealthInv'
  BY <1>1 DEF Contact, healthVars, Live
<1>2. ASSUME NEW n \in Nodes, Register(n) PROVE HealthInv'
  BY <1>1, <1>2 DEF Register, RegisterNode, NodeStatus
<1>3. ASSUME NEW n \in Nodes, NEW s \in StoredStatus, NEW r, NEW d, Heartbeat(n, s, r, d)
      PROVE  HealthInv'
  BY <1>1, <1>3 DEF Heartbeat, UpdateHeartbeat
<1>4. ASSUME NEW n \in Nodes, AgentHeartbeat(n) PROVE HealthInv'
  BY <1>3, <1>4 DEF AgentHeartbeat, NodeStatus
<1>5. ASSUME NEW n \in Nodes, Deregister(n) PROVE HealthInv'
  BY <1>5 DEF Deregister, DeregisterNode, healthVars, Live
<1>6. ASSUME NEW n \in Nodes, NEW delta, CountTask(n, delta) PROVE HealthInv'
  <2>1. /\ nodeStatus' = [nodeStatus EXCEPT ![n] = StatusAfter(n, delta)]
        /\ StatusAfter(n, delta) \in StoredStatus /\ UNCHANGED suspects
    BY <1>6 DEF CountTask, UpdateTaskCount, Registered, StatusAfter, NodeStatus, healthVars
  <2>2. heard \subseteq heard' /\ heard' \subseteq Nodes /\ (Live(n)' => Live(n) \/ n \in heard')
    BY <1>6 DEF CountTask
  <2> QED
    BY <2>1, <2>2 DEF Live
<1>7. ASSUME CheckOfflineNodes PROVE HealthInv'
  BY <1>7 DEF CheckOfflineNodes, nodeVars, Silent, Live
<1>8. ASSUME NEW n \in Nodes, MarkSuspect(n) PROVE HealthInv'
  <2>1. nodeStatus' \in [Nodes -> StoredStatus \cup {"absent"}] /\ ~Live(n)'
    BY <1>8 DEF MarkSuspect, MarkNodeOffline, Registered, Live, nodeVars, NodeStatus
  <2>2. \A x \in Nodes \ {n} : nodeStatus'[x] = nodeStatus[x]
    BY <1>8 DEF MarkSuspect, MarkNodeOffline, nodeVars
  <2> QED
    BY <1>8, <2>1, <2>2 DEF MarkSuspect, Live
<1>9. ASSUME UNCHANGED <<nodeStatus, heard, suspects>> PROVE HealthInv'
  BY <1>9 DEF Live
<1>10. ReportOffline \/ Tick \/ UNCHANGED vars => UNCHANGED <<nodeStatus, heard, suspects>>
  BY DEF ReportOffline, Tick, vars, nodeVars, healthVars
<1>11. ASSUME NEW n \in Nodes, StartAgent(n) PROVE HealthInv'
  <2>1. CASE Registered(n)
    BY <1>9, <1>11, <2>1 DEF StartAgent, nodeVars, healthVars
  <2>2. CASE ~Registered(n)
    BY <1>1, <1>11, <2>2 DEF StartAgent, RegisterNode, NodeStatus
  <2> QED
    BY <2>1, <2>2
<1>12. ASSUME NEW n \in Nodes, StopAgent(n) PROVE HealthInv'
  BY <1>9, <1>12 DEF StopAgent, nodeVars, healthVars
<1>13. ASSUME RestartServer PROVE HealthInv'
  BY <1>13 DEF RestartServer, Live
<1> QED
  BY <1>2, <1>3, <1>4, <1>5, <1>6, <1>7, <1>8, <1>9, <1>10, <1>11, <1>12, <1>13,
     HealthAssumption
     DEF Next, CheckNodeHealth

\* checkNodeHealth raises one alert for each outage: whatever the clocks, the
\* clients and the scheduler do between its listing, marking and reporting, a
\* node is listed again only after it came back.
THEOREM AlertsAreEarned == Spec => []AlertsEarned
<1>1. Init => HealthInv
  BY DEF Init, HealthInv, NodeTableInit, Live
<1>2. HealthInv /\ [Next]_vars => HealthInv'
  BY HealthInvStep
<1>3. HealthInv => AlertsEarned
  BY DEF HealthInv, AlertsEarned
<1> QED
  BY <1>1, <1>2, <1>3, PTL DEF Spec

\* The agents' statuses and counts agree whatever the scheduler and the health
\* checker do to them, and whatever other nodes report: an agent reports no
\* task, and UpdateTaskCount sets status and count together.
THEOREM CountsAlwaysAgree == Spec => []CountsAgree
<1> DEFINE Inv == /\ nodeStatus \in [Nodes -> StoredStatus \cup {"absent"}]
                  /\ runningTasks \in [Nodes -> Int]
                  /\ \A n \in Agents : nodeStatus[n] = "absent" => runningTasks[n] = 0
                  /\ CountsAgree
<1>1. Init => Inv
  BY HealthAssumption DEF Init, NodeTableInit, CountsAgree
<1>2. Inv /\ [Next]_vars => Inv'
  <2> SUFFICES ASSUME Inv, [Next]_vars PROVE Inv'
    OBVIOUS
  <2> USE HealthAssumption DEF CountsAgree, StoredStatus
  <2>1. ASSUME NEW n \in Nodes, RegisterNode(n) PROVE Inv'
    BY <2>1 DEF RegisterNode, Registered, NodeStatus
  <2>2. ASSUME NEW n \in Nodes, DeregisterNode(n) PROVE Inv'
    BY <2>2 DEF DeregisterNode
  <2>3. ASSUME NEW n \in Nodes \ Agents, NEW s \in ReportedStatus, NEW r \in ReportedLoads,
               UpdateHeartbeat(n, s, r)
        PROVE  Inv'
    BY <2>3, HeartbeatAssumption DEF UpdateHeartbeat
  <2>4. ASSUME NEW n \in Agents, AgentHeartbeat(n) PROVE Inv'
    BY <2>4 DEF AgentHeartbeat, Heartbeat, UpdateHeartbeat, NodeStatus
  <2>5. ASSUME NEW n \in Nodes, NEW delta \in Int, UpdateTaskCount(n, delta) PROVE Inv'
    <3>1. CountAfter(n, delta) \in Int /\ CountAfter(n, delta) >= 0
      BY <2>5 DEF CountAfter
    <3>2. /\ CountAfter(n, delta) > 0 => StatusAfter(n, delta) = "busy"
          /\ CountAfter(n, delta) = 0 =>
                StatusAfter(n, delta) # "busy" /\ StatusAfter(n, delta) \in StoredStatus
      BY <2>5, <3>1 DEF StatusAfter, UpdateTaskCount, Registered, NodeStatus
    <3> HIDE DEF StoredStatus
    <3>3. "busy" \in StoredStatus /\ StatusAfter(n, delta) \in StoredStatus
      BY <3>1, <3>2 DEF StoredStatus, NodeStatus
    <3>4. nodeStatus' \in [Nodes -> StoredStatus \cup {"absent"}] /\ runningTasks' \in [Nodes -> Int]
      BY <2>5, <3>1, <3>3 DEF UpdateTaskCount
    <3>5. nodeStatus'[n] = StatusAfter(n, delta) /\ runningTasks'[n] = CountAfter(n, delta)
      BY <2>5 DEF UpdateTaskCount
    <3>6. \A x \in Nodes \ {n} : nodeStatus'[x] = nodeStatus[x] /\ runningTasks'[x] = runningTasks[x]
      BY <2>5 DEF UpdateTaskCount
    <3>7. StatusAfter(n, delta) # "absent"
      BY <2>5 DEF StatusAfter, UpdateTaskCount, Registered
    <3> QED
      BY <3>1, <3>2, <3>4, <3>5, <3>6, <3>7
  <2>6. ASSUME NEW n \in Nodes, MarkSuspect(n) PROVE Inv'
    BY <2>6 DEF MarkSuspect, MarkNodeOffline, Registered, nodeVars, NodeStatus
  <2>7. ASSUME RestartServer PROVE Inv'
    BY <2>7 DEF RestartServer
  <2>8. CASE UNCHANGED nodeVars
    BY <2>8 DEF nodeVars
  <2>9. CheckOfflineNodes \/ ReportOffline \/ Tick \/ UNCHANGED vars => UNCHANGED nodeVars
    BY DEF CheckOfflineNodes, ReportOffline, Tick, vars
  <2>10. ASSUME NEW n \in Agents, StartAgent(n) \/ StopAgent(n) PROVE Inv'
    <3>1. UNCHANGED nodeVars \/ RegisterNode(n)
      BY <2>10 DEF StartAgent, StopAgent
    <3> QED
      BY <2>1, <2>8, <3>1
  <2> HIDE DEF Inv
  <2> QED
    BY <2>1, <2>2, <2>3, <2>4, <2>5, <2>6, <2>7, <2>8, <2>9, <2>10
       DEF Next, CheckNodeHealth, Register, Deregister, Heartbeat, CountTask
<1> QED
  BY <1>1, <1>2, PTL DEF Spec

\* What a round that lists n later, or not at all, can rely on.
Noticed(n) ==
    Live(n) /\ n \notin suspects /\ n \notin revived =>
        silence[n] <= Timeout + Ahead + sinceCheck

\* A timestamp is no further ahead of the server's clock than the fastest clock.
Tracked(n) == age[n] <= Timeout => silence[n] <= age[n] + Ahead

SilenceInv ==
    /\ \A n \in Nodes : Tracked(n)
    /\ sinceCheck < Horizon => \A n \in Nodes : Noticed(n)

\* A step that hears of n resets both of its clocks.
LEMMA ContactType ==
    ASSUME TypeOK, NEW n \in Nodes, NEW d \in Skews \cup {0}, Contact(n, d)
    PROVE  /\ age' \in [Nodes -> Int]
           /\ silence' \in [Nodes -> 0 .. MaxSilence]
           /\ heard' \subseteq Nodes
           /\ UNCHANGED <<suspects, reporting, sinceCheck, revived>>
  BY HealthAssumption DEF TypeOK, Contact, MaxSilence, healthVars

LEMMA TypeOKStep ==
    ASSUME TypeOK, [Next]_vars
    PROVE  TypeOK'
<1> USE DEF TypeOK, NodeTableTypeOK, StoredStatus
<1>1. ASSUME NEW n \in Nodes, Register(n) PROVE TypeOK'
  BY <1>1, ContactType DEF Register, RegisterNode, NodeStatus
<1>2. ASSUME NEW n \in Nodes, Deregister(n) PROVE TypeOK'
  BY <1>2 DEF Deregister, DeregisterNode, clockVars, healthVars
<1>3. ASSUME NEW n \in Nodes, NEW s \in StoredStatus, NEW r \in Int, NEW d \in Skews \cup {0},
             Heartbeat(n, s, r, d)
      PROVE  TypeOK'
  BY <1>3, ContactType DEF Heartbeat, UpdateHeartbeat, agentVars
<1>4. ASSUME NEW n \in Nodes, AgentHeartbeat(n) PROVE TypeOK'
  BY <1>3, <1>4 DEF AgentHeartbeat, NodeStatus
<1>5. ASSUME NEW n \in Agents, StartAgent(n) PROVE TypeOK'
  <2>1. n \in Nodes
    BY HealthAssumption
  <2>2. CASE Registered(n)
    BY <1>5, <2>1, <2>2 DEF StartAgent, nodeVars, clockVars, healthVars
  <2>3. CASE ~Registered(n)
    BY <1>5, <2>1, <2>3, ContactType DEF StartAgent, RegisterNode, NodeStatus
  <2> QED
    BY <2>2, <2>3
<1>6. ASSUME NEW n \in Agents, StopAgent(n) PROVE TypeOK'
  BY <1>6 DEF StopAgent, nodeVars, clockVars, healthVars
<1>7. ASSUME RestartServer PROVE TypeOK'
  BY <1>7, HealthAssumption DEF RestartServer, MaxSilence
<1>8. ASSUME NEW n \in Nodes, NEW delta \in Int, CountTask(n, delta) PROVE TypeOK'
  <2>1. CountAfter(n, delta) \in Int /\ StatusAfter(n, delta) \in StoredStatus \cup {"absent"}
    BY <1>8 DEF CountAfter, StatusAfter, NodeStatus
  <2>2. heard' \subseteq Nodes /\ revived' \subseteq Nodes
    BY <1>8 DEF CountTask
  <2> QED
    BY <1>8, <2>1, <2>2 DEF CountTask, UpdateTaskCount, clockVars, healthVars, agentVars
<1>9. ASSUME CheckOfflineNodes PROVE TypeOK'
  BY <1>9, HealthAssumption DEF CheckOfflineNodes, nodeVars, clockVars, agentVars
<1>10. ASSUME NEW n \in Nodes, MarkSuspect(n) PROVE TypeOK'
  BY <1>10 DEF MarkSuspect, MarkNodeOffline, nodeVars, clockVars, agentVars, NodeStatus
<1>11. ASSUME ReportOffline PROVE TypeOK'
  BY <1>11 DEF ReportOffline, nodeVars, clockVars, agentVars
<1>12. ASSUME Tick PROVE TypeOK'
  <2>1. age' \in [Nodes -> Int]
    BY <1>12, HealthAssumption DEF Tick, UpTo
  <2>2. silence' \in [Nodes -> 0 .. MaxSilence] /\ sinceCheck' \in 0 .. Horizon
    BY <1>12, HealthAssumption DEF Tick, UpTo, MaxSilence
  <2> QED
    BY <1>12, <2>1, <2>2 DEF Tick, nodeVars, agentVars
<1>13. CASE UNCHANGED vars
  BY <1>13 DEF vars, nodeVars, clockVars, healthVars, agentVars
<1> QED
  BY <1>1, <1>2, <1>3, <1>4, <1>5, <1>6, <1>7, <1>8, <1>9, <1>10, <1>11, <1>12, <1>13,
     HealthAssumption, HeartbeatAssumption
     DEF Next, CheckNodeHealth

\* The node manager's tables keep their types, whatever statuses and counts the
\* heartbeats store: no listed node that is not in the table of identifiers, no
\* lost agent that is not running.
THEOREM HealthTypeCorrect == Spec => []TypeOK
<1>1. Init => TypeOK
  BY HealthAssumption DEF Init, TypeOK, NodeTableTypeOK, NodeTableInit, MaxSilence
<1> QED
  BY <1>1, TypeOKStep, PTL DEF Spec

LEMMA SilenceInvStep ==
    ASSUME TypeOK, TypeOK', SilenceInv, [Next]_vars
    PROVE  SilenceInv'
<1> USE HealthAssumption DEF SilenceInv, Tracked, Noticed
<1>1. ASSUME NEW n \in Nodes, NEW d \in Skews \cup {0}, Contact(n, d),
             \A x \in Nodes \ {n} : nodeStatus'[x] = nodeStatus[x]
      PROVE  SilenceInv'
  <2>1. -d <= Ahead /\ d \in Int
    OBVIOUS
  <2>2. /\ age' = [age EXCEPT ![n] = d] /\ silence' = [silence EXCEPT ![n] = 0]
        /\ UNCHANGED <<suspects, revived, sinceCheck>>
    BY <1>1 DEF Contact, healthVars
  <2>3. \A x \in Nodes : Tracked(x)'
    BY <2>1, <2>2 DEF TypeOK
  <2>4. ASSUME sinceCheck < Horizon, NEW x \in Nodes PROVE Noticed(x)'
    <3>1. CASE x = n
      BY <2>2, <3>1 DEF TypeOK
    <3>2. CASE x # n
      BY <1>1, <2>2, <2>4, <3>2 DEF TypeOK, Live
    <3> QED
      BY <3>1, <3>2
  <2> QED
    BY <2>2, <2>3, <2>4
<1>2. ASSUME NEW n \in Nodes, Register(n) PROVE SilenceInv'
  BY <1>1, <1>2 DEF Register, RegisterNode, TypeOK, NodeTableTypeOK
<1>3. ASSUME NEW n \in Nodes, NEW s, NEW r, NEW d \in Skews \cup {0}, Heartbeat(n, s, r, d)
      PROVE  SilenceInv'
  BY <1>1, <1>3 DEF Heartbeat, UpdateHeartbeat, TypeOK, NodeTableTypeOK
<1>4. ASSUME NEW n \in Nodes, AgentHeartbeat(n) PROVE SilenceInv'
  BY <1>3, <1>4 DEF AgentHeartbeat
<1>5. ASSUME UNCHANGED <<clockVars, suspects, sinceCheck>>, revived \subseteq revived',
             \A x \in Nodes : Live(x)' => Live(x) \/ x \in revived'
      PROVE  SilenceInv'
  BY <1>5 DEF clockVars
<1>6. ASSUME NEW n \in Nodes, StartAgent(n) PROVE SilenceInv'
  <2>1. CASE Registered(n)
    BY <1>5, <1>6, <2>1 DEF StartAgent, nodeVars, healthVars, Live
  <2>2. CASE ~Registered(n)
    BY <1>1, <1>6, <2>2 DEF StartAgent, RegisterNode, TypeOK, NodeTableTypeOK
  <2> QED
    BY <2>1, <2>2
<1>7. ASSUME NEW n \in Nodes, StopAgent(n) PROVE SilenceInv'
  BY <1>5, <1>7 DEF StopAgent, nodeVars, healthVars, Live
<1>8. ASSUME RestartServer PROVE SilenceInv'
  BY <1>8 DEF RestartServer
<1>9. ASSUME NEW n \in Nodes, Deregister(n) PROVE SilenceInv'
  BY <1>5, <1>9 DEF Deregister, DeregisterNode, TypeOK, NodeTableTypeOK, healthVars, Live
<1>10. ASSUME NEW n \in Nodes, NEW delta \in Int, CountTask(n, delta) PROVE SilenceInv'
  <2>1. \A x \in Nodes \ {n} : nodeStatus'[x] = nodeStatus[x]
    BY <1>10 DEF CountTask, UpdateTaskCount, TypeOK, NodeTableTypeOK
  <2>2. revived \subseteq revived' /\ (Live(n)' => Live(n) \/ n \in revived')
    BY <1>10 DEF CountTask
  <2>3. \A x \in Nodes : Live(x)' => Live(x) \/ x \in revived'
    BY <2>1, <2>2 DEF Live
  <2> QED
    BY <1>5, <1>10, <2>2, <2>3 DEF CountTask, healthVars
<1>11. ASSUME CheckOfflineNodes PROVE SilenceInv'
  <2>1. /\ suspects' = {n \in Nodes : Silent(n)} /\ sinceCheck' = 0
        /\ UNCHANGED <<nodeStatus, age, silence>>
    BY <1>11 DEF CheckOfflineNodes, nodeVars, clockVars
  <2>2. ASSUME NEW n \in Nodes, Live(n), n \notin suspects'
        PROVE  silence[n] <= Timeout + Ahead
    <3>1. age[n] <= Timeout
      BY <2>1, <2>2 DEF Silent, TypeOK
    <3> QED
      BY <3>1 DEF TypeOK
  <2> QED
    BY <2>1, <2>2 DEF Live
<1>12. ASSUME NEW n \in Nodes, MarkSuspect(n) PROVE SilenceInv'
  <2>1. /\ suspects' = suspects \ {n} /\ ~Live(n)'
        /\ UNCHANGED <<clockVars, revived, sinceCheck>>
    BY <1>12 DEF MarkSuspect, MarkNodeOffline, Registered, Live, nodeVars, TypeOK, NodeTableTypeOK
  <2>2. \A x \in Nodes \ {n} : nodeStatus'[x] = nodeStatus[x]
    BY <1>12 DEF MarkSuspect, MarkNodeOffline, nodeVars, TypeOK, NodeTableTypeOK
  <2> QED
    BY <2>1, <2>2 DEF clockVars, Live
<1>13. ASSUME ReportOffline PROVE SilenceInv'
  BY <1>5, <1>13 DEF ReportOffline, nodeVars, Live
<1>14. ASSUME Tick PROVE SilenceInv'
  <2>1. ASSUME NEW n \in Nodes
        PROVE  /\ age'[n] = UpTo(Timeout + 1, age[n])
               /\ silence'[n] = UpTo(MaxSilence, silence[n])
               /\ sinceCheck' = UpTo(Horizon, sinceCheck)
               /\ silence[n] \in Nat /\ age[n] \in Int /\ sinceCheck \in Nat
    BY <1>14 DEF Tick, TypeOK
  <2>2. ASSUME NEW n \in Nodes PROVE Tracked(n)'
    BY <2>1, <2>2 DEF UpTo, MaxSilence
  <2>3. ASSUME NEW n \in Nodes, sinceCheck' < Horizon PROVE Noticed(n)'
    <3>1. sinceCheck < Horizon /\ sinceCheck' = sinceCheck + 1
      BY <2>1, <2>3 DEF UpTo
    <3>2. silence'[n] <= silence[n] + 1
      BY <2>1 DEF UpTo, MaxSilence
    <3>3. UNCHANGED <<nodeStatus, suspects, revived>>
      BY <1>14 DEF Tick, nodeVars
    <3> QED
      BY <2>1, <3>1, <3>2, <3>3 DEF Live, TypeOK
  <2> QED
    BY <2>2, <2>3
<1>15. CASE UNCHANGED vars
  BY <1>5, <1>15 DEF vars, nodeVars, healthVars, Live
<1> QED
  BY <1>2, <1>3, <1>4, <1>6, <1>7, <1>8, <1>9, <1>10, <1>11, <1>12, <1>13, <1>14, <1>15
     DEF Next, CheckNodeHealth

\* Between two rounds of checkNodeHealth no node is on offer that had been
\* silent for longer than the timeout when the last round began, unless a
\* clock runs ahead or a late count revived it, for any number of nodes, any
\* timeout and any clocks.
THEOREM SilenceIsNoticed == Spec => []SilenceNoticed
<1>1. Init => SilenceInv
  BY HealthAssumption DEF Init, SilenceInv, Tracked, Noticed
<1>2. TypeOK /\ TypeOK' /\ SilenceInv /\ [Next]_vars => SilenceInv'
  BY SilenceInvStep
<1>3. SilenceInv => SilenceNoticed
  BY DEF SilenceInv, Noticed, SilenceNoticed, RoundIdle, AvailableNodes, Live
<1> QED
  BY <1>1, <1>2, <1>3, HealthTypeCorrect, PTL DEF Spec

\* A running agent's node leaves the table only by a deregistration or with a
\* restart of the server; neither the health checker nor an agent that comes
\* back under its old identifier takes it away.
THEOREM AgentsAreKnown == Spec => []AgentsKnown
<1>1. Init => AgentsKnown
  BY DEF Init, AgentsKnown
<1>2. TypeOK /\ AgentsKnown /\ [Next]_vars => AgentsKnown'
  <2> SUFFICES ASSUME TypeOK, AgentsKnown, [Next]_vars
               PROVE  AgentsKnown'
    OBVIOUS
  <2> USE HealthAssumption, HeartbeatAssumption
        DEF AgentsKnown, TypeOK, NodeTableTypeOK, StoredStatus
  <2>1. ASSUME NEW n \in Nodes, Register(n) PROVE AgentsKnown'
    BY <2>1 DEF Register, RegisterNode, Registered
  <2>2. ASSUME NEW n \in Nodes, Deregister(n) PROVE AgentsKnown'
    BY <2>2 DEF Deregister, DeregisterNode, Registered
  <2>3. ASSUME NEW n \in Nodes, NEW s \in StoredStatus, NEW r, NEW d, Heartbeat(n, s, r, d)
        PROVE  AgentsKnown'
    BY <2>3 DEF Heartbeat, UpdateHeartbeat, Registered, agentVars, NodeStatus
  <2>4. ASSUME NEW n \in Nodes, AgentHeartbeat(n) PROVE AgentsKnown'
    BY <2>3, <2>4 DEF AgentHeartbeat, NodeStatus
  <2>5. ASSUME NEW n \in Agents, StartAgent(n) PROVE AgentsKnown'
    BY <2>5 DEF StartAgent, RegisterNode, Registered, nodeVars
  <2>6. ASSUME NEW n \in Agents, StopAgent(n) PROVE AgentsKnown'
    BY <2>6 DEF StopAgent, Registered, nodeVars
  <2>7. ASSUME RestartServer PROVE AgentsKnown'
    BY <2>7 DEF RestartServer
  <2>8. ASSUME NEW n \in Nodes, NEW delta \in Int, CountTask(n, delta) PROVE AgentsKnown'
    BY <2>8 DEF CountTask, UpdateTaskCount, StatusAfter, Registered, agentVars
  <2>9. ASSUME NEW n \in Nodes, MarkSuspect(n) PROVE AgentsKnown'
    BY <2>9 DEF MarkSuspect, MarkNodeOffline, Registered, nodeVars, agentVars
  <2>10. CASE CheckOfflineNodes \/ ReportOffline \/ Tick \/ UNCHANGED vars
    BY <2>10 DEF CheckOfflineNodes, ReportOffline, Tick, vars, nodeVars, agentVars, Registered
  <2> QED
    BY <2>1, <2>2, <2>3, <2>4, <2>5, <2>6, <2>7, <2>8, <2>9, <2>10
       DEF Next, CheckNodeHealth
<1> QED
  BY <1>1, <1>2, HealthTypeCorrect, PTL DEF Spec

=============================================================================
