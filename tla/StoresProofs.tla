---------------------------- MODULE StoresProofs ----------------------------
(***************************************************************************)
(* The event log and the load balancer, for any tasks, nodes and weights   *)
(* and for logs and lists of any length.                                   *)
(***************************************************************************)
EXTENDS StoresProperties, DataIndexProofs

-----------------------------------------------------------------------------
(* The last number of a set.                                                *)

LEMMA MaxIsLast ==
    ASSUME NEW n \in Nat, NEW S, S \subseteq 1 .. n, S # {}
    PROVE  Max(S) \in S /\ \A i \in S : i <= Max(S)
<1> DEFINE T == {n - i : i \in S}
<1>1. PICK m \in T : \A k \in T : m <= k
  <2>1. T \subseteq Nat
    OBVIOUS
  <2>2. T # {}
    OBVIOUS
  <2> HIDE DEF T
  <2> QED
    BY <2>1, <2>2, NatLeast
<1>2. PICK i \in S : m = n - i
  BY <1>1
<1>3. \A j \in S : j <= i
  BY <1>1, <1>2
<1>4. \E x \in S : \A y \in S : x >= y
  BY <1>2, <1>3
<1>5. Max(S) \in S /\ \A y \in S : Max(S) >= y
  BY <1>4 DEF Max
<1> QED
  BY <1>5

LEMMA MaxOfNew ==
    ASSUME NEW n \in Nat, NEW S, S \subseteq 1 .. n
    PROVE  Max(S \cup {n + 1}) = n + 1
<1> DEFINE U == S \cup {n + 1}
<1>1. U \subseteq 1 .. n + 1 /\ U # {} /\ n + 1 \in U /\ \A i \in U : i <= n + 1 /\ i \in Nat
  OBVIOUS
<1> HIDE DEF U
<1>2. Max(U) \in U /\ \A i \in U : i <= Max(U)
  BY <1>1, MaxIsLast
<1>3. Max(U) \in Nat /\ Max(U) <= n + 1 /\ n + 1 <= Max(U)
  BY <1>1, <1>2
<1> QED
  BY <1>3 DEF U

-----------------------------------------------------------------------------
(* The log.                                                                 *)

EventType == {"created", "status_changed", "assigned", "retry"}

LogTypeOK ==
    /\ TaskTableTypeOK
    /\ events \in Seq([task : Tasks, type : EventType, status : TaskStatus,
                       node : Nodes \cup {NoNode}])

LogInv == LogTypeOK /\ LogReplays

\* Whatever call it was: the task changes as its new event says.
LEMMA LogGrows ==
    ASSUME LogInv, NEW t \in Tasks, NEW type \in EventType, NEW s \in TaskStatus,
           NEW n \in Nodes \cup {NoNode},
           type # "assigned" => n = assignedNode[t],
           events' = Append(events, Event(t, type, s, n)),
           status' = [status EXCEPT ![t] = s],
           assignedNode' = [assignedNode EXCEPT ![t] = n],
           retryCount' = [retryCount EXCEPT ![t] = @ + IF type = "retry" THEN 1 ELSE 0]
    PROVE  LogInv'
<1>1. LogTypeOK'
  BY DEF LogInv, LogTypeOK, TaskTableTypeOK, Event
<1>2. PICK m \in Nat : m = Len(events)
  BY DEF LogInv, LogTypeOK
<1>3. /\ DOMAIN events = 1 .. m /\ DOMAIN events' = 1 .. m + 1 /\ Len(events') = m + 1
      /\ events'[m + 1] = Event(t, type, s, n)
      /\ \A i \in 1 .. m : events'[i] = events[i]
  BY <1>2 DEF LogInv, LogTypeOK, Event
<1>4. ASSUME NEW u \in Tasks
      PROVE  /\ OwnAt(u) \subseteq 1 .. m
             /\ OwnAt(u)' = IF u = t THEN OwnAt(u) \cup {m + 1} ELSE OwnAt(u)
  BY <1>3 DEF OwnAt, Event
<1> DEFINE Assigned(u, i) == {j \in OwnAt(u) : j <= i /\ events[j].type = "assigned"}
           AssignedNow(u, i) == {j \in OwnAt(u)' : j <= i /\ events'[j].type = "assigned"}
<1>5. ASSUME NEW u \in Tasks, NEW i \in 0 .. m
      PROVE  AssignedBy(u, i)' = AssignedBy(u, i)
  <2>1. AssignedNow(u, i) = Assigned(u, i) /\ Assigned(u, i) \subseteq 1 .. m
    BY <1>3, <1>4
  <2>2. Assigned(u, i) # {} => events'[Max(Assigned(u, i))] = events[Max(Assigned(u, i))]
    <3> HIDE DEF Assigned
    <3> QED
      BY <1>3, <2>1, MaxIsLast
  <2> QED
    BY <2>1, <2>2 DEF AssignedBy
<1>6. ASSUME NEW u \in Tasks
      PROVE  AssignedBy(u, m + 1)' = IF u = t THEN n ELSE assignedNode[u]
  <2>1. assignedNode[u] = AssignedBy(u, m)
    BY <1>2 DEF LogInv, LogReplays
  <2>2. CASE u = t /\ type = "assigned"
    <3>1. AssignedNow(u, m + 1) = Assigned(u, m) \cup {m + 1} /\ Assigned(u, m) \subseteq 1 .. m
      BY <1>3, <1>4, <2>2 DEF Event
    <3>2. Max(AssignedNow(u, m + 1)) = m + 1 /\ AssignedNow(u, m + 1) # {}
      <4> HIDE DEF Assigned, AssignedNow
      <4> QED
        BY <3>1, MaxOfNew
    <3>3. events'[m + 1].node = n
      BY <1>3 DEF Event
    <3> QED
      BY <2>2, <3>2, <3>3 DEF AssignedBy
  <2>3. CASE ~(u = t /\ type = "assigned")
    <3>1. AssignedNow(u, m + 1) = AssignedNow(u, m)
      BY <1>3, <1>4, <2>3 DEF Event
    <3>2. AssignedBy(u, m + 1)' = AssignedBy(u, m)'
      BY <3>1 DEF AssignedBy
    <3> QED
      BY <1>5, <2>1, <2>3, <3>2
  <2> QED
    BY <2>2, <2>3
<1>7. ASSUME NEW u \in Tasks
      PROVE  status'[u] = IF OwnAt(u)' = {} THEN "absent" ELSE events'[Max(OwnAt(u)')].status
  <2>1. status[u] = IF OwnAt(u) = {} THEN "absent" ELSE events[Max(OwnAt(u))].status
    BY DEF LogInv, LogReplays
  <2>2. CASE u = t
    <3>1. Max(OwnAt(u)') = m + 1 /\ OwnAt(u)' # {}
      BY <1>4, <2>2, MaxOfNew
    <3> QED
      BY <1>3, <2>2, <3>1 DEF Event, LogInv, LogTypeOK, TaskTableTypeOK
  <2>3. CASE u # t
    <3>1. OwnAt(u)' = OwnAt(u)
      BY <1>4, <2>3
    <3>2. OwnAt(u) # {} => events'[Max(OwnAt(u))] = events[Max(OwnAt(u))]
      BY <1>3, <1>4, MaxIsLast
    <3>3. status'[u] = status[u]
      BY <2>3 DEF LogInv, LogTypeOK, TaskTableTypeOK
    <3> QED
      BY <2>1, <3>1, <3>2, <3>3
  <2> QED
    BY <2>2, <2>3
<1>8. ASSUME NEW u \in Tasks
      PROVE  retryCount'[u] = Cardinality({i \in OwnAt(u)' : events'[i].type = "retry"})
  <2> DEFINE R == {i \in OwnAt(u) : events[i].type = "retry"}
             S == {i \in OwnAt(u)' : events'[i].type = "retry"}
  <2>1. retryCount[u] = Cardinality(R) /\ retryCount[u] \in Nat
    BY DEF LogInv, LogReplays, LogTypeOK, TaskTableTypeOK
  <2>2. IsFiniteSet(R) /\ m + 1 \notin R
    <3>1. R \subseteq 1 .. m
      BY <1>4
    <3> HIDE DEF R
    <3>2. IsFiniteSet(1 .. m) /\ m + 1 \notin 1 .. m
      BY FS_Interval
    <3> QED
      BY <3>1, <3>2, FS_Subset
  <2>3. CASE u = t /\ type = "retry"
    <3>1. S = R \cup {m + 1}
      BY <1>3, <1>4, <2>3 DEF Event
    <3>2. Cardinality(R \cup {m + 1}) = Cardinality(R) + 1
      <4> HIDE DEF R
      <4> QED
        BY <2>2, FS_AddElement
    <3>3. retryCount'[u] = retryCount[u] + 1
      BY <2>3 DEF LogInv, LogTypeOK, TaskTableTypeOK
    <3> QED
      BY <2>1, <3>1, <3>2, <3>3
  <2>4. CASE ~(u = t /\ type = "retry")
    <3>1. S = R
      BY <1>3, <1>4, <2>4 DEF Event
    <3>2. retryCount'[u] = retryCount[u]
      BY <2>1, <2>4 DEF LogInv, LogTypeOK, TaskTableTypeOK
    <3> QED
      BY <2>1, <3>1, <3>2
  <2> QED
    BY <2>3, <2>4
<1>9. ASSUME NEW u \in Tasks
      PROVE  \A i \in OwnAt(u)' : events'[i].node = AssignedBy(u, i)'
  <2> TAKE i \in OwnAt(u)'
  <2>1. CASE i = m + 1
    <3>1. u = t
      BY <1>4, <2>1
    <3> QED
      BY <1>3, <1>6, <2>1, <3>1 DEF Event
  <2>2. CASE i # m + 1
    <3>1. i \in OwnAt(u) /\ i \in 1 .. m
      BY <1>4, <2>2
    <3>2. events[i].node = AssignedBy(u, i)
      BY <3>1 DEF LogInv, LogReplays
    <3> QED
      BY <1>3, <1>5, <3>1, <3>2
  <2> QED
    BY <2>1, <2>2
<1>10. ASSUME NEW u \in Tasks
       PROVE  assignedNode'[u] = AssignedBy(u, Len(events))'
  BY <1>3, <1>6 DEF LogInv, LogTypeOK, TaskTableTypeOK
<1> QED
  BY <1>1, <1>7, <1>8, <1>9, <1>10 DEF LogInv, LogReplays

LEMMA LogInvInit == LogInit => LogInv
<1> SUFFICES ASSUME LogInit
             PROVE  LogInv
  OBVIOUS
<1>1. events = <<>> /\ Len(events) = 0
  BY DEF LogInit
<1>2. \A t \in Tasks : OwnAt(t) = {}
  BY <1>1 DEF OwnAt
<1>3. \A t \in Tasks : AssignedBy(t, Len(events)) = NoNode
  BY <1>2 DEF AssignedBy
<1>4. \A t \in Tasks : Cardinality({i \in OwnAt(t) : events[i].type = "retry"}) = 0
  <2> TAKE t \in Tasks
  <2>1. {i \in OwnAt(t) : events[i].type = "retry"} = {}
    BY <1>2
  <2> QED
    BY <2>1, FS_EmptySet
<1> QED
  BY <1>1, <1>2, <1>3, <1>4
     DEF LogInit, LogInv, LogTypeOK, LogReplays, TaskTableInit, TaskTableTypeOK

LEMMA LogInvStep == LogInv /\ [LogNext]_logVars => LogInv'
<1> SUFFICES ASSUME LogInv, [LogNext]_logVars
             PROVE  LogInv'
  OBVIOUS
<1>0. TaskTableTypeOK
  BY DEF LogInv, LogTypeOK
<1>1. ASSUME NEW t \in Tasks, LogCreate(t) PROVE LogInv'
  <2>1. assignedNode[t] = NoNode
    <3>1. OwnAt(t) = {}
      <4>1. status[t] = "absent"
        BY <1>1 DEF LogCreate, AddTask, Stored
      <4>2. OwnAt(t) # {} => events[Max(OwnAt(t))].status \in TaskStatus
        <5>1. PICK m \in Nat : m = Len(events)
          BY DEF LogInv, LogTypeOK
        <5>2. OwnAt(t) \subseteq 1 .. m
          BY <5>1 DEF OwnAt, LogInv, LogTypeOK
        <5>3. OwnAt(t) # {} => Max(OwnAt(t)) \in 1 .. m
          BY <5>2, MaxIsLast
        <5>4. \A i \in 1 .. m : events[i].status \in TaskStatus
          <6> DEFINE E == [task : Tasks, type : EventType, status : TaskStatus, node : Nodes \cup {NoNode}]
          <6>1. \A e \in E : e.status \in TaskStatus
            OBVIOUS
          <6>2. events \in Seq(E)
            BY DEF LogInv, LogTypeOK
          <6> HIDE DEF E
          <6> QED
            BY <5>1, <6>1, <6>2
        <5> QED
          BY <5>3, <5>4
      <4> QED
        BY <4>1, <4>2 DEF LogInv, LogReplays, TaskStatus
    <3> QED
      BY <3>1 DEF LogInv, LogReplays, AssignedBy
  <2>2. /\ events' = Append(events, Event(t, "created", "pending", NoNode))
        /\ status' = [status EXCEPT ![t] = "pending"]
        /\ assignedNode' = [assignedNode EXCEPT ![t] = NoNode]
        /\ retryCount' = [retryCount EXCEPT ![t] = @ + IF "created" = "retry" THEN 1 ELSE 0]
    BY <1>0, <1>1, <2>1 DEF LogCreate, AddTask, addEvent, TaskTableTypeOK
  <2> QED
    BY <2>1, <2>2, LogGrows DEF EventType, TaskStatus
<1>2. ASSUME NEW t \in Tasks, NEW s \in {"running", "completed", "failed"}, LogStatus(t, s)
      PROVE  LogInv'
  <2>1. /\ events' = Append(events, Event(t, "status_changed", s, assignedNode[t]))
        /\ status' = [status EXCEPT ![t] = s]
        /\ assignedNode' = [assignedNode EXCEPT ![t] = assignedNode[t]]
        /\ retryCount' = [retryCount EXCEPT ![t] = @ + IF "status_changed" = "retry" THEN 1 ELSE 0]
        /\ assignedNode[t] \in Nodes \cup {NoNode}
    BY <1>0, <1>2 DEF LogStatus, UpdateTaskStatus, addEvent, TaskTableTypeOK
  <2> QED
    BY <2>1, LogGrows DEF EventType, TaskStatus
<1>3. ASSUME NEW t \in Tasks, LogRetry(t) PROVE LogInv'
  <2>1. /\ events' = Append(events, Event(t, "retry", "retrying", assignedNode[t]))
        /\ status' = [status EXCEPT ![t] = "retrying"]
        /\ assignedNode' = [assignedNode EXCEPT ![t] = assignedNode[t]]
        /\ retryCount' = [retryCount EXCEPT ![t] = @ + IF "retry" = "retry" THEN 1 ELSE 0]
        /\ assignedNode[t] \in Nodes \cup {NoNode}
    BY <1>0, <1>3 DEF LogRetry, IncrementRetry, addEvent, TaskTableTypeOK
  <2> QED
    BY <2>1, LogGrows DEF EventType, TaskStatus
<1>4. ASSUME NEW t \in Tasks, NEW n \in Nodes, LogAssign(t, n) PROVE LogInv'
  <2>1. /\ events' = Append(events, Event(t, "assigned", "queued", n))
        /\ status' = [status EXCEPT ![t] = "queued"]
        /\ assignedNode' = [assignedNode EXCEPT ![t] = n]
        /\ retryCount' = [retryCount EXCEPT ![t] = @ + IF "assigned" = "retry" THEN 1 ELSE 0]
    BY <1>0, <1>4 DEF LogAssign, AssignTask, addEvent, TaskTableTypeOK
  <2> QED
    BY <2>1, LogGrows DEF EventType, TaskStatus
<1>5. CASE UNCHANGED logVars
  <2>1. /\ status' = status /\ assignedNode' = assignedNode /\ retryCount' = retryCount
        /\ events' = events
    BY <1>5 DEF logVars, taskVars
  <2>2. \A t \in Tasks : OwnAt(t)' = OwnAt(t)
    BY <2>1 DEF OwnAt
  <2>3. \A t \in Tasks, i \in Nat : AssignedBy(t, i)' = AssignedBy(t, i)
    BY <2>1, <2>2 DEF AssignedBy
  <2>4. Len(events) \in Nat /\ \A t \in Tasks : OwnAt(t) \subseteq Nat
    BY DEF LogInv, LogTypeOK, OwnAt
  <2>5. LogTypeOK'
    BY <2>1 DEF LogInv, LogTypeOK, TaskTableTypeOK
  <2>6. \A t \in Tasks : {i \in OwnAt(t)' : events'[i].type = "retry"}
                            = {i \in OwnAt(t) : events[i].type = "retry"}
    BY <2>1, <2>2
  <2>7. ASSUME NEW t \in Tasks
        PROVE  /\ status'[t] = IF OwnAt(t)' = {} THEN "absent" ELSE events'[Max(OwnAt(t)')].status
               /\ assignedNode'[t] = AssignedBy(t, Len(events))'
               /\ \A i \in OwnAt(t)' : events'[i].node = AssignedBy(t, i)'
    <3>1. AssignedBy(t, Len(events))' = AssignedBy(t, Len(events))
      BY <2>1, <2>2 DEF AssignedBy
    <3>2. \A i \in OwnAt(t) : events[i].node = AssignedBy(t, i) /\ AssignedBy(t, i)' = AssignedBy(t, i)
      BY <2>3, <2>4 DEF LogInv, LogReplays
    <3>3. /\ status[t] = IF OwnAt(t) = {} THEN "absent" ELSE events[Max(OwnAt(t))].status
          /\ assignedNode[t] = AssignedBy(t, Len(events))
      BY DEF LogInv, LogReplays
    <3> QED
      BY <2>1, <2>2, <3>1, <3>2, <3>3
  <2>8. ASSUME NEW t \in Tasks
        PROVE  retryCount'[t] = Cardinality({i \in OwnAt(t)' : events'[i].type = "retry"})
    BY <2>1, <2>6 DEF LogInv, LogReplays
  <2>9. LogReplays'
    BY <2>7, <2>8 DEF LogReplays
  <2> QED
    BY <2>5, <2>9 DEF LogInv
<1> QED
  BY <1>1, <1>2, <1>3, <1>4, <1>5 DEF LogNext

\* After any calls in any order, the event log replays to the task table, and
\* every event names the node its task was at.
THEOREM LogAlwaysReplays == LogSpec => []LogReplays
<1>1. LogInv => LogReplays
  BY DEF LogInv
<1> QED
  BY <1>1, LogInvInit, LogInvStep, PTL DEF LogSpec

-----------------------------------------------------------------------------
(* The order of the log.                                                    *)

\* at lists places of the log, oldest first.
Rising(at, places, n) ==
    /\ IsListing(at, places, n)
    /\ \A i, j \in 1 .. n : i < j => at[i] < at[j]

LEMMA LogOrderIs ==
    ASSUME NEW places, IsFiniteSet(places), NEW n \in Nat, n = Cardinality(places), NEW answer
    PROVE  InLogOrder(answer, places)
             <=> \E at : Rising(at, places, n) /\ answer = [i \in 1 .. n |-> events[at[i]]]
<1>1. ASSUME InLogOrder(answer, places)
      PROVE  \E at : Rising(at, places, n) /\ answer = [i \in 1 .. n |-> events[at[i]]]
  <2>1. PICK at \in SetToSeqs(places) :
              /\ \A i, j \in DOMAIN at : i < j => at[i] < at[j]
              /\ answer = [i \in DOMAIN at |-> events[at[i]]]
    BY <1>1 DEF InLogOrder
  <2>2. IsListing(at, places, n)
    BY ListingOfAll
  <2>3. DOMAIN at = 1 .. n
    BY <2>2 DEF IsListing
  <2> QED
    BY <2>1, <2>2, <2>3 DEF Rising
<1>2. ASSUME NEW at, Rising(at, places, n), answer = [i \in 1 .. n |-> events[at[i]]]
      PROVE  InLogOrder(answer, places)
  <2>1. at \in [1 .. n -> places] /\ \A i, j \in 1 .. n : at[i] = at[j] => i = j
    BY <1>2 DEF Rising, IsListing
  <2>2. at \in SetToSeqs(places) /\ DOMAIN at = 1 .. n
    BY <2>1 DEF SetToSeqs
  <2> QED
    BY <1>2, <2>2 DEF InLogOrder, Rising
<1> QED
  BY <1>1, <1>2

\* There is one such answer.
LEMMA LogOrderOnce ==
    ASSUME NEW m \in Nat, NEW places \in SUBSET (1 .. m),
           NEW a, InLogOrder(a, places), NEW b, InLogOrder(b, places)
    PROVE  a = b
<1>1. IsFiniteSet(places)
  BY CountUpto, FS_Subset
<1> DEFINE before == [i \in places |-> {j \in places : i < j}]
<1>2. before \in [places -> SUBSET places] /\ \A i, j \in places : j \in before[i] <=> i < j
  OBVIOUS
<1>3. \A i, j \in places : i \in Nat /\ (i # j => i < j \/ j < i)
  OBVIOUS
<1> HIDE DEF before
<1>4. \A i, j \in places : i # j => j \in before[i] \/ i \in before[j]
  BY <1>2, <1>3
<1>5. ASSUME NEW at \in SetToSeqs(places), \A i, j \in DOMAIN at : i < j => at[i] < at[j]
      PROVE  InOrder(at, before)
  <2>1. PICK n \in Nat : n = Cardinality(places)
    BY <1>1, FS_CardinalityType
  <2>2. at \in [1 .. n -> places]
    BY <1>1, <2>1, ListingOfAll DEF IsListing
  <2>3. ASSUME NEW i \in 1 .. n, NEW j \in 1 .. n, i < j PROVE at[i] \notin before[at[j]]
    <3>1. at[i] \in places /\ at[j] \in places /\ at[i] < at[j]
      BY <1>5, <2>2, <2>3
    <3>2. at[i] \in Nat /\ at[j] \in Nat
      BY <1>3, <3>1
    <3> QED
      BY <1>2, <3>1, <3>2
  <2> QED
    BY <2>2, <2>3 DEF InOrder
<1>6. PICK at \in SetToSeqs(places) :
            InOrder(at, before) /\ a = [i \in DOMAIN at |-> events[at[i]]]
  BY <1>5 DEF InLogOrder
<1>7. PICK bt \in SetToSeqs(places) :
            InOrder(bt, before) /\ b = [i \in DOMAIN bt |-> events[bt[i]]]
  BY <1>5 DEF InLogOrder
<1>8. at = bt
  BY <1>1, <1>2, <1>4, <1>6, <1>7, SortedOnce
<1> QED
  BY <1>6, <1>7, <1>8

\* An answer grows by a newer event at its end or by an older one in front.
LEMMA LogOrderGrows ==
    ASSUME NEW E, events \in Seq(E), NEW m \in Nat, m = Len(events),
           NEW places \in SUBSET (1 .. m), NEW answer, InLogOrder(answer, places),
           NEW k \in 1 .. m
    PROVE  /\ answer \in Seq(E) /\ Len(answer) = Cardinality(places)
           /\ (\A i \in places : i < k) => InLogOrder(Append(answer, events[k]), places \cup {k})
           /\ (\A i \in places : k < i) => InLogOrder(<<events[k]>> \o answer, places \cup {k})
<1>1. IsFiniteSet(places)
  BY CountUpto, FS_Subset
<1>2. PICK n \in Nat : n = Cardinality(places)
  BY <1>1, FS_CardinalityType
<1>3. PICK at : Rising(at, places, n) /\ answer = [i \in 1 .. n |-> events[at[i]]]
  BY <1>1, <1>2, LogOrderIs
<1>4. \A i \in 1 .. m : events[i] \in E
  OBVIOUS
<1>5. /\ \A i \in 1 .. n : at[i] \in places
      /\ \A i, j \in 1 .. n : i < j => at[i] < at[j]
      /\ \A i, j \in 1 .. n : at[i] = at[j] => i = j
      /\ \A x \in places : \E i \in 1 .. n : at[i] = x
  BY <1>3 DEF Rising, IsListing
<1>6. answer \in Seq(E) /\ Len(answer) = n
  <2>1. answer \in [1 .. n -> E]
    BY <1>3, <1>4, <1>5
  <2> QED
    BY <2>1
<1>7. places \subseteq Nat
  OBVIOUS
<1>8. ASSUME k \notin places
      PROVE  Cardinality(places \cup {k}) = n + 1 /\ IsFiniteSet(places \cup {k})
  BY <1>1, <1>2, <1>8, FS_AddElement
<1>9. ASSUME \A i \in places : i < k
      PROVE  InLogOrder(Append(answer, events[k]), places \cup {k})
  <2> DEFINE bt == [i \in 1 .. n + 1 |-> IF i = n + 1 THEN k ELSE at[i]]
  <2>1. k \notin places
    BY <1>7, <1>9
  <2>2. (\A i \in 1 .. n : bt[i] = at[i] /\ i \in 1 .. n + 1) /\ bt[n + 1] = k
    OBVIOUS
  <2>3. bt \in [1 .. n + 1 -> places \cup {k}]
    BY <1>5
  <2>4. bt \in Seq(places \cup {k}) /\ Len(bt) = n + 1
    BY <2>3
  <2> HIDE DEF bt
  <2>5. \A i, j \in 1 .. n + 1 : i < j => bt[i] < bt[j]
    <3> TAKE i \in 1 .. n + 1, j \in 1 .. n + 1
    <3> SUFFICES ASSUME i < j PROVE bt[i] < bt[j]
      OBVIOUS
    <3>1. i \in 1 .. n /\ at[i] \in places /\ bt[i] = at[i]
      BY <1>5, <2>2
    <3>2. CASE j = n + 1
      BY <1>9, <2>2, <3>1, <3>2
    <3>3. CASE j # n + 1
      BY <1>5, <2>2, <3>1, <3>3
    <3> QED
      BY <3>2, <3>3
  <2>6. \A i, j \in 1 .. n + 1 : bt[i] = bt[j] => i = j
    <3>0. places \cup {k} \subseteq Nat
      OBVIOUS
    <3>1. \A i \in 1 .. n + 1 : bt[i] \in Nat
      BY <2>3, <3>0
    <3> QED
      BY <2>5, <3>1
  <2>7. \A x \in places \cup {k} : \E i \in 1 .. n + 1 : bt[i] = x
    BY <1>5, <2>2
  <2>8. Rising(bt, places \cup {k}, n + 1)
    BY <2>3, <2>4, <2>5, <2>6, <2>7 DEF Rising, IsListing
  <2>9. Append(answer, events[k]) = [i \in 1 .. n + 1 |-> events[bt[i]]]
    <3>1. \A i \in 1 .. n : answer[i] = events[bt[i]]
      BY <1>3, <2>2
    <3>2. Append(answer, events[k]) = [i \in 1 .. n + 1 |-> IF i = n + 1 THEN events[k] ELSE answer[i]]
      BY <1>4, <1>6
    <3> QED
      BY <2>2, <3>1, <3>2
  <2>10. n + 1 \in Nat /\ n + 1 = Cardinality(places \cup {k}) /\ IsFiniteSet(places \cup {k})
    BY <1>8, <2>1
  <2> QED
    BY <2>8, <2>9, <2>10, LogOrderIs
<1>10. ASSUME \A i \in places : k < i
       PROVE  InLogOrder(<<events[k]>> \o answer, places \cup {k})
  <2> DEFINE bt == [i \in 1 .. n + 1 |-> IF i = 1 THEN k ELSE at[i - 1]]
  <2>1. k \notin places
    BY <1>7, <1>10
  <2>2. /\ \A i \in 2 .. n + 1 : bt[i] = at[i - 1] /\ i - 1 \in 1 .. n
        /\ bt[1] = k
    OBVIOUS
  <2>3. bt \in [1 .. n + 1 -> places \cup {k}]
    BY <1>5
  <2>4. bt \in Seq(places \cup {k}) /\ Len(bt) = n + 1
    BY <2>3
  <2> HIDE DEF bt
  <2>5. \A i, j \in 1 .. n + 1 : i < j => bt[i] < bt[j]
    <3> TAKE i \in 1 .. n + 1, j \in 1 .. n + 1
    <3> SUFFICES ASSUME i < j PROVE bt[i] < bt[j]
      OBVIOUS
    <3>1. j \in 2 .. n + 1 /\ j - 1 \in 1 .. n /\ at[j - 1] \in places /\ bt[j] = at[j - 1]
      BY <1>5, <2>2
    <3>2. CASE i = 1
      BY <1>10, <2>2, <3>1, <3>2
    <3>3. CASE i # 1
      <4>1. bt[i] = at[i - 1] /\ i - 1 \in 1 .. n /\ i - 1 < j - 1
        BY <2>2, <3>1, <3>3
      <4> QED
        BY <1>5, <3>1, <4>1
    <3> QED
      BY <3>2, <3>3
  <2>6. \A i, j \in 1 .. n + 1 : bt[i] = bt[j] => i = j
    <3>0. places \cup {k} \subseteq Nat
      OBVIOUS
    <3>1. \A i \in 1 .. n + 1 : bt[i] \in Nat
      BY <2>3, <3>0
    <3> QED
      BY <2>5, <3>1
  <2>7. \A x \in places \cup {k} : \E i \in 1 .. n + 1 : bt[i] = x
    <3>1. \A i \in 1 .. n : i + 1 \in 2 .. n + 1 /\ bt[i + 1] = at[i]
      BY <2>2
    <3> QED
      BY <1>5, <2>2, <3>1
  <2>8. Rising(bt, places \cup {k}, n + 1)
    BY <2>3, <2>4, <2>5, <2>6, <2>7 DEF Rising, IsListing
  <2>9. <<events[k]>> \o answer = [i \in 1 .. n + 1 |-> events[bt[i]]]
    <3>1. \A i \in 2 .. n + 1 : answer[i - 1] = events[bt[i]]
      BY <1>3, <2>2
    <3>2. <<events[k]>> \o answer = [i \in 1 .. n + 1 |-> IF i = 1 THEN events[k] ELSE answer[i - 1]]
      BY <1>4, <1>6
    <3> QED
      BY <2>2, <3>1, <3>2
  <2>10. n + 1 \in Nat /\ n + 1 = Cardinality(places \cup {k}) /\ IsFiniteSet(places \cup {k})
    BY <1>8, <2>1
  <2> QED
    BY <2>8, <2>9, <2>10, LogOrderIs
<1> QED
  BY <1>2, <1>6, <1>9, <1>10

LEMMA EmptyAnswer == InLogOrder(<<>>, {})
<1>1. Cardinality({}) = 0 /\ IsFiniteSet({})
  BY FS_EmptySet
<1>2. Rising(<<>>, {}, 0)
  BY DEF Rising, IsListing
<1>3. <<>> = [i \in 1 .. 0 |-> events[<<>>[i]]]
  OBVIOUS
<1>4. \E at : Rising(at, {}, 0) /\ <<>> = [i \in 1 .. 0 |-> events[at[i]]]
  BY <1>2, <1>3
<1>5. 0 \in Nat /\ 0 = Cardinality({})
  BY <1>1
<1> QED
  BY <1>1, <1>4, <1>5, LogOrderIs

\* The walk back finds the newest events of the task, and no more than asked.
LEMMA EventsFound ==
    ASSUME NEW E, events \in Seq(E), NEW t, NEW limit \in Int
    PROVE  InLogOrder(GetTaskEvents(t, limit), Newest(t, limit))
<1>1. PICK n \in Nat : n = Len(events)
  OBVIOUS
<1>2. \A i \in 1 .. n : events[i] \in E
  BY <1>1
<1> DEFINE Turn(found, k) ==
               IF events[n + 1 - k].task = t /\ (limit <= 0 \/ Len(found) < limit)
                 THEN <<events[n + 1 - k]>> \o found ELSE found
           Step(g) == [k \in 0 .. n |-> IF k = 0 THEN <<>> ELSE Turn(g[k - 1], k)]
           next == [k \in 1 .. n |-> [found \in Seq(E) |-> Turn(found, k)]]
           walk == CHOOSE g : g = Step(g)
<1>3. \A found \in Seq(E), k \in 1 .. n : Turn(found, k) \in Seq(E)
  <2> TAKE found \in Seq(E), k \in 1 .. n
  <2>1. events[n + 1 - k] \in E
    BY <1>2
  <2> QED
    BY <2>1
<1>4. GetTaskEvents(t, limit) = walk[n]
  BY <1>1 DEF GetTaskEvents
<1> HIDE DEF Turn
<1>5. \E g : g = Step(g)
  <2>1. PICK f \in Recursions(n, Seq(E), <<>>, next) : TRUE
    <3>1. next \in [1 .. n -> [Seq(E) -> Seq(E)]] /\ <<>> \in Seq(E)
      BY <1>3
    <3> HIDE DEF next
    <3> QED
      BY <3>1, RecursionExists
  <2>2. \A k \in 1 .. n : f[k] = Turn(f[k - 1], k)
    <3> TAKE k \in 1 .. n
    <3>1. f[k - 1] \in Seq(E)
      BY DEF Recursions
    <3> QED
      BY <3>1 DEF Recursions
  <2>3. \A k \in 0 .. n : f[k] = IF k = 0 THEN <<>> ELSE Turn(f[k - 1], k)
    BY <2>2 DEF Recursions
  <2> QED
    BY <2>3 DEF Recursions
<1>6. walk = Step(walk)
  BY <1>5
<1> HIDE DEF walk
<1>7. walk[0] = <<>> /\ \A k \in 1 .. n : walk[k] = Turn(walk[k - 1], k)
  BY <1>6
<1> DEFINE own(k) == {i \in OwnAt(t) : i > n - k}
           new(k) == {i \in Newest(t, limit) : i > n - k}
           T == {k \in 0 .. n :
                   /\ InLogOrder(walk[k], new(k))
                   /\ limit > 0 => Cardinality(new(k)) =
                         IF Cardinality(own(k)) < limit THEN Cardinality(own(k)) ELSE limit}
<1>8. OwnAt(t) = {i \in 1 .. n : events[i].task = t}
  BY <1>1 DEF OwnAt
<1>9. \A k \in 0 .. n : /\ own(k) \in SUBSET (1 .. n) /\ new(k) \in SUBSET (1 .. n)
                        /\ IsFiniteSet(own(k)) /\ Cardinality(own(k)) \in Nat
                        /\ IsFiniteSet(new(k)) /\ Cardinality(new(k)) \in Nat
  <2> TAKE k \in 0 .. n
  <2>1. own(k) \subseteq 1 .. n /\ new(k) \subseteq 1 .. n
    BY <1>8 DEF Newest
  <2> HIDE DEF own, new
  <2> QED
    BY <2>1, CountUpto, FS_Subset, FS_CardinalityType
<1>10. 0 \in T
  <2>1. own(0) = {} /\ new(0) = {}
    BY <1>8 DEF Newest
  <2>2. InLogOrder(walk[0], {})
    BY <1>7, EmptyAnswer
  <2> HIDE DEF own, new
  <2>3. InLogOrder(walk[0], new(0))
    BY <2>1, <2>2
  <2>4. limit > 0 => Cardinality(new(0)) =
                       IF Cardinality(own(0)) < limit THEN Cardinality(own(0)) ELSE limit
    BY <2>1, FS_EmptySet
  <2>5. 0 \in 0 .. n
    OBVIOUS
  <2> QED
    BY <2>3, <2>4, <2>5
<1>11. ASSUME NEW k \in 0 .. n - 1, k \in T PROVE k + 1 \in T
  <2> DEFINE i == n - k
  <2>1. i \in 1 .. n /\ n + 1 - (k + 1) = i /\ k + 1 \in 1 .. n /\ k \in 0 .. n /\ k + 1 \in 0 .. n
    OBVIOUS
  <2>2. walk[k + 1] = Turn(walk[k], k + 1)
    BY <1>7, <2>1
  <2>3. InLogOrder(walk[k], new(k))
    BY <1>11
  <2>4. limit > 0 => Cardinality(new(k)) =
                       IF Cardinality(own(k)) < limit THEN Cardinality(own(k)) ELSE limit
    BY <1>11
  <2>5. /\ own(k + 1) = IF events[i].task = t THEN own(k) \cup {i} ELSE own(k)
        /\ own(k) = {j \in OwnAt(t) : j > i}
    BY <1>8, <2>1
  <2>6. new(k + 1) = IF events[i].task = t /\ (limit <= 0 \/ Cardinality(own(k)) < limit)
                       THEN new(k) \cup {i} ELSE new(k)
    BY <1>8, <2>1, <2>5 DEF Newest
  <2>7. i \notin own(k) /\ \A j \in new(k) : i < j
    BY <2>1
  <2>8. i \notin new(k)
    BY <2>1
  <2>9. walk[k + 1] = IF events[i].task = t /\ (limit <= 0 \/ Len(walk[k]) < limit)
                        THEN <<events[i]>> \o walk[k] ELSE walk[k]
    BY <2>1, <2>2 DEF Turn
  <2> HIDE DEF i, own, new
  <2>10. Len(walk[k]) = Cardinality(new(k)) /\ InLogOrder(<<events[i]>> \o walk[k], new(k) \cup {i})
    <3>1. new(k) \in SUBSET (1 .. n) /\ i \in 1 .. n
      BY <1>9, <2>1
    <3>2. \A j \in new(k) : i < j
      BY <2>7
    <3> QED
      BY <1>1, <2>3, <3>1, <3>2, LogOrderGrows
  <2>11. /\ Cardinality(own(k)) \in Nat /\ Cardinality(new(k)) \in Nat
         /\ Cardinality(own(k) \cup {i}) = Cardinality(own(k)) + 1
         /\ Cardinality(new(k) \cup {i}) = Cardinality(new(k)) + 1
    BY <1>9, <2>1, <2>7, <2>8, FS_AddElement
  <2>12. (limit <= 0 \/ Len(walk[k]) < limit) <=> (limit <= 0 \/ Cardinality(own(k)) < limit)
    BY <2>4, <2>10, <2>11
  <2>13. InLogOrder(walk[k + 1], new(k + 1))
    BY <2>3, <2>6, <2>9, <2>10, <2>12
  <2>14. limit > 0 => Cardinality(new(k + 1)) =
                        IF Cardinality(own(k + 1)) < limit THEN Cardinality(own(k + 1)) ELSE limit
    BY <2>4, <2>5, <2>6, <2>11
  <2> QED
    BY <2>1, <2>13, <2>14
<1>12. n \in T
  <2> HIDE DEF T
  <2>1. \A k \in 0 .. n : k \in T
    BY <1>10, <1>11, IntervalSteps
  <2> QED
    BY <2>1
<1>13. new(n) = Newest(t, limit)
  BY <1>8 DEF Newest
<1> QED
  BY <1>4, <1>12, <1>13

\* An export for one task writes out all of its events.
LEMMA EventsExported ==
    ASSUME NEW E, events \in Seq(E), NEW t
    PROVE  InLogOrder(ExportTaskLogs({t}, "any", "any"), OwnAt(t))
<1>1. PICK n \in Nat : n = Len(events)
  OBVIOUS
<1>2. \A i \in 1 .. n : events[i] \in E
  BY <1>1
<1> DEFINE Turn(written, i) == IF events[i].task = t THEN Append(written, events[i]) ELSE written
           Step(g) == [i \in 0 .. n |-> IF i = 0 THEN <<>> ELSE Turn(g[i - 1], i)]
           next == [i \in 1 .. n |-> [written \in Seq(E) |-> Turn(written, i)]]
           walk == CHOOSE g : g = Step(g)
<1>3. \A written \in Seq(E), i \in 1 .. n : Turn(written, i) \in Seq(E)
  BY <1>2
<1>4. ExportTaskLogs({t}, "any", "any") = walk[n]
  BY <1>1 DEF ExportTaskLogs, Named, Matches
<1> HIDE DEF Turn
<1>5. \E g : g = Step(g)
  <2>1. PICK f \in Recursions(n, Seq(E), <<>>, next) : TRUE
    <3>1. next \in [1 .. n -> [Seq(E) -> Seq(E)]] /\ <<>> \in Seq(E)
      BY <1>3
    <3> HIDE DEF next
    <3> QED
      BY <3>1, RecursionExists
  <2>2. \A k \in 1 .. n : f[k] = Turn(f[k - 1], k)
    <3> TAKE k \in 1 .. n
    <3>1. f[k - 1] \in Seq(E)
      BY DEF Recursions
    <3> QED
      BY <3>1 DEF Recursions
  <2>3. \A k \in 0 .. n : f[k] = IF k = 0 THEN <<>> ELSE Turn(f[k - 1], k)
    BY <2>2 DEF Recursions
  <2> QED
    BY <2>3 DEF Recursions
<1>6. walk = Step(walk)
  BY <1>5
<1> HIDE DEF walk
<1>7. walk[0] = <<>> /\ \A i \in 1 .. n : walk[i] = Turn(walk[i - 1], i)
  BY <1>6
<1> DEFINE own(k) == {i \in OwnAt(t) : i <= k}
           T == {k \in 0 .. n : InLogOrder(walk[k], own(k))}
<1>8. OwnAt(t) = {i \in 1 .. n : events[i].task = t}
  BY <1>1 DEF OwnAt
<1>9. 0 \in T
  <2>1. own(0) = {}
    BY <1>8
  <2>2. InLogOrder(walk[0], {})
    BY <1>7, EmptyAnswer
  <2> HIDE DEF own
  <2>3. InLogOrder(walk[0], own(0))
    BY <2>1, <2>2
  <2>4. 0 \in 0 .. n
    OBVIOUS
  <2> QED
    BY <2>3, <2>4
<1>10. ASSUME NEW k \in 0 .. n - 1, k \in T PROVE k + 1 \in T
  <2>1. k + 1 \in 1 .. n /\ k + 1 \in 0 .. n /\ own(k) \in SUBSET (1 .. n)
    BY <1>8
  <2>2. InLogOrder(walk[k], own(k))
    BY <1>10
  <2>3. own(k + 1) = IF events[k + 1].task = t THEN own(k) \cup {k + 1} ELSE own(k)
    BY <1>8, <2>1
  <2>4. walk[k + 1] = IF events[k + 1].task = t THEN Append(walk[k], events[k + 1]) ELSE walk[k]
    BY <1>7, <2>1 DEF Turn
  <2>5. \A i \in own(k) : i < k + 1
    BY <1>8
  <2> HIDE DEF own
  <2>6. InLogOrder(Append(walk[k], events[k + 1]), own(k) \cup {k + 1})
    BY <1>1, <2>1, <2>2, <2>5, LogOrderGrows
  <2> QED
    BY <2>1, <2>2, <2>3, <2>4, <2>6
<1>11. n \in T
  <2> HIDE DEF T
  <2>1. \A k \in 0 .. n : k \in T
    BY <1>9, <1>10, IntervalSteps
  <2> QED
    BY <2>1
<1>12. own(n) = OwnAt(t)
  BY <1>8
<1> QED
  BY <1>4, <1>11, <1>12

-----------------------------------------------------------------------------
(* What the queries answer.                                                 *)

TimesOK ==
    /\ startedAt \in [Tasks -> Nat \cup {Never}] /\ completedAt \in [Tasks -> Nat \cup {Never}]
    /\ \A t \in Tasks :
          /\ startedAt[t] # Never => startedAt[t] <= Len(events)
          /\ completedAt[t] # Never => completedAt[t] <= Len(events)
          /\ status[t] = "completed" /\ startedAt[t] # Never /\ completedAt[t] # Never =>
                startedAt[t] <= completedAt[t]

\* A task that is completed was not started after its completion, and only
\* finitely many tasks are stored at any time, whatever Tasks is.
AnswersInv ==
    /\ LogInv
    /\ TimesOK
    /\ IsFiniteSet({t \in Tasks : Stored(t)})

LEMMA AnswersInvInit == LogInit => AnswersInv
<1> SUFFICES ASSUME LogInit PROVE AnswersInv
  OBVIOUS
<1>1. {t \in Tasks : Stored(t)} = {}
  BY DEF LogInit, TaskTableInit, Stored
<1>2. TimesOK
  BY DEF TimesOK, LogInit, TaskTableInit
<1> QED
  BY <1>1, <1>2, LogInvInit, FS_EmptySet DEF AnswersInv

\* What a call does to the status and the two times of its task; the times are
\* of the instant of its event.
LEMMA TimesAdvance ==
    ASSUME AnswersInv, LogInv', NEW t \in Tasks, NEW s \in TaskStatus,
           Len(events') = Len(events) + 1,
           status' = [status EXCEPT ![t] = s],
           \/ startedAt' = startedAt
           \/ startedAt' = [startedAt EXCEPT ![t] = Len(events) + 1] /\ s # "completed",
           \/ completedAt' = completedAt /\ s # "completed"
           \/ completedAt' = [completedAt EXCEPT ![t] = Len(events) + 1]
    PROVE  AnswersInv'
<1>1. PICK m \in Nat : m = Len(events)
  BY DEF AnswersInv, LogInv, LogTypeOK
<1>2. status \in [Tasks -> TaskStatus \cup {"absent"}] /\ TimesOK /\ Never \notin Nat
  BY LogAssumption DEF AnswersInv, LogInv, LogTypeOK, TaskTableTypeOK
<1>3. ASSUME NEW u \in Tasks
      PROVE  /\ startedAt'[u] \in Nat \cup {Never} /\ completedAt'[u] \in Nat \cup {Never}
             /\ startedAt'[u] # Never => startedAt'[u] <= m + 1
             /\ completedAt'[u] # Never => completedAt'[u] <= m + 1
             /\ status'[u] = "completed" /\ startedAt'[u] # Never /\ completedAt'[u] # Never =>
                   startedAt'[u] <= completedAt'[u]
  <2>1. CASE u = t
    BY <1>1, <1>2, <2>1 DEF TimesOK
  <2>2. CASE u # t
    <3>1. status'[u] = status[u] /\ startedAt'[u] = startedAt[u] /\ completedAt'[u] = completedAt[u]
      BY <1>2, <2>2 DEF TimesOK
    <3> QED
      BY <1>1, <1>2, <3>1 DEF TimesOK
  <2> QED
    BY <2>1, <2>2
<1>4. TimesOK'
  <2>1. startedAt' \in [Tasks -> Nat \cup {Never}] /\ completedAt' \in [Tasks -> Nat \cup {Never}]
    BY <1>1, <1>2 DEF TimesOK
  <2> QED
    BY <1>1, <1>3, <2>1 DEF TimesOK
<1>5. {u \in Tasks : Stored(u)}' \subseteq {u \in Tasks : Stored(u)} \cup {t}
  BY <1>2 DEF Stored
<1>6. IsFiniteSet({u \in Tasks : Stored(u)} \cup {t})
  BY FS_AddElement DEF AnswersInv
<1>7. IsFiniteSet({u \in Tasks : Stored(u)}')
  BY <1>5, <1>6, FS_Subset
<1> QED
  BY <1>4, <1>7 DEF AnswersInv

LEMMA AnswersInvStep == AnswersInv /\ [LogNext]_logVars => AnswersInv'
<1> SUFFICES ASSUME AnswersInv, [LogNext]_logVars
             PROVE  AnswersInv'
  OBVIOUS
<1>1. LogInv'
  BY LogInvStep DEF AnswersInv
<1>2. \A e : events' = Append(events, e) => Len(events') = Len(events) + 1
  BY DEF AnswersInv, LogInv, LogTypeOK
<1>3. ASSUME NEW t \in Tasks, LogCreate(t) PROVE AnswersInv'
  BY <1>1, <1>2, <1>3, TimesAdvance DEF LogCreate, AddTask, addEvent, TaskStatus
<1>4. ASSUME NEW t \in Tasks, NEW s \in {"running", "completed", "failed"}, LogStatus(t, s)
      PROVE  AnswersInv'
  <2>1. Len(events') = Len(events) + 1 /\ status' = [status EXCEPT ![t] = s]
    BY <1>2, <1>4 DEF LogStatus, UpdateTaskStatus, addEvent
  <2>2. \/ startedAt' = startedAt
        \/ startedAt' = [startedAt EXCEPT ![t] = Len(events) + 1] /\ s # "completed"
    <3>1. CASE s = "running"
      BY <1>4, <3>1 DEF LogStatus, Now
    <3>2. CASE s # "running"
      BY <1>4, <3>2 DEF LogStatus
    <3> QED
      BY <3>1, <3>2
  <2>4. \/ completedAt' = completedAt /\ s # "completed"
        \/ completedAt' = [completedAt EXCEPT ![t] = Len(events) + 1]
    <3>1. CASE s = "completed"
      BY <1>4, <3>1 DEF LogStatus, Now
    <3>2. CASE s # "completed"
      BY <1>4, <3>2 DEF LogStatus
    <3> QED
      BY <3>1, <3>2
  <2>3. s \in TaskStatus
    BY DEF TaskStatus
  <2> QED
    BY <1>1, <2>1, <2>2, <2>3, <2>4, TimesAdvance
<1>5. ASSUME NEW t \in Tasks, LogRetry(t) PROVE AnswersInv'
  BY <1>1, <1>2, <1>5, TimesAdvance DEF LogRetry, IncrementRetry, addEvent, TaskStatus
<1>6. ASSUME NEW t \in Tasks, NEW n \in Nodes, LogAssign(t, n) PROVE AnswersInv'
  BY <1>1, <1>2, <1>6, TimesAdvance DEF LogAssign, AssignTask, addEvent, TaskStatus
<1>7. CASE UNCHANGED logVars
  <2>1. TimesOK' = TimesOK /\ {t \in Tasks : Stored(t)}' = {t \in Tasks : Stored(t)}
    BY <1>7 DEF TimesOK, logVars, taskVars, Stored
  <2> QED
    BY <1>1, <2>1 DEF AnswersInv
<1> QED
  BY <1>3, <1>4, <1>5, <1>6, <1>7 DEF LogNext

\* Of finitely many times, none negative, the rounded average lies between the
\* least and the greatest, and none is greater than the sum.
LEMMA AverageBetween ==
    ASSUME NEW S, IsFiniteSet(S), S # {}, NEW m \in Nat, NEW f \in [S -> 0 .. m],
           NEW least, least = CHOOSE d \in Range(f) : \A e \in Range(f) : d <= e,
           NEW most, most = CHOOSE d \in Range(f) : \A e \in Range(f) : d >= e
    PROVE  LET avg == SumFunction(f) \div Cardinality(S)
           IN  0 <= least /\ least <= avg /\ avg <= most /\ most <= SumFunction(f)
<1>1. Range(f) = {f[x] : x \in S} /\ Range(f) \subseteq 0 .. m /\ Range(f) # {}
  BY DEF Range
<1>2. \E d \in Range(f) : \A e \in Range(f) : d <= e
  <2>1. Range(f) \subseteq Nat
    BY <1>1
  <2> QED
    BY <1>1, <2>1, NatLeast
<1>3. \E d \in Range(f) : \A e \in Range(f) : d >= e
  <2> DEFINE above == {k \in Nat : \A e \in Range(f) : k >= e}
  <2>1. m \in above
    BY <1>1
  <2>2. PICK k \in above : \A l \in above : k <= l
    <3>1. above \subseteq Nat /\ above # {}
      BY <2>1
    <3> HIDE DEF above
    <3> QED
      BY <3>1, NatLeast
  <2>3. PICK e \in Range(f) : e \in Nat /\ e <= k
    BY <1>1, <2>2
  <2>4. CASE k \in Range(f)
    BY <2>2, <2>4
  <2>5. CASE k \notin Range(f)
    <3>1. k \in Nat /\ \A d \in Range(f) : d \in Nat /\ d <= k /\ d # k
      BY <1>1, <2>2, <2>5
    <3>2. k - 1 \in Nat /\ \A d \in Range(f) : k - 1 >= d
      BY <2>3, <3>1
    <3>3. k - 1 \in above
      BY <3>2
    <3> QED
      BY <2>2, <3>1, <3>3
  <2> QED
    BY <2>4, <2>5
<1>4. /\ least \in Range(f) /\ \A e \in Range(f) : least <= e
      /\ most \in Range(f) /\ \A e \in Range(f) : most >= e
  BY <1>2, <1>3
<1>5. PICK x \in S : f[x] = most
  BY <1>1, <1>4
<1>6. /\ least \in Nat /\ most \in Nat /\ f \in [S -> Int]
      /\ \A y \in S : least <= f[y] /\ f[y] <= most
  <2>1. least \in Nat /\ most \in Nat
    <3>1. Range(f) \subseteq Nat
      BY <1>1
    <3> QED
      BY ONLY <1>4, <3>1
  <2>2. \A y \in S : f[y] \in Range(f) /\ f[y] \in Nat
    BY <1>1
  <2>3. \A y \in S : least <= f[y] /\ f[y] <= most
    BY <1>4, <2>1, <2>2
  <2> QED
    BY <2>1, <2>3
<1>7. PICK n \in Nat : n = Cardinality(S) /\ n > 0
  BY FS_CardinalityType, FS_EmptySet
<1>8. PICK total \in Int : total = SumFunction(f)
  BY <1>6, SumBounds
<1>9. n * least <= total /\ total <= n * most /\ most <= total
  <2>1. /\ least \in Int /\ most \in Int /\ least >= 0
        /\ f \in [S -> Int]
        /\ \A y \in S : least <= f[y] /\ f[y] <= most
    BY ONLY <1>6
  <2>2. /\ Cardinality(S) * least <= SumFunction(f)
        /\ SumFunction(f) <= Cardinality(S) * most
        /\ \A y \in S : f[y] <= SumFunction(f)
    BY ONLY IsFiniteSet(S), <2>1, SumBounds
  <2>3. most <= SumFunction(f)
    BY <1>5, <2>2
  <2> QED
    BY ONLY <1>7, <1>8, <2>2, <2>3
<1>10. least <= total \div n /\ total \div n <= most
  <2>1. PICK q \in Int : q = total \div n
    BY <1>7
  <2>2. n * q <= total /\ total < n * (q + 1)
    BY <1>7, <2>1
  <2>3. least < q + 1
    BY <1>6, <1>7, <1>9, <2>2
  <2>4. q <= most
    BY <1>6, <1>7, <1>9, <2>2
  <2> QED
    BY <1>6, <2>1, <2>3, <2>4
<1> QED
  BY <1>6, <1>7, <1>8, <1>9, <1>10

\* The stored tasks are of six statuses, each counted once.
LEMMA TasksCounted ==
    ASSUME AnswersInv, NEW ts, NEW n
    PROVE  LET sum == GetLogSummary(ts, "any", n)
           IN  sum.total = sum.success + sum.failed + sum.running + sum.pending
                             + Cardinality(Summed(ts, "retrying", n))
<1> DEFINE tasks == Summed(ts, "any", n)
           sum == GetLogSummary(ts, "any", n)
           In(S) == {t \in tasks : status[t] \in S}
<1>1. /\ sum.total = Cardinality(tasks)
      /\ sum.success = Cardinality(In({"completed"}))
      /\ sum.failed = Cardinality(In({"failed"}))
      /\ sum.running = Cardinality(In({"running"}))
      /\ sum.pending = Cardinality(In({"pending", "queued"}))
  BY DEF GetLogSummary
<1>2. tasks \subseteq {t \in Tasks : Stored(t)} /\ \A t \in tasks : status[t] \in TaskStatus
  BY DEF Summed, Stored, AnswersInv, LogInv, LogTypeOK, TaskTableTypeOK
<1>3. Summed(ts, "retrying", n) = In({"retrying"})
  BY DEF Summed, Matches
<1>4. IsFiniteSet(tasks)
  BY <1>2, FS_Subset DEF AnswersInv
<1>5. tasks = (((In({"completed"}) \cup In({"failed"})) \cup In({"running"}))
                  \cup In({"pending", "queued"})) \cup In({"retrying"})
  BY <1>2 DEF TaskStatus
<1> HIDE DEF tasks, sum
<1>6. \A S : IsFiniteSet(In(S)) /\ Cardinality(In(S)) \in Nat
  BY <1>4, FS_Subset, FS_CardinalityType
<1> DEFINE two == In({"completed"}) \cup In({"failed"})
           three == two \cup In({"running"})
           four == three \cup In({"pending", "queued"})
<1>7. /\ In({"completed"}) \cap In({"failed"}) = {}
      /\ two \cap In({"running"}) = {}
      /\ three \cap In({"pending", "queued"}) = {}
      /\ four \cap In({"retrying"}) = {}
  OBVIOUS
<1> HIDE DEF In
<1>8. IsFiniteSet(two) /\ Cardinality(two) = Cardinality(In({"completed"})) + Cardinality(In({"failed"}))
  BY <1>6, <1>7, DisjointUnion
<1> HIDE DEF two
<1>9. IsFiniteSet(three) /\ Cardinality(three) = Cardinality(two) + Cardinality(In({"running"}))
  BY <1>6, <1>7, <1>8, DisjointUnion
<1> HIDE DEF three
<1>10. /\ IsFiniteSet(four)
       /\ Cardinality(four) = Cardinality(three) + Cardinality(In({"pending", "queued"}))
  BY <1>6, <1>7, <1>9, DisjointUnion
<1> HIDE DEF four
<1>11. Cardinality(tasks) = Cardinality(four) + Cardinality(In({"retrying"}))
  <2>1. tasks = four \cup In({"retrying"})
    BY <1>5 DEF two, three, four
  <2> QED
    BY <1>6, <1>7, <1>10, <2>1, DisjointUnion
<1>12. sum.total = sum.success + sum.failed + sum.running + sum.pending + Cardinality(In({"retrying"}))
  BY <1>1, <1>6, <1>8, <1>9, <1>10, <1>11
<1> QED
  BY <1>3, <1>12 DEF sum

LEMMA DurationsBounded ==
    ASSUME AnswersInv, NEW ts, NEW n
    PROVE  LET sum == GetLogSummary(ts, "any", n)
           IN  0 <= sum.min /\ sum.min <= sum.avg /\ sum.avg <= sum.max /\ sum.max <= sum.duration
<1> DEFINE tasks == Summed(ts, "any", n)
           timed == {t \in {t \in tasks : status[t] \in {"completed"}} :
                        startedAt[t] # Never /\ completedAt[t] # Never}
           duration == [t \in timed |-> completedAt[t] - startedAt[t]]
           least == CHOOSE d \in Range(duration) : \A e \in Range(duration) : d <= e
           most == CHOOSE d \in Range(duration) : \A e \in Range(duration) : d >= e
           sum == GetLogSummary(ts, "any", n)
<1>1. /\ sum.min = IF timed = {} THEN 0 ELSE least
      /\ sum.max = IF timed = {} THEN 0 ELSE most
      /\ sum.avg = IF timed = {} THEN 0 ELSE SumFunction(duration) \div Cardinality(timed)
      /\ sum.duration = SumFunction(duration)
  BY DEF GetLogSummary
<1>2. PICK m \in Nat : m = Len(events)
  BY DEF AnswersInv, LogInv, LogTypeOK
<1>3. timed \subseteq {t \in Tasks : Stored(t)}
  BY DEF Summed
<1>4. IsFiniteSet(timed)
  BY <1>3, FS_Subset DEF AnswersInv
<1>5. \A t \in timed : completedAt[t] - startedAt[t] \in 0 .. m
  <2> TAKE t \in timed
  <2>1. /\ t \in Tasks /\ status[t] = "completed" /\ startedAt[t] # Never /\ completedAt[t] # Never
    BY <1>3
  <2>2. /\ startedAt[t] \in Nat /\ completedAt[t] \in Nat
        /\ completedAt[t] <= m /\ startedAt[t] <= completedAt[t]
    BY <1>2, <2>1 DEF AnswersInv, TimesOK
  <2> QED
    BY <2>2
<1> HIDE DEF timed, sum
<1>6. duration \in [timed -> 0 .. m]
  BY <1>5
<1>7. CASE timed = {}
  <2>1. duration \in [timed -> Int] /\ 0 \in Int /\ \A t \in timed : 0 <= duration[t] /\ duration[t] <= 0
    BY <1>6, <1>7
  <2>2. Cardinality(timed) = 0
    BY <1>7, FS_EmptySet
  <2> HIDE DEF duration
  <2>3. /\ SumFunction(duration) \in Int
        /\ Cardinality(timed) * 0 <= SumFunction(duration)
        /\ SumFunction(duration) <= Cardinality(timed) * 0
    BY <1>4, <2>1, SumBounds
  <2>4. SumFunction(duration) = 0
    BY <2>2, <2>3
  <2> QED
    BY <1>1, <1>7, <2>4 DEF sum
<1>8. CASE timed # {}
  <2> HIDE DEF duration
  <2> DEFINE avg == SumFunction(duration) \div Cardinality(timed)
  <2>1. 0 <= least /\ least <= avg /\ avg <= most /\ most <= SumFunction(duration)
    BY <1>4, <1>6, <1>8, AverageBetween
  <2> QED
    BY <1>1, <1>8, <2>1 DEF sum
<1> QED
  BY <1>7, <1>8

LEMMA StatsAgree ==
    LET sum == GetLogSummary({}, "any", "any")
    IN  AnswersInv =>
          /\ sum.total = Cardinality({t \in Tasks : Stored(t)})
          /\ sum.pending = TaskStats["pending"] + TaskStats["queued"]
          /\ sum.success = TaskStats["completed"] /\ sum.failed = TaskStats["failed"]
          /\ sum.running = TaskStats["running"]
<1> DEFINE sum == GetLogSummary({}, "any", "any")
           stored == {t \in Tasks : Stored(t)}
           In(S) == {t \in stored : status[t] \in S}
           Of(s) == {t \in Tasks : status[t] = s}
<1> SUFFICES ASSUME AnswersInv
             PROVE  /\ sum.total = Cardinality(stored)
                    /\ sum.pending = TaskStats["pending"] + TaskStats["queued"]
                    /\ sum.success = TaskStats["completed"] /\ sum.failed = TaskStats["failed"]
                    /\ sum.running = TaskStats["running"]
  OBVIOUS
<1>1. Summed({}, "any", "any") = stored
  BY DEF Summed, Named, Matches
<1>2. /\ sum.total = Cardinality(stored)
      /\ sum.success = Cardinality(In({"completed"}))
      /\ sum.failed = Cardinality(In({"failed"}))
      /\ sum.running = Cardinality(In({"running"}))
      /\ sum.pending = Cardinality(In({"pending", "queued"}))
  BY <1>1 DEF GetLogSummary
<1>3. \A s \in TaskStatus : TaskStats[s] = Cardinality(Of(s))
  BY DEF TaskStats
<1>4. "absent" \notin TaskStatus
  BY DEF TaskStatus
<1>5. \A s \in TaskStatus : In({s}) = Of(s)
  BY <1>4 DEF Stored
<1>6. In({"pending", "queued"}) = Of("pending") \cup Of("queued") /\ Of("pending") \cap Of("queued") = {}
  BY DEF Stored
<1>7. IsFiniteSet(stored) /\ \A s \in TaskStatus : Of(s) \subseteq stored
  BY <1>4 DEF AnswersInv, Stored
<1> HIDE DEF sum, stored, In, Of
<1>8. \A s \in TaskStatus : IsFiniteSet(Of(s))
  BY <1>7, FS_Subset
<1>9. {"pending", "queued", "running", "completed", "failed"} \subseteq TaskStatus
  BY DEF TaskStatus
<1>10. Cardinality(In({"pending", "queued"})) = Cardinality(Of("pending")) + Cardinality(Of("queued"))
  BY <1>6, <1>8, <1>9, DisjointUnion
<1> QED
  BY <1>2, <1>3, <1>5, <1>9, <1>10

LEMMA TasksListed ==
    ASSUME AnswersInv, NEW s, NEW limit \in Int, NEW offset \in Int,
           NEW page \in ListTasks(s, limit, offset)
    PROVE  PageOf(page, {t \in Tasks : Stored(t) /\ Matches(s, status[t])}, limit, offset)
<1> DEFINE wanted == {t \in Tasks : Stored(t) /\ Matches(s, status[t])}
<1>1. wanted \subseteq {t \in Tasks : Stored(t)}
  OBVIOUS
<1>2. PICK found \in SetToSeqs(wanted) : page = ListPage(found, limit, offset)
  BY DEF ListTasks
<1> HIDE DEF wanted
<1>3. IsFiniteSet(wanted)
  BY <1>1, FS_Subset DEF AnswersInv
<1>4. PICK n \in Nat : n = Cardinality(wanted)
  BY <1>3, FS_CardinalityType
<1>5. IsListing(found, wanted, n)
  BY <1>3, <1>4, ListingOfAll
<1>6. page = Cut(found, limit, offset)
  BY <1>2, <1>5, ListIsCut DEF IsListing
<1>7. PageOf(page, wanted, limit, offset)
  BY <1>4, <1>5, <1>6, CutIsPage
<1> QED
  BY <1>7 DEF wanted

LEMMA AnswersInvSuffices == AnswersInv => LogAnswers
<1> SUFFICES ASSUME AnswersInv
             PROVE  LogAnswers
  OBVIOUS
<1>1. ASSUME NEW t \in Tasks
      PROVE  /\ \A limit \in -1 .. MaxEvents : InLogOrder(GetTaskEvents(t, limit), Newest(t, limit))
             /\ ExportTaskLogs({t}, "any", "any") = GetTaskEvents(t, 0)
  <2> DEFINE E == [task : Tasks, type : EventType, status : TaskStatus, node : Nodes \cup {NoNode}]
  <2>1. events \in Seq(E)
    BY DEF AnswersInv, LogInv, LogTypeOK
  <2>2. PICK m \in Nat : m = Len(events)
    BY <2>1
  <2>3. OwnAt(t) \in SUBSET (1 .. m)
    BY <2>1, <2>2 DEF OwnAt
  <2> HIDE DEF E
  <2>4. \A limit \in Int : InLogOrder(GetTaskEvents(t, limit), Newest(t, limit))
    BY <2>1, EventsFound
  <2>5. Newest(t, 0) = OwnAt(t)
    BY DEF Newest
  <2>6. InLogOrder(GetTaskEvents(t, 0), OwnAt(t))
    BY <2>4, <2>5
  <2>7. InLogOrder(ExportTaskLogs({t}, "any", "any"), OwnAt(t))
    BY <2>1, EventsExported
  <2>8. ExportTaskLogs({t}, "any", "any") = GetTaskEvents(t, 0)
    BY <2>2, <2>3, <2>6, <2>7, LogOrderOnce
  <2> QED
    BY <2>4, <2>8
<1>2. ASSUME NEW limit \in Limits, NEW offset \in Offsets, NEW s,
             NEW page \in ListTasks(s, limit, offset)
      PROVE  PageOf(page, {t \in Tasks : Stored(t) /\ Matches(s, status[t])}, limit, offset)
  <2>1. limit \in Int /\ offset \in Int
    BY DataAssumption
  <2> QED
    BY <1>2, <2>1, TasksListed
<1>3. ASSUME NEW ts, NEW n
      PROVE  LET sum == GetLogSummary(ts, "any", n)
                 retrying == Cardinality(Summed(ts, "retrying", n))
             IN  /\ sum.total = sum.success + sum.failed + sum.running + sum.pending + retrying
                 /\ 0 <= sum.min /\ sum.min <= sum.avg /\ sum.avg <= sum.max
                 /\ sum.max <= sum.duration
  BY TasksCounted, DurationsBounded
<1> QED
  BY <1>1, <1>2, <1>3, StatsAgree DEF LogAnswers

\* After any calls in any order, what the queries on tasks and events answer
\* fits together.
THEOREM LogAlwaysAnswers == LogSpec => []LogAnswers
<1>1. AnswersInv => LogAnswers
  BY AnswersInvSuffices
<1>2. LogSpec => []AnswersInv
  BY AnswersInvInit, AnswersInvStep, PTL DEF LogSpec
<1> QED
  BY <1>1, <1>2, PTL

-----------------------------------------------------------------------------
(* The load balancer.                                                       *)

BalancerTypeOK ==
    /\ runningTasks \in [Nodes -> Int]
    /\ listed \in Seq(Nodes)
    /\ rrIndex \in Nat

LEMMA LighterOrder ==
    ASSUME BalancerTypeOK, NEW m \in Nodes, NEW n \in Nodes, NEW o \in Nodes
    PROVE  /\ ~Lighter(m, m)
           /\ Lighter(m, n) => ~Lighter(n, m)
           /\ Lighter(m, n) /\ Lighter(n, o) => Lighter(m, o)
           /\ ~Lighter(n, m) /\ Lighter(n, o) => Lighter(m, o)
<1>1. /\ runningTasks[m] \in Int /\ runningTasks[n] \in Int /\ runningTasks[o] \in Int
      /\ Weight[m] \in Int /\ Weight[n] \in Int /\ Weight[o] \in Int
      /\ Weight[m] > 0 /\ Weight[n] > 0 /\ Weight[o] > 0
  BY BalancerAssumption DEF BalancerTypeOK
<1>2. \A a, b, c, u, v, w \in Int :
        u > 0 /\ v > 0 /\ w > 0 /\ a * v <= b * u /\ b * w < c * v => a * w < c * u
  OBVIOUS
<1>3. \A a, b, c, u, v, w \in Int :
        u > 0 /\ v > 0 /\ w > 0 /\ a * v < b * u /\ b * w < c * v => a * w < c * u
  OBVIOUS
<1>4. /\ runningTasks[m] * Weight[n] \in Int /\ runningTasks[n] * Weight[m] \in Int
      /\ runningTasks[m] * Weight[m] \in Int
  BY <1>1
<1>5. ~Lighter(n, m) => runningTasks[m] * Weight[n] <= runningTasks[n] * Weight[m]
  BY <1>4 DEF Lighter
<1>6. Lighter(m, n) /\ Lighter(n, o) => Lighter(m, o)
  BY <1>1, <1>3 DEF Lighter
<1>7. ~Lighter(n, m) /\ Lighter(n, o) => Lighter(m, o)
  BY <1>1, <1>2, <1>5 DEF Lighter
<1> QED
  BY <1>4, <1>6, <1>7 DEF Lighter

LEMMA RangeOfAppend ==
    ASSUME NEW S, NEW q \in Seq(S), NEW x \in S
    PROVE  Range(Append(q, x)) = Range(q) \cup {x}
<1>1. PICK n \in Nat : n = Len(q)
  OBVIOUS
<1>2. /\ DOMAIN q = 1 .. n /\ DOMAIN Append(q, x) = 1 .. n + 1
      /\ Append(q, x)[n + 1] = x
      /\ \A i \in 1 .. n : Append(q, x)[i] = q[i] /\ i \in 1 .. n + 1
      /\ \A i \in 1 .. n + 1 : i # n + 1 => i \in 1 .. n
      /\ n + 1 \in 1 .. n + 1
  BY <1>1
<1> QED
  BY <1>2 DEF Range

LEMMA FitSelects ==
    ASSUME BalancerTypeOK, NEW nodes \in Seq(Nodes)
    PROVE  /\ Fit(nodes) \in Seq(Nodes)
           /\ Range(Fit(nodes)) = Range(nodes) \cap AvailableNodes
<1>1. PICK n \in Nat : n = Len(nodes)
  OBVIOUS
<1>2. \A i \in 1 .. n : nodes[i] \in Nodes
  BY <1>1
<1> DEFINE Turn(found, i) == IF nodes[i] \in AvailableNodes THEN Append(found, nodes[i]) ELSE found
           Step(g) == [i \in 0 .. n |-> IF i = 0 THEN <<>> ELSE Turn(g[i - 1], i)]
           next == [i \in 1 .. n |-> [found \in Seq(Nodes) |-> Turn(found, i)]]
           fit == CHOOSE g : g = Step(g)
<1>3. \A found \in Seq(Nodes), i \in 1 .. n : Turn(found, i) \in Seq(Nodes)
  BY <1>2
<1>4. Fit(nodes) = fit[n]
  BY <1>1 DEF Fit
<1> HIDE DEF Turn
<1>5. \E g : g = Step(g)
  <2>1. PICK f \in Recursions(n, Seq(Nodes), <<>>, next) : TRUE
    <3>1. next \in [1 .. n -> [Seq(Nodes) -> Seq(Nodes)]] /\ <<>> \in Seq(Nodes)
      BY <1>3
    <3> HIDE DEF next
    <3> QED
      BY <3>1, RecursionExists
  <2>2. \A i \in 1 .. n : f[i] = Turn(f[i - 1], i)
    <3> TAKE i \in 1 .. n
    <3>1. f[i - 1] \in Seq(Nodes)
      BY DEF Recursions
    <3> QED
      BY <3>1 DEF Recursions
  <2>3. \A i \in 0 .. n : f[i] = IF i = 0 THEN <<>> ELSE Turn(f[i - 1], i)
    BY <2>2 DEF Recursions
  <2> QED
    BY <2>3 DEF Recursions
<1>6. fit = Step(fit)
  BY <1>5
<1> HIDE DEF fit
<1>7. fit[0] = <<>> /\ \A i \in 1 .. n : fit[i] = Turn(fit[i - 1], i)
  BY <1>6
<1> DEFINE Seen(i) == {nodes[j] : j \in 1 .. i}
           T == {i \in 0 .. n : fit[i] \in Seq(Nodes) /\ Range(fit[i]) = Seen(i) \cap AvailableNodes}
<1>8. 0 \in T
  <2>1. Range(<<>>) = {} /\ Seen(0) = {}
    BY DEF Range
  <2>2. fit[0] \in Seq(Nodes)
    BY <1>7
  <2>3. Range(fit[0]) = Seen(0) \cap AvailableNodes
    BY <1>7, <2>1
  <2> QED
    BY <2>2, <2>3
<1>9. ASSUME NEW i \in 0 .. n - 1, i \in T PROVE i + 1 \in T
  <2>1. fit[i + 1] = Turn(fit[i], i + 1) /\ i + 1 \in 1 .. n
    BY <1>7
  <2>2. Seen(i + 1) = Seen(i) \cup {nodes[i + 1]}
    OBVIOUS
  <2>3. fit[i + 1] \in Seq(Nodes)
    BY <1>3, <1>9, <2>1
  <2>4. \A found \in Seq(Nodes), m \in Nodes : Range(Append(found, m)) = Range(found) \cup {m}
    BY RangeOfAppend
  <2>5. Range(fit[i + 1]) = Seen(i + 1) \cap AvailableNodes
    BY <1>2, <1>9, <2>1, <2>2, <2>4 DEF Turn
  <2> QED
    BY <2>3, <2>5
<1>10. n \in T
  <2> HIDE DEF T
  <2>1. \A i \in 0 .. n : i \in T
    BY <1>8, <1>9, IntervalSteps
  <2> QED
    BY <2>1
<1>11. Seen(n) = Range(nodes)
  BY <1>1 DEF Range
<1> QED
  BY <1>4, <1>10, <1>11

LEMMA LeastIsLeast ==
    ASSUME BalancerTypeOK, NEW nodes \in Seq(Nodes), nodes # <<>>
    PROVE  /\ leastConnections(nodes) \in Range(nodes)
           /\ (\A m \in Range(nodes) : runningTasks[m] >= 0) =>
                \A m \in Range(nodes) : runningTasks[leastConnections(nodes)] <= runningTasks[m]
<1>1. PICK n \in Nat : n = Len(nodes) /\ n >= 1
  OBVIOUS
<1> DEFINE S == Range(nodes)
<1>2. S \subseteq Nodes /\ S = {nodes[i] : i \in 1 .. n} /\ Head(nodes) = nodes[1] /\ Head(nodes) \in S
  BY <1>1 DEF Range
<1>3. \A i \in 1 .. n : nodes[i] \in S
  BY <1>2
<1> HIDE DEF S
<1> DEFINE first == Head(nodes)
           Turn(b, i) == IF runningTasks[b] = -1 \/ runningTasks[nodes[i]] < runningTasks[b] THEN nodes[i] ELSE b
           Step(g) == [i \in 0 .. n |-> IF i = 0 THEN first ELSE Turn(g[i - 1], i)]
           next == [i \in 1 .. n |-> [b \in S |-> Turn(b, i)]]
           best == CHOOSE g : g = Step(g)
<1>4. \A b \in S, i \in 1 .. n : Turn(b, i) \in S
  BY <1>3
<1>5. leastConnections(nodes) = best[n]
  BY <1>1 DEF leastConnections
<1> HIDE DEF Turn, first
<1>6. \E g : g = Step(g)
  <2>1. PICK f \in Recursions(n, S, first, next) : TRUE
    <3>1. next \in [1 .. n -> [S -> S]] /\ first \in S
      BY <1>2, <1>4 DEF first
    <3> HIDE DEF next
    <3> QED
      BY <3>1, RecursionExists
  <2>2. \A i \in 1 .. n : f[i] = Turn(f[i - 1], i)
    <3> TAKE i \in 1 .. n
    <3>1. f[i - 1] \in S
      BY DEF Recursions
    <3> QED
      BY <3>1 DEF Recursions
  <2>3. \A i \in 0 .. n : f[i] = IF i = 0 THEN first ELSE Turn(f[i - 1], i)
    BY <2>2 DEF Recursions
  <2> QED
    BY <2>3 DEF Recursions
<1>7. best = Step(best)
  BY <1>6
<1> HIDE DEF best
<1>8. best[0] = first /\ \A i \in 1 .. n : best[i] = Turn(best[i - 1], i)
  BY <1>7
<1> DEFINE Counted == \A m \in S : runningTasks[m] >= 0
           T == {i \in 0 .. n : /\ best[i] \in S
                                /\ Counted => \A j \in 1 .. i : runningTasks[best[i]] <= runningTasks[nodes[j]]}
<1>9. 0 \in T
  BY <1>2, <1>8 DEF first
<1>10. ASSUME NEW i \in 0 .. n - 1, i \in T PROVE i + 1 \in T
  <2>1. best[i + 1] = Turn(best[i], i + 1) /\ i + 1 \in 1 .. n
    BY <1>8
  <2>2. best[i + 1] \in S
    BY <1>4, <1>10, <2>1
  <2>3. ASSUME Counted, NEW j \in 1 .. i + 1
        PROVE  runningTasks[best[i + 1]] <= runningTasks[nodes[j]]
    <3>1. \A m \in S : runningTasks[m] \in Int /\ runningTasks[m] # -1
      BY <1>2, <2>3 DEF BalancerTypeOK
    <3>2. nodes[j] \in S /\ nodes[i + 1] \in S /\ best[i] \in S
      BY <1>3, <1>10, <2>1
    <3>3. runningTasks[best[i + 1]] <= runningTasks[best[i]]
          /\ runningTasks[best[i + 1]] <= runningTasks[nodes[i + 1]]
      BY <2>1, <3>1, <3>2 DEF Turn
    <3>4. CASE j = i + 1
      BY <3>3, <3>4
    <3>5. CASE j # i + 1
      <4>1. runningTasks[best[i]] <= runningTasks[nodes[j]]
        <5>1. j \in 1 .. i
          BY <3>5
        <5> QED
          BY <1>10, <2>3, <5>1
      <4> QED
        BY <2>2, <3>1, <3>2, <3>3, <4>1
    <3> QED
      BY <3>4, <3>5
  <2> QED
    BY <2>2, <2>3
<1>11. n \in T
  <2> HIDE DEF T
  <2>1. \A i \in 0 .. n : i \in T
    BY <1>9, <1>10, IntervalSteps
  <2> QED
    BY <2>1
<1> QED
  BY <1>2, <1>5, <1>11 DEF S

\* s has all n nodes of S, each once, and none lighter than one before it.
ByLoad(s, S, n) ==
    /\ s \in Seq(Nodes) /\ Len(s) = n
    /\ \A i \in 1 .. n : s[i] \in S
    /\ \A i, j \in 1 .. n : s[i] = s[j] => i = j
    /\ \A m \in S : \E i \in 1 .. n : s[i] = m
    /\ \A i, j \in 1 .. n : i < j => ~Lighter(s[j], s[i])

LEMMA SortedByLoad ==
    ASSUME BalancerTypeOK, NEW nodes \in Seq(Nodes), NEW n \in Nat, n = Cardinality(Range(nodes))
    PROVE  /\ SortedNodes(nodes) # {}
           /\ \A s \in SortedNodes(nodes) : ByLoad(s, Range(nodes), n)
<1> DEFINE S == Range(nodes)
           before == [m \in S |-> {k \in S : Lighter(m, k)}]
<1>1. S \subseteq Nodes /\ IsFiniteSet(S)
  <2>1. S \subseteq Nodes
    BY DEF Range
  <2> QED
    BY <2>1, BalancerAssumption, FS_Subset
<1>2. \E s \in SetToSeqs(S) : InOrder(s, before)
  <2>1. before \in [S -> SUBSET S]
    OBVIOUS
  <2>2. \A x, y \in S : y \in before[x] <=> Lighter(x, y)
    OBVIOUS
  <2> HIDE DEF S, before
  <2>3. \A x, y \in S : y \in before[x] => x \notin before[y]
    BY <1>1, <2>2, LighterOrder
  <2>4. \A x, y, z \in S : y \in before[x] /\ z \in before[y] => z \in before[x]
    <3>1. \A x, y, z \in S : Lighter(x, y) /\ Lighter(y, z) => Lighter(x, z)
      BY <1>1, LighterOrder
    <3> QED
      BY <2>2, <3>1
  <2> QED
    BY <1>1, <2>1, <2>3, <2>4, SortedListing
<1>3. \A s \in SetToSeqs(S) :
         /\ s \in Seq(S) /\ Len(s) = n
         /\ \A i, j \in 1 .. n : s[i] = s[j] => i = j
         /\ \A x \in S : \E i \in 1 .. n : s[i] = x
  <2> HIDE DEF S
  <2>1. \A s \in SetToSeqs(S) : IsListing(s, S, n)
    BY <1>1, ListingOfAll DEF S
  <2> QED
    BY <2>1 DEF IsListing
<1>4. \A s \in SetToSeqs(S) : DOMAIN s = 1 .. n /\ \A i \in 1 .. n : s[i] \in S
  BY <1>3
<1>5. \A s \in SetToSeqs(S) : InOrder(s, before) <=> s \in SortedNodes(nodes)
  <2> TAKE s \in SetToSeqs(S)
  <2>1. \A i, j \in 1 .. n : s[i] \in before[s[j]] <=> Lighter(s[j], s[i])
    BY <1>4
  <2> HIDE DEF before
  <2> QED
    BY <1>4, <2>1 DEF InOrder, SortedNodes
<1>6. ASSUME NEW s \in SortedNodes(nodes)
      PROVE  s \in SetToSeqs(S) /\ \A i, j \in 1 .. n : i < j => ~Lighter(s[j], s[i])
  <2>1. s \in SetToSeqs(S)
    BY DEF SortedNodes
  <2> QED
    BY <1>4, <2>1 DEF SortedNodes
<1>7. \A s \in SetToSeqs(S) : s \in Seq(Nodes)
  <2> HIDE DEF S
  <2> QED
    BY <1>1, <1>3
<1> HIDE DEF before
<1> QED
  BY <1>2, <1>3, <1>4, <1>5, <1>6, <1>7 DEF ByLoad

\* What one listing by load has up to some place carries no more than what
\* another one has behind it: nodes of equal load may stand differently in the
\* two, but there are as many lighter ones in both.
LEMMA ListingsAgree ==
    ASSUME BalancerTypeOK, NEW nodes \in Seq(Nodes), NEW n \in Nat, n = Cardinality(Range(nodes)),
           NEW r \in SortedNodes(nodes), NEW s \in SortedNodes(nodes),
           NEW i \in 1 .. n, NEW j \in 1 .. n, i < j
    PROVE  ~Lighter(s[j], r[i])
<1> SUFFICES ASSUME Lighter(s[j], r[i])
             PROVE  FALSE
  OBVIOUS
<1> DEFINE S == Range(nodes)
<1>1. /\ \A k \in 1 .. n : r[k] \in S /\ s[k] \in S
      /\ \A k, l \in 1 .. n : s[k] = s[l] => k = l
      /\ \A m \in S : \E k \in 1 .. n : r[k] = m
      /\ \A k, l \in 1 .. n : k < l => ~Lighter(r[l], r[k]) /\ ~Lighter(s[l], s[k])
  <2>1. ByLoad(r, S, n) /\ ByLoad(s, S, n)
    BY SortedByLoad
  <2> HIDE DEF S
  <2> QED
    BY <2>1 DEF ByLoad
<1>2. S \subseteq Nodes
  BY DEF Range
<1> HIDE DEF S
<1> DEFINE f == [k \in 1 .. j |-> CHOOSE l \in 1 .. n : r[l] = s[k]]
<1>3. \A k \in 1 .. j : f[k] \in 1 .. n /\ r[f[k]] = s[k] /\ k \in 1 .. n
  <2> TAKE k \in 1 .. j
  <2>1. k \in 1 .. n
    OBVIOUS
  <2>2. \E l \in 1 .. n : r[l] = s[k]
    BY <1>1, <2>1
  <2> QED
    BY <2>1, <2>2
<1>4. ASSUME NEW k \in 1 .. j PROVE f[k] < i
  <2>1. s[k] \in Nodes /\ s[j] \in Nodes /\ r[i] \in Nodes
    BY <1>1, <1>2, <1>3
  <2>2. Lighter(s[k], r[i])
    <3>1. k = j \/ ~Lighter(s[j], s[k])
      BY <1>1, <1>3
    <3> QED
      BY <2>1, <3>1, LighterOrder
  <2>3. f[k] # i
    BY <1>3, <2>1, <2>2, LighterOrder
  <2>4. ~(f[k] > i)
    BY <1>1, <1>3, <2>2
  <2>5. f[k] \in Int
    BY <1>3
  <2> HIDE DEF f
  <2> QED
    BY <2>3, <2>4, <2>5
<1>5. f \in [1 .. j -> 1 .. i - 1]
  <2>1. \A k \in 1 .. j : f[k] \in 1 .. i - 1
    <3> HIDE DEF f
    <3> QED
      BY <1>3, <1>4
  <2> QED
    BY <2>1
<1>6. \E k, l \in 1 .. j : k # l /\ f[k] = f[l]
  <2>1. IsFiniteSet(1 .. j) /\ Cardinality(1 .. j) = j
    BY FS_Interval
  <2>2. IsFiniteSet(1 .. i - 1) /\ Cardinality(1 .. i - 1) = i - 1
    <3>1. PICK h \in Nat : h = i - 1
      OBVIOUS
    <3>2. IsFiniteSet(1 .. h) /\ Cardinality(1 .. h) = h
      BY CountUpto
    <3> QED
      BY <3>1, <3>2
  <2>3. Cardinality(1 .. i - 1) < Cardinality(1 .. j)
    BY <2>1, <2>2
  <2> HIDE DEF f
  <2> QED
    BY <1>5, <2>1, <2>2, <2>3, FS_PigeonHole
<1> HIDE DEF f
<1> QED
  BY <1>1, <1>3, <1>6

LEMMA Halves ==
    ASSUME NEW s \in Seq(Nodes), NEW n \in Nat, n = Len(s), n >= 1
    PROVE  /\ Half(s, Medium) = s
           /\ Range(Half(s, High)) = {s[i] : i \in 1 .. IF n = 1 THEN 1 ELSE n \div 2}
           /\ Range(Half(s, Low)) = {s[i] : i \in (n \div 2) + 1 .. n}
<1>0. \A i \in 1 .. n : s[i] \in Nodes
  OBVIOUS
<1>1. Half(s, Medium) = s
  BY DEF Half, Low, Medium, High
<1>2. CASE n = 1
  <2>1. Half(s, High) = s /\ Half(s, Low) = s
    BY <1>2 DEF Half, Low, High
  <2>2. DOMAIN s = 1 .. 1
    <3>1. DOMAIN s = 1 .. n
      OBVIOUS
    <3> QED
      BY <1>2, <3>1
  <2>3. n \div 2 = 0
    BY <1>2
  <2> QED
    BY <1>1, <1>2, <2>1, <2>2, <2>3 DEF Range
<1>3. CASE n > 1
  <2> DEFINE h == n \div 2
             first == SubSeq(s, 1, h)
             last == SubSeq(s, h + 1, n)
  <2>1. h \in Nat /\ h >= 1 /\ h < n
    BY <1>3
  <2>2. Half(s, High) = first /\ Half(s, Low) = last
    BY <1>3 DEF Half, Low, High
  <2> HIDE DEF h
  <2>3. /\ Len(first) = h /\ first \in Seq(Nodes)
        /\ \A i \in 1 .. h : first[i] = s[i]
    <3>1. \A i \in 1 .. h : s[i] \in Nodes
      BY <1>0, <2>1
    <3>2. /\ first \in Seq(Nodes)
          /\ Len(first) = IF 1 <= h THEN h - 1 + 1 ELSE 0
          /\ \A i \in 1 .. h - 1 + 1 : first[i] = s[1 + i - 1]
      BY <2>1, <3>1, SubSeqProperties
    <3> HIDE DEF first
    <3>3. \A i \in 1 .. h : i \in 1 .. h - 1 + 1 /\ 1 + i - 1 = i
      BY <2>1
    <3> QED
      BY <2>1, <3>2, <3>3
  <2>4. /\ Len(last) = n - h /\ last \in Seq(Nodes)
        /\ \A i \in 1 .. n - h : last[i] = s[h + i]
    <3>1. \A i \in h + 1 .. n : s[i] \in Nodes
      BY <1>0, <2>1
    <3>2. /\ last \in Seq(Nodes)
          /\ Len(last) = IF h + 1 <= n THEN n - (h + 1) + 1 ELSE 0
          /\ \A i \in 1 .. n - (h + 1) + 1 : last[i] = s[(h + 1) + i - 1]
      BY <2>1, <3>1, SubSeqProperties
    <3> HIDE DEF last
    <3>3. \A i \in 1 .. n - h : i \in 1 .. n - (h + 1) + 1 /\ (h + 1) + i - 1 = h + i
      BY <2>1
    <3> QED
      BY <2>1, <3>2, <3>3
  <2> HIDE DEF first, last
  <2>5. Range(first) = {s[i] : i \in 1 .. h}
    <3>1. DOMAIN first = 1 .. h
      BY <2>1, <2>3
    <3> QED
      BY <2>3, <3>1 DEF Range
  <2>6. Range(last) = {s[i] : i \in h + 1 .. n}
    <3>0. n - h \in Nat
      BY <2>1
    <3>1. PICK k \in Nat : k = n - h
      BY <3>0
    <3>2. DOMAIN last = 1 .. k /\ \A i \in 1 .. k : last[i] = s[h + i]
      BY <2>4, <3>1
    <3>3. \A i \in 1 .. k : h + i \in h + 1 .. n
      BY <2>1, <3>1
    <3>4. \A i \in h + 1 .. n : i - h \in 1 .. k /\ h + (i - h) = i
      BY <2>1, <3>1
    <3>5. \A i \in h + 1 .. n : last[i - h] = s[i]
      BY <3>2, <3>4
    <3>6. Range(last) \subseteq {s[i] : i \in h + 1 .. n}
      BY <3>2, <3>3 DEF Range
    <3>7. \A i \in h + 1 .. n : s[i] \in Range(last)
      BY <3>2, <3>4, <3>5 DEF Range
    <3> QED
      BY <3>6, <3>7
  <2> QED
    BY <1>1, <1>3, <2>2, <2>5, <2>6 DEF h
<1> QED
  BY <1>2, <1>3

LEMMA TypesSpread == BalancerTypeOK => LoadSpread
<1> SUFFICES ASSUME BalancerTypeOK
             PROVE  LoadSpread
  OBVIOUS
<1> DEFINE left == Range(listed) \cap AvailableNodes
           choices(strategy, priority) == Selectable(strategy, listed, priority)
           fit == Fit(listed)
<1> SUFFICES ASSUME left # {}
             PROVE  /\ \A strategy \in {"round_robin", "least_connections", "weighted", "random"} :
                         choices(strategy, Medium) # {} /\ choices(strategy, Medium) \subseteq left
                    /\ (\A n \in left : runningTasks[n] >= 0) =>
                          \A m \in choices("least_connections", Medium), n \in left :
                              runningTasks[m] <= runningTasks[n]
                    /\ choices("priority_aware", Medium) = left
                    /\ choices("priority_aware", High) # {} /\ choices("priority_aware", Low) # {}
                    /\ \A m \in choices("priority_aware", High), n \in choices("priority_aware", Low) :
                          Load(m, n) <= Load(n, m)
  BY DEF LoadSpread
<1>1. fit \in Seq(Nodes) /\ Range(fit) = left
  BY FitSelects DEF BalancerTypeOK
<1>2. fit # <<>>
  BY <1>1 DEF Range
<1>3. PICK n \in Nat : n = Cardinality(left) /\ n >= 1 /\ IsFiniteSet(left)
  <2>1. IsFiniteSet(left)
    <3>1. left \subseteq Nodes
      BY DEF AvailableNodes
    <3> HIDE DEF left
    <3> QED
      BY <3>1, BalancerAssumption, FS_Subset
  <2>2. Cardinality(left) \in Nat /\ Cardinality(left) # 0
    <3> HIDE DEF left
    <3> QED
      BY <2>1, FS_CardinalityType, FS_EmptySet
  <2> QED
    BY <2>1, <2>2
<1> HIDE DEF fit
<1>4. /\ choices("round_robin", Medium) = {roundRobin(fit)}
      /\ choices("least_connections", Medium) = {leastConnections(fit)}
      /\ choices("weighted", Medium) = left
      /\ choices("random", Medium) = left
  BY <1>1, <1>2 DEF Selectable, fit
<1>5. \A priority : choices("priority_aware", priority) = priorityAware(fit, priority)
  BY <1>1, <1>2 DEF Selectable, fit
<1> HIDE DEF left, choices
<1>6. roundRobin(fit) \in left
  <2>1. PICK k \in Nat : k = Len(fit) /\ k >= 1
    BY <1>1, <1>2
  <2>2. rrIndex % k \in 0 .. k - 1
    BY <2>1 DEF BalancerTypeOK
  <2>3. (rrIndex % k) + 1 \in DOMAIN fit
    BY <1>1, <2>1, <2>2
  <2> QED
    BY <1>1, <2>1, <2>3 DEF roundRobin, Range
<1>7. /\ leastConnections(fit) \in left
      /\ (\A m \in left : runningTasks[m] >= 0) =>
            \A m \in left : runningTasks[leastConnections(fit)] <= runningTasks[m]
  BY <1>1, <1>2, LeastIsLeast
<1>8. PICK r : r \in SortedNodes(fit)
  BY <1>1, <1>3, SortedByLoad
<1>9. \A s \in SortedNodes(fit) : ByLoad(s, left, n)
  BY <1>1, <1>3, SortedByLoad
<1>10. ASSUME NEW s \in SortedNodes(fit)
       PROVE  /\ Range(Half(s, Medium)) = left
              /\ Range(Half(s, High)) = {s[i] : i \in 1 .. IF n = 1 THEN 1 ELSE n \div 2}
              /\ Range(Half(s, Low)) = {s[i] : i \in (n \div 2) + 1 .. n}
  <2>1. s \in Seq(Nodes) /\ n = Len(s) /\ DOMAIN s = 1 .. n
    BY <1>9 DEF ByLoad
  <2>2. Range(s) = left
    BY <1>9, <2>1 DEF ByLoad, Range
  <2> QED
    BY <1>3, <2>1, <2>2, Halves
<1>11. choices("priority_aware", Medium) = left
  <2>1. \A x : x \in choices("priority_aware", Medium) <=>
                \E s \in SortedNodes(fit) : x \in Range(Half(s, Medium))
    BY <1>5 DEF priorityAware
  <2>2. \A s \in SortedNodes(fit) : Range(Half(s, Medium)) = left
    BY <1>10
  <2>3. \A x : x \in choices("priority_aware", Medium) <=> x \in left
    BY <1>8, <2>1, <2>2
  <2> QED
    BY <2>3
<1>12. choices("priority_aware", High) # {} /\ choices("priority_aware", Low) # {}
  <2>1. 1 \in 1 .. (IF n = 1 THEN 1 ELSE n \div 2) /\ n \in (n \div 2) + 1 .. n
    BY <1>3
  <2>2. r[1] \in Range(Half(r, High)) /\ r[n] \in Range(Half(r, Low))
    BY <1>8, <1>10, <2>1
  <2> QED
    BY <1>5, <1>8, <2>2 DEF priorityAware
<1>13. ASSUME NEW l \in choices("priority_aware", High), NEW m \in choices("priority_aware", Low)
       PROVE  Load(l, m) <= Load(m, l)
  <2>1. PICK s \in SortedNodes(fit), i \in 1 .. IF n = 1 THEN 1 ELSE n \div 2 : l = s[i]
    BY <1>5, <1>10 DEF priorityAware
  <2>2. PICK t \in SortedNodes(fit), j \in (n \div 2) + 1 .. n : m = t[j]
    BY <1>5, <1>10 DEF priorityAware
  <2>3. i \in 1 .. n /\ j \in 1 .. n
    BY <1>3
  <2>4. l \in left /\ m \in left
    BY <1>9, <2>1, <2>2, <2>3 DEF ByLoad
  <2>5. l \in Nodes /\ m \in Nodes
    BY <2>4 DEF left, AvailableNodes
  <2>6. ~Lighter(m, l)
    <3>1. CASE n = 1
      <4>1. l = m
        <5>1. PICK x : left = {x}
          BY <1>3, <3>1, FS_Singleton
        <5> QED
          BY <2>4, <5>1
      <4> QED
        BY <2>5, <4>1, LighterOrder
    <3>2. CASE n # 1
      <4>1. i < j
        BY <1>3, <3>2
      <4> QED
        BY <1>1, <1>3, <2>1, <2>2, <2>3, <4>1, ListingsAgree
    <3> QED
      BY <3>1, <3>2
  <2>7. Load(l, m) \in Int /\ Load(m, l) \in Int
    BY <2>5, BalancerAssumption DEF BalancerTypeOK, Load
  <2> QED
    BY <2>6, <2>7 DEF Lighter, Load
<1> QED
  BY <1>4, <1>6, <1>7, <1>11, <1>12, <1>13

LEMMA BalancerTypeInvariant == BalancerTypeOK /\ [BalancerNext]_balancerVars => BalancerTypeOK'
<1> SUFFICES ASSUME BalancerTypeOK, [BalancerNext]_balancerVars
             PROVE  BalancerTypeOK'
  OBVIOUS
<1>1. CASE GetAvailableNodes
  <2>1. AvailableNodes \subseteq Nodes /\ IsFiniteSet(AvailableNodes)
    <3>1. AvailableNodes \subseteq Nodes
      BY DEF AvailableNodes
    <3> QED
      BY <3>1, BalancerAssumption, FS_Subset
  <2>2. listed' \in Seq(Nodes)
    <3>1. listed' \in Seq(AvailableNodes)
      <4>1. PICK n \in Nat : n = Cardinality(AvailableNodes)
        BY <2>1, FS_CardinalityType
      <4>2. IsListing(listed', AvailableNodes, n)
        BY <1>1, <2>1, <4>1, ListingOfAll DEF GetAvailableNodes
      <4> QED
        BY <4>2 DEF IsListing
    <3> QED
      BY <2>1, <3>1
  <2> QED
    BY <1>1, <2>2 DEF GetAvailableNodes, nodeVars, BalancerTypeOK
<1>2. CASE SelectNode
  BY <1>2 DEF SelectNode, nodeVars, BalancerTypeOK
<1>3. CASE NodeChanges
  <2>1. listed' = listed /\ rrIndex' = rrIndex
    BY <1>3 DEF NodeChanges
  <2>2. \A n \in Nodes : runningTasks[n] \in Int
    BY DEF BalancerTypeOK
  <2>3. runningTasks' \in [Nodes -> Int]
    BY <1>3, <2>2, HeartbeatAssumption
       DEF NodeChanges, RegisterNode, DeregisterNode, UpdateHeartbeat, UpdateTaskCount, CountAfter,
           MarkNodeOffline, BalancerTypeOK
  <2> QED
    BY <2>1, <2>3 DEF BalancerTypeOK
<1>4. CASE UNCHANGED balancerVars
  BY <1>4 DEF balancerVars, nodeVars, BalancerTypeOK
<1> QED
  BY <1>1, <1>2, <1>3, <1>4 DEF BalancerNext

\* However many nodes there are, whatever their weights and whatever happens to
\* them between listing and choosing: the choice is an available node while
\* one is left, and load is spread as the strategy says.
THEOREM LoadAlwaysSpread == BalancerSpec => []LoadSpread
<1>1. BalancerInit => BalancerTypeOK
  BY DEF BalancerInit, NodeTableInit, BalancerTypeOK
<1> QED
  BY <1>1, TypesSpread, BalancerTypeInvariant, PTL DEF BalancerSpec

=============================================================================
