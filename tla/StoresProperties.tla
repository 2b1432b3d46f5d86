-------------------------- MODULE StoresProperties --------------------------
(***************************************************************************)
(* What the data structures and queries of the stores promise.             *)
(***************************************************************************)
EXTENDS TaskHeap, TaskLog, DataIndex, LoadBalancer

-----------------------------------------------------------------------------
(* The event log.                                                           *)

OwnAt(t) == {i \in DOMAIN events : events[i].task = t}

\* The node that the log up to event i has the task at.
AssignedBy(t, i) ==
    LET assigned == {j \in OwnAt(t) : j <= i /\ events[j].type = "assigned"}
    IN  IF assigned = {} THEN NoNode ELSE events[Max(assigned)].node

\* The log alone tells the state of every task: its status is that of its last
\* event, its node the one of its last assignment, its retry count the number
\* of its retry events; and every event names the node the task was at.
\* UpdateTaskStatus, AssignTask and IncrementRetry each write the task and its
\* event, and nothing else writes either.
LogReplays ==
    \A t \in Tasks :
        /\ status[t] = IF OwnAt(t) = {} THEN "absent" ELSE events[Max(OwnAt(t))].status
        /\ assignedNode[t] = AssignedBy(t, Len(events))
        /\ \A i \in OwnAt(t) : events[i].node = AssignedBy(t, i)
        /\ retryCount[t] = Cardinality({i \in OwnAt(t) : events[i].type = "retry"})

\* The newest events of a task, as many as the limit allows.
Newest(t, limit) ==
    {i \in OwnAt(t) : limit <= 0 \/ Cardinality({j \in OwnAt(t) : j > i}) < limit}

\* The answer is made of the events at these places of the log, oldest first.
InLogOrder(answer, places) ==
    \E at \in SetToSeqs(places) :
        /\ \A i, j \in DOMAIN at : i < j => at[i] < at[j]
        /\ answer = [i \in DOMAIN at |-> events[at[i]]]

\* What the queries on the log answer fits together, after any calls in any
\* order: GetTaskEvents, which walks back from the newest event, gives the
\* newest part of the task's log, oldest first, and ExportTaskLogs, as long as
\* no two events of the task share a time, the whole;
\* the counts of GetLogSummary are those of GetStats and leave out exactly the
\* tasks that wait for a retry, its durations are not negative, whichever
\* tasks were started and completed over and over, and within the bounds
\* given with them; and ListTasks cuts its pages to length.
LogAnswers ==
    /\ \A t \in Tasks :
          /\ \A limit \in -1 .. MaxEvents : InLogOrder(GetTaskEvents(t, limit), Newest(t, limit))
          /\ ExportTaskLogs({t}, "any", "any") = GetTaskEvents(t, 0)
    /\ \A ts \in SUBSET Tasks, n \in Nodes \cup {"any"} :
          LET sum == GetLogSummary(ts, "any", n)
              retrying == Cardinality(Summed(ts, "retrying", n))
          IN  /\ sum.total = sum.success + sum.failed + sum.running + sum.pending + retrying
              /\ 0 <= sum.min /\ sum.min <= sum.avg /\ sum.avg <= sum.max
              /\ sum.max <= sum.duration
    /\ LET sum == GetLogSummary({}, "any", "any")
       IN  /\ sum.total = Cardinality({t \in Tasks : Stored(t)})
           /\ sum.pending = TaskStats["pending"] + TaskStats["queued"]
           /\ sum.success = TaskStats["completed"] /\ sum.failed = TaskStats["failed"]
           /\ sum.running = TaskStats["running"]
    /\ \A s \in {"any", "failed"}, limit \in Limits, offset \in Offsets :
          LET wanted == {t \in Tasks : Stored(t) /\ Matches(s, status[t])}
          IN  \A page \in ListTasks(s, limit, offset) : PageOf(page, wanted, limit, offset)

-----------------------------------------------------------------------------
(* The load balancer.                                                       *)

Load(m, n) == runningTasks[m] * Weight[n]

\* Whatever the order of the list and whatever changed since it was made: no
\* node that went away is chosen while another one is left, least_connections
\* takes a node with the fewest running tasks, unless a heartbeat carried a
\* negative count, a task of medium priority may get any node, and no urgent
\* task gets a node with more load for its weight than a task of low priority
\* may get, whatever the counts are.
LoadSpread ==
    LET left == Range(listed) \cap AvailableNodes
        choices(strategy, priority) == Selectable(strategy, listed, priority)
    IN  left # {} =>
          /\ \A strategy \in {"round_robin", "least_connections", "weighted", "random"} :
                choices(strategy, Medium) # {} /\ choices(strategy, Medium) \subseteq left
          /\ (\A n \in left : runningTasks[n] >= 0) =>
                \A m \in choices("least_connections", Medium), n \in left :
                    runningTasks[m] <= runningTasks[n]
          /\ choices("priority_aware", Medium) = left
          /\ choices("priority_aware", High) # {} /\ choices("priority_aware", Low) # {}
          /\ \A m \in choices("priority_aware", High), n \in choices("priority_aware", Low) :
                Load(m, n) <= Load(n, m)

=============================================================================
