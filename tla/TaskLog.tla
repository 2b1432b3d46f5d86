------------------------------- MODULE TaskLog -------------------------------
(***************************************************************************)
(* TaskStore with its event log: every call that changes a task appends an *)
(* event under the same lock, and the log is listed, exported and summed   *)
(* up.  The n-th event happens at instant n; clients may report what they  *)
(* like, so the calls come in any order.                                   *)
(***************************************************************************)
EXTENDS TaskTable, Queries

CONSTANTS Never,      \* a time that is not set
          MaxEvents   \* bound on the length of the log

ASSUME LogAssumption == Never \notin Nat

VARIABLES
    events,       \* the log
    startedAt,    \* Task.StartedAt
    completedAt   \* Task.CompletedAt

logVars == <<taskVars, events, startedAt, completedAt>>

Event(t, type, s, n) == [task |-> t, type |-> type, status |-> s, node |-> n]

Now == Len(events) + 1

LogInit ==
    /\ TaskTableInit
    /\ events = <<>>
    /\ startedAt = [t \in Tasks |-> Never]
    /\ completedAt = [t \in Tasks |-> Never]

addEvent(t, type, s, n) ==
    /\ Len(events) < MaxEvents
    /\ events' = Append(events, Event(t, type, s, n))

LogCreate(t) ==
    /\ AddTask(t)
    /\ addEvent(t, "created", "pending", NoNode)
    /\ UNCHANGED <<startedAt, completedAt>>

\* Mutant: only the first completion of a task is timed.
LogStatus_FirstCompletion(t, s) ==
    /\ UpdateTaskStatus(t, s)
    /\ addEvent(t, "status_changed", s, assignedNode[t])
    /\ startedAt' = IF s = "running" THEN [startedAt EXCEPT ![t] = Now] ELSE startedAt
    /\ completedAt' = IF s = "completed" /\ completedAt[t] = Never
                        THEN [completedAt EXCEPT ![t] = Now] ELSE completedAt

LogStatus(t, s) ==
    /\ UpdateTaskStatus(t, s)
    /\ addEvent(t, "status_changed", s, assignedNode[t])
    /\ startedAt' = IF s = "running" THEN [startedAt EXCEPT ![t] = Now] ELSE startedAt
    /\ completedAt' = IF s = "completed" THEN [completedAt EXCEPT ![t] = Now] ELSE completedAt

\* Mutant: the event carries the node of the attempt before.
LogAssign_OldNode(t, n) ==
    /\ AssignTask(t, n)
    /\ addEvent(t, "assigned", "queued", assignedNode[t])
    /\ UNCHANGED <<startedAt, completedAt>>

LogAssign(t, n) ==
    /\ AssignTask(t, n)
    /\ addEvent(t, "assigned", "queued", n)
    /\ UNCHANGED <<startedAt, completedAt>>

LogRetry(t) ==
    /\ IncrementRetry(t)
    /\ addEvent(t, "retry", "retrying", assignedNode[t])
    /\ UNCHANGED <<startedAt, completedAt>>

LogNext ==
    \E t \in Tasks :
        \/ LogCreate(t) \/ LogRetry(t)
        \/ \E s \in {"running", "completed", "failed"} : LogStatus(t, s)
        \/ \E n \in Nodes : LogAssign(t, n)

LogSpec == LogInit /\ [][LogNext]_logVars

-----------------------------------------------------------------------------
(* Queries.                                                                 *)

\* From the newest event back, each found event is put in front.
GetTaskEvents(t, limit) ==
    LET n == Len(events)
        found[k \in 0 .. n] ==
            IF k = 0 THEN <<>>
            ELSE IF /\ events[n + 1 - k].task = t
                    /\ limit <= 0 \/ Len(found[k - 1]) < limit
                 THEN <<events[n + 1 - k]>> \o found[k - 1] ELSE found[k - 1]
    IN  found[n]

\* ListTasks walks over the map in any order, another one at each call.
ListTasks(s, limit, offset) ==
    {ListPage(found, limit, offset) :
        found \in SetToSeqs({t \in Tasks : Stored(t) /\ Matches(s, status[t])})}

TaskStats == [s \in TaskStatus |-> Cardinality({t \in Tasks : status[t] = s})]

\* TaskIDs of a query; an empty list names every task.
Named(ts, t) == ts = {} \/ t \in ts

Summed(ts, s, n) ==
    {t \in Tasks : Stored(t) /\ Named(ts, t) /\ Matches(s, status[t]) /\ Matches(n, assignedNode[t])}

\* GetLogSummary; AvgDurationMs is rounded down.
GetLogSummary(ts, s, n) ==
    LET tasks == Summed(ts, s, n)
        In(S) == {t \in tasks : status[t] \in S}
        timed == {t \in In({"completed"}) : startedAt[t] # Never /\ completedAt[t] # Never}
        duration == [t \in timed |-> completedAt[t] - startedAt[t]]
        total == SumFunction(duration)
        least == CHOOSE d \in Range(duration) : \A e \in Range(duration) : d <= e
        most == CHOOSE d \in Range(duration) : \A e \in Range(duration) : d >= e
        none == timed = {}
    IN  [total |-> Cardinality(tasks),
         success |-> Cardinality(In({"completed"})),
         failed |-> Cardinality(In({"failed"})),
         running |-> Cardinality(In({"running"})),
         pending |-> Cardinality(In({"pending", "queued"})),
         min |-> IF none THEN 0 ELSE least,
         max |-> IF none THEN 0 ELSE most,
         avg |-> IF none THEN 0 ELSE total \div Cardinality(timed),
         duration |-> total]

\* The events ExportTaskLogs writes out, in their order: sort.Slice by the time
\* of the event, which is the log's order where no two events share a time;
\* events of the same nanosecond may come out in any order.  The status filter
\* is on the task's status of now, not on the event's.
ExportTaskLogs(ts, s, n) ==
    LET wanted(e) == Named(ts, e.task) /\ Matches(s, status[e.task]) /\ Matches(n, e.node)
        written[i \in 0 .. Len(events)] ==
            IF i = 0 THEN <<>>
            ELSE IF wanted(events[i]) THEN Append(written[i - 1], events[i]) ELSE written[i - 1]
    IN  written[Len(events)]

=============================================================================
