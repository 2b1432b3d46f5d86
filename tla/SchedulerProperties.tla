------------------------ MODULE SchedulerProperties ------------------------
(***************************************************************************)
(* What the scheduler promises whatever its clients and nodes do.          *)
(***************************************************************************)
EXTENDS Scheduler, Channels

\* The places where a dispatch that is owed to task t can be.
Owed(t) ==
    Count(t \in submitting) + queue[t] + sleeping[t]
        + Count(dpc = "assign" /\ dtask = t)
        + Count(rpc = "alert" /\ rtask = t)

Granted == [t \in Tasks |-> IF Stored(t) THEN 1 + retryCount[t] ELSE 0]

Attempts == INSTANCE AttemptLedger
              WITH reported <- failures, granted <- Granted, started <- dispatches

-----------------------------------------------------------------------------

\* A task is dispatched once for its submission and once for each retry it
\* was granted, never more and never less: every dispatch that is owed is in
\* exactly one place, and none is dropped between the heap, the retry timers
\* and the goroutines that hand entries over (dispatchTasks, handleRetry).
DispatchLedger ==
    \A t \in Tasks :
        dispatches[t] + Owed(t) = IF Stored(t) THEN 1 + retryCount[t] ELSE 0

\* What was assigned and not received is in dispatchCh or in the dispatcher's
\* hands, entry by entry.  Without a receiver the dispatcher therefore stops
\* for good, with s.mu held, after DispatchCap + 1 dispatches.
DeliveryLedger ==
    \A t \in Tasks :
        dispatches[t] = received[t]
                          + Queued(dispatchCh, t)
                          + Count(dpc \in {"count", "send"} /\ dtask = t)

\* handleRetry grants at most MaxRetries retries, although failure reports
\* for the same task may pile up in retryCh.
RetryBudget ==
    \A t \in Tasks :
        /\ retryCount[t] > 0 => retryCount[t] <= MaxRetries[t]
        /\ rpc = "increment" /\ rtask = t => ~RetryExhausted(t)

\* One task_retry alert per granted retry, and a task_failed alert only once
\* the budget is used up.
AlertsMatchRetries ==
    \A t \in Tasks :
        /\ retryAlerts[t] + Count(rpc = "alert" /\ rtask = t) = retryCount[t]
        /\ failedAlerts[t] > 0 => RetryExhausted(t)

\* Seen through reports of failure, grants and dispatches alone, the scheduler
\* is the ledger: a retry is granted within the budget and for a report of its
\* own, although reports for one task pile up in retryCh, and assigning a task
\* uses up one attempt that was granted before.
ImplementsAttempts == Attempts!Spec

\* TryLock on a dispatch key never finds the key held, so that dispatchTasks
\* never takes its "already being dispatched" path, which would drop an entry
\* that nobody else dispatches; the same for handleRetry and its key.
NoEntrySkipped ==
    \A t \in Tasks :
        /\ dpc = "loop" => CanLock(DispatchKey(t))
        /\ rpc = "idle" => CanLock(RetryKey(t))

Holds(channel, t) == Places(channel, t) # {}

\* Some goroutine will act on task t.
AboutToRetry(t) ==
    \/ \E h \in Handlers : hpc[h] = "handoff" /\ htask[h] = t
    \/ Holds(retryCh, t)
    \/ rpc \in {"check", "increment"} /\ rtask = t

AboutToRun(t) ==
    \/ dpc \in {"count", "send"} /\ dtask = t
    \/ Holds(dispatchCh, t)
    \/ received[t] > 0

\* A task that waits is never stranded: pending and retrying tasks are on
\* their way into the dispatcher, a failed task with retries left is on its
\* way to the retry loop unless the TryLock of handleRetry failed on an entry
\* of its own since, and a queued task is on its way to, or has reached, the
\* receiver of dispatchCh.  A lost retry is therefore the work of that one
\* error path, whatever else fails, is re-entered or expires.
NoStrandedTask ==
    \A t \in Tasks :
        /\ status[t] \in {"pending", "retrying"} => Owed(t) > 0
        /\ status[t] = "failed" => RetryExhausted(t) \/ AboutToRetry(t) \/ t \in lostRetries
        /\ status[t] = "queued" => AboutToRun(t)

\* At most one status report per task is past TryLock, so that the check of
\* the status and the update after it are one step for other reports, except
\* where the lock itself gives way: the key ran out under the handler that
\* holds it, or RedisLock let a second handler of the process re-enter it.  One
\* such event overlaps the reports until the last handler of the task is done.
\* A handler that is early, refused or ends never costs another one its key.
StatusSerialised ==
    \A g, h \in Handlers :
        htask[g] = htask[h] /\ htask[g] \in Tasks \ overlapped => g = h

\* A report of failure never overturns a completed task, except between
\* reports that overlap because their key ran out or was re-entered: with
\* MemoryLock and handlers faster than the TTL, never.
CompletedNeverFails ==
    [][\A t \in Tasks : status[t] = "completed" /\ status'[t] = "failed"
                             => t \in overlapped]_vars

\* A completed task stays completed: completed is a "final state"
\* (scheduler.go:334).  Violated: MarkTaskRunning writes without a look at the
\* status, and handleRetry and dispatchTasks go on with a task whose completion
\* arrives while its retry is due or its entry is queued.
CompletedIsFinal ==
    [][\A t \in Tasks : status[t] = "completed" => status'[t] = "completed"]_vars

-----------------------------------------------------------------------------
(* Under FairSpec, which assumes no receiver of dispatchCh.                *)

\* The dispatcher waits for room in dispatchCh, with s.mu held.
SendBlocked == dpc = "send" /\ Len(dispatchCh) = DispatchCap

\* While some node stays available, a task that waits is dispatched, unless
\* the dispatcher ends up waiting at its send for ever: that full channel is
\* the one thing that stops it.
WaitingTaskDispatched ==
    <>[](AvailableNodes # {}) /\ []<>~SendBlocked =>
        \A t \in Tasks : Owed(t) > 0 ~> Owed(t) = 0

\* A failed task with retries left gets its retry, also when its report had to
\* wait for room in retryCh, and also while the dispatcher is stuck.
FailedTaskRetried ==
    \A t \in Tasks : status[t] = "failed" ~> (status[t] # "failed" \/ RetryExhausted(t))

\* Every report is answered: no handler waits for ever on a full retryCh,
\* even when the dispatcher holds s.mu for good.
ReportsAnswered ==
    \A h \in Handlers : hpc[h] # "idle" ~> hpc[h] = "idle"

\* Every round of the dispatcher ends, so that s.mu is released, unless the
\* dispatcher ends up waiting at its send for ever.
RoundsEnd == []<>~SendBlocked => (dpc # "idle" ~> dpc = "idle")

=============================================================================
