----------------------------- MODULE Scheduler -----------------------------
(***************************************************************************)
(* The scheduler of internal/scheduler: the goroutines that share the task *)
(* table, the ready queue and the channels, one action per step that       *)
(* another goroutine can observe.                                          *)
(*                                                                         *)
(*   dispatcher   dispatchLoop / dispatchTasks, holds s.mu for a whole     *)
(*                round, so s.mu is held exactly while dpc # "idle"        *)
(*   retry loop   retryLoop / handleRetry                                  *)
(*   timers       one sleeping goroutine per retry (handleRetry's go func) *)
(*   handlers     HTTP goroutines in MarkTaskRunning / Completed / Failed  *)
(*   submitters   HTTP goroutines in SubmitTask                            *)
(*                                                                         *)
(* Clients are unconstrained, as the HTTP API is: any status may be        *)
(* reported for any task at any time, in duplicate and in any order, and   *)
(* nodes come, go and send heartbeats as they like.  MaxReports and        *)
(* MaxNodeEvents bound how often.                                          *)
(***************************************************************************)
EXTENDS TaskTable, NodeTable, ReadyQueue, Sequences, FiniteSets

CONSTANTS
    Handlers,        \* HTTP goroutines that report a status
    MaxRetries,      \* Task.MaxRetries, fixed by NewTask
    DispatchCap,     \* capacity of dispatchCh (100 in the code)
    RetryCap,        \* capacity of retryCh (50 in the code)
    Reentrant,       \* TryLock succeeds on a key this process holds (Redis)
    LockErrors,      \* lock calls may fail (Redis)
    LeaseExpiry,     \* a lock may outlive its TTL before it is released
    MaxReports,      \* bound on status reports
    MaxNodeEvents    \* bound on node events

\* RedisLock shares one holder among all callers of a process, and only
\* RedisLock can fail; MemoryLock is neither reentrant nor fallible.
ASSUME LockAssumption ==
    /\ Reentrant \in BOOLEAN /\ LockErrors \in BOOLEAN /\ LeaseExpiry \in BOOLEAN
    /\ LockErrors => Reentrant

ASSUME HandlerAssumption == IsFiniteSet(Handlers)

ASSUME TaskAssumption == MaxRetries \in [Tasks -> Int]

ASSUME CapacityAssumption ==
    /\ DispatchCap \in Nat \ {0}
    /\ RetryCap \in Nat \ {0}

ASSUME EnvironmentAssumption ==
    /\ MaxReports \in Nat
    /\ MaxNodeEvents \in Nat

VARIABLES
    submitting,    \* tasks between AddTask and heap.Push in SubmitTask
    sleeping,      \* how many retry timers each task has
    dpc, dtask, dnode,   \* the dispatcher: position, task, node
    dispatchCh,
    received,      \* how often each task was received from dispatchCh
    rpc, rtask,    \* the retry loop: position, task
    retryCh,
    hpc, htask, hkind,   \* each handler: position, task, reported status
    failures,      \* reports of failure that were accepted (history variable)
    lostRetries,   \* failed tasks whose entry RetryLockFails took (history variable)
    locks,         \* keys present in the lock table
    overlapped,    \* tasks whose status key expired or was re-entered while a
                   \* handler was at work under it (history variable)
    failedAlerts,  \* task_failed alerts raised for each task
    retryAlerts,   \* task_retry alerts raised for each task
    dispatches,    \* how often each task was assigned (history variable)
    reports, nodeEvents  \* how much of the two bounds is used

queueVars == <<queue, submitting, sleeping>>
outVars == <<dispatchCh, received, dispatches>>
dispatchVars == <<dpc, dtask, dnode, outVars>>
retryVars == <<rpc, rtask, retryCh, failedAlerts, retryAlerts>>
retryLoopVars == <<rpc, rtask, failedAlerts, retryAlerts>>
historyVars == <<failures, lostRetries>>
handlerVars == <<hpc, htask, hkind, historyVars>>
lockVars == <<locks, overlapped>>
boundVars == <<reports, nodeEvents>>

\* What no step of the dispatcher, of the retry loop, of a handler changes.
notDispatcher == <<submitting, sleeping, retryVars, handlerVars, overlapped, boundVars>>
notRetryLoop == <<queue, submitting, nodeVars, dispatchVars, handlerVars, overlapped,
                  boundVars>>
notHandler == <<queueVars, dispatchVars, retryLoopVars, boundVars>>

vars == <<taskVars, nodeVars, queueVars, dispatchVars, retryVars, handlerVars,
          lockVars, boundVars>>

ReportKinds == {"running", "completed", "failed"}

DispatchKey(t) == <<"dispatch", t>>
RetryKey(t) == <<"retry", t>>
StatusKey(t) == <<"status", t>>
Keys == {"dispatch", "retry", "status"} \X Tasks

QueueTypeOK ==
    /\ ReadyQueueTypeOK
    /\ submitting \subseteq Tasks
    /\ sleeping \in [Tasks -> Nat]

DispatchTypeOK ==
    /\ dpc \in {"idle", "loop", "select", "assign", "count", "send", "unlock"}
    /\ dtask \in Tasks \cup {NoTask}
    /\ dnode \in Nodes \cup {NoNode}
    /\ dispatchCh \in Seq(Tasks)
    /\ received \in [Tasks -> Nat]
    /\ dispatches \in [Tasks -> Nat]

RetryTypeOK ==
    /\ rpc \in {"idle", "check", "increment", "alert", "unlock"}
    /\ rtask \in Tasks \cup {NoTask}
    /\ retryCh \in Seq(Tasks)
    /\ failedAlerts \in [Tasks -> Nat]
    /\ retryAlerts \in [Tasks -> Nat]

HandlerTypeOK ==
    /\ hpc \in [Handlers -> {"idle", "check", "release", "update", "handoff", "unlock"}]
    /\ htask \in [Handlers -> Tasks \cup {NoTask}]
    /\ hkind \in [Handlers -> ReportKinds \cup {"none"}]
    /\ failures \in [Tasks -> Nat]
    /\ lostRetries \subseteq Tasks

TypeOK ==
    /\ TaskTableTypeOK
    /\ NodeTableTypeOK
    /\ QueueTypeOK
    /\ DispatchTypeOK
    /\ RetryTypeOK
    /\ HandlerTypeOK
    /\ locks \subseteq Keys
    /\ overlapped \subseteq Tasks
    /\ reports \in Nat
    /\ nodeEvents \in Nat

Init ==
    /\ TaskTableInit
    /\ NodeTableInit
    /\ ReadyQueueInit
    /\ submitting = {}
    /\ sleeping = [t \in Tasks |-> 0]
    /\ dpc = "idle" /\ dtask = NoTask /\ dnode = NoNode
    /\ dispatchCh = <<>>
    /\ received = [t \in Tasks |-> 0]
    /\ dispatches = [t \in Tasks |-> 0]
    /\ rpc = "idle" /\ rtask = NoTask
    /\ retryCh = <<>>
    /\ failedAlerts = [t \in Tasks |-> 0]
    /\ retryAlerts = [t \in Tasks |-> 0]
    /\ hpc = [h \in Handlers |-> "idle"]
    /\ htask = [h \in Handlers |-> NoTask]
    /\ hkind = [h \in Handlers |-> "none"]
    /\ failures = [t \in Tasks |-> 0]
    /\ lostRetries = {}
    /\ locks = {}
    /\ overlapped = {}
    /\ reports = 0
    /\ nodeEvents = 0

-----------------------------------------------------------------------------
(* The distributed lock, as the scheduler uses it.  Neither Unlock nor the  *)
(* result of Unlock is checked, so a failed Unlock leaves the key behind.   *)

\* Mutant: every key can always be taken.
CanLock_Always(key) == TRUE

CanLock(key) == Reentrant \/ key \notin locks

Acquire(key) == locks' = locks \cup {key}

Unlock(key) ==
    \/ locks' = locks \ {key}
    \/ LockErrors /\ UNCHANGED locks

\* Some handler is past TryLock with a report for task t.
AtWork(t) == \E h \in Handlers : htask[h] = t

\* A key whose TTL has passed counts as absent for every later call.
LeaseExpires(key) ==
    /\ LeaseExpiry
    /\ key \in locks
    /\ locks' = locks \ {key}
    /\ overlapped' = overlapped \cup {t \in Tasks : key = StatusKey(t) /\ AtWork(t)}
    /\ UNCHANGED <<taskVars, nodeVars, queueVars, dispatchVars, retryVars, handlerVars,
                   boundVars>>

-----------------------------------------------------------------------------
(* SubmitTask: store the task, then push it under s.mu.                     *)

SubmitTask(t) ==
    /\ AddTask(t)
    /\ submitting' = submitting \cup {t}
    /\ UNCHANGED <<queue, sleeping, nodeVars, dispatchVars, handlerVars, lockVars,
                   boundVars, retryVars>>

PushSubmitted(t) ==
    /\ t \in submitting
    /\ dpc = "idle"
    /\ Push(t)
    /\ submitting' = submitting \ {t}
    /\ UNCHANGED <<sleeping, taskVars, nodeVars, dispatchVars, handlerVars, lockVars,
                   boundVars, retryVars>>

-----------------------------------------------------------------------------
(* dispatchTasks, one round per tick that finds something to do.            *)

\* Mutant: a busy node does not count as available.
StartDispatch_IdleNodesOnly ==
    /\ dpc = "idle"
    /\ ~QueueEmpty
    /\ \E n \in AvailableNodes : nodeStatus[n] # "busy"
    /\ dpc' = "loop"
    /\ UNCHANGED <<dtask, dnode, taskVars, nodeVars, queue, locks, notDispatcher,
                   outVars>>

StartDispatch ==
    /\ dpc = "idle"
    /\ ~QueueEmpty
    /\ AvailableNodes # {}
    /\ dpc' = "loop"
    /\ UNCHANGED <<dtask, dnode, taskVars, nodeVars, queue, locks, notDispatcher,
                   outVars>>

EndDispatch ==
    /\ dpc = "loop"
    /\ QueueEmpty
    /\ dpc' = "idle"
    /\ UNCHANGED <<dtask, dnode, taskVars, nodeVars, queue, locks, notDispatcher,
                   outVars>>

\* Mutant: heap.Pop where the round should Peek, so that the entry is popped
\* once more when its node is found.
LockHead_Pops(t) ==
    /\ dpc = "loop"
    /\ IsHead(t)
    /\ PopHead(t)
    /\ IF CanLock(DispatchKey(t))
         THEN Acquire(DispatchKey(t)) /\ dpc' = "select" /\ dtask' = t
         ELSE UNCHANGED <<dpc, dtask, locks>>
    /\ UNCHANGED <<dnode, taskVars, nodeVars, notDispatcher, outVars>>

\* Peek, then TryLock: a key that is held means the entry is dropped.
LockHead(t) ==
    /\ dpc = "loop"
    /\ IsHead(t)
    /\ IF CanLock(DispatchKey(t))
         THEN /\ Acquire(DispatchKey(t))
              /\ dpc' = "select" /\ dtask' = t
              /\ UNCHANGED queue
         ELSE /\ PopHead(t)
              /\ UNCHANGED <<dpc, dtask, locks>>
    /\ UNCHANGED <<dnode, taskVars, nodeVars, notDispatcher, outVars>>

LockHeadFails ==
    /\ dpc = "loop"
    /\ ~QueueEmpty
    /\ LockErrors
    /\ dpc' = "idle"
    /\ UNCHANGED <<dtask, dnode, taskVars, nodeVars, queue, locks, notDispatcher,
                   outVars>>

\* GetBestNodeForTask answers with a node that is available now; which one
\* is the load balancer's choice.  The entry is popped once there is one.
SelectNode(n) ==
    /\ dpc = "select"
    /\ n \in AvailableNodes
    /\ dpc' = "assign" /\ dnode' = n
    /\ PopHead(dtask)
    /\ UNCHANGED <<dtask, taskVars, nodeVars, locks, notDispatcher, outVars>>

\* Mutant: continue where the loop should be left.
NoSuitableNode_Continues ==
    /\ dpc = "select"
    /\ AvailableNodes = {}
    /\ Unlock(DispatchKey(dtask))
    /\ dpc' = "loop" /\ dtask' = NoTask
    /\ UNCHANGED <<dnode, taskVars, nodeVars, queue, notDispatcher, outVars>>

NoSuitableNode ==
    /\ dpc = "select"
    /\ AvailableNodes = {}
    /\ Unlock(DispatchKey(dtask))
    /\ dpc' = "idle" /\ dtask' = NoTask
    /\ UNCHANGED <<dnode, taskVars, nodeVars, queue, notDispatcher, outVars>>

\* AssignTask, or the entry back in the queue when the task is gone.
Assign ==
    /\ dpc = "assign"
    /\ IF Stored(dtask)
         THEN /\ AssignTask(dtask, dnode)
              /\ dispatches' = [dispatches EXCEPT ![dtask] = @ + 1]
              /\ dpc' = "count"
              /\ UNCHANGED <<queue, dtask, dnode, locks>>
         ELSE /\ Push(dtask)
              /\ Unlock(DispatchKey(dtask))
              /\ dpc' = "loop" /\ dtask' = NoTask /\ dnode' = NoNode
              /\ UNCHANGED <<taskVars, dispatches>>
    /\ UNCHANGED <<dispatchCh, received, nodeVars, notDispatcher>>

\* UpdateNodeTaskCount(+1); a node that has left meanwhile is only logged.
CountUp ==
    /\ dpc = "count"
    /\ IF Registered(dnode) THEN UpdateTaskCount(dnode, 1) ELSE UNCHANGED nodeVars
    /\ dpc' = "send"
    /\ UNCHANGED <<dtask, dnode, taskVars, queue, locks, notDispatcher, outVars>>

\* Mutant: a select with a default, which drops the task when dispatchCh is full.
Send_NonBlocking ==
    /\ dpc = "send"
    /\ dispatchCh' = IF Len(dispatchCh) < DispatchCap THEN Append(dispatchCh, dtask)
                      ELSE dispatchCh
    /\ dpc' = "unlock"
    /\ UNCHANGED <<dtask, dnode, received, dispatches, taskVars, nodeVars, queue, locks,
                   notDispatcher>>

\* The send blocks, with s.mu held, while dispatchCh is full.
Send ==
    /\ dpc = "send"
    /\ Len(dispatchCh) < DispatchCap
    /\ dispatchCh' = Append(dispatchCh, dtask)
    /\ dpc' = "unlock"
    /\ UNCHANGED <<dtask, dnode, received, dispatches, taskVars, nodeVars, queue, locks,
                   notDispatcher>>

\* Mutant: the key is left to its TTL.
UnlockDispatch_LeavesKey ==
    /\ dpc = "unlock"
    /\ dpc' = "loop" /\ dtask' = NoTask /\ dnode' = NoNode
    /\ UNCHANGED <<taskVars, nodeVars, queue, locks, notDispatcher, outVars>>

UnlockDispatch ==
    /\ dpc = "unlock"
    /\ Unlock(DispatchKey(dtask))
    /\ dpc' = "loop" /\ dtask' = NoTask /\ dnode' = NoNode
    /\ UNCHANGED <<taskVars, nodeVars, queue, notDispatcher, outVars>>

\* Whoever reads GetDispatchChannel.  Nobody in the repository does: a
\* behaviour of Spec in which this step never happens is the program as it is.
ReceiveDispatched ==
    /\ dispatchCh # <<>>
    /\ dispatchCh' = Tail(dispatchCh)
    /\ received' = [received EXCEPT ![Head(dispatchCh)] = @ + 1]
    /\ UNCHANGED <<dpc, dtask, dnode, dispatches, taskVars, nodeVars, queueVars,
                   retryVars, handlerVars, lockVars, boundVars>>

-----------------------------------------------------------------------------
(* handleRetry, one entry of retryCh after the other.                       *)

\* The entry is taken out, then TryLock: a held key means no retry.
RetryReceive ==
    /\ rpc = "idle"
    /\ retryCh # <<>>
    /\ retryCh' = Tail(retryCh)
    /\ IF CanLock(RetryKey(Head(retryCh)))
         THEN /\ Acquire(RetryKey(Head(retryCh)))
              /\ rpc' = "check" /\ rtask' = Head(retryCh)
         ELSE UNCHANGED <<locks, rpc, rtask>>
    /\ UNCHANGED <<failedAlerts, retryAlerts, taskVars, sleeping, notRetryLoop>>

\* TryLock fails after the entry was taken out: the retry is lost.
RetryLockFails ==
    /\ rpc = "idle"
    /\ retryCh # <<>>
    /\ LockErrors
    /\ retryCh' = Tail(retryCh)
    /\ lostRetries' = lostRetries \cup {Head(retryCh)}
    /\ UNCHANGED <<rpc, rtask, failedAlerts, retryAlerts, taskVars, queueVars, nodeVars,
                   dispatchVars, hpc, htask, hkind, failures, lockVars, boundVars>>

RetryExhausted(t) == retryCount[t] >= MaxRetries[t]

\* Mutant: the last retry of the budget is not given.
RetryCheck_OneTooFew ==
    /\ rpc = "check"
    /\ rpc' = IF Stored(rtask) /\ retryCount[rtask] + 1 < MaxRetries[rtask]
                 THEN "increment" ELSE "unlock"
    /\ failedAlerts' = IF Stored(rtask) /\ rpc' = "unlock"
                         THEN [failedAlerts EXCEPT ![rtask] = @ + 1] ELSE failedAlerts
    /\ UNCHANGED <<rtask, retryCh, retryAlerts, locks, taskVars, sleeping,
                   notRetryLoop>>

\* Mutant: the alert goes out for every failure, before the budget is checked.
RetryCheck_AlertsFirst ==
    /\ rpc = "check"
    /\ rpc' = IF Stored(rtask) /\ ~RetryExhausted(rtask) THEN "increment" ELSE "unlock"
    /\ failedAlerts' = [failedAlerts EXCEPT ![rtask] = @ + 1]
    /\ UNCHANGED <<rtask, retryCh, retryAlerts, locks, taskVars, sleeping,
                   notRetryLoop>>

RetryCheck ==
    /\ rpc = "check"
    /\ rpc' = IF Stored(rtask) /\ ~RetryExhausted(rtask) THEN "increment" ELSE "unlock"
    /\ failedAlerts' = IF Stored(rtask) /\ RetryExhausted(rtask)
                         THEN [failedAlerts EXCEPT ![rtask] = @ + 1] ELSE failedAlerts
    /\ UNCHANGED <<rtask, retryCh, retryAlerts, locks, taskVars, sleeping,
                   notRetryLoop>>

RetryIncrement ==
    /\ rpc = "increment"
    /\ IF Stored(rtask)
         THEN IncrementRetry(rtask) /\ rpc' = "alert"
         ELSE UNCHANGED taskVars /\ rpc' = "unlock"
    /\ UNCHANGED <<rtask, retryCh, failedAlerts, retryAlerts, locks, sleeping,
                   notRetryLoop>>

\* The task_retry alert, then the goroutine that sleeps for the delay.
RetrySpawn ==
    /\ rpc = "alert"
    /\ retryAlerts' = [retryAlerts EXCEPT ![rtask] = @ + 1]
    /\ sleeping' = [sleeping EXCEPT ![rtask] = @ + 1]
    /\ rpc' = "unlock"
    /\ UNCHANGED <<rtask, retryCh, failedAlerts, locks, taskVars, notRetryLoop>>

RetryUnlock ==
    /\ rpc = "unlock"
    /\ Unlock(RetryKey(rtask))
    /\ rpc' = "idle" /\ rtask' = NoTask
    /\ UNCHANGED <<retryCh, failedAlerts, retryAlerts, taskVars, sleeping,
                   notRetryLoop>>

\* A timer goroutine wakes up and pushes its task under s.mu.
Requeue(t) ==
    /\ sleeping[t] > 0
    /\ dpc = "idle"
    /\ sleeping' = [sleeping EXCEPT ![t] = @ - 1]
    /\ IF Stored(t) THEN Push(t) ELSE UNCHANGED queue
    /\ UNCHANGED <<submitting, taskVars, nodeVars, dispatchVars, handlerVars, lockVars,
                   boundVars, retryVars>>

-----------------------------------------------------------------------------
(* MarkTaskRunning, MarkTaskCompleted and MarkTaskFailed.                   *)

\* The request arrives and takes the status lock; a request that finds it
\* held, or whose TryLock fails, is refused and changes nothing.
Report(h, t, kind) ==
    /\ reports < MaxReports
    /\ hpc[h] = "idle"
    /\ CanLock(StatusKey(t))
    /\ Acquire(StatusKey(t))
    /\ overlapped' = IF Reentrant /\ StatusKey(t) \in locks /\ AtWork(t)
                       THEN overlapped \cup {t} ELSE overlapped
    /\ hpc' = [hpc EXCEPT ![h] = IF kind = "running" THEN "update" ELSE "check"]
    /\ htask' = [htask EXCEPT ![h] = t]
    /\ hkind' = [hkind EXCEPT ![h] = kind]
    /\ reports' = reports + 1
    /\ UNCHANGED <<nodeEvents, historyVars, taskVars, nodeVars, dispatchVars, queueVars,
                   retryVars>>

\* Mutant: a failure report checks for an earlier failure only.
FinalFor_IgnoresCompleted(kind) == {kind}

\* The statuses in which a report of this kind changes nothing.
FinalFor(kind) == IF kind = "failed" THEN {"failed", "completed"} ELSE {"completed"}

CheckStatus(h) ==
    LET t == htask[h] IN
    /\ hpc[h] = "check"
    /\ hpc' = [hpc EXCEPT ![h] =
                 IF ~Stored(t) \/ status[t] \in FinalFor(hkind[h]) THEN "unlock"
                 ELSE IF assignedNode[t] # NoNode THEN "release" ELSE "update"]
    /\ UNCHANGED <<htask, hkind, historyVars, taskVars, nodeVars, retryCh, lockVars,
                   notHandler>>

\* UpdateNodeTaskCount(-1) on the node the task has now, which the
\* dispatcher may have changed since CheckStatus.
ReleaseNode(h) ==
    LET n == assignedNode[htask[h]] IN
    /\ hpc[h] = "release"
    /\ IF Registered(n) THEN UpdateTaskCount(n, -1) ELSE UNCHANGED nodeVars
    /\ hpc' = [hpc EXCEPT ![h] = "update"]
    /\ UNCHANGED <<htask, hkind, historyVars, taskVars, retryCh, lockVars, notHandler>>

\* Mutant: a failed task is not handed to the retry loop.
UpdateStatus_NoHandOff(h) ==
    /\ hpc[h] = "update"
    /\ IF Stored(htask[h])
         THEN UpdateTaskStatus(htask[h], hkind[h]) ELSE UNCHANGED taskVars
    /\ hpc' = [hpc EXCEPT ![h] = "unlock"]
    /\ UNCHANGED <<htask, hkind, historyVars, nodeVars, retryCh, lockVars, notHandler>>

\* Mutant: a completed task is handed to the retry loop as well.
UpdateStatus_HandsOffCompleted(h) ==
    /\ hpc[h] = "update"
    /\ IF Stored(htask[h])
         THEN /\ UpdateTaskStatus(htask[h], hkind[h])
              /\ hpc' = [hpc EXCEPT ![h] =
                           IF hkind[h] # "running" THEN "handoff" ELSE "unlock"]
              /\ IF hkind[h] = "failed"
                   THEN /\ failures' = [failures EXCEPT ![htask[h]] = @ + 1]
                        /\ lostRetries' = lostRetries \ {htask[h]}
                   ELSE UNCHANGED historyVars
         ELSE /\ hpc' = [hpc EXCEPT ![h] = "unlock"]
              /\ UNCHANGED <<taskVars, historyVars>>
    /\ UNCHANGED <<htask, hkind, nodeVars, retryCh, lockVars, notHandler>>

UpdateStatus(h) ==
    /\ hpc[h] = "update"
    /\ IF Stored(htask[h])
         THEN /\ UpdateTaskStatus(htask[h], hkind[h])
              /\ hpc' = [hpc EXCEPT ![h] =
                           IF hkind[h] = "failed" THEN "handoff" ELSE "unlock"]
              /\ IF hkind[h] = "failed"
                   THEN /\ failures' = [failures EXCEPT ![htask[h]] = @ + 1]
                        /\ lostRetries' = lostRetries \ {htask[h]}
                   ELSE UNCHANGED historyVars
         ELSE /\ hpc' = [hpc EXCEPT ![h] = "unlock"]
              /\ UNCHANGED <<taskVars, historyVars>>
    /\ UNCHANGED <<htask, hkind, nodeVars, retryCh, lockVars, notHandler>>

\* Mutant: a select with a default, which drops the retry when retryCh is full.
HandOff_NonBlocking(h) ==
    /\ hpc[h] = "handoff"
    /\ retryCh' = IF Len(retryCh) < RetryCap THEN Append(retryCh, htask[h]) ELSE retryCh
    /\ hpc' = [hpc EXCEPT ![h] = "unlock"]
    /\ UNCHANGED <<htask, hkind, historyVars, taskVars, nodeVars, lockVars, notHandler>>

\* Mutant: the hand-over is made under s.mu.
HandOff_UnderMutex(h) ==
    /\ hpc[h] = "handoff"
    /\ dpc = "idle"
    /\ Len(retryCh) < RetryCap
    /\ retryCh' = Append(retryCh, htask[h])
    /\ hpc' = [hpc EXCEPT ![h] = "unlock"]
    /\ UNCHANGED <<htask, hkind, historyVars, taskVars, nodeVars, lockVars, notHandler>>

\* retryCh <- task blocks, with the status lock held, while it is full.
HandOff(h) ==
    /\ hpc[h] = "handoff"
    /\ Len(retryCh) < RetryCap
    /\ retryCh' = Append(retryCh, htask[h])
    /\ hpc' = [hpc EXCEPT ![h] = "unlock"]
    /\ UNCHANGED <<htask, hkind, historyVars, taskVars, nodeVars, lockVars, notHandler>>

UnlockStatus(h) ==
    /\ hpc[h] = "unlock"
    /\ Unlock(StatusKey(htask[h]))
    /\ hpc' = [hpc EXCEPT ![h] = "idle"]
    /\ htask' = [htask EXCEPT ![h] = NoTask]
    /\ hkind' = [hkind EXCEPT ![h] = "none"]
    /\ overlapped' = IF \E g \in Handlers \ {h} : htask[g] = htask[h]
                       THEN overlapped ELSE overlapped \ {htask[h]}
    /\ UNCHANGED <<historyVars, taskVars, nodeVars, retryCh, notHandler>>

-----------------------------------------------------------------------------
(* Nodes: the requests of NodeHandler and the health checker's verdict.     *)

NodeEvent(n) ==
    /\ nodeEvents < MaxNodeEvents
    /\ nodeEvents' = nodeEvents + 1
    /\ \/ RegisterNode(n)
       \/ DeregisterNode(n)
       \/ \E s \in ReportedStatus, r \in ReportedLoads : UpdateHeartbeat(n, s, r)
       \/ MarkNodeOffline(n)
    /\ UNCHANGED <<reports, taskVars, dispatchVars, handlerVars, lockVars, queueVars,
                   retryVars>>

-----------------------------------------------------------------------------

Dispatcher ==
    \/ StartDispatch
    \/ EndDispatch
    \/ \E t \in Tasks : LockHead(t)
    \/ LockHeadFails
    \/ \E n \in Nodes : SelectNode(n)
    \/ NoSuitableNode
    \/ Assign
    \/ CountUp
    \/ Send
    \/ UnlockDispatch

RetryLoop ==
    \/ RetryReceive
    \/ RetryLockFails
    \/ RetryCheck
    \/ RetryIncrement
    \/ RetrySpawn
    \/ RetryUnlock

Handler(h) ==
    \/ CheckStatus(h)
    \/ ReleaseNode(h)
    \/ UpdateStatus(h)
    \/ HandOff(h)
    \/ UnlockStatus(h)

Next ==
    \/ \E t \in Tasks : SubmitTask(t) \/ PushSubmitted(t) \/ Requeue(t)
    \/ Dispatcher
    \/ ReceiveDispatched
    \/ RetryLoop
    \/ \E h \in Handlers : Handler(h)
    \/ \E h \in Handlers, t \in Tasks, kind \in ReportKinds : Report(h, t, kind)
    \/ \E n \in Nodes : NodeEvent(n)
    \/ \E key \in Keys : LeaseExpires(key)

Spec == Init /\ [][Next]_vars

\* Go runs every goroutine that can proceed, and a goroutine that waits for
\* s.mu gets it in the end (sync.Mutex hands over to a starving waiter), also
\* when the dispatcher keeps taking it.  Nothing is assumed of clients, nodes
\* or leases, nor of a receiver of dispatchCh: the repository has none.
Fairness ==
    /\ WF_vars(Dispatcher)
    /\ WF_vars(RetryLoop)
    /\ \A h \in Handlers : WF_vars(Handler(h))
    /\ \A t \in Tasks : SF_vars(PushSubmitted(t)) /\ SF_vars(Requeue(t))

FairSpec == Spec /\ Fairness

=============================================================================
