-------------------------- MODULE SchedulerProofs --------------------------
(***************************************************************************)
(* Proofs, for every value of the constants, of the safety properties of   *)
(* SchedulerProperties.                                                    *)
(***************************************************************************)
EXTENDS SchedulerProperties, CommonProofs, SequenceTheorems, FiniteSetTheorems, TLAPS

-----------------------------------------------------------------------------
(* Type correctness.  TypeOK alone is not inductive: an action that uses    *)
(* the task at hand needs the goroutine to have one.                        *)

\* Each goroutine that is at work has the task, the node and the report kind
\* that its position in the code presupposes, and the entry that the
\* dispatcher peeked is still in the heap when it is popped.
DispatcherAtWork ==
    /\ dpc \notin {"idle", "loop"} => dtask \in Tasks
    /\ dpc = "select" => queue[dtask] > 0
    /\ dpc \in {"assign", "count", "send", "unlock"} => dnode \in Nodes

RetryLoopAtWork == rpc # "idle" => rtask \in Tasks

HandlersAtWork ==
    \A h \in Handlers : hpc[h] # "idle" =>
        /\ htask[h] \in Tasks
        /\ hkind[h] \in ReportKinds
        /\ hpc[h] = "release" => assignedNode[htask[h]] \in Nodes

TypeInv == TypeOK /\ DispatcherAtWork /\ RetryLoopAtWork /\ HandlersAtWork

LEMMA InitTypeInv == Init => TypeInv
<1> SUFFICES ASSUME Init PROVE TypeInv
  OBVIOUS
<1>1. TaskTableTypeOK /\ NodeTableTypeOK
  BY DEF Init, TaskTableTypeOK, TaskTableInit, NodeTableTypeOK, NodeTableInit, ReadyQueueInit
<1>2. QueueTypeOK /\ DispatchTypeOK /\ RetryTypeOK /\ HandlerTypeOK
  BY DEF Init, QueueTypeOK, DispatchTypeOK, RetryTypeOK, HandlerTypeOK, ReadyQueueTypeOK, ReadyQueueInit
<1>3. locks \subseteq Keys /\ overlapped \subseteq Tasks /\ reports \in Nat /\ nodeEvents \in Nat
  BY DEF Init, ReadyQueueInit
<1>4. DispatcherAtWork /\ RetryLoopAtWork /\ HandlersAtWork
  BY DEF Init, DispatcherAtWork, RetryLoopAtWork, HandlersAtWork, ReadyQueueInit
<1> QED
  BY <1>1, <1>2, <1>3, <1>4 DEF TypeInv, TypeOK

LEMMA KeysTyped ==
    ASSUME NEW t \in Tasks
    PROVE  DispatchKey(t) \in Keys /\ RetryKey(t) \in Keys /\ StatusKey(t) \in Keys
  BY DEF DispatchKey, RetryKey, StatusKey, Keys

\* A part of the invariant survives a step that leaves its variables alone.
LEMMA Frames ==
    /\ TaskTableTypeOK /\ UNCHANGED taskVars => TaskTableTypeOK'
    /\ NodeTableTypeOK /\ UNCHANGED nodeVars => NodeTableTypeOK'
    /\ QueueTypeOK /\ UNCHANGED queueVars => QueueTypeOK'
    /\ DispatchTypeOK /\ UNCHANGED dispatchVars => DispatchTypeOK'
    /\ RetryTypeOK /\ UNCHANGED retryVars => RetryTypeOK'
    /\ HandlerTypeOK /\ UNCHANGED handlerVars => HandlerTypeOK'
    /\ DispatcherAtWork /\ UNCHANGED <<dispatchVars, queue>> => DispatcherAtWork'
    /\ RetryLoopAtWork /\ UNCHANGED retryLoopVars => RetryLoopAtWork'
    /\ HandlersAtWork /\ UNCHANGED <<handlerVars, assignedNode>> => HandlersAtWork'
<1>1. TaskTableTypeOK /\ UNCHANGED taskVars => TaskTableTypeOK'
  BY DEF TaskTableTypeOK, taskVars
<1>2. NodeTableTypeOK /\ UNCHANGED nodeVars => NodeTableTypeOK'
  BY DEF NodeTableTypeOK, nodeVars
<1>3. QueueTypeOK /\ UNCHANGED queueVars => QueueTypeOK'
  BY DEF QueueTypeOK, queueVars, ReadyQueueTypeOK
<1>4. DispatchTypeOK /\ UNCHANGED dispatchVars => DispatchTypeOK'
  BY DEF DispatchTypeOK, dispatchVars, outVars
<1>5. RetryTypeOK /\ UNCHANGED retryVars => RetryTypeOK'
  BY DEF RetryTypeOK, retryVars
<1>6. HandlerTypeOK /\ UNCHANGED handlerVars => HandlerTypeOK'
  BY DEF HandlerTypeOK, handlerVars, historyVars
<1>7. DispatcherAtWork /\ UNCHANGED <<dispatchVars, queue>> => DispatcherAtWork'
  BY DEF DispatcherAtWork, dispatchVars
<1>8. RetryLoopAtWork /\ UNCHANGED retryLoopVars => RetryLoopAtWork'
  BY DEF RetryLoopAtWork, retryLoopVars
<1>9. HandlersAtWork /\ UNCHANGED <<handlerVars, assignedNode>> => HandlersAtWork'
  BY DEF HandlersAtWork, handlerVars
<1> QED
  BY <1>1, <1>2, <1>3, <1>4, <1>5, <1>6, <1>7, <1>8, <1>9

LEMMA DispatcherTypeInv ==
    TypeInv /\ Dispatcher => TypeInv'
<1> SUFFICES ASSUME TypeInv, Dispatcher PROVE TypeInv'
  OBVIOUS
<1> USE DEF TypeInv, TypeOK
<1>1. CASE StartDispatch
  <2>1. DispatchTypeOK' /\ DispatcherAtWork'
    BY <1>1 DEF StartDispatch, DispatchTypeOK, DispatcherAtWork, outVars
  <2> QED
    BY <1>1, <2>1, Frames
    DEF StartDispatch, notDispatcher, taskVars, nodeVars, queueVars, outVars, retryVars, retryLoopVars, boundVars
<1>2. CASE EndDispatch
  <2>1. DispatchTypeOK' /\ DispatcherAtWork'
    BY <1>2 DEF EndDispatch, DispatchTypeOK, DispatcherAtWork, outVars
  <2> QED
    BY <1>2, <2>1, Frames
    DEF EndDispatch, notDispatcher, taskVars, nodeVars, queueVars, outVars, retryVars, retryLoopVars, boundVars
<1>3. ASSUME NEW t \in Tasks, LockHead(t) PROVE TypeInv'
  <2>1. locks' \subseteq Keys
    BY <1>3, KeysTyped DEF LockHead, Acquire
  <2>2. DispatchTypeOK'
    BY <1>3 DEF LockHead, outVars, DispatchTypeOK
  <2>3. QueueTypeOK'
    BY <1>3 DEF LockHead, PopHead, IsHead, notDispatcher, QueueTypeOK, ReadyQueueTypeOK
  <2>4. DispatcherAtWork'
    <3>1. queue[t] > 0 /\ UNCHANGED dnode
      BY <1>3 DEF LockHead, IsHead
    <3>2. \/ dpc' = "select" /\ dtask' = t /\ UNCHANGED queue
          \/ dpc' = "loop"
      BY <1>3 DEF LockHead
    <3> QED
      BY ONLY t \in Tasks, <3>1, <3>2 DEF DispatcherAtWork
  <2> QED
    BY <1>3, <2>1, <2>2, <2>3, <2>4, Frames
    DEF LockHead, notDispatcher, taskVars, nodeVars, queueVars, outVars, retryVars, retryLoopVars, boundVars
<1>4. CASE LockHeadFails
  <2>1. DispatchTypeOK' /\ DispatcherAtWork'
    BY <1>4 DEF LockHeadFails, DispatchTypeOK, DispatcherAtWork, outVars
  <2> QED
    BY <1>4, <2>1, Frames
    DEF LockHeadFails, notDispatcher, taskVars, nodeVars, queueVars, outVars, retryVars, retryLoopVars, boundVars
<1>5. ASSUME NEW n \in Nodes, SelectNode(n) PROVE TypeInv'
  <2>1. DispatchTypeOK' /\ DispatcherAtWork'
    BY <1>5 DEF SelectNode, DispatchTypeOK, DispatcherAtWork, outVars
  <2>2. QueueTypeOK'
    BY <1>5 DEF SelectNode, PopHead, notDispatcher, QueueTypeOK, DispatcherAtWork, ReadyQueueTypeOK
  <2> QED
    BY <1>5, <2>1, <2>2, Frames
    DEF SelectNode, notDispatcher, taskVars, nodeVars, queueVars, outVars, retryVars, retryLoopVars, boundVars
<1>6. CASE NoSuitableNode
  <2>1. locks' \subseteq Keys
    BY <1>6 DEF NoSuitableNode, Unlock
  <2>2. DispatchTypeOK' /\ DispatcherAtWork'
    BY <1>6 DEF NoSuitableNode, DispatchTypeOK, DispatcherAtWork, outVars
  <2> QED
    BY <1>6, <2>1, <2>2, Frames
    DEF NoSuitableNode, notDispatcher, taskVars, nodeVars, queueVars, outVars, retryVars, retryLoopVars, boundVars
<1>7. CASE Assign
  <2>1. TaskTableTypeOK'
    BY <1>7 DEF Assign, AssignTask, taskVars, TaskTableTypeOK, TaskStatus, DispatcherAtWork, Push
  <2>2. locks' \subseteq Keys
    BY <1>7 DEF Assign, Unlock, Push
  <2>3. DispatchTypeOK' /\ DispatcherAtWork'
    BY SMTT(40), <1>7 DEF Assign, DispatchTypeOK, DispatcherAtWork, Push
  <2>4. QueueTypeOK'
    BY <1>7 DEF Assign, notDispatcher, QueueTypeOK, DispatcherAtWork, ReadyQueueTypeOK, Push
  <2>5. HandlersAtWork'
    BY <1>7 DEF Assign, AssignTask, taskVars, notDispatcher, handlerVars, HandlersAtWork, HandlerTypeOK, TaskTableTypeOK, DispatcherAtWork, Push
  <2> QED
    BY <1>7, <2>1, <2>2, <2>3, <2>4, <2>5, Frames
    DEF Assign, notDispatcher, taskVars, nodeVars, queueVars, outVars, retryVars, retryLoopVars, boundVars, Push
<1>8. CASE CountUp
  <2>1. NodeTableTypeOK'
    BY <1>8 DEF CountUp, UpdateTaskCount, CountAfter, StatusAfter, NodeTableTypeOK, NodeStatus, StoredStatus, DispatcherAtWork, nodeVars
  <2>2. DispatchTypeOK' /\ DispatcherAtWork'
    BY <1>8 DEF CountUp, DispatchTypeOK, DispatcherAtWork, outVars
  <2> QED
    BY <1>8, <2>1, <2>2, Frames
    DEF CountUp, notDispatcher, taskVars, nodeVars, queueVars, outVars, retryVars, retryLoopVars, boundVars
<1>9. CASE Send
  <2>1. DispatchTypeOK' /\ DispatcherAtWork'
    BY <1>9 DEF Send, DispatchTypeOK, DispatcherAtWork
  <2> QED
    BY <1>9, <2>1, Frames
    DEF Send, notDispatcher, taskVars, nodeVars, queueVars, outVars, retryVars, retryLoopVars, boundVars
<1>10. CASE UnlockDispatch
  <2>1. locks' \subseteq Keys
    BY <1>10 DEF UnlockDispatch, Unlock
  <2>2. DispatchTypeOK' /\ DispatcherAtWork'
    BY <1>10 DEF UnlockDispatch, DispatchTypeOK, DispatcherAtWork, outVars
  <2> QED
    BY <1>10, <2>1, <2>2, Frames
    DEF UnlockDispatch, notDispatcher, taskVars, nodeVars, queueVars, outVars, retryVars, retryLoopVars, boundVars
<1> QED
  BY <1>1, <1>2, <1>3, <1>4, <1>5, <1>6, <1>7, <1>8, <1>9, <1>10 DEF Dispatcher

LEMMA RetryLoopTypeInv ==
    TypeInv /\ RetryLoop => TypeInv'
<1> SUFFICES ASSUME TypeInv, RetryLoop PROVE TypeInv'
  OBVIOUS
<1> USE DEF TypeInv, TypeOK
<1>1. CASE RetryReceive
  <2>1. locks' \subseteq Keys
    BY <1>1, KeysTyped DEF RetryReceive, Acquire, RetryTypeOK
  <2>2. RetryTypeOK' /\ RetryLoopAtWork'
    BY <1>1 DEF RetryReceive, RetryTypeOK, RetryLoopAtWork
  <2> QED
    BY <1>1, <2>1, <2>2, Frames
    DEF RetryReceive, notRetryLoop, taskVars, queueVars, retryVars, retryLoopVars, boundVars, dispatchVars, outVars
<1>2. CASE RetryLockFails
  <2>1. RetryTypeOK' /\ RetryLoopAtWork'
    BY <1>2 DEF RetryLockFails, RetryTypeOK, RetryLoopAtWork
  <2>2. HandlerTypeOK' /\ HandlersAtWork'
    BY <1>2 DEF RetryLockFails, HandlerTypeOK, HandlersAtWork, RetryTypeOK, taskVars
  <2> QED
    BY <1>2, <2>1, <2>2, Frames
    DEF RetryLockFails, lockVars, taskVars, queueVars, retryVars, retryLoopVars, boundVars, dispatchVars, outVars
<1>3. CASE RetryCheck
  <2>1. RetryTypeOK' /\ RetryLoopAtWork'
    BY <1>3 DEF RetryCheck, RetryTypeOK, RetryLoopAtWork
  <2> QED
    BY <1>3, <2>1, Frames
    DEF RetryCheck, notRetryLoop, taskVars, queueVars, retryVars, retryLoopVars, boundVars, dispatchVars, outVars
<1>4. CASE RetryIncrement
  <2>1. TaskTableTypeOK' /\ HandlersAtWork'
    BY <1>4 DEF RetryIncrement, IncrementRetry, taskVars, TaskTableTypeOK, TaskStatus, notRetryLoop, handlerVars, HandlersAtWork, RetryLoopAtWork
  <2>2. RetryTypeOK' /\ RetryLoopAtWork'
    BY <1>4 DEF RetryIncrement, RetryTypeOK, RetryLoopAtWork
  <2> QED
    BY <1>4, <2>1, <2>2, Frames
    DEF RetryIncrement, notRetryLoop, taskVars, queueVars, retryVars, retryLoopVars, boundVars, dispatchVars, outVars
<1>5. CASE RetrySpawn
  <2>1. RetryTypeOK' /\ RetryLoopAtWork'
    BY <1>5 DEF RetrySpawn, RetryTypeOK, RetryLoopAtWork
  <2>2. QueueTypeOK'
    BY <1>5 DEF RetrySpawn, notRetryLoop, QueueTypeOK, RetryLoopAtWork, ReadyQueueTypeOK
  <2> QED
    BY <1>5, <2>1, <2>2, Frames
    DEF RetrySpawn, notRetryLoop, taskVars, queueVars, retryVars, retryLoopVars, boundVars, dispatchVars, outVars
<1>6. CASE RetryUnlock
  <2>1. locks' \subseteq Keys
    BY <1>6 DEF RetryUnlock, Unlock
  <2>2. RetryTypeOK' /\ RetryLoopAtWork'
    BY <1>6 DEF RetryUnlock, RetryTypeOK, RetryLoopAtWork
  <2> QED
    BY <1>6, <2>1, <2>2, Frames
    DEF RetryUnlock, notRetryLoop, taskVars, queueVars, retryVars, retryLoopVars, boundVars, dispatchVars, outVars
<1> QED
  BY <1>1, <1>2, <1>3, <1>4, <1>5, <1>6 DEF RetryLoop

LEMMA HandlerTypeInv ==
    ASSUME TypeInv, NEW h \in Handlers, Handler(h)
    PROVE  TypeInv'
<1> USE DEF TypeInv, TypeOK
<1>1. CASE CheckStatus(h)
  <2>1. HandlerTypeOK' /\ HandlersAtWork'
    BY <1>1 DEF CheckStatus, HandlerTypeOK, HandlersAtWork, taskVars, historyVars, TaskTableTypeOK
  <2> QED
    BY <1>1, <2>1, Frames
    DEF CheckStatus, notHandler, historyVars, lockVars, taskVars, queueVars, dispatchVars, outVars, retryVars, retryLoopVars, boundVars
<1>2. CASE ReleaseNode(h)
  <2>1. NodeTableTypeOK'
    BY <1>2 DEF ReleaseNode, UpdateTaskCount, CountAfter, StatusAfter, NodeTableTypeOK, NodeStatus, StoredStatus, HandlersAtWork, HandlerTypeOK, nodeVars
  <2>2. HandlerTypeOK' /\ HandlersAtWork'
    BY <1>2 DEF ReleaseNode, HandlerTypeOK, HandlersAtWork, taskVars, historyVars
  <2> QED
    BY <1>2, <2>1, <2>2, Frames
    DEF ReleaseNode, notHandler, historyVars, lockVars, taskVars, queueVars, dispatchVars, outVars, retryVars, retryLoopVars, boundVars
<1>3. CASE UpdateStatus(h)
  <2>1. TaskTableTypeOK'
    BY <1>3 DEF UpdateStatus, UpdateTaskStatus, taskVars, TaskTableTypeOK, TaskStatus, ReportKinds, HandlersAtWork, HandlerTypeOK
  <2>2. HandlerTypeOK' /\ HandlersAtWork'
    BY <1>3 DEF UpdateStatus, HandlerTypeOK, HandlersAtWork, UpdateTaskStatus, taskVars, historyVars
  <2> QED
    BY <1>3, <2>1, <2>2, Frames
    DEF UpdateStatus, notHandler, historyVars, lockVars, taskVars, queueVars, dispatchVars, outVars, retryVars, retryLoopVars, boundVars
<1>4. CASE HandOff(h)
  <2>1. RetryTypeOK' /\ RetryLoopAtWork'
    BY <1>4 DEF HandOff, RetryTypeOK, RetryLoopAtWork, HandlersAtWork, notHandler, retryLoopVars
  <2>2. HandlerTypeOK' /\ HandlersAtWork'
    BY <1>4 DEF HandOff, HandlerTypeOK, HandlersAtWork, taskVars, historyVars
  <2> QED
    BY <1>4, <2>1, <2>2, Frames
    DEF HandOff, notHandler, historyVars, lockVars, taskVars, queueVars, dispatchVars, outVars, retryVars, retryLoopVars, boundVars
<1>5. CASE UnlockStatus(h)
  <2>1. locks' \subseteq Keys /\ overlapped' \subseteq Tasks
    BY <1>5 DEF UnlockStatus, Unlock
  <2>2. HandlerTypeOK' /\ HandlersAtWork'
    BY <1>5 DEF UnlockStatus, HandlerTypeOK, HandlersAtWork, taskVars, historyVars
  <2> QED
    BY <1>5, <2>1, <2>2, Frames
    DEF UnlockStatus, notHandler, historyVars, lockVars, taskVars, queueVars, dispatchVars, outVars, retryVars, retryLoopVars, boundVars
<1> QED
  BY <1>1, <1>2, <1>3, <1>4, <1>5 DEF Handler

\* The steps of everyone else: requests that arrive, timers, the receiver of
\* dispatchCh, nodes and leases.
Environment ==
    \/ \E t \in Tasks : SubmitTask(t) \/ PushSubmitted(t) \/ Requeue(t)
    \/ ReceiveDispatched
    \/ \E h \in Handlers, t \in Tasks, kind \in ReportKinds : Report(h, t, kind)
    \/ \E n \in Nodes : NodeEvent(n)
    \/ \E key \in Keys : LeaseExpires(key)
    \/ UNCHANGED vars

LEMMA StepCases ==
    [Next]_vars => Dispatcher \/ RetryLoop \/ (\E h \in Handlers : Handler(h)) \/ Environment
  BY DEF Next, Environment

LEMMA EnvironmentTypeInv ==
    TypeInv /\ Environment => TypeInv'
<1> SUFFICES ASSUME TypeInv, Environment PROVE TypeInv'
  OBVIOUS
<1> USE DEF TypeInv, TypeOK
<1>1. ASSUME NEW t \in Tasks, SubmitTask(t) PROVE TypeInv'
  <2>1. TaskTableTypeOK' /\ HandlersAtWork'
    BY <1>1 DEF SubmitTask, AddTask, TaskTableTypeOK, TaskStatus, handlerVars, HandlersAtWork
  <2>2. QueueTypeOK'
    BY <1>1 DEF SubmitTask, QueueTypeOK, ReadyQueueTypeOK
  <2>3. DispatcherAtWork'
    BY <1>1 DEF SubmitTask, dispatchVars, DispatcherAtWork
  <2> QED
    BY <1>1, <2>1, <2>2, <2>3, Frames
    DEF SubmitTask, taskVars, nodeVars, queueVars, dispatchVars, outVars, retryVars, retryLoopVars, handlerVars, historyVars, lockVars, boundVars
<1>2. ASSUME NEW t \in Tasks, PushSubmitted(t) PROVE TypeInv'
  <2>1. QueueTypeOK'
    BY <1>2 DEF PushSubmitted, QueueTypeOK, ReadyQueueTypeOK, Push
  <2>2. DispatcherAtWork'
    BY <1>2 DEF PushSubmitted, dispatchVars, DispatcherAtWork, Push
  <2> QED
    BY <1>2, <2>1, <2>2, Frames
    DEF PushSubmitted, taskVars, nodeVars, queueVars, dispatchVars, outVars, retryVars, retryLoopVars, handlerVars, historyVars, lockVars, boundVars, Push
<1>3. ASSUME NEW t \in Tasks, Requeue(t) PROVE TypeInv'
  <2>1. QueueTypeOK'
    BY <1>3 DEF Requeue, QueueTypeOK, ReadyQueueTypeOK, Push
  <2>2. DispatcherAtWork'
    BY <1>3 DEF Requeue, dispatchVars, DispatcherAtWork, Push
  <2> QED
    BY <1>3, <2>1, <2>2, Frames
    DEF Requeue, taskVars, nodeVars, queueVars, dispatchVars, outVars, retryVars, retryLoopVars, handlerVars, historyVars, lockVars, boundVars, Push
<1>4. CASE ReceiveDispatched
  <2>1. DispatchTypeOK'
    <3>1. dispatchCh' \in Seq(Tasks) /\ received' \in [Tasks -> Nat]
      BY <1>4 DEF ReceiveDispatched, DispatchTypeOK
    <3>2. UNCHANGED <<dpc, dtask, dnode, dispatches>>
      BY <1>4 DEF ReceiveDispatched
    <3> QED
      BY <3>1, <3>2 DEF DispatchTypeOK
  <2>2. DispatcherAtWork'
    BY <1>4 DEF ReceiveDispatched, DispatcherAtWork, queueVars
  <2> QED
    BY <1>4, <2>1, <2>2, Frames
    DEF ReceiveDispatched, taskVars, nodeVars, queueVars, dispatchVars, outVars, retryVars, retryLoopVars, handlerVars, historyVars, lockVars, boundVars
<1>5. ASSUME NEW h \in Handlers, NEW t \in Tasks, NEW kind \in ReportKinds, Report(h, t, kind) PROVE TypeInv'
  <2>1. locks' \subseteq Keys /\ overlapped' \subseteq Tasks
    BY <1>5, KeysTyped DEF Report, Acquire
  <2>2. HandlerTypeOK' /\ HandlersAtWork'
    BY <1>5 DEF Report, HandlerTypeOK, HandlersAtWork, taskVars, historyVars
  <2> QED
    BY <1>5, <2>1, <2>2, Frames
    DEF Report, taskVars, nodeVars, queueVars, dispatchVars, outVars, retryVars, retryLoopVars, handlerVars, historyVars, lockVars, boundVars
<1>6. ASSUME NEW n \in Nodes, NodeEvent(n) PROVE TypeInv'
  <2>1. NodeTableTypeOK'
    BY <1>6, HeartbeatAssumption DEF NodeEvent, RegisterNode, DeregisterNode, UpdateHeartbeat, MarkNodeOffline, Registered, NodeTableTypeOK, NodeStatus, StoredStatus
  <2> QED
    BY <1>6, <2>1, Frames
    DEF NodeEvent, taskVars, nodeVars, queueVars, dispatchVars, outVars, retryVars, retryLoopVars, handlerVars, historyVars, lockVars, boundVars
<1>7. ASSUME NEW key \in Keys, LeaseExpires(key) PROVE TypeInv'
  <2>1. locks' \subseteq Keys /\ overlapped' \subseteq Tasks
    BY <1>7 DEF LeaseExpires
  <2> QED
    BY <1>7, <2>1, Frames
    DEF LeaseExpires, taskVars, nodeVars, queueVars, dispatchVars, outVars, retryVars, retryLoopVars, handlerVars, historyVars, lockVars, boundVars
<1>8. CASE UNCHANGED vars
  <2>1. UNCHANGED <<taskVars, nodeVars, queueVars, dispatchVars, retryVars, handlerVars,
                    locks, overlapped, boundVars>>
    BY <1>8 DEF vars, lockVars
  <2>2. UNCHANGED <<queue, assignedNode, retryLoopVars, reports, nodeEvents>>
    BY <2>1 DEF queueVars, taskVars, retryVars, retryLoopVars, boundVars
  <2> QED
    BY <2>1, <2>2, Frames
<1> QED
  BY <1>1, <1>2, <1>3, <1>4, <1>5, <1>6, <1>7, <1>8 DEF Environment

LEMMA TypeInvStep == TypeInv /\ [Next]_vars => TypeInv'
  BY StepCases, DispatcherTypeInv, RetryLoopTypeInv, HandlerTypeInv, EnvironmentTypeInv

\* Every variable keeps its type, whatever clients, nodes and leases do.
THEOREM TypeCorrect == Spec => []TypeOK
<1>1. TypeInv => TypeOK
  BY DEF TypeInv
<1> QED
  BY <1>1, InitTypeInv, TypeInvStep, PTL DEF Spec

-----------------------------------------------------------------------------
(* Lock keys: with a lock that is not reentrant, a key is present only while *)
(* the one goroutine that takes it is between its TryLock and its Unlock.    *)

KeysInUse ==
    ~Reentrant => \A t \in Tasks :
        /\ DispatchKey(t) \in locks => dpc \notin {"idle", "loop"} /\ dtask = t
        /\ RetryKey(t) \in locks => rpc # "idle" /\ rtask = t

LEMMA KeysDiffer ==
    ASSUME NEW t \in Tasks, NEW u \in Tasks
    PROVE  /\ DispatchKey(t) = DispatchKey(u) <=> t = u
           /\ RetryKey(t) = RetryKey(u) <=> t = u
           /\ DispatchKey(t) # RetryKey(u)
           /\ DispatchKey(t) # StatusKey(u)
           /\ RetryKey(t) # StatusKey(u)
  BY DEF DispatchKey, RetryKey, StatusKey

LEMMA KeysInUseStep ==
    ASSUME TypeInv, KeysInUse, [Next]_vars
    PROVE  KeysInUse'
<1> SUFFICES ASSUME ~Reentrant, NEW t \in Tasks
             PROVE  /\ DispatchKey(t) \in locks' => dpc' \notin {"idle", "loop"} /\ dtask' = t
                    /\ RetryKey(t) \in locks' => rpc' # "idle" /\ rtask' = t
  BY DEF KeysInUse, DispatchKey, RetryKey
<1> USE DEF KeysInUse, TypeInv, TypeOK
<1>0. ~LockErrors
  BY LockAssumption
<1>1. CASE Dispatcher
  <2>1. UNCHANGED <<rpc, rtask>>
    BY <1>1 DEF Dispatcher, StartDispatch, EndDispatch, LockHead, LockHeadFails, SelectNode,
       NoSuitableNode, Assign, CountUp, Send, UnlockDispatch, notDispatcher, retryVars, Push
  <2>2. dtask \in Tasks \/ dpc \in {"idle", "loop"}
    BY DEF DispatcherAtWork
  <2>3. CASE \E u \in Tasks : LockHead(u)
    BY <2>1, <2>3, KeysDiffer DEF LockHead, Acquire
  <2>4. CASE NoSuitableNode \/ UnlockDispatch
    BY <1>0, <2>1, <2>2, <2>4, KeysDiffer DEF NoSuitableNode, UnlockDispatch, Unlock
  <2>5. CASE Assign
    BY <1>0, <2>1, <2>2, <2>5, KeysDiffer DEF Assign, Unlock, Push
  <2>6. CASE StartDispatch \/ EndDispatch \/ LockHeadFails \/ CountUp \/ Send
             \/ \E n \in Nodes : SelectNode(n)
    BY <2>1, <2>2, <2>6 DEF StartDispatch, EndDispatch, LockHeadFails, CountUp, Send, SelectNode
  <2> QED
    BY <1>1, <2>3, <2>4, <2>5, <2>6 DEF Dispatcher
<1>2. CASE RetryLoop
  <2>1. UNCHANGED <<dpc, dtask>>
    BY <1>2 DEF RetryLoop, RetryReceive, RetryLockFails, RetryCheck, RetryIncrement, RetrySpawn,
       RetryUnlock, notRetryLoop, dispatchVars
  <2>2. rtask \in Tasks \/ rpc = "idle"
    BY DEF RetryLoopAtWork
  <2>3. CASE RetryReceive
    <3>1. Head(retryCh) \in Tasks
      BY <2>3 DEF RetryReceive, RetryTypeOK
    <3> QED
      BY <2>1, <2>3, <3>1, KeysDiffer DEF RetryReceive, Acquire
  <2>4. CASE RetryUnlock
    BY <1>0, <2>1, <2>2, <2>4, KeysDiffer DEF RetryUnlock, Unlock
  <2>5. CASE RetryLockFails \/ RetryCheck \/ RetryIncrement \/ RetrySpawn
    BY <2>1, <2>2, <2>5 DEF RetryLockFails, RetryCheck, RetryIncrement, RetrySpawn, lockVars
  <2> QED
    BY <1>2, <2>3, <2>4, <2>5 DEF RetryLoop
<1>3. ASSUME NEW h \in Handlers, Handler(h) PROVE UNCHANGED <<dpc, dtask, rpc, rtask>> /\ locks' \subseteq locks
  BY <1>3 DEF Handler, CheckStatus, ReleaseNode, UpdateStatus, HandOff, UnlockStatus, Unlock,
     notHandler, dispatchVars, retryLoopVars, lockVars
<1>4. CASE Environment
  <2>1. UNCHANGED <<dpc, dtask, rpc, rtask>>
    BY <1>4 DEF Environment, SubmitTask, PushSubmitted, Requeue, ReceiveDispatched, Report,
       NodeEvent, LeaseExpires, vars, dispatchVars, retryVars, Push
  <2>2. CASE \E h \in Handlers, u \in Tasks, kind \in ReportKinds : Report(h, u, kind)
    BY <2>1, <2>2, KeysDiffer DEF Report, Acquire
  <2>3. CASE ~\E h \in Handlers, u \in Tasks, kind \in ReportKinds : Report(h, u, kind)
    <3>1. locks' \subseteq locks
      BY <1>4, <2>3 DEF Environment, SubmitTask, PushSubmitted, Requeue, ReceiveDispatched,
         NodeEvent, LeaseExpires, vars, lockVars, Push
    <3> QED
      BY <2>1, <3>1
  <2> QED
    BY <2>2, <2>3
<1> QED
  BY <1>1, <1>2, <1>3, <1>4, StepCases

LEMMA KeysInUseSuffice == TypeInv /\ KeysInUse => NoEntrySkipped
  BY DEF KeysInUse, NoEntrySkipped, CanLock

-----------------------------------------------------------------------------
(* The ledger of dispatches, the retry budget and the alerts.               *)

\* A task that is not stored yet has used no retry.
FreshTasks == \A t \in Tasks : ~Stored(t) => retryCount[t] = 0

Accounts == DispatchLedger /\ RetryBudget /\ AlertsMatchRetries /\ FreshTasks

\* What a step must leave alone for the accounts of every task to stay as
\* they are.
accountVars == <<retryCount, queue, submitting, sleeping, dispatches, failedAlerts, retryAlerts>>

LEMMA OwedParts ==
    ASSUME TypeInv, NEW t \in Tasks
    PROVE  /\ Count(t \in submitting) \in Nat /\ queue[t] \in Nat /\ sleeping[t] \in Nat
           /\ Count(dpc = "assign" /\ dtask = t) \in Nat
           /\ Count(rpc = "alert" /\ rtask = t) \in Nat
  BY DEF TypeInv, TypeOK, QueueTypeOK, Count, ReadyQueueTypeOK

LEMMA AccountsFrame ==
    ASSUME Accounts, UNCHANGED accountVars,
           \A t \in Tasks : Stored(t)' <=> Stored(t),
           \A t \in Tasks : (dpc' = "assign" /\ dtask' = t) <=> (dpc = "assign" /\ dtask = t),
           \A t \in Tasks : rpc' \in {"increment", "alert"} /\ rtask' = t =>
                            rpc = rpc' /\ rtask = t,
           \A t \in Tasks : rpc = "alert" /\ rtask = t => rpc' = "alert" /\ rtask' = t
    PROVE  Accounts'
  BY DEF Accounts, DispatchLedger, RetryBudget, AlertsMatchRetries, FreshTasks, Owed, Count,
     RetryExhausted, accountVars

LEMMA DispatcherAccounts ==
    ASSUME TypeInv, NoEntrySkipped, Accounts, Dispatcher
    PROVE  Accounts'
<1> USE DEF TypeInv, TypeOK
<1>0. UNCHANGED <<submitting, sleeping, failedAlerts, retryAlerts, rpc, rtask, retryCount>>
  BY DEF Dispatcher, StartDispatch, EndDispatch, LockHead, LockHeadFails, SelectNode,
     NoSuitableNode, Assign, AssignTask, CountUp, Send, UnlockDispatch, notDispatcher,
     retryVars, taskVars, Push
<1>1. CASE StartDispatch \/ EndDispatch \/ LockHeadFails \/ NoSuitableNode \/ CountUp \/ Send
           \/ UnlockDispatch
  <2>1. UNCHANGED <<queue, dispatches, status>> /\ dpc # "assign" /\ dpc' # "assign"
    BY <1>1 DEF StartDispatch, EndDispatch, LockHeadFails, NoSuitableNode, CountUp, Send,
       UnlockDispatch, outVars, taskVars
  <2> QED
    BY <1>0, <2>1, AccountsFrame DEF accountVars, Stored
<1>2. ASSUME NEW u \in Tasks, LockHead(u) PROVE Accounts'
  <2>1. UNCHANGED <<queue, dispatches, status>> /\ dpc # "assign" /\ dpc' # "assign"
    BY <1>2 DEF LockHead, NoEntrySkipped, outVars, taskVars
  <2> QED
    BY <1>0, <2>1, AccountsFrame DEF accountVars, Stored
<1>3. ASSUME NEW n \in Nodes, SelectNode(n) PROVE Accounts'
  <2>1. DispatchLedger'
    BY <1>0, <1>3 DEF SelectNode, PopHead, Accounts, DispatchLedger, Owed, Count, Stored,
       DispatcherAtWork, QueueTypeOK, outVars, taskVars, ReadyQueueTypeOK
  <2>2. UNCHANGED <<status, rpc, rtask, retryCount, retryAlerts, failedAlerts>>
    BY <1>0, <1>3 DEF SelectNode, taskVars
  <2> QED
    BY <2>1, <2>2 DEF Accounts, RetryBudget, AlertsMatchRetries, FreshTasks, Count, Stored,
       RetryExhausted
<1>4. CASE Assign
  <2>1. PICK u \in Tasks : dtask = u
    BY <1>4 DEF Assign, DispatcherAtWork, Push
  <2>2. DispatchLedger'
    <3>1. CASE Stored(dtask)
      <4>1. /\ dpc = "assign" /\ dpc' = "count" /\ UNCHANGED queue
            /\ dispatches' = [dispatches EXCEPT ![u] = @ + 1]
            /\ status' = [status EXCEPT ![u] = "queued"]
        BY <1>4, <2>1, <3>1 DEF Assign, AssignTask, Push
      <4>2. \A t \in Tasks : Stored(t)' <=> Stored(t)
        BY <2>1, <3>1, <4>1 DEF Stored, TaskTableTypeOK
      <4>3. ASSUME NEW t \in Tasks
            PROVE  dispatches'[t] + Owed(t)' = dispatches[t] + Owed(t)
        <5>1. dispatches'[t] + Count(dpc = "assign" /\ dtask = t)'
                  = dispatches[t] + Count(dpc = "assign" /\ dtask = t)
          BY <2>1, <4>1 DEF Count, DispatchTypeOK
        <5>2. Count(t \in submitting)' = Count(t \in submitting) /\ queue'[t] = queue[t]
              /\ sleeping'[t] = sleeping[t]
              /\ Count(rpc = "alert" /\ rtask = t)' = Count(rpc = "alert" /\ rtask = t)
          BY <1>0, <4>1 DEF Count
        <5>3. Count(dpc = "assign" /\ dtask = t)' \in Nat /\ dispatches[t] \in Nat /\ dispatches'[t] \in Nat
          BY <4>1, <2>1 DEF Count, DispatchTypeOK
        <5> QED
          BY <5>1, <5>2, <5>3, OwedParts DEF Owed
      <4> QED
        BY <1>0, <4>2, <4>3 DEF Accounts, DispatchLedger
    <3>2. CASE ~Stored(dtask)
      BY <1>0, <1>4, <2>1, <3>2 DEF Assign, Accounts, DispatchLedger, Owed, Count, Stored,
         taskVars, QueueTypeOK, TaskTableTypeOK, ReadyQueueTypeOK, Push
    <3> QED
      BY <3>1, <3>2
  <2>3. FreshTasks'
    BY <1>0, <1>4 DEF Assign, AssignTask, Accounts, FreshTasks, Stored, taskVars, TaskTableTypeOK, Push
  <2> QED
    BY <1>0, <2>2, <2>3 DEF Accounts, RetryBudget, AlertsMatchRetries, Count, RetryExhausted
<1> QED
  BY <1>1, <1>2, <1>3, <1>4 DEF Dispatcher

LEMMA RetryLoopAccounts ==
    ASSUME TypeInv, NoEntrySkipped, Accounts, RetryLoop
    PROVE  Accounts'
<1> USE DEF TypeInv, TypeOK
<1>0. UNCHANGED <<queue, submitting, dispatches, dpc, dtask>>
  BY DEF RetryLoop, RetryReceive, RetryLockFails, RetryCheck, RetryIncrement, RetrySpawn,
     RetryUnlock, notRetryLoop, queueVars, dispatchVars, outVars
<1>1. CASE RetryReceive \/ RetryLockFails \/ RetryUnlock
  <2>1. UNCHANGED <<status, retryCount, sleeping, failedAlerts, retryAlerts>>
        /\ rpc \notin {"increment", "alert"} /\ rpc' \notin {"increment", "alert"}
    BY <1>1 DEF RetryReceive, RetryLockFails, RetryUnlock, queueVars, taskVars
  <2> QED
    BY <1>0, <2>1, AccountsFrame DEF accountVars, Stored
<1>2. CASE RetryCheck
  <2>1. UNCHANGED <<status, retryCount, sleeping, retryAlerts, rtask>>
    BY <1>2 DEF RetryCheck, taskVars
  <2>2. DispatchLedger' /\ FreshTasks'
    BY <1>0, <1>2, <2>1 DEF RetryCheck, Accounts, DispatchLedger, FreshTasks, Owed, Count, Stored
  <2>3. RetryBudget'
    BY <1>2, <2>1 DEF RetryCheck, Accounts, RetryBudget, RetryExhausted
  <2>4. AlertsMatchRetries'
    BY <1>2, <2>1 DEF RetryCheck, Accounts, AlertsMatchRetries, RetryExhausted, Count, RetryTypeOK
  <2> QED
    BY <2>2, <2>3, <2>4 DEF Accounts
<1>3. CASE RetryIncrement
  <2>1. PICK u \in Tasks : rtask = u
    BY <1>3 DEF RetryIncrement, RetryLoopAtWork
  <2>2. UNCHANGED <<sleeping, retryAlerts, failedAlerts, rtask>>
    BY <1>3 DEF RetryIncrement
  <2>3. CASE Stored(u)
    <3>1. retryCount' = [retryCount EXCEPT ![u] = @ + 1] /\ rpc' = "alert" /\ rpc = "increment"
          /\ \A t \in Tasks : Stored(t)' <=> Stored(t)
      BY <1>3, <2>1, <2>3 DEF RetryIncrement, IncrementRetry, Stored, TaskTableTypeOK
    <3>2. DispatchLedger'
      BY SMTT(40), <1>0, <2>1, <2>2, <2>3, <3>1 DEF Accounts, DispatchLedger, Owed, Count, TaskTableTypeOK,
         QueueTypeOK, DispatchTypeOK, ReadyQueueTypeOK
    <3>3. retryCount[u] + 1 <= MaxRetries[u]
      <4>1. ~(retryCount[u] >= MaxRetries[u])
        BY <2>1, <3>1 DEF Accounts, RetryBudget, RetryExhausted
      <4>2. retryCount[u] \in Int /\ MaxRetries[u] \in Int
        BY TaskAssumption DEF TaskTableTypeOK
      <4> QED
        BY <4>1, <4>2
    <3>4. RetryBudget'
      <4>1. \A t \in Tasks : retryCount'[t] > 0 => retryCount'[t] <= MaxRetries[t]
        BY <3>1, <3>3 DEF Accounts, RetryBudget, TaskTableTypeOK
      <4> QED
        BY <3>1, <4>1 DEF RetryBudget
    <3>5. AlertsMatchRetries'
      <4>1. ASSUME NEW t \in Tasks
            PROVE  retryAlerts[t] + Count(rpc' = "alert" /\ rtask' = t) = retryCount'[t]
        BY <2>1, <2>2, <3>1 DEF Accounts, AlertsMatchRetries, Count, TaskTableTypeOK, RetryTypeOK
      <4>2. ASSUME NEW t \in Tasks, failedAlerts[t] > 0
            PROVE  retryCount'[t] >= MaxRetries[t]
        <5>1. retryCount[t] >= MaxRetries[t]
          BY <4>2 DEF Accounts, AlertsMatchRetries, RetryExhausted
        <5>2. t # u
          BY <2>1, <3>1, <5>1 DEF Accounts, RetryBudget, RetryExhausted
        <5> QED
          BY <3>1, <5>1, <5>2 DEF TaskTableTypeOK
      <4> QED
        BY <2>2, <4>1, <4>2 DEF AlertsMatchRetries, RetryExhausted, Count
    <3>6. FreshTasks'
      BY <2>1, <2>3, <3>1 DEF Accounts, FreshTasks, TaskTableTypeOK
    <3> QED
      BY <3>2, <3>4, <3>5, <3>6 DEF Accounts
  <2>4. CASE ~Stored(u)
    <3>1. UNCHANGED <<status, retryCount>> /\ rpc' = "unlock" /\ rpc = "increment"
      BY <1>3, <2>1, <2>4 DEF RetryIncrement, taskVars
    <3> QED
      BY <1>0, <2>2, <3>1, AccountsFrame DEF accountVars, Stored
  <2> QED
    BY <2>3, <2>4
<1>4. CASE RetrySpawn
  <2>1. PICK u \in Tasks : rtask = u
    BY <1>4 DEF RetrySpawn, RetryLoopAtWork
  <2>2. UNCHANGED <<status, retryCount, failedAlerts, rtask>> /\ rpc = "alert" /\ rpc' = "unlock"
    BY <1>4 DEF RetrySpawn, taskVars
  <2>3. sleeping' = [sleeping EXCEPT ![u] = @ + 1] /\ retryAlerts' = [retryAlerts EXCEPT ![u] = @ + 1]
    BY <1>4, <2>1 DEF RetrySpawn
  <2>4. DispatchLedger'
    <3>1. \A t \in Tasks : Stored(t)' <=> Stored(t)
      BY <2>2 DEF Stored
    <3>2. ASSUME NEW t \in Tasks
          PROVE  sleeping'[t] + Count(rpc' = "alert" /\ rtask' = t)
                     = sleeping[t] + Count(rpc = "alert" /\ rtask = t)
      BY <2>1, <2>2, <2>3 DEF Count, QueueTypeOK, ReadyQueueTypeOK
    <3>3. ASSUME NEW t \in Tasks PROVE Owed(t)' = Owed(t)
      <4>1. Count(t \in submitting)' = Count(t \in submitting) /\ queue'[t] = queue[t]
            /\ Count(dpc = "assign" /\ dtask = t)' = Count(dpc = "assign" /\ dtask = t)
        BY <1>0 DEF Count
      <4>2. sleeping'[t] \in Nat
        BY <2>1, <2>3 DEF QueueTypeOK, ReadyQueueTypeOK
      <4>3. Count(rpc = "alert" /\ rtask = t)' \in Nat
        BY DEF Count
      <4> QED
        BY <3>2, <4>1, <4>2, <4>3, OwedParts DEF Owed
    <3> QED
      BY <1>0, <2>2, <3>1, <3>3 DEF Accounts, DispatchLedger
  <2>5. AlertsMatchRetries'
    BY <2>1, <2>2, <2>3 DEF Accounts, AlertsMatchRetries, RetryExhausted, Count, RetryTypeOK,
       TaskTableTypeOK
  <2> QED
    BY <2>2, <2>4, <2>5 DEF Accounts, RetryBudget, FreshTasks, RetryExhausted, Stored
<1> QED
  BY <1>1, <1>2, <1>3, <1>4 DEF RetryLoop

LEMMA HandlerAccounts ==
    ASSUME TypeInv, Accounts, NEW h \in Handlers, Handler(h)
    PROVE  Accounts'
<1> USE DEF TypeInv, TypeOK
<1>1. UNCHANGED <<accountVars, dpc, dtask, rpc, rtask>>
  BY DEF Handler, CheckStatus, ReleaseNode, UpdateStatus, HandOff, UnlockStatus,
     UpdateTaskStatus, notHandler, queueVars, dispatchVars, outVars, retryLoopVars, taskVars,
     accountVars
<1>2. \A t \in Tasks : Stored(t)' <=> Stored(t)
  <2>1. CASE UpdateStatus(h)
    BY <2>1 DEF UpdateStatus, UpdateTaskStatus, Stored, taskVars, TaskTableTypeOK,
       HandlersAtWork, ReportKinds
  <2>2. CASE ~UpdateStatus(h)
    BY <2>2 DEF Handler, CheckStatus, ReleaseNode, HandOff, UnlockStatus, Stored, taskVars
  <2> QED
    BY <2>1, <2>2
<1> QED
  BY <1>1, <1>2, AccountsFrame

LEMMA EnvironmentAccounts ==
    ASSUME TypeInv, Accounts, Environment
    PROVE  Accounts'
<1> USE DEF TypeInv, TypeOK
<1>0. UNCHANGED <<retryCount, dispatches, failedAlerts, retryAlerts, dpc, dtask, rpc, rtask>>
  BY DEF Environment, SubmitTask, AddTask, PushSubmitted, Requeue, ReceiveDispatched, Report,
     NodeEvent, LeaseExpires, vars, taskVars, dispatchVars, outVars, retryVars, Push
<1>1. ASSUME NEW u \in Tasks, SubmitTask(u) PROVE Accounts'
  <2>1. ~Stored(u) /\ status' = [status EXCEPT ![u] = "pending"] /\ UNCHANGED <<queue, sleeping>>
        /\ submitting' = submitting \cup {u}
    BY <1>1 DEF SubmitTask, AddTask
  <2>2. DispatchLedger'
    BY <1>0, <2>1 DEF Accounts, DispatchLedger, FreshTasks, Owed, Count, Stored, QueueTypeOK,
       DispatchTypeOK, TaskTableTypeOK, ReadyQueueTypeOK
  <2>3. FreshTasks'
    BY <1>0, <2>1 DEF Accounts, FreshTasks, Stored, TaskTableTypeOK
  <2> QED
    BY <1>0, <2>2, <2>3 DEF Accounts, RetryBudget, AlertsMatchRetries, RetryExhausted, Count
<1>2. ASSUME NEW u \in Tasks, PushSubmitted(u) \/ Requeue(u) PROVE Accounts'
  <2>1. UNCHANGED status
    BY <1>2 DEF PushSubmitted, Requeue, taskVars, Push
  <2>2. DispatchLedger'
    <3>1. CASE PushSubmitted(u)
      BY <1>0, <2>1, <3>1 DEF PushSubmitted, Accounts, DispatchLedger, Owed, Count, Stored,
         QueueTypeOK, DispatchTypeOK, ReadyQueueTypeOK, Push
    <3>2. CASE Requeue(u)
      <4>1. Stored(u)
        <5>1. Owed(u) > 0 /\ Owed(u) \in Nat /\ dispatches[u] \in Nat
          BY <3>2 DEF Requeue, Owed, Count, QueueTypeOK, DispatchTypeOK, ReadyQueueTypeOK, Push
        <5> QED
          BY <5>1 DEF Accounts, DispatchLedger
      <4> QED
        <5>1. /\ sleeping' = [sleeping EXCEPT ![u] = @ - 1]
              /\ queue' = [queue EXCEPT ![u] = @ + 1]
              /\ UNCHANGED <<submitting, dpc, dtask, rpc, rtask, dispatches, retryCount>>
          BY <3>2, <4>1 DEF Requeue, taskVars, dispatchVars, retryVars, outVars, Push
        <5>2. \A t \in Tasks : Owed(t)' = Owed(t)
          BY <1>0, <5>1, OwedParts DEF Owed, QueueTypeOK, ReadyQueueTypeOK
        <5> QED
          BY <1>0, <2>1, <5>1, <5>2 DEF Accounts, DispatchLedger, Stored
    <3> QED
      BY <1>2, <3>1, <3>2
  <2> QED
    BY <1>0, <2>1, <2>2 DEF Accounts, RetryBudget, AlertsMatchRetries, FreshTasks,
       RetryExhausted, Count, Stored
<1>3. CASE ReceiveDispatched \/ (\E h \in Handlers, u \in Tasks, kind \in ReportKinds : Report(h, u, kind))
           \/ (\E n \in Nodes : NodeEvent(n)) \/ (\E key \in Keys : LeaseExpires(key))
           \/ UNCHANGED vars
  <2>1. UNCHANGED <<status, queue, submitting, sleeping>>
    BY <1>3 DEF ReceiveDispatched, Report, NodeEvent, LeaseExpires, vars, taskVars, queueVars
  <2> QED
    BY <1>0, <2>1, AccountsFrame DEF accountVars, Stored
<1> QED
  BY <1>1, <1>2, <1>3 DEF Environment

LEMMA InitAccounts == Init => KeysInUse /\ Accounts
<1> SUFFICES ASSUME Init PROVE KeysInUse /\ Accounts
  OBVIOUS
<1> QED
  BY DEF Init, TaskTableInit, KeysInUse, Accounts, DispatchLedger, RetryBudget,
     AlertsMatchRetries, FreshTasks, Owed, Count, Stored, RetryExhausted, ReadyQueueInit

\* The inductive invariant of the scheduler's bookkeeping.
AccountsInv == TypeInv /\ KeysInUse /\ Accounts

LEMMA AccountsInvStep == AccountsInv /\ [Next]_vars => AccountsInv'
  BY StepCases, TypeInvStep, KeysInUseStep, KeysInUseSuffice, DispatcherAccounts,
     RetryLoopAccounts, HandlerAccounts, EnvironmentAccounts DEF AccountsInv

LEMMA AccountsInvariant == Spec => []AccountsInv
<1>1. Init => AccountsInv
  BY InitTypeInv, InitAccounts DEF AccountsInv
<1> QED
  BY <1>1, AccountsInvStep, PTL DEF Spec

\* dispatchTasks and handleRetry never find their key held, and so never drop
\* the entry they hold.
THEOREM EntriesNeverSkipped == Spec => []NoEntrySkipped
<1>1. AccountsInv => NoEntrySkipped
  BY KeysInUseSuffice DEF AccountsInv
<1> QED
  BY <1>1, AccountsInvariant, PTL

\* Each task is dispatched exactly once for its submission and once for each
\* granted retry, counting the dispatches that are still owed.
THEOREM LedgerBalances == Spec => []DispatchLedger
<1>1. AccountsInv => DispatchLedger
  BY DEF AccountsInv, Accounts
<1> QED
  BY <1>1, AccountsInvariant, PTL

\* No task is granted more than MaxRetries retries.
THEOREM RetriesBounded == Spec => []RetryBudget
<1>1. AccountsInv => RetryBudget
  BY DEF AccountsInv, Accounts
<1> QED
  BY <1>1, AccountsInvariant, PTL

\* One task_retry alert per granted retry; task_failed only when exhausted.
THEOREM AlertsAccurate == Spec => []AlertsMatchRetries
<1>1. AccountsInv => AlertsMatchRetries
  BY DEF AccountsInv, Accounts
<1> QED
  BY <1>1, AccountsInvariant, PTL

\* Whatever is reported, a task is never dispatched more often than its
\* submission and its retries pay for.
THEOREM DispatchesBounded ==
    Spec => [](\A t \in Tasks : dispatches[t] <= 1 + IF MaxRetries[t] > 0 THEN MaxRetries[t] ELSE 0)
<1>1. AccountsInv => \A t \in Tasks :
          dispatches[t] <= 1 + IF MaxRetries[t] > 0 THEN MaxRetries[t] ELSE 0
  <2> SUFFICES ASSUME AccountsInv, NEW t \in Tasks
               PROVE  dispatches[t] <= 1 + IF MaxRetries[t] > 0 THEN MaxRetries[t] ELSE 0
    OBVIOUS
  <2>1. Owed(t) \in Nat /\ dispatches[t] \in Nat /\ retryCount[t] \in Nat /\ MaxRetries[t] \in Int
    BY SMTT(40), TaskAssumption DEF AccountsInv, TypeInv, TypeOK, QueueTypeOK, DispatchTypeOK, TaskTableTypeOK, Owed, Count, ReadyQueueTypeOK
  <2>2. dispatches[t] + Owed(t) <= 1 + retryCount[t]
    BY <2>1 DEF AccountsInv, Accounts, DispatchLedger
  <2>3. retryCount[t] > 0 => retryCount[t] <= MaxRetries[t]
    BY DEF AccountsInv, Accounts, RetryBudget
  <2> QED
    BY <2>1, <2>2, <2>3
<1> QED
  BY <1>1, AccountsInvariant, PTL

-----------------------------------------------------------------------------
(* Delivery: what goes into dispatchCh comes out of it.                     *)

\* What a step must leave alone for nothing to be delivered or assigned.
deliveryVars == <<dispatchCh, received, dispatches>>

LEMMA DeliveryStep ==
    ASSUME TypeInv, DeliveryLedger, [Next]_vars
    PROVE  DeliveryLedger'
<1> SUFFICES ASSUME NEW t \in Tasks
             PROVE  dispatches'[t] = received'[t] + Queued(dispatchCh', t)
                                       + Count(dpc' \in {"count", "send"} /\ dtask' = t)
  BY DEF DeliveryLedger
<1> DEFINE InHand == Count(dpc \in {"count", "send"} /\ dtask = t)
<1> USE DEF TypeInv, TypeOK
<1>0. /\ dispatches[t] = received[t] + Queued(dispatchCh, t) + InHand
      /\ Queued(dispatchCh, t) \in Nat /\ received[t] \in Nat
      /\ dispatches[t] \in Nat /\ InHand \in {0, 1}
  BY QueuedNat DEF DeliveryLedger, DispatchTypeOK, Count
<1>1. CASE Dispatcher
  <2>1. CASE Assign
    <3>1. dpc = "assign" /\ UNCHANGED <<dispatchCh, received>>
      BY <2>1 DEF Assign, Push
    <3>2. CASE Stored(dtask)
      <4>1. dpc' = "count" /\ dtask' = dtask /\ dispatches' = [dispatches EXCEPT ![dtask] = @ + 1]
        BY <2>1, <3>2 DEF Assign, Push
      <4>2. InHand = 0 /\ InHand' = Count(dtask = t)
        BY <3>1, <4>1 DEF Count
      <4>3. dispatches'[t] = dispatches[t] + Count(dtask = t)
        BY <1>0, <4>1 DEF DispatchTypeOK, Count
      <4> QED
        BY <1>0, <3>1, <4>2, <4>3
    <3>3. CASE ~Stored(dtask)
      BY <1>0, <2>1, <3>1, <3>3 DEF Assign, Count, Push
    <3> QED
      BY <3>2, <3>3
  <2>2. CASE Send
    <3>1. /\ dpc = "send" /\ dpc' = "unlock" /\ dtask \in Tasks
          /\ dispatchCh' = Append(dispatchCh, dtask) /\ UNCHANGED <<received, dispatches>>
      BY <2>2 DEF Send, DispatcherAtWork
    <3>2. InHand = Count(dtask = t) /\ InHand' = 0
      BY <3>1 DEF Count
    <3>3. Queued(dispatchCh', t) = Queued(dispatchCh, t) + Count(dtask = t)
      BY <3>1, QueuedAppend DEF DispatchTypeOK
    <3> QED
      BY <1>0, <3>1, <3>2, <3>3
  <2>3. CASE StartDispatch \/ EndDispatch \/ LockHeadFails \/ NoSuitableNode \/ CountUp
             \/ UnlockDispatch \/ (\E u \in Tasks : LockHead(u)) \/ (\E n \in Nodes : SelectNode(n))
    <3>1. UNCHANGED deliveryVars
      BY <2>3 DEF StartDispatch, EndDispatch, LockHeadFails, NoSuitableNode, CountUp,
         UnlockDispatch, LockHead, SelectNode, outVars, deliveryVars
    <3>2. InHand' = InHand
      BY <2>3 DEF StartDispatch, EndDispatch, LockHeadFails, NoSuitableNode, CountUp,
         UnlockDispatch, LockHead, SelectNode, Count
    <3> QED
      BY <1>0, <3>1, <3>2 DEF deliveryVars
  <2> QED
    BY <1>1, <2>1, <2>2, <2>3 DEF Dispatcher
<1>2. CASE ReceiveDispatched
  <2>1. /\ dispatchCh # <<>> /\ dispatchCh' = Tail(dispatchCh)
        /\ received' = [received EXCEPT ![Head(dispatchCh)] = @ + 1]
        /\ UNCHANGED <<dpc, dtask, dispatches>>
    BY <1>2 DEF ReceiveDispatched
  <2>2. Queued(dispatchCh, t)
          = Queued(dispatchCh', t) + Count(Head(dispatchCh) = t)
    BY <2>1, QueuedTail DEF DispatchTypeOK
  <2>3. received'[t] = received[t] + Count(Head(dispatchCh) = t)
    BY <1>0, <2>1 DEF DispatchTypeOK, Count
  <2>4. Queued(dispatchCh', t) \in Nat /\ Count(Head(dispatchCh) = t) \in {0, 1}
    <3>1. dispatchCh' \in Seq(Tasks)
      BY <2>1 DEF DispatchTypeOK
    <3> QED
      BY <3>1, QueuedNat DEF Count
  <2>5. dispatches'[t] = dispatches[t] /\ InHand' = InHand
    BY <2>1
  <2> QED
    BY <1>0, <2>2, <2>3, <2>4, <2>5
<1>3. CASE UNCHANGED <<deliveryVars, dpc, dtask>>
  BY <1>0, <1>3 DEF deliveryVars
<1>4. (Environment /\ ~ReceiveDispatched) \/ RetryLoop \/ (\E h \in Handlers : Handler(h))
        => UNCHANGED <<deliveryVars, dpc, dtask>>
  BY DEF Environment, SubmitTask, PushSubmitted, Requeue, Report, NodeEvent, LeaseExpires, vars,
     RetryLoop, RetryReceive, RetryLockFails, RetryCheck, RetryIncrement, RetrySpawn, RetryUnlock,
     notRetryLoop, Handler, CheckStatus, ReleaseNode, UpdateStatus, HandOff, UnlockStatus,
     notHandler, dispatchVars, outVars, deliveryVars, Push
<1> QED
  BY <1>1, <1>2, <1>3, <1>4, StepCases

\* Nothing is lost or duplicated between AssignTask and the receiver of
\* dispatchCh, and the dispatcher is one task ahead of the channel at most.
THEOREM DeliveryBalances == Spec => []DeliveryLedger
<1>1. Init => TypeInv /\ DeliveryLedger
  <2> SUFFICES ASSUME Init PROVE TypeInv /\ DeliveryLedger
    OBVIOUS
  <2>1. TypeInv
    BY InitTypeInv
  <2>2. ASSUME NEW t \in Tasks
        PROVE  dispatches[t] = received[t] + Queued(dispatchCh, t)
                                 + Count(dpc \in {"count", "send"} /\ dtask = t)
    <3>1. Queued(dispatchCh, t) = 0
      BY QueuedEmpty DEF Init, ReadyQueueInit
    <3>2. dispatches[t] = 0 /\ received[t] = 0 /\ dpc = "idle"
      BY DEF Init, ReadyQueueInit
    <3> QED
      BY <3>1, <3>2 DEF Count
  <2> QED
    BY <2>1, <2>2 DEF DeliveryLedger
<1>2. (TypeInv /\ DeliveryLedger) /\ [Next]_vars => (TypeInv /\ DeliveryLedger)'
  BY TypeInvStep, DeliveryStep
<1> QED
  BY <1>1, <1>2, PTL DEF Spec

-----------------------------------------------------------------------------
(* No task is stranded.                                                     *)

Waiting(t) == status[t] \in {"pending", "retrying"} => Owed(t) > 0
FailedHandled(t) == status[t] = "failed" => RetryExhausted(t) \/ AboutToRetry(t) \/ t \in lostRetries
QueuedHandled(t) == status[t] = "queued" => AboutToRun(t)

\* How one step may change the status of a task.
LEMMA StatusChanges ==
    ASSUME AccountsInv, [Next]_vars, NEW t \in Tasks, status'[t] # status[t]
    PROVE  \/ SubmitTask(t) /\ status'[t] = "pending"
           \/ Assign /\ dtask = t /\ status'[t] = "queued"
           \/ RetryIncrement /\ rtask = t /\ status'[t] = "retrying"
           \/ \E h \in Handlers : /\ UpdateStatus(h) /\ htask[h] = t
                                  /\ status'[t] = hkind[h] /\ hkind[h] \in ReportKinds
<1> USE DEF AccountsInv, TypeInv, TypeOK
<1>1. CASE Dispatcher
  <2>1. Assign
    BY <1>1 DEF Dispatcher, StartDispatch, EndDispatch, LockHead, LockHeadFails, SelectNode,
       NoSuitableNode, CountUp, Send, UnlockDispatch, taskVars
  <2> QED
    BY <2>1 DEF Assign, AssignTask, taskVars, TaskTableTypeOK, DispatcherAtWork, Push
<1>2. CASE RetryLoop
  <2>1. RetryIncrement
    BY <1>2 DEF RetryLoop, RetryReceive, RetryLockFails, RetryCheck, RetrySpawn, RetryUnlock, taskVars
  <2> QED
    BY <2>1 DEF RetryIncrement, IncrementRetry, taskVars, TaskTableTypeOK, RetryLoopAtWork
<1>3. ASSUME NEW h \in Handlers, Handler(h)
      PROVE  UpdateStatus(h) /\ htask[h] = t /\ status'[t] = hkind[h] /\ hkind[h] \in ReportKinds
  <2>1. UpdateStatus(h)
    BY <1>3 DEF Handler, CheckStatus, ReleaseNode, HandOff, UnlockStatus, taskVars
  <2> QED
    BY <2>1 DEF UpdateStatus, UpdateTaskStatus, taskVars, TaskTableTypeOK, HandlersAtWork
<1>4. CASE Environment
  <2>1. PICK u \in Tasks : SubmitTask(u)
    BY <1>4 DEF Environment, PushSubmitted, Requeue, ReceiveDispatched, Report, NodeEvent,
       LeaseExpires, vars, taskVars, Push
  <2> QED
    BY <2>1 DEF SubmitTask, AddTask, TaskTableTypeOK
<1> QED
  BY <1>1, <1>2, <1>3, <1>4, StepCases

\* Only Assign dispatches, retries are never taken back and tasks are never
\* removed, so that only Assign takes from what a task is owed.
LEMMA OwedGrows ==
    ASSUME AccountsInv, AccountsInv', [Next]_vars, NEW t \in Tasks
    PROVE  /\ Stored(t) => Stored(t)'
           /\ retryCount'[t] >= retryCount[t]
           /\ (Assign /\ dtask = t) \/ Owed(t)' >= Owed(t)
<1> USE DEF AccountsInv, TypeInv, TypeOK
<1>1. Stored(t) => Stored(t)'
  BY StatusChanges DEF Stored, ReportKinds
<1>2. retryCount'[t] >= retryCount[t]
  <2>1. UNCHANGED retryCount \/ RetryIncrement
    BY StepCases DEF Dispatcher, StartDispatch, EndDispatch, LockHead, LockHeadFails, SelectNode,
       NoSuitableNode, Assign, AssignTask, CountUp, Send, UnlockDispatch, RetryLoop, RetryReceive,
       RetryLockFails, RetryCheck, RetrySpawn, RetryUnlock, Handler, CheckStatus, ReleaseNode,
       UpdateStatus, UpdateTaskStatus, HandOff, UnlockStatus, Environment, SubmitTask, AddTask,
       PushSubmitted, Requeue, ReceiveDispatched, Report, NodeEvent, LeaseExpires, vars, taskVars, Push
  <2> QED
    BY <2>1 DEF RetryIncrement, IncrementRetry, taskVars, TaskTableTypeOK
<1>3. ASSUME ~(Assign /\ dtask = t) PROVE dispatches'[t] = dispatches[t]
  <2>1. UNCHANGED dispatches \/ Assign
    BY StepCases DEF Dispatcher, StartDispatch, EndDispatch, LockHead, LockHeadFails, SelectNode,
       NoSuitableNode, CountUp, Send, UnlockDispatch, outVars, RetryLoop, RetryReceive,
       RetryLockFails, RetryCheck, RetryIncrement, RetrySpawn, RetryUnlock, notRetryLoop, Handler,
       CheckStatus, ReleaseNode, UpdateStatus, HandOff, UnlockStatus, notHandler, Environment,
       SubmitTask, PushSubmitted, Requeue, ReceiveDispatched, Report, NodeEvent, LeaseExpires,
       vars, dispatchVars, Push
  <2> QED
    BY <1>3, <2>1 DEF Assign, DispatchTypeOK, Push
<1>4. ASSUME ~(Assign /\ dtask = t) PROVE Owed(t)' >= Owed(t)
  <2>1. Owed(t) \in Nat /\ Owed(t)' \in Nat
    BY DEF Owed, Count, QueueTypeOK, ReadyQueueTypeOK
  <2>2. dispatches[t] \in Nat /\ retryCount[t] \in Nat /\ retryCount'[t] \in Nat
    BY DEF DispatchTypeOK, TaskTableTypeOK
  <2>3. dispatches[t] + Owed(t) = IF Stored(t) THEN 1 + retryCount[t] ELSE 0
    BY DEF Accounts, DispatchLedger
  <2>4. dispatches'[t] + Owed(t)' = IF Stored(t)' THEN 1 + retryCount'[t] ELSE 0
    BY DEF Accounts, DispatchLedger
  <2> QED
    BY <1>1, <1>2, <1>3, <1>4, <2>1, <2>2, <2>3, <2>4
<1> QED
  BY <1>1, <1>2, <1>4

LEMMA WaitingStep ==
    ASSUME AccountsInv, AccountsInv', [Next]_vars, NEW t \in Tasks, Waiting(t)
    PROVE  Waiting(t)'
<1> SUFFICES ASSUME status'[t] \in {"pending", "retrying"} PROVE Owed(t)' > 0
  BY DEF Waiting
<1> USE DEF AccountsInv, TypeInv, TypeOK
<1>0. Owed(t) \in Nat /\ Owed(t)' \in Nat
  BY DEF Owed, Count, QueueTypeOK, ReadyQueueTypeOK
<1>1. CASE status'[t] = status[t]
  <2>1. ~(Assign /\ dtask = t)
    BY <1>1 DEF Assign, AssignTask, Stored, TaskTableTypeOK, Push
  <2> QED
    BY <1>0, <1>1, <2>1, OwedGrows DEF Waiting
<1>2. CASE status'[t] # status[t] /\ SubmitTask(t)
  <2>1. t \in submitting'
    BY <1>2 DEF SubmitTask
  <2> QED
    BY <2>1 DEF Owed, Count, QueueTypeOK, ReadyQueueTypeOK
<1>3. CASE status'[t] # status[t] /\ RetryIncrement /\ rtask = t
  <2>1. rpc' = "alert" /\ rtask' = t
    BY <1>3 DEF RetryIncrement, taskVars
  <2> QED
    BY <2>1 DEF Owed, Count, QueueTypeOK, ReadyQueueTypeOK
<1> QED
  BY <1>1, <1>2, <1>3, StatusChanges DEF ReportKinds

LEMMA HoldsTail ==
    ASSUME NEW S, NEW q \in Seq(S), q # <<>>, NEW x, Holds(q, x), x # Head(q)
    PROVE  Holds(Tail(q), x)
<1>1. PICK i \in 1 .. Len(q) : q[i] = x
  BY DEF Holds, Places
<1>2. i - 1 \in 1 .. Len(Tail(q)) /\ Tail(q)[i - 1] = x
  BY <1>1
<1> QED
  BY <1>2 DEF Holds, Places

LEMMA HoldsAppend ==
    ASSUME NEW S, NEW q \in Seq(S), NEW y \in S
    PROVE  Holds(Append(q, y), y) /\ \A x : Holds(q, x) => Holds(Append(q, y), x)
<1>1. Len(q) + 1 \in 1 .. Len(Append(q, y)) /\ Append(q, y)[Len(q) + 1] = y
  OBVIOUS
<1>2. \A i \in 1 .. Len(q) : i \in 1 .. Len(Append(q, y)) /\ Append(q, y)[i] = q[i]
  OBVIOUS
<1> QED
  BY <1>1, <1>2 DEF Holds, Places

\* While the task is failed, the duty to retry it moves from the handler to
\* retryCh to the retry loop, and ends only with an exhausted budget.
LEMMA AboutToRetryStep ==
    ASSUME AccountsInv, [Next]_vars, NEW t \in Tasks, status[t] = "failed", status'[t] = "failed",
           AboutToRetry(t)
    PROVE  RetryExhausted(t)' \/ AboutToRetry(t)' \/ t \in lostRetries'
<1> USE DEF AccountsInv, TypeInv, TypeOK
<1>1. ASSUME NEW h \in Handlers, hpc[h] = "handoff", htask[h] = t PROVE AboutToRetry(t)'
  <2>1. CASE HandOff(h)
    BY <1>1, <2>1, HoldsAppend DEF HandOff, AboutToRetry, RetryTypeOK, HandlersAtWork
  <2>2. CASE ~HandOff(h)
    <3>1. hpc'[h] = "handoff" /\ htask'[h] = t
      BY <1>1, <2>2, StepCases DEF Dispatcher, StartDispatch, EndDispatch, LockHead, LockHeadFails,
         SelectNode, NoSuitableNode, Assign, CountUp, Send, UnlockDispatch, notDispatcher,
         RetryLoop, RetryReceive, RetryLockFails, RetryCheck, RetryIncrement, RetrySpawn,
         RetryUnlock, notRetryLoop, Handler, CheckStatus, ReleaseNode, UpdateStatus, HandOff,
         UnlockStatus, Environment, SubmitTask, PushSubmitted, Requeue, ReceiveDispatched, Report,
         NodeEvent, LeaseExpires, vars, handlerVars, historyVars, HandlerTypeOK, Push
    <3> QED
      BY <3>1 DEF AboutToRetry
  <2> QED
    BY <2>1, <2>2
<1>2. ASSUME Holds(retryCh, t) PROVE AboutToRetry(t)' \/ t \in lostRetries'
  <2>1. CASE UNCHANGED retryCh
    BY <1>2, <2>1 DEF AboutToRetry
  <2>2. ASSUME NEW h \in Handlers, HandOff(h) PROVE AboutToRetry(t)'
    BY <1>2, <2>2, HoldsAppend DEF HandOff, AboutToRetry, RetryTypeOK, HandlersAtWork
  <2>3. CASE RetryReceive
    <3>1. NoEntrySkipped
      BY KeysInUseSuffice
    <3>2. CASE t = Head(retryCh)
      BY <2>3, <3>1, <3>2 DEF RetryReceive, NoEntrySkipped, AboutToRetry
    <3>3. CASE t # Head(retryCh)
      BY <1>2, <2>3, <3>3, HoldsTail DEF RetryReceive, AboutToRetry, RetryTypeOK
    <3> QED
      BY <3>2, <3>3
  <2>4. CASE RetryLockFails
    <3>1. CASE t = Head(retryCh)
      BY <2>4, <3>1 DEF RetryLockFails
    <3>2. CASE t # Head(retryCh)
      BY <1>2, <2>4, <3>2, HoldsTail DEF RetryLockFails, AboutToRetry, RetryTypeOK
    <3> QED
      BY <3>1, <3>2
  <2>5. UNCHANGED retryCh \/ RetryReceive \/ RetryLockFails \/ \E h \in Handlers : HandOff(h)
    BY StepCases DEF Dispatcher, StartDispatch, EndDispatch, LockHead, LockHeadFails,
       SelectNode, NoSuitableNode, Assign, CountUp, Send, UnlockDispatch, notDispatcher,
       RetryLoop, RetryCheck, RetryIncrement, RetrySpawn, RetryUnlock, Handler, CheckStatus,
       ReleaseNode, UpdateStatus, UnlockStatus, Environment, SubmitTask, PushSubmitted, Requeue,
       ReceiveDispatched, Report, NodeEvent, LeaseExpires, vars, retryVars, Push
  <2> QED
    BY <2>1, <2>2, <2>3, <2>4, <2>5
<1>3. CASE rpc \in {"check", "increment"} /\ rtask = t
  <2>1. CASE RetryCheck
    BY <1>3, <2>1 DEF RetryCheck, RetryExhausted, AboutToRetry, Stored, taskVars
  <2>2. CASE RetryIncrement
    BY <1>3, <2>2 DEF RetryIncrement, IncrementRetry, Stored, TaskTableTypeOK
  <2>3. CASE ~RetryCheck /\ ~RetryIncrement
    <3>1. UNCHANGED <<rpc, rtask>>
      BY <1>3, <2>3, StepCases DEF Dispatcher, StartDispatch, EndDispatch, LockHead, LockHeadFails,
         SelectNode, NoSuitableNode, Assign, CountUp, Send, UnlockDispatch, notDispatcher,
         RetryLoop, RetryReceive, RetryLockFails, RetrySpawn, RetryUnlock, Handler, CheckStatus,
         ReleaseNode, UpdateStatus, HandOff, UnlockStatus, notHandler, Environment, SubmitTask,
         PushSubmitted, Requeue, ReceiveDispatched, Report, NodeEvent, LeaseExpires, vars,
         retryVars, retryLoopVars, Push
    <3> QED
      BY <1>3, <3>1 DEF AboutToRetry
  <2> QED
    BY <2>1, <2>2, <2>3
<1> QED
  BY <1>1, <1>2, <1>3 DEF AboutToRetry

LEMMA FailedStep ==
    ASSUME AccountsInv, AccountsInv', [Next]_vars, NEW t \in Tasks, FailedHandled(t)
    PROVE  FailedHandled(t)'
<1> SUFFICES ASSUME status'[t] = "failed"
             PROVE  RetryExhausted(t)' \/ AboutToRetry(t)' \/ t \in lostRetries'
  BY DEF FailedHandled
<1> USE DEF AccountsInv, TypeInv, TypeOK
<1>1. CASE status[t] = "failed"
  <2>1. CASE RetryExhausted(t)
    <3>1. retryCount[t] \in Nat /\ retryCount'[t] \in Nat /\ MaxRetries[t] \in Int
      BY TaskAssumption DEF TaskTableTypeOK
    <3> QED
      BY <2>1, <3>1, OwedGrows DEF RetryExhausted
  <2>2. CASE AboutToRetry(t)
    BY <1>1, <2>2, AboutToRetryStep
  <2>3. CASE t \in lostRetries
    <3>1. ASSUME NEW h \in Handlers, UpdateStatus(h), htask[h] = t, hkind[h] = "failed"
          PROVE  AboutToRetry(t)'
      BY <1>1, <3>1 DEF UpdateStatus, AboutToRetry, HandlerTypeOK, Stored
    <3>2. \/ t \in lostRetries'
          \/ \E h \in Handlers : UpdateStatus(h) /\ htask[h] = t /\ hkind[h] = "failed"
      BY <2>3, StepCases DEF Dispatcher, StartDispatch, EndDispatch, LockHead, LockHeadFails,
         SelectNode, NoSuitableNode, Assign, CountUp, Send, UnlockDispatch, notDispatcher,
         RetryLoop, RetryReceive, RetryLockFails, RetryCheck, RetryIncrement, RetrySpawn,
         RetryUnlock, notRetryLoop, Handler, CheckStatus, ReleaseNode, UpdateStatus, HandOff,
         UnlockStatus, Environment, SubmitTask, PushSubmitted, Requeue, ReceiveDispatched, Report,
         NodeEvent, LeaseExpires, vars, handlerVars, historyVars, Push
    <3> QED
      BY <3>1, <3>2
  <2> QED
    BY <1>1, <2>1, <2>2, <2>3 DEF FailedHandled
<1>2. CASE status[t] # "failed"
  <2>1. PICK h \in Handlers : UpdateStatus(h) /\ htask[h] = t /\ hkind[h] = "failed"
    BY <1>2, StatusChanges
  <2>2. Stored(t)
    BY <1>2, <2>1 DEF UpdateStatus, taskVars
  <2>3. hpc'[h] = "handoff" /\ htask'[h] = t
    BY <2>1, <2>2 DEF UpdateStatus, HandlerTypeOK
  <2> QED
    BY <2>3 DEF AboutToRetry
<1> QED
  BY <1>1, <1>2

\* An assigned task moves from the dispatcher to dispatchCh to its receiver.
LEMMA AboutToRunStep ==
    ASSUME AccountsInv, [Next]_vars, NEW t \in Tasks, AboutToRun(t)
    PROVE  AboutToRun(t)'
<1> USE DEF AccountsInv, TypeInv, TypeOK
<1>1. CASE received[t] > 0
  <2>1. UNCHANGED received \/ ReceiveDispatched
    BY StepCases DEF Dispatcher, StartDispatch, EndDispatch, LockHead, LockHeadFails, SelectNode,
       NoSuitableNode, Assign, CountUp, Send, UnlockDispatch, outVars, RetryLoop, RetryReceive,
       RetryLockFails, RetryCheck, RetryIncrement, RetrySpawn, RetryUnlock, notRetryLoop, Handler,
       CheckStatus, ReleaseNode, UpdateStatus, HandOff, UnlockStatus, notHandler, Environment,
       SubmitTask, PushSubmitted, Requeue, Report, NodeEvent, LeaseExpires, vars, dispatchVars, Push
  <2>2. received'[t] > 0
    BY <1>1, <2>1 DEF ReceiveDispatched, DispatchTypeOK
  <2> QED
    BY <2>2 DEF AboutToRun
<1>2. ASSUME Holds(dispatchCh, t) PROVE AboutToRun(t)'
  <2>1. CASE UNCHANGED dispatchCh
    BY <1>2, <2>1 DEF AboutToRun
  <2>2. CASE Send
    BY <1>2, <2>2, HoldsAppend DEF Send, AboutToRun, DispatchTypeOK, DispatcherAtWork
  <2>3. CASE ReceiveDispatched
    <3>1. CASE t = Head(dispatchCh)
      <4>1. received[t] \in Nat /\ received'[t] = received[t] + 1
        BY <2>3, <3>1 DEF ReceiveDispatched, DispatchTypeOK
      <4> QED
        BY <4>1 DEF AboutToRun
    <3>2. CASE t # Head(dispatchCh)
      BY <1>2, <2>3, <3>2, HoldsTail DEF ReceiveDispatched, AboutToRun, DispatchTypeOK
    <3> QED
      BY <3>1, <3>2
  <2>4. UNCHANGED dispatchCh \/ Send \/ ReceiveDispatched
    BY StepCases DEF Dispatcher, StartDispatch, EndDispatch, LockHead, LockHeadFails, SelectNode,
       NoSuitableNode, Assign, CountUp, UnlockDispatch, outVars, RetryLoop, RetryReceive,
       RetryLockFails, RetryCheck, RetryIncrement, RetrySpawn, RetryUnlock, notRetryLoop, Handler,
       CheckStatus, ReleaseNode, UpdateStatus, HandOff, UnlockStatus, notHandler, Environment,
       SubmitTask, PushSubmitted, Requeue, Report, NodeEvent, LeaseExpires, vars, dispatchVars, Push
  <2> QED
    BY <2>1, <2>2, <2>3, <2>4
<1>3. CASE dpc \in {"count", "send"} /\ dtask = t
  <2>1. CASE Send
    BY <1>3, <2>1, HoldsAppend DEF Send, AboutToRun, DispatchTypeOK, DispatcherAtWork
  <2>2. CASE CountUp
    BY <1>3, <2>2 DEF CountUp, AboutToRun
  <2>3. CASE ~Send /\ ~CountUp
    <3>1. UNCHANGED <<dpc, dtask>>
      BY <1>3, <2>3, StepCases DEF Dispatcher, StartDispatch, EndDispatch, LockHead, LockHeadFails,
         SelectNode, NoSuitableNode, Assign, UnlockDispatch, RetryLoop, RetryReceive,
         RetryLockFails, RetryCheck, RetryIncrement, RetrySpawn, RetryUnlock, notRetryLoop,
         Handler, CheckStatus, ReleaseNode, UpdateStatus, HandOff, UnlockStatus, notHandler,
         Environment, SubmitTask, PushSubmitted, Requeue, ReceiveDispatched, Report, NodeEvent,
         LeaseExpires, vars, dispatchVars, Push
    <3> QED
      BY <1>3, <3>1 DEF AboutToRun
  <2> QED
    BY <2>1, <2>2, <2>3
<1> QED
  BY <1>1, <1>2, <1>3 DEF AboutToRun

LEMMA QueuedStep ==
    ASSUME AccountsInv, [Next]_vars, NEW t \in Tasks, QueuedHandled(t)
    PROVE  QueuedHandled(t)'
<1> SUFFICES ASSUME status'[t] = "queued" PROVE AboutToRun(t)'
  BY DEF QueuedHandled
<1>1. CASE status[t] = "queued"
  BY <1>1, AboutToRunStep DEF QueuedHandled
<1>2. CASE status[t] # "queued"
  <2>1. Assign /\ dtask = t
    BY <1>2, StatusChanges DEF ReportKinds
  <2>2. Stored(t)
    BY <1>2, <2>1 DEF Assign, taskVars, Push
  <2> QED
    BY <2>1, <2>2 DEF Assign, AboutToRun, Push
<1> QED
  BY <1>1, <1>2

\* Whatever clients, nodes and leases do, no task that waits for the
\* scheduler is left without a goroutine, a timer or a queue entry that will
\* move it on; a failed TryLock in handleRetry is the one exception.
THEOREM TasksNeverStranded == Spec => []NoStrandedTask
<1> DEFINE Inv == AccountsInv /\ NoStrandedTask
<1>1. NoStrandedTask <=> \A t \in Tasks : Waiting(t) /\ FailedHandled(t) /\ QueuedHandled(t)
  BY DEF NoStrandedTask, Waiting, FailedHandled, QueuedHandled
<1>2. Init => Inv
  <2>1. Init => \A t \in Tasks : status[t] = "absent"
    BY DEF Init, TaskTableInit, ReadyQueueInit
  <2> QED
    BY <2>1, InitTypeInv, InitAccounts DEF AccountsInv, NoStrandedTask
<1>3. Inv /\ [Next]_vars => Inv'
  <2> SUFFICES ASSUME Inv, [Next]_vars PROVE Inv'
    OBVIOUS
  <2>1. AccountsInv'
    BY AccountsInvStep
  <2>2. ASSUME NEW t \in Tasks PROVE Waiting(t)' /\ FailedHandled(t)' /\ QueuedHandled(t)'
    BY <1>1, <2>1, WaitingStep, FailedStep, QueuedStep
  <2> QED
    BY <2>1, <2>2 DEF NoStrandedTask, Waiting, FailedHandled, QueuedHandled
<1> QED
  BY <1>2, <1>3, PTL DEF Spec

-----------------------------------------------------------------------------
(* Status reports, over either lock.                                        *)

\* Unless its key gave way, a report past TryLock has its status key, and a
\* failure report that has passed its check is about a task that is still not
\* completed.
ReportsLocked ==
    \A h \in Handlers :
        /\ hpc[h] = "idle" => htask[h] = NoTask
        /\ hpc[h] # "idle" /\ htask[h] \notin overlapped => StatusKey(htask[h]) \in locks
        /\ hpc[h] \in {"release", "update"} /\ hkind[h] = "failed" /\ htask[h] \notin overlapped =>
               status[htask[h]] # "completed"

ReportsInv == AccountsInv /\ ReportsLocked /\ StatusSerialised

LEMMA StatusKeysDiffer ==
    ASSUME NEW t \in Tasks, NEW u \in Tasks
    PROVE  /\ StatusKey(t) = StatusKey(u) <=> t = u
           /\ StatusKey(t) # DispatchKey(u)
           /\ StatusKey(t) # RetryKey(u)
  BY DEF DispatchKey, RetryKey, StatusKey

\* A handler that goes on.  The key it gives back is its own or, between
\* overlapping reports, one that the invariant no longer counts on.
LEMMA HandlerReports ==
    ASSUME ReportsInv, NEW h \in Handlers, Handler(h)
    PROVE  ReportsLocked' /\ StatusSerialised'
<1> USE DEF ReportsInv, AccountsInv, TypeInv, TypeOK
<1>1. htask[h] \in Tasks /\ hpc[h] # "idle" /\ hkind[h] \in ReportKinds
  BY DEF Handler, CheckStatus, ReleaseNode, UpdateStatus, HandOff, UnlockStatus, HandlersAtWork
<1>2. \A g \in Handlers : g # h => hpc'[g] = hpc[g] /\ htask'[g] = htask[g] /\ hkind'[g] = hkind[g]
  BY DEF Handler, CheckStatus, ReleaseNode, UpdateStatus, HandOff, UnlockStatus, HandlerTypeOK
<1>3. \A g \in Handlers : hpc[g] # "idle" => htask[g] \in Tasks
  BY DEF HandlersAtWork
<1>4. \A t \in Tasks : t # htask[h] => status'[t] = status[t]
  BY <1>1 DEF Handler, CheckStatus, ReleaseNode, UpdateStatus, UpdateTaskStatus, HandOff,
     UnlockStatus, taskVars, TaskTableTypeOK
<1>5. CASE UnlockStatus(h)
  <2>1. hpc'[h] = "idle" /\ htask'[h] = NoTask /\ UNCHANGED status
    BY <1>5 DEF UnlockStatus, HandlerTypeOK, taskVars
  <2>2. locks \ {StatusKey(htask[h])} \subseteq locks'
    BY <1>5 DEF UnlockStatus, Unlock
  <2>3. \A g \in Handlers : g # h /\ htask[g] = htask[h] => htask[g] \in overlapped
    BY <1>1 DEF StatusSerialised
  <2>4. /\ overlapped \ {htask[h]} \subseteq overlapped' /\ overlapped' \subseteq overlapped
        /\ (\E g \in Handlers \ {h} : htask[g] = htask[h]) => overlapped' = overlapped
    BY <1>5 DEF UnlockStatus
  <2>5. ASSUME NEW g \in Handlers, hpc'[g] # "idle", htask'[g] \notin overlapped'
        PROVE  /\ g # h /\ htask[g] \in Tasks /\ htask[g] # htask[h] /\ htask[g] \notin overlapped
               /\ hpc'[g] = hpc[g] /\ htask'[g] = htask[g] /\ hkind'[g] = hkind[g]
    BY <1>2, <1>3, <2>1, <2>3, <2>4, <2>5
  <2>6. ReportsLocked'
    <3>1. \A g \in Handlers : hpc'[g] = "idle" => htask'[g] = NoTask
      BY <1>2, <2>1 DEF ReportsLocked
    <3>2. ASSUME NEW g \in Handlers, hpc'[g] # "idle", htask'[g] \notin overlapped'
          PROVE  /\ StatusKey(htask'[g]) \in locks'
                 /\ hpc'[g] \in {"release", "update"} /\ hkind'[g] = "failed" => status'[htask'[g]] # "completed"
      BY <1>1, <2>1, <2>2, <2>5, <3>2, StatusKeysDiffer DEF ReportsLocked
    <3> QED
      BY <3>1, <3>2 DEF ReportsLocked, StatusKey
  <2>7. ASSUME NEW f \in Handlers, NEW g \in Handlers, htask'[f] = htask'[g], htask'[f] \in Tasks,
               htask'[f] \notin overlapped'
        PROVE  f = g
    <3>1. f # h /\ g # h
      BY <2>1, <2>7, IdentifierAssumption
    <3>2. htask[f] = htask[g] /\ htask[f] \in Tasks /\ htask[f] \notin overlapped
      BY <1>2, <2>4, <2>7, <3>1
    <3> QED
      BY <3>2 DEF StatusSerialised
  <2> QED
    BY <2>6, <2>7 DEF StatusSerialised
<1>6. CASE ~UnlockStatus(h)
  <2>1. UNCHANGED <<locks, overlapped>> /\ htask'[h] = htask[h] /\ hpc'[h] # "idle"
    BY <1>6 DEF Handler, CheckStatus, ReleaseNode, UpdateStatus, HandOff, HandlerTypeOK, lockVars
  <2>2. hpc'[h] \in {"release", "update"} /\ hkind'[h] = "failed" /\ htask[h] \notin overlapped =>
            status'[htask[h]] # "completed"
    <3>1. CASE CheckStatus(h)
      BY <3>1 DEF CheckStatus, FinalFor, taskVars, HandlerTypeOK
    <3>2. CASE ReleaseNode(h)
      BY <3>2 DEF ReleaseNode, ReportsLocked, taskVars, HandlerTypeOK
    <3>3. CASE UpdateStatus(h) \/ HandOff(h)
      BY <3>3 DEF UpdateStatus, HandOff, HandlerTypeOK
    <3> QED
      BY <1>6, <3>1, <3>2, <3>3 DEF Handler
  <2>3. \A g \in Handlers : htask'[g] = htask[g]
    BY <1>2, <2>1
  <2>4. ReportsLocked'
    <3>1. \A g \in Handlers : g # h /\ htask[g] \notin overlapped /\ hpc[g] # "idle" =>
              status'[htask[g]] = status[htask[g]]
      BY <1>1, <1>3, <1>4 DEF StatusSerialised
    <3>2. \A g \in Handlers : StatusKey(htask[g])' = StatusKey(htask[g])
      BY <2>3 DEF StatusKey
    <3> QED
      BY <1>1, <1>2, <2>1, <2>2, <2>3, <3>1, <3>2 DEF ReportsLocked
  <2> QED
    BY <2>1, <2>3, <2>4 DEF StatusSerialised
<1> QED
  BY <1>5, <1>6

\* A request that gets its key.  Where the key was there already, the lock is
\* reentrant, and the task is overlapped if somebody works on it.
LEMMA ReportReports ==
    ASSUME ReportsInv, NEW h \in Handlers, NEW t \in Tasks, NEW kind \in ReportKinds,
           Report(h, t, kind)
    PROVE  ReportsLocked' /\ StatusSerialised'
<1> USE DEF ReportsInv, AccountsInv, TypeInv, TypeOK
<1>1. locks' = locks \cup {StatusKey(t)} /\ overlapped \subseteq overlapped' /\ UNCHANGED status
  BY DEF Report, Acquire, taskVars
<1>2. AtWork(t) => t \in overlapped'
  <2>1. CASE StatusKey(t) \notin locks
    <3>1. \A g \in Handlers : htask[g] = t => hpc[g] # "idle" /\ t \in overlapped
      BY <2>1, IdentifierAssumption DEF ReportsLocked
    <3> QED
      BY <1>1, <3>1 DEF AtWork
  <2>2. CASE StatusKey(t) \in locks
    BY <2>2 DEF Report, CanLock
  <2> QED
    BY <2>1, <2>2
<1>3. hpc'[h] \in {"update", "check"} /\ htask'[h] = t /\ hkind'[h] = kind
      /\ (hpc'[h] = "update" <=> kind = "running")
  BY DEF Report, HandlerTypeOK
<1>4. \A g \in Handlers : g # h => hpc'[g] = hpc[g] /\ htask'[g] = htask[g] /\ hkind'[g] = hkind[g]
  BY DEF Report, HandlerTypeOK
<1>5. ReportsLocked'
  <2>1. ASSUME NEW g \in Handlers
        PROVE  /\ hpc'[g] = "idle" => htask'[g] = NoTask
               /\ hpc'[g] # "idle" /\ htask'[g] \notin overlapped' => StatusKey(htask'[g]) \in locks'
               /\ hpc'[g] \in {"release", "update"} /\ hkind'[g] = "failed" /\ htask'[g] \notin overlapped' =>
                      status'[htask'[g]] # "completed"
    <3>1. CASE g = h
      BY <1>1, <1>3, <3>1
    <3>2. CASE g # h
      BY <1>1, <1>4, <3>2 DEF ReportsLocked
    <3> QED
      BY <3>1, <3>2
  <2> QED
    BY <2>1 DEF ReportsLocked, StatusKey
<1>6. ASSUME NEW f \in Handlers, NEW g \in Handlers, htask'[f] = htask'[g], htask'[f] \in Tasks,
             htask'[f] \notin overlapped'
      PROVE  f = g
  <2>1. \A k \in Handlers : k # h => htask'[k] = htask[k] /\ (htask[k] = t => t \in overlapped')
    BY <1>2, <1>4 DEF AtWork
  <2> QED
    BY <1>1, <1>3, <1>6, <2>1 DEF StatusSerialised
<1> QED
  BY <1>5, <1>6 DEF StatusSerialised

\* Everybody else, who leaves the handlers alone, completes no task, and takes
\* a status key away from a handler only by letting it expire.
LEMMA OtherReports ==
    ASSUME ReportsInv, UNCHANGED <<hpc, htask, hkind>>, overlapped \subseteq overlapped',
           \A t \in Tasks : status'[t] = "completed" => status[t] = "completed",
           \A t \in Tasks \ overlapped' : AtWork(t) /\ StatusKey(t) \in locks => StatusKey(t) \in locks'
    PROVE  ReportsLocked' /\ StatusSerialised'
<1> USE DEF ReportsInv, AccountsInv, TypeInv, TypeOK
<1>1. UNCHANGED <<hpc, htask, hkind>>
  OBVIOUS
<1>2. \A h \in Handlers : hpc[h] # "idle" => htask[h] \in Tasks /\ AtWork(htask[h])
  BY DEF HandlersAtWork, AtWork
<1>3. \A h \in Handlers : StatusKey(htask[h])' = StatusKey(htask[h])
  BY <1>1 DEF StatusKey
<1>4. ReportsLocked'
  <2>1. ASSUME NEW h \in Handlers
        PROVE  /\ hpc[h] = "idle" => htask[h] = NoTask
               /\ hpc[h] # "idle" /\ htask[h] \notin overlapped' => StatusKey(htask[h]) \in locks'
               /\ hpc[h] \in {"release", "update"} /\ hkind[h] = "failed" /\ htask[h] \notin overlapped' =>
                      status'[htask[h]] # "completed"
    BY <1>2 DEF ReportsLocked
  <2> QED
    BY <1>1, <1>3, <2>1 DEF ReportsLocked
<1>5. StatusSerialised'
  BY <1>1 DEF StatusSerialised
<1> QED
  BY <1>4, <1>5

LEMMA ReportsStep ==
    ASSUME ReportsInv, [Next]_vars
    PROVE  ReportsLocked' /\ StatusSerialised'
<1> USE DEF ReportsInv, AccountsInv, TypeInv, TypeOK
<1>1. ASSUME NEW h \in Handlers, Handler(h) PROVE ReportsLocked' /\ StatusSerialised'
  BY <1>1, HandlerReports
<1>2. CASE Dispatcher
  <2>1. UNCHANGED <<hpc, htask, hkind, overlapped>>
    BY <1>2 DEF Dispatcher, StartDispatch, EndDispatch, LockHead, LockHeadFails, SelectNode,
       NoSuitableNode, Assign, CountUp, Send, UnlockDispatch, notDispatcher, handlerVars, historyVars, Push
  <2>2. ASSUME NEW t \in Tasks, status'[t] = "completed" PROVE status[t] = "completed"
    BY <1>2, <2>2 DEF Dispatcher, StartDispatch, EndDispatch, LockHead, LockHeadFails, SelectNode,
       NoSuitableNode, Assign, AssignTask, CountUp, Send, UnlockDispatch, taskVars, TaskTableTypeOK, Push
  <2>3. \/ UNCHANGED locks
        \/ \E t \in Tasks : Acquire(DispatchKey(t))
        \/ dtask \in Tasks /\ Unlock(DispatchKey(dtask))
    BY <1>2 DEF Dispatcher, StartDispatch, EndDispatch, LockHead, LockHeadFails, SelectNode,
       NoSuitableNode, Assign, CountUp, Send, UnlockDispatch, DispatcherAtWork, Push
  <2>4. \A t \in Tasks : StatusKey(t) \in locks => StatusKey(t) \in locks'
    BY <2>3, StatusKeysDiffer DEF Acquire, Unlock
  <2> QED
    BY <2>1, <2>2, <2>4, OtherReports
<1>3. CASE RetryLoop
  <2>1. UNCHANGED <<hpc, htask, hkind, overlapped>>
    BY <1>3 DEF RetryLoop, RetryReceive, RetryLockFails, RetryCheck, RetryIncrement, RetrySpawn,
       RetryUnlock, notRetryLoop, handlerVars, historyVars, lockVars
  <2>2. ASSUME NEW t \in Tasks, status'[t] = "completed" PROVE status[t] = "completed"
    BY <1>3, <2>2 DEF RetryLoop, RetryReceive, RetryLockFails, RetryCheck, RetryIncrement,
       IncrementRetry, RetrySpawn, RetryUnlock, taskVars, TaskTableTypeOK
  <2>3. \/ UNCHANGED locks
        \/ \E key : Acquire(key)
        \/ rtask \in Tasks /\ Unlock(RetryKey(rtask))
    BY <1>3 DEF RetryLoop, RetryReceive, RetryLockFails, RetryCheck, RetryIncrement, RetrySpawn,
       RetryUnlock, RetryLoopAtWork, lockVars
  <2>4. \A t \in Tasks : StatusKey(t) \in locks => StatusKey(t) \in locks'
    BY <2>3, StatusKeysDiffer DEF Acquire, Unlock
  <2> QED
    BY <2>1, <2>2, <2>4, OtherReports
<1>4. ASSUME NEW h \in Handlers, NEW t \in Tasks, NEW kind \in ReportKinds, Report(h, t, kind)
      PROVE  ReportsLocked' /\ StatusSerialised'
  BY <1>4, ReportReports
<1>5. ASSUME NEW key \in Keys, LeaseExpires(key) PROVE ReportsLocked' /\ StatusSerialised'
  <2>1. UNCHANGED <<hpc, htask, hkind, status>> /\ locks' = locks \ {key}
        /\ overlapped' = overlapped \cup {t \in Tasks : key = StatusKey(t) /\ AtWork(t)}
    BY <1>5 DEF LeaseExpires, handlerVars, historyVars, taskVars
  <2> QED
    BY ONLY ReportsInv, <2>1, OtherReports
<1>6. CASE Environment
  <2>1. CASE /\ ~\E h \in Handlers, t \in Tasks, kind \in ReportKinds : Report(h, t, kind)
             /\ ~\E key \in Keys : LeaseExpires(key)
    <3>1. UNCHANGED <<hpc, htask, hkind, locks, overlapped>>
      BY <1>6, <2>1 DEF Environment, SubmitTask, PushSubmitted, Requeue, ReceiveDispatched,
         NodeEvent, vars, handlerVars, historyVars, lockVars, Push
    <3>2. ASSUME NEW t \in Tasks, status'[t] = "completed" PROVE status[t] = "completed"
      BY <1>6, <2>1, <3>2 DEF Environment, SubmitTask, AddTask, PushSubmitted, Requeue,
         ReceiveDispatched, NodeEvent, vars, taskVars, TaskTableTypeOK, Push
    <3> QED
      BY <3>1, <3>2, OtherReports
  <2> QED
    BY <1>4, <1>5, <2>1
<1> QED
  BY <1>1, <1>2, <1>3, <1>6, StepCases

LEMMA InitReports == Init => ReportsInv
  BY InitTypeInv, InitAccounts, IdentifierAssumption
  DEF Init, ReportsInv, AccountsInv, ReportsLocked, StatusSerialised, ReadyQueueInit

LEMMA ReportsInvariant == Spec => []ReportsInv
<1>1. ReportsInv /\ [Next]_vars => ReportsInv'
  BY AccountsInvStep, ReportsStep DEF ReportsInv
<1> QED
  BY <1>1, InitReports, PTL DEF Spec

\* Over MemoryLock as over RedisLock, whatever calls fail and whatever leases
\* run out, two handlers are between TryLock and Unlock for one task only where
\* that task's key ran out under a handler or was re-entered.
THEOREM ReportsSerialised == Spec => []StatusSerialised
<1>1. ReportsInv => StatusSerialised
  BY DEF ReportsInv
<1> QED
  BY <1>1, ReportsInvariant, PTL

\* Nor does a failure report overturn a completed task in any other case.
THEOREM CompletedStaysUnfailed == Spec => CompletedNeverFails
<1> DEFINE NoFailure ==
      \A t \in Tasks : status[t] = "completed" /\ status'[t] = "failed" => t \in overlapped
<1>1. ReportsInv /\ [Next]_vars => NoFailure
  <2> SUFFICES ASSUME ReportsInv, [Next]_vars, NEW t \in Tasks, status[t] = "completed",
                      status'[t] = "failed"
               PROVE  t \in overlapped
    OBVIOUS
  <2>1. PICK h \in Handlers : UpdateStatus(h) /\ htask[h] = t /\ hkind[h] = "failed"
    BY StatusChanges DEF ReportsInv
  <2> QED
    BY <2>1 DEF UpdateStatus, ReportsInv, ReportsLocked
<1> QED
  BY <1>1, ReportsInvariant, PTL DEF Spec, CompletedNeverFails

-----------------------------------------------------------------------------
(* The scheduler implements the ledger of attempts.                         *)

\* Reports of failure on their way through a handler to retryCh.
Handing(t) == {h \in Handlers : hpc[h] = "handoff" /\ htask[h] = t}

\* The retry loop has taken t out of retryCh and may still grant the retry.
Deciding(t) == Count(rpc \in {"check", "increment"} /\ rtask = t)

\* Every retry that was granted, or may be, has a report of failure of its own.
Covered(t) ==
    retryCount[t] + Deciding(t) + Queued(retryCh, t) + Cardinality(Handing(t)) <= failures[t]

FailuresCovered == \A t \in Tasks : Covered(t)

LEMMA CoverTyped ==
    ASSUME TypeInv, NEW t \in Tasks
    PROVE  /\ Queued(retryCh, t) \in Nat /\ retryCount[t] \in Nat /\ failures[t] \in Nat
           /\ Deciding(t) \in {0, 1}
           /\ IsFiniteSet(Handing(t)) /\ Cardinality(Handing(t)) \in Nat
<1>1. IsFiniteSet(Handing(t))
  BY HandlerAssumption, FS_Subset DEF Handing
<1> QED
  BY <1>1, QueuedNat, FS_CardinalityType
     DEF TypeInv, TypeOK, TaskTableTypeOK, RetryTypeOK, HandlerTypeOK, Deciding, Count

LEMMA CoverTypedNext ==
    ASSUME TypeInv', NEW t \in Tasks
    PROVE  /\ Queued(retryCh', t) \in Nat /\ retryCount'[t] \in Nat /\ failures'[t] \in Nat
           /\ Deciding(t)' \in {0, 1}
           /\ Cardinality(Handing(t)') \in Nat
<1>1. IsFiniteSet(Handing(t)')
  BY HandlerAssumption, FS_Subset DEF Handing
<1> QED
  BY <1>1, QueuedNat, FS_CardinalityType
     DEF TypeInv, TypeOK, TaskTableTypeOK, RetryTypeOK, HandlerTypeOK, Deciding, Count

LEMMA RetryLoopCovered ==
    ASSUME TypeInv, TypeInv', FailuresCovered, RetryLoop
    PROVE  FailuresCovered'
<1> SUFFICES ASSUME NEW t \in Tasks PROVE Covered(t)'
  BY DEF FailuresCovered
<1>0. Covered(t)
  BY DEF FailuresCovered
<1>1. UNCHANGED <<hpc, htask, failures>> /\ Handing(t)' = Handing(t)
  BY DEF RetryLoop, RetryReceive, RetryLockFails, RetryCheck, RetryIncrement, RetrySpawn,
     RetryUnlock, notRetryLoop, handlerVars, historyVars, Handing
<1>2. CASE RetryReceive \/ RetryLockFails
  <2>1. /\ rpc = "idle" /\ retryCh # <<>> /\ retryCh' = Tail(retryCh) /\ UNCHANGED retryCount
        /\ rpc' = "idle" \/ rtask' = Head(retryCh)
    BY <1>2 DEF RetryReceive, RetryLockFails, taskVars
  <2>2. Queued(retryCh, t) = Queued(retryCh', t) + Count(Head(retryCh) = t)
    BY <2>1, QueuedTail DEF TypeInv, TypeOK, RetryTypeOK
  <2>3. Deciding(t) = 0 /\ Deciding(t)' <= Count(Head(retryCh) = t)
    BY <2>1 DEF Deciding, Count
  <2>4. Count(Head(retryCh) = t) \in {0, 1}
    BY DEF Count
  <2> HIDE DEF Count
  <2> QED
    BY <1>0, <1>1, <2>1, <2>2, <2>3, <2>4, CoverTyped, CoverTypedNext DEF Covered
<1>3. CASE RetryCheck
  <2>1. UNCHANGED <<retryCount, retryCh, rtask>> /\ rpc = "check"
    BY <1>3 DEF RetryCheck, taskVars
  <2>2. Deciding(t)' <= Deciding(t)
    BY <2>1 DEF Deciding, Count
  <2> QED
    BY <1>0, <1>1, <2>1, <2>2, CoverTyped, CoverTypedNext DEF Covered
<1>4. CASE RetryIncrement
  <2>1. /\ UNCHANGED <<retryCh, rtask>> /\ rpc = "increment" /\ rpc' \notin {"check", "increment"}
        /\ rtask \in Tasks
        /\ retryCount' = retryCount \/ retryCount' = [retryCount EXCEPT ![rtask] = @ + 1]
    BY <1>4 DEF RetryIncrement, IncrementRetry, taskVars, TypeInv, RetryLoopAtWork
  <2>2. Deciding(t) = Count(rtask = t) /\ Deciding(t)' = 0
    BY <2>1 DEF Deciding, Count
  <2>3. retryCount'[t] <= retryCount[t] + Count(rtask = t)
    BY <2>1 DEF Count, TypeInv, TypeOK, TaskTableTypeOK
  <2> QED
    BY <1>0, <1>1, <2>1, <2>2, <2>3, CoverTyped, CoverTypedNext DEF Covered
<1>5. CASE RetrySpawn \/ RetryUnlock
  <2>1. UNCHANGED <<retryCount, retryCh>> /\ rpc' \notin {"check", "increment"}
    BY <1>5 DEF RetrySpawn, RetryUnlock, taskVars
  <2>2. Deciding(t)' <= Deciding(t)
    BY <2>1 DEF Deciding, Count
  <2> QED
    BY <1>0, <1>1, <2>1, <2>2, CoverTyped, CoverTypedNext DEF Covered
<1> QED
  BY <1>2, <1>3, <1>4, <1>5 DEF RetryLoop

LEMMA HandlerCovered ==
    ASSUME TypeInv, TypeInv', FailuresCovered, NEW h \in Handlers, Handler(h)
    PROVE  FailuresCovered'
<1> SUFFICES ASSUME NEW t \in Tasks PROVE Covered(t)'
  BY DEF FailuresCovered
<1>0. Covered(t)
  BY DEF FailuresCovered
<1>1. UNCHANGED <<retryCount, rpc, rtask>> /\ Deciding(t)' = Deciding(t)
  BY DEF Handler, CheckStatus, ReleaseNode, UpdateStatus, UpdateTaskStatus, HandOff,
     UnlockStatus, notHandler, retryLoopVars, taskVars, Deciding
<1>2. /\ hpc \in [Handlers -> {"idle", "check", "release", "update", "handoff", "unlock"}]
      /\ htask \in [Handlers -> Tasks \cup {NoTask}]
  BY DEF TypeInv, TypeOK, HandlerTypeOK
<1>3. CASE CheckStatus(h) \/ ReleaseNode(h) \/ UnlockStatus(h)
  <2>1. /\ UNCHANGED <<retryCh, failures>> /\ hpc[h] # "handoff"
        /\ \E x \in {"unlock", "release", "update", "idle"} : hpc' = [hpc EXCEPT ![h] = x]
        /\ htask' = htask \/ htask' = [htask EXCEPT ![h] = NoTask]
    BY <1>3 DEF CheckStatus, ReleaseNode, UnlockStatus, historyVars
  <2>2. Handing(t)' = Handing(t)
    BY <1>2, <2>1 DEF Handing
  <2> QED
    BY <1>0, <1>1, <2>1, <2>2 DEF Covered
<1>4. CASE UpdateStatus(h)
  <2>1. hpc[h] = "update" /\ UNCHANGED <<retryCh, htask>> /\ htask[h] \in Tasks
    BY <1>4 DEF UpdateStatus, TypeInv, HandlersAtWork
  <2>2. CASE Stored(htask[h]) /\ hkind[h] = "failed"
    <3>1. hpc' = [hpc EXCEPT ![h] = "handoff"] /\ failures' = [failures EXCEPT ![htask[h]] = @ + 1]
      BY <1>4, <2>2 DEF UpdateStatus
    <3>2. Handing(t)' = IF htask[h] = t THEN Handing(t) \cup {h} ELSE Handing(t)
      BY <1>2, <2>1, <3>1 DEF Handing
    <3>3. Cardinality(Handing(t)') <= Cardinality(Handing(t)) + Count(htask[h] = t)
      <4>1. IsFiniteSet(Handing(t)) /\ Cardinality(Handing(t)) \in Nat
        BY CoverTyped
      <4>2. Cardinality(Handing(t) \cup {h}) <= Cardinality(Handing(t)) + 1
        <5>1. Cardinality(Handing(t) \cup {h})
                \in {Cardinality(Handing(t)), Cardinality(Handing(t)) + 1}
          BY <4>1, FS_AddElement
        <5> QED
          BY <4>1, <5>1
      <4> QED
        BY <3>2, <4>1, <4>2 DEF Count
    <3>4. failures'[t] = failures[t] + Count(htask[h] = t)
      BY <2>1, <3>1 DEF Count, TypeInv, TypeOK, HandlerTypeOK
    <3>5. Count(htask[h] = t) \in {0, 1}
      BY DEF Count
    <3> QED
      BY <1>0, <1>1, <2>1, <3>3, <3>4, <3>5, CoverTyped, CoverTypedNext DEF Covered
  <2>3. CASE ~(Stored(htask[h]) /\ hkind[h] = "failed")
    <3>1. hpc' = [hpc EXCEPT ![h] = "unlock"] /\ UNCHANGED failures
      BY <1>4, <2>3 DEF UpdateStatus, historyVars
    <3>2. Handing(t)' = Handing(t)
      BY <1>2, <2>1, <3>1 DEF Handing
    <3> QED
      BY <1>0, <1>1, <2>1, <3>1, <3>2 DEF Covered
  <2> QED
    BY <2>2, <2>3
<1>5. CASE HandOff(h)
  <2>1. /\ hpc[h] = "handoff" /\ UNCHANGED <<htask, failures>> /\ htask[h] \in Tasks
        /\ retryCh' = Append(retryCh, htask[h]) /\ hpc' = [hpc EXCEPT ![h] = "unlock"]
    BY <1>5 DEF HandOff, TypeInv, HandlersAtWork, historyVars
  <2>2. Queued(retryCh', t) = Queued(retryCh, t) + Count(htask[h] = t)
    <3>1. retryCh \in Seq(Tasks)
      BY DEF TypeInv, TypeOK, RetryTypeOK
    <3> QED
      BY <2>1, <3>1, QueuedAppend
  <2>3. Handing(t)' = Handing(t) \ {h} /\ (h \in Handing(t) <=> htask[h] = t)
    BY <1>2, <2>1 DEF Handing
  <2>4. Cardinality(Handing(t)') = Cardinality(Handing(t)) - Count(htask[h] = t)
    <3>1. IsFiniteSet(Handing(t)) /\ Cardinality(Handing(t)) \in Nat
      BY CoverTyped
    <3>2. /\ h \in Handing(t) => Cardinality(Handing(t) \ {h}) = Cardinality(Handing(t)) - 1
          /\ h \notin Handing(t) => Handing(t) \ {h} = Handing(t)
      BY <3>1, FS_RemoveElement
    <3> QED
      BY <2>3, <3>1, <3>2 DEF Count
  <2>5. Count(htask[h] = t) \in {0, 1}
    BY DEF Count
  <2>6. Queued(retryCh', t) + Cardinality(Handing(t)')
           = Queued(retryCh, t) + Cardinality(Handing(t))
    BY <2>2, <2>4, <2>5, CoverTyped
  <2>7. UNCHANGED <<failures, retryCount>> /\ Deciding(t)' = Deciding(t)
    BY <1>1, <2>1
  <2> QED
    BY <1>0, <2>6, <2>7, CoverTyped, CoverTypedNext DEF Covered
<1> QED
  BY <1>3, <1>4, <1>5 DEF Handler

LEMMA FailuresCoveredStep ==
    ASSUME TypeInv, TypeInv', FailuresCovered, [Next]_vars
    PROVE  FailuresCovered'
<1>1. ASSUME UNCHANGED <<retryCount, rpc, rtask, retryCh, failures>>,
             \A t \in Tasks : Handing(t)' = Handing(t)
      PROVE  FailuresCovered'
  BY <1>1 DEF FailuresCovered, Covered, Deciding
<1>2. CASE Dispatcher
  BY <1>1, <1>2 DEF Dispatcher, StartDispatch, EndDispatch, LockHead, LockHeadFails, SelectNode,
     NoSuitableNode, Assign, AssignTask, CountUp, Send, UnlockDispatch, notDispatcher, retryVars,
     handlerVars, historyVars, taskVars, Handing
<1>3. ASSUME NEW h \in Handlers, NEW u \in Tasks, NEW kind \in ReportKinds, Report(h, u, kind)
      PROVE  FailuresCovered'
  <2>1. /\ UNCHANGED <<retryCount, rpc, rtask, retryCh, failures>>
        /\ hpc[h] = "idle" /\ htask' = [htask EXCEPT ![h] = u]
        /\ \E x \in {"update", "check"} : hpc' = [hpc EXCEPT ![h] = x]
    BY <1>3 DEF Report, taskVars, retryVars, historyVars
  <2>2. \A t \in Tasks : Handing(t)' = Handing(t)
    BY <2>1 DEF Handing, TypeInv, TypeOK, HandlerTypeOK
  <2> QED
    BY <1>1, <2>1, <2>2
<1>4. ASSUME Environment,
             ~\E h \in Handlers, u \in Tasks, kind \in ReportKinds : Report(h, u, kind)
      PROVE  FailuresCovered'
  BY <1>1, <1>4 DEF Environment, SubmitTask, AddTask, PushSubmitted, Requeue, ReceiveDispatched,
     NodeEvent, LeaseExpires, vars, taskVars, retryVars, handlerVars, historyVars, Push, Handing
<1> QED
  BY <1>2, <1>3, <1>4, RetryLoopCovered, HandlerCovered, StepCases

LEMMA InitCovered == Init => FailuresCovered
<1> SUFFICES ASSUME Init, NEW t \in Tasks PROVE Covered(t)
  BY DEF FailuresCovered
<1>1. Handing(t) = {} /\ Deciding(t) = 0 /\ retryCount[t] = 0 /\ failures[t] = 0 /\ retryCh = <<>>
  BY DEF Init, TaskTableInit, ReadyQueueInit, Handing, Deciding, Count
<1>2. Cardinality(Handing(t)) = 0 /\ Queued(retryCh, t) = 0
  BY <1>1, FS_EmptySet, QueuedEmpty
<1> QED
  BY <1>1, <1>2 DEF Covered

LedgerInv == AccountsInv /\ FailuresCovered

LEMMA LedgerInvariant == Spec => []LedgerInv
<1>1. Init => LedgerInv
  BY InitTypeInv, InitAccounts, InitCovered DEF LedgerInv, AccountsInv
<1>2. LedgerInv /\ [Next]_vars => LedgerInv'
  BY AccountsInvStep, FailuresCoveredStep DEF LedgerInv, AccountsInv
<1> QED
  BY <1>1, <1>2, PTL DEF Spec

\* How one step may change the ledger.
LEMMA LedgerChanges ==
    ASSUME AccountsInv, [Next]_vars
    PROVE  \/ UNCHANGED <<failures, Granted, dispatches>>
           \/ \E h \in Handlers : UpdateStatus(h) /\ UNCHANGED <<Granted, dispatches>>
           \/ \E t \in Tasks : SubmitTask(t)
           \/ Assign /\ Stored(dtask)
           \/ RetryIncrement /\ Stored(rtask)
<1> USE DEF AccountsInv, TypeInv, TypeOK
<1>1. ASSUME UNCHANGED <<retryCount, dispatches>>, \A t \in Tasks : Stored(t)' <=> Stored(t)
      PROVE  UNCHANGED <<Granted, dispatches>>
  BY <1>1 DEF Granted
<1>6. ASSUME UNCHANGED <<failures, retryCount, dispatches>>, \A t \in Tasks : Stored(t)' <=> Stored(t)
      PROVE  UNCHANGED <<failures, Granted, dispatches>>
  BY <1>1, <1>6
<1>2. CASE Dispatcher
  BY <1>6, <1>2 DEF Dispatcher, StartDispatch, EndDispatch, LockHead, LockHeadFails, SelectNode,
     NoSuitableNode, Assign, CountUp, Send, UnlockDispatch, notDispatcher, handlerVars, historyVars, outVars,
     taskVars, Stored, Push
<1>3. CASE RetryLoop
  BY <1>6, <1>3 DEF RetryLoop, RetryReceive, RetryLockFails, RetryCheck, RetryIncrement,
     RetrySpawn, RetryUnlock, notRetryLoop, dispatchVars, handlerVars, historyVars, outVars, taskVars, Stored
<1>4. ASSUME NEW h \in Handlers, Handler(h)
      PROVE  UNCHANGED <<Granted, dispatches>> /\ (UNCHANGED failures \/ UpdateStatus(h))
  <2>1. UNCHANGED <<retryCount, dispatches>>
    BY <1>4 DEF Handler, CheckStatus, ReleaseNode, UpdateStatus, UpdateTaskStatus, HandOff,
       UnlockStatus, notHandler, dispatchVars, outVars, taskVars
  <2>2. \A t \in Tasks : Stored(t)' <=> Stored(t)
    BY <1>4 DEF Handler, CheckStatus, ReleaseNode, UpdateStatus, UpdateTaskStatus, HandOff,
       UnlockStatus, taskVars, Stored, TaskTableTypeOK, HandlersAtWork, ReportKinds
  <2>3. UNCHANGED failures \/ UpdateStatus(h)
    BY <1>4 DEF Handler, CheckStatus, ReleaseNode, HandOff, UnlockStatus, historyVars
  <2> QED
    BY <1>1, <2>1, <2>2, <2>3
<1>5. CASE Environment
  BY <1>6, <1>5 DEF Environment, PushSubmitted, Requeue, ReceiveDispatched, Report, NodeEvent,
     LeaseExpires, vars, dispatchVars, handlerVars, historyVars, outVars, taskVars, Stored, Push
<1> QED
  BY <1>2, <1>3, <1>4, <1>5, StepCases

\* Every behaviour of the scheduler, projected to reports of failure, grants and
\* dispatches, is a behaviour of AttemptLedger.
THEOREM LedgerImplemented == Spec => ImplementsAttempts
<1>1. Init => Attempts!Init
  BY DEF Init, TaskTableInit, Attempts!Init, Granted, Stored, ReadyQueueInit
<1>2. LedgerInv /\ LedgerInv' /\ [Next]_vars => [Attempts!Next]_(Attempts!attempts)
  <2> SUFFICES ASSUME LedgerInv, LedgerInv', [Next]_vars
               PROVE  Attempts!Next \/ UNCHANGED <<failures, Granted, dispatches>>
    BY DEF Attempts!attempts
  <2>0. TypeInv /\ Accounts /\ AccountsInv /\ FailuresCovered
    BY DEF LedgerInv, AccountsInv
  <2>1. ASSUME NEW t \in Tasks, SubmitTask(t) PROVE Attempts!Grant(t)
    <3>1. ~Stored(t) /\ Stored(t)' /\ (\A u \in Tasks : u # t => (Stored(u)' <=> Stored(u)))
      BY <2>0, <2>1 DEF SubmitTask, AddTask, Stored, TypeInv, TypeOK, TaskTableTypeOK
    <3>2. UNCHANGED <<retryCount, dispatches>> /\ retryCount[t] = 0
      BY <2>0, <2>1, <3>1 DEF SubmitTask, AddTask, dispatchVars, outVars, Accounts, FreshTasks
    <3>3. Granted' = [Granted EXCEPT ![t] = @ + 1] /\ Granted[t] = 0
      <4>1. \A u \in Tasks : u # t => Granted'[u] = Granted[u]
        BY <3>1, <3>2 DEF Granted
      <4>2. Granted[t] = 0 /\ Granted'[t] = 1
        BY <3>1, <3>2 DEF Granted
      <4>3. Granted' = [u \in Tasks |-> Granted'[u]] /\ Granted = [u \in Tasks |-> Granted[u]]
        BY DEF Granted
      <4> QED
        BY <4>1, <4>2, <4>3
    <3>4. Granted[t] < Attempts!Allowance(t)
      BY <3>3, TaskAssumption DEF Attempts!Allowance
    <3>5. Granted[t] < 1 + failures[t] /\ UNCHANGED failures
      BY <2>0, <2>1, <3>3, CoverTyped DEF SubmitTask, handlerVars, historyVars
    <3> QED
      BY <3>2, <3>3, <3>4, <3>5 DEF Attempts!Grant
  <2>2. ASSUME Assign, Stored(dtask) PROVE Attempts!Start(dtask)
    <3>1. dtask \in Tasks /\ dpc = "assign" /\ dispatches' = [dispatches EXCEPT ![dtask] = @ + 1]
      BY <2>0, <2>2 DEF Assign, TypeInv, DispatcherAtWork, Push
    <3>2. UNCHANGED Granted
      BY <2>0, <2>2, <3>1 DEF Assign, AssignTask, Granted, Stored, TypeInv, TypeOK, TaskTableTypeOK, Push
    <3>3. Owed(dtask) > 0 /\ Owed(dtask) \in Nat /\ dispatches[dtask] \in Nat
      <4>1. Count(dpc = "assign" /\ dtask = dtask) = 1
        BY <3>1 DEF Count
      <4> QED
        BY SMTT(40), <2>0, <3>1, <4>1, OwedParts DEF Owed, TypeInv, TypeOK, DispatchTypeOK
    <3>4. dispatches[dtask] + Owed(dtask) = Granted[dtask]
      BY <2>0, <3>1 DEF Accounts, DispatchLedger, Granted
    <3>5. UNCHANGED failures
      BY <2>2 DEF Assign, notDispatcher, handlerVars, historyVars
    <3> QED
      BY <3>1, <3>2, <3>3, <3>4, <3>5 DEF Attempts!Start
  <2>3. ASSUME RetryIncrement, Stored(rtask) PROVE Attempts!Grant(rtask)
    <3>1. /\ rtask \in Tasks /\ rpc = "increment"
          /\ retryCount' = [retryCount EXCEPT ![rtask] = @ + 1]
          /\ UNCHANGED dispatches
          /\ \A u \in Tasks : Stored(u)' <=> Stored(u)
      BY <2>0, <2>3 DEF RetryIncrement, IncrementRetry, TypeInv, TypeOK, RetryLoopAtWork, Stored,
         TaskTableTypeOK, notRetryLoop, dispatchVars, outVars
    <3>2. Granted' = [Granted EXCEPT ![rtask] = @ + 1] /\ Granted[rtask] = 1 + retryCount[rtask]
      <4>1. retryCount \in [Tasks -> Nat]
        BY <2>0 DEF TypeInv, TypeOK, TaskTableTypeOK
      <4>2. \A u \in Tasks : u # rtask => Granted'[u] = Granted[u]
        BY <3>1, <4>1 DEF Granted
      <4>3. Granted[rtask] = 1 + retryCount[rtask] /\ Granted'[rtask] = Granted[rtask] + 1
        BY <2>3, <3>1, <4>1 DEF Granted
      <4>4. Granted' = [u \in Tasks |-> Granted'[u]] /\ Granted = [u \in Tasks |-> Granted[u]]
        BY DEF Granted
      <4> QED
        BY <3>1, <4>2, <4>3, <4>4
    <3>3. retryCount[rtask] < MaxRetries[rtask] /\ MaxRetries[rtask] \in Int /\ retryCount[rtask] \in Nat
      <4>1. ~(retryCount[rtask] >= MaxRetries[rtask])
        BY <2>0, <3>1 DEF Accounts, RetryBudget, RetryExhausted
      <4>2. MaxRetries[rtask] \in Int /\ retryCount[rtask] \in Nat
        BY <2>0, <3>1, TaskAssumption DEF TypeInv, TypeOK, TaskTableTypeOK
      <4> QED
        BY <4>1, <4>2
    <3>4. Granted[rtask] < Attempts!Allowance(rtask)
      BY <3>2, <3>3 DEF Attempts!Allowance
    <3>5. Granted[rtask] < 1 + failures[rtask]
      <4>1. Covered(rtask) /\ Deciding(rtask) = 1
        BY <2>0, <3>1 DEF FailuresCovered, Deciding, Count
      <4>2. retryCount[rtask] + 1 <= failures[rtask]
        BY <2>0, <3>1, <4>1, CoverTyped DEF Covered
      <4> QED
        BY <2>0, <3>1, <3>2, <4>2, CoverTyped
    <3>6. UNCHANGED failures
      BY <2>3 DEF RetryIncrement, notRetryLoop, handlerVars, historyVars
    <3> QED
      BY <3>1, <3>2, <3>4, <3>5, <3>6 DEF Attempts!Grant
  <2>4. Assign => dtask \in Tasks
    BY <2>0 DEF Assign, TypeInv, DispatcherAtWork, Push
  <2>5. RetryIncrement => rtask \in Tasks
    BY <2>0 DEF RetryIncrement, TypeInv, RetryLoopAtWork
  <2>6. ASSUME NEW h \in Handlers, UpdateStatus(h), UNCHANGED <<Granted, dispatches>>
        PROVE  UNCHANGED failures \/ Attempts!ReportFailure(htask[h])
    BY <2>6 DEF UpdateStatus, Attempts!ReportFailure, historyVars
  <2>7. \A h \in Handlers : UpdateStatus(h) => htask[h] \in Tasks
    BY <2>0 DEF UpdateStatus, TypeInv, HandlersAtWork
  <2> QED
    BY <2>0, <2>1, <2>2, <2>3, <2>4, <2>5, <2>6, <2>7, LedgerChanges DEF Attempts!Next
<1> QED
  BY <1>1, <1>2, LedgerInvariant, PTL DEF Spec, ImplementsAttempts, Attempts!Spec

=============================================================================
