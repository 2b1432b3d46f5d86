----------------------------- MODULE ReadyQueue -----------------------------
(***************************************************************************)
(* What the scheduler needs from its ready queue: a bag of tasks, of which *)
(* an entry that no other one precedes comes out first.  TaskHeap is the   *)
(* slice that internal/scheduler/queue.go keeps under container/heap.      *)
(***************************************************************************)
EXTENDS Identifiers, Integers

CONSTANTS Priority,   \* Task.Priority, fixed by NewTask
          CreatedAt   \* Task.CreatedAt, fixed by NewTask

ASSUME OrderAssumption ==
    /\ Priority \in [Tasks -> Int]
    /\ CreatedAt \in [Tasks -> Nat]

VARIABLE queue   \* s.queue: how many entries each task has

ReadyQueueTypeOK == queue \in [Tasks -> Nat]

ReadyQueueInit == queue = [t \in Tasks |-> 0]

\* PriorityQueue.Less
Less(t, u) ==
    \/ Priority[t] > Priority[u]
    \/ Priority[t] = Priority[u] /\ CreatedAt[t] < CreatedAt[u]

QueueEmpty == \A t \in Tasks : queue[t] = 0

\* What Peek may return: an entry that no other entry precedes.
IsHead(t) ==
    /\ queue[t] > 0
    /\ \A u \in Tasks : queue[u] > 0 => ~Less(u, t)

Push(t) == queue' = [queue EXCEPT ![t] = @ + 1]

\* Mutant: the entry is read with Peek where it should be popped.
PopHead_Peeks(t) == UNCHANGED queue

PopHead(t) == queue' = [queue EXCEPT ![t] = @ - 1]

ReadyQueueSpec ==
    /\ ReadyQueueInit
    /\ [][\E t \in Tasks : Push(t) \/ (IsHead(t) /\ PopHead(t))]_queue

=============================================================================
