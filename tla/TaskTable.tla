----------------------------- MODULE TaskTable -----------------------------
(***************************************************************************)
(* The task table of internal/scheduler/store.go: what one call of a       *)
(* TaskStore method, made under store.mu, does to the stored tasks.  Each  *)
(* operator is an action on the three task fields that the program's       *)
(* control flow reads; names, payloads and timestamps are left out.  A     *)
(* task that is not in the map has the status "absent".                    *)
(*                                                                         *)
(* TaskLog adds the event log to these operators; Scheduler calls them.    *)
(***************************************************************************)
EXTENDS Identifiers, Integers

VARIABLES status,        \* Task.Status
          assignedNode,  \* Task.AssignedNode
          retryCount     \* Task.RetryCount

taskVars == <<status, assignedNode, retryCount>>

\* The statuses the program writes; nothing ever writes "cancelled".
TaskStatus == {"pending", "queued", "running", "completed", "failed", "retrying"}

TaskTableTypeOK ==
    /\ status \in [Tasks -> TaskStatus \cup {"absent"}]
    /\ assignedNode \in [Tasks -> Nodes \cup {NoNode}]
    /\ retryCount \in [Tasks -> Nat]

TaskTableInit ==
    /\ status = [t \in Tasks |-> "absent"]
    /\ assignedNode = [t \in Tasks |-> NoNode]
    /\ retryCount = [t \in Tasks |-> 0]

Stored(t) == status[t] # "absent"

AddTask(t) ==
    /\ ~Stored(t)
    /\ status' = [status EXCEPT ![t] = "pending"]
    /\ UNCHANGED <<assignedNode, retryCount>>

UpdateTaskStatus(t, s) ==
    /\ Stored(t)
    /\ status' = [status EXCEPT ![t] = s]
    /\ UNCHANGED <<assignedNode, retryCount>>

AssignTask(t, n) ==
    /\ Stored(t)
    /\ status' = [status EXCEPT ![t] = "queued"]
    /\ assignedNode' = [assignedNode EXCEPT ![t] = n]
    /\ UNCHANGED retryCount

IncrementRetry(t) ==
    /\ Stored(t)
    /\ status' = [status EXCEPT ![t] = "retrying"]
    /\ retryCount' = [retryCount EXCEPT ![t] = @ + 1]
    /\ UNCHANGED assignedNode

=============================================================================
