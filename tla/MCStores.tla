------------------------------- MODULE MCStores -------------------------------
(***************************************************************************)
(* The four stores side by side.  They share nothing, so that a behaviour  *)
(* exercises one of them and leaves the others as they start.              *)
(***************************************************************************)
EXTENDS StoresProperties, TLC

CONSTANTS t1, t2, t3, n1, n2, n3, d1, d2, d3, v1, v2

VARIABLE part   \* the store that this behaviour exercises

\* t2 and t3 tie in both keys of the queue.
MCPriority == t1 :> 1 @@ t2 :> 5 @@ t3 :> 5
MCCreatedAt == t1 :> 1 @@ t2 :> 2 @@ t3 :> 2
MCWeight == n1 :> 1 @@ n2 :> 2 @@ n3 :> 2

\* d1 has no telescope; d2 and d3 differ in the target only.
MCFieldOf == d1 :> [target |-> v1, telescope |-> Unset]
          @@ d2 :> [target |-> v1, telescope |-> v2]
          @@ d3 :> [target |-> v2, telescope |-> v2]
MCSizeOf == d1 :> 1 @@ d2 :> 2 @@ d3 :> 1
MCLimits == -1 .. 3
MCOffsets == -1 .. 4
MCLoads == -1 .. 2
MCCreationOf == d1 :> 1 @@ d2 :> 2 @@ d3 :> 3

vars == <<part, heap, logVars, dataVars, balancerVars>>

Init ==
    /\ part \in {"queue", "log", "data", "balancer"}
    /\ HeapInit /\ LogInit /\ DataIndexInit /\ BalancerInit

QueueStep == part = "queue" /\ HeapNext /\ UNCHANGED <<part, logVars, dataVars, balancerVars>>
LogStep == part = "log" /\ LogNext /\ UNCHANGED <<part, heap, dataVars, balancerVars>>
DataStep == part = "data" /\ DataIndexNext /\ UNCHANGED <<part, heap, logVars, balancerVars>>
BalancerStep == part = "balancer" /\ BalancerNext /\ UNCHANGED <<part, heap, logVars, dataVars>>

Next == QueueStep \/ LogStep \/ DataStep \/ BalancerStep

Spec == Init /\ [][Next]_vars

=============================================================================
