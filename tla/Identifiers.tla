---------------------------- MODULE Identifiers ----------------------------
(***************************************************************************)
(* The identifiers of tasks and nodes, and the values that stand for the   *)
(* absence of one.                                                         *)
(***************************************************************************)
CONSTANTS Tasks,    \* task identifiers (uuid.New in models.NewTask)
          Nodes,    \* node identifiers (chosen by the client or a uuid)
          NoTask,   \* no task at hand
          NoNode    \* the empty AssignedNode

ASSUME IdentifierAssumption == NoTask \notin Tasks /\ NoNode \notin Nodes

=============================================================================
