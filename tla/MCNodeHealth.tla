---------------------------- MODULE MCNodeHealth ----------------------------
(***************************************************************************)
(* An instance of the node manager: one node sends what it likes, another  *)
(* one runs the agent.                                                     *)
(***************************************************************************)
EXTENDS NodeHealthProperties

\* Right clocks, a stale timestamp, and one from the future.
WrongClocks == {-1, 0, 2}

AnyLoads == {-1}

=============================================================================
