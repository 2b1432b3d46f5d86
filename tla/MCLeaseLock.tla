---------------------------- MODULE MCLeaseLock ----------------------------
(***************************************************************************)
(* Instances of the lock: callers in one process or in two.                *)
(***************************************************************************)
EXTENDS LeaseLockProperties, TLC

CONSTANTS a, b, c, p, q

Three == {a, b, c}
TwoAndOne == a :> p @@ b :> p @@ c :> q
Threesome == a :> p @@ b :> p @@ c :> p

=============================================================================
