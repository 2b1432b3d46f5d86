--------------------------- MODULE AttemptLedger ---------------------------
(***************************************************************************)
(* What the scheduler promises its clients about attempts, with nothing    *)
(* of how: an accepted task is granted one attempt and at most MaxRetries  *)
(* further ones, each for a failure that was reported, and each granted    *)
(* attempt is started at most once.  Nothing but a report brings a task    *)
(* another attempt, so that what runs on a node that was lost is not run   *)
(* again.  Scheduler is shown to implement this.                           *)
(***************************************************************************)
EXTENDS Integers

CONSTANTS Tasks, MaxRetries

VARIABLES reported, granted, started

attempts == <<reported, granted, started>>

Allowance(t) == 1 + IF MaxRetries[t] > 0 THEN MaxRetries[t] ELSE 0

Init ==
    /\ reported = [t \in Tasks |-> 0]
    /\ granted = [t \in Tasks |-> 0]
    /\ started = [t \in Tasks |-> 0]

ReportFailure(t) ==
    /\ reported' = [reported EXCEPT ![t] = @ + 1]
    /\ UNCHANGED <<granted, started>>

Grant(t) ==
    /\ granted[t] < Allowance(t)
    /\ granted[t] < 1 + reported[t]
    /\ granted' = [granted EXCEPT ![t] = @ + 1]
    /\ UNCHANGED <<reported, started>>

Start(t) ==
    /\ started[t] < granted[t]
    /\ started' = [started EXCEPT ![t] = @ + 1]
    /\ UNCHANGED <<reported, granted>>

Next == \E t \in Tasks : ReportFailure(t) \/ Grant(t) \/ Start(t)

Spec == Init /\ [][Next]_attempts

=============================================================================
