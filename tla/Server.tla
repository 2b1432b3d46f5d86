------------------------------- MODULE Server -------------------------------
(***************************************************************************)
(* The server process around the archiver and the alert manager: clients   *)
(* that post records and alerts and give up waiting, the handlers of       *)
(* internal/api, alerts raised inside the server, and the order in which   *)
(* main of cmd/server stops everything after a signal.                     *)
(***************************************************************************)
EXTENDS Archiver

VARIABLES
    call,     \* the request of each client, and its answer
    main,     \* how far main is with its deferred calls
    timedOut  \* Shutdown did not wait for the last handlers

serverVars == <<call, main, timedOut>>
vars == <<archiverVars, serverVars>>

ServerTypeOK ==
    /\ call \in [Alerts -> {"none", "sent", "created"}]
    /\ main \in {"serving", "draining", "archiver", "notifier", "storage"}
    /\ timedOut \in BOOLEAN

TypeOK == ArchiverTypeOK /\ ServerTypeOK

Init ==
    /\ ArchiverInit
    /\ call = [x \in Alerts |-> "none"]
    /\ main = "serving"
    /\ timedOut = FALSE

-----------------------------------------------------------------------------
(* Requests.  A call of SchedulerClient is one request: POST /data for each *)
(* record, POST /alerts for an alert of a client.  One that finds nobody    *)
(* listening, or whose body does not bind, has no effect and is left out.   *)
(* While it is "sent" its client may give up after 30 s, which no handler   *)
(* notices, and then never learns the answer.                               *)

Call(x) ==
    /\ main = "serving"
    /\ call[x] = "none"
    /\ x \in OtherAlerts => alertStatus[x] = "none"
    /\ call' = [call EXCEPT ![x] = "sent"]
    /\ UNCHANGED <<archiverVars, main, timedOut>>

Unhandled(x) ==
    /\ call[x] = "sent"
    /\ IF x \in Data THEN archiveStatus[x] = "none" ELSE alertStatus[x] = "none"

Answer(x, status) ==
    /\ call' = [call EXCEPT ![x] = status]
    /\ UNCHANGED <<main, timedOut>>

\* Mutant: the handler leaves the send to a goroutine and answers.
HandleAdd_Async(d) ==
    /\ Unhandled(d)
    /\ AddData(d)
    /\ Answer(d, "created")

HandleAdd(d) ==
    /\ Unhandled(d)
    /\ AddData(d)
    /\ UNCHANGED serverVars

HandleAlert(a) ==
    /\ Unhandled(a)
    /\ Alert(AddAlert(a))
    /\ IF Enabled THEN UNCHANGED serverVars ELSE Answer(a, "created")

\* The handler's send goes through and it answers with 201.
FinishAdd(d) ==
    /\ SendData(d)
    /\ Answer(d, "created")

FinishAlert(a) ==
    /\ a \in OtherAlerts /\ call[a] = "sent"
    /\ Alert(SendAlert(a))
    /\ Answer(a, "created")

\* PUT /alerts/:id/resolve, whose handler Shutdown may leave behind as well.
HandleResolve(a) ==
    /\ main \in {"serving", "draining"} \/ timedOut
    /\ Alert(ResolveAlert(a))
    /\ UNCHANGED serverVars

Requests ==
    \/ \E x \in Alerts : Call(x)
    \/ \E d \in Data : HandleAdd(d) \/ FinishAdd(d)
    \/ \E a \in OtherAlerts : HandleAlert(a) \/ FinishAlert(a) \/ HandleResolve(a)

-----------------------------------------------------------------------------
(* Goroutines behind the handlers.                                          *)

\* The scheduler or the node manager raises an alert; Stop of either does not
\* wait for the goroutine that may be about to.
RaiseAlert(a) ==
    /\ call[a] = "none"
    /\ Alert(AddAlert(a))
    /\ UNCHANGED serverVars

\* So does the archive loop, whose alert is the one of its record.
SendRaised(a) ==
    /\ a \in OtherAlerts => call[a] # "sent"
    /\ Alert(SendAlert(a))
    /\ UNCHANGED serverVars

Step(A) == A /\ UNCHANGED serverVars

Goroutines ==
    \/ \E a \in OtherAlerts : RaiseAlert(a)
    \/ \E a \in Alerts : SendRaised(a)
    \/ Step(ArchiveLoop)
    \/ Step(Alert(ProcessAlert)) \/ Step(Alert(ExitNotifier))

-----------------------------------------------------------------------------
(* main after a signal.  No Stop waits for a goroutine.                     *)

MainAt(from, to) ==
    /\ main = from
    /\ main' = to

\* Shutdown closes the listener and then waits for the handlers.
Signal ==
    /\ MainAt("serving", "draining")
    /\ UNCHANGED <<archiverVars, call, timedOut>>

Drained == \A x \in Alerts : call[x] # "sent"

\* Mutant: Shutdown without a timeout.
DeferArchiver_Unbounded ==
    /\ MainAt("draining", "archiver")
    /\ Drained
    /\ StopArchiver
    /\ UNCHANGED <<call, timedOut>>

\* Mutant: the server closes and waits for nobody.
DeferArchiver_Close ==
    /\ MainAt("draining", "archiver")
    /\ StopArchiver
    /\ UNCHANGED <<call, timedOut>>

\* Server.Stop waits for at most 10 s; the archiver is stopped next.
DeferArchiver ==
    /\ MainAt("draining", "archiver")
    /\ timedOut' \in BOOLEAN
    /\ timedOut' \/ Drained
    /\ StopArchiver
    /\ UNCHANGED call

DeferNotifier ==
    /\ MainAt("archiver", "notifier")
    /\ Alert(StopNotifier)
    /\ UNCHANGED <<call, timedOut>>

\* After the storage comes the lock, and then the process may end at any time.
DeferStorage ==
    /\ MainAt("notifier", "storage")
    /\ CloseStorage
    /\ UNCHANGED <<call, timedOut>>

Shutdown == DeferArchiver \/ DeferNotifier \/ DeferStorage

-----------------------------------------------------------------------------
Panicked == apc = "panicked"

Next ==
    ~Panicked /\ (Requests \/ Goroutines \/ Signal \/ Shutdown)

Spec == Init /\ [][Next]_vars

\* A goroutine that can go on does, a send to a channel that has room again
\* and again is served (the senders of a Go channel queue up), and main, once
\* told to stop, does not wait for ever.  Handlers may wait for
\* their clients.
Fairness ==
    /\ WF_vars(~Panicked /\ Step(ArchiveLoop))
    /\ WF_vars(~Panicked /\ (Step(Alert(ProcessAlert)) \/ Step(Alert(ExitNotifier))))
    /\ \A d \in Data : SF_vars(~Panicked /\ FinishAdd(d))
    /\ \A a \in Alerts : SF_vars(~Panicked /\ (FinishAlert(a) \/ SendRaised(a)))
    /\ WF_vars(~Panicked /\ Shutdown)

FairSpec == Spec /\ Fairness

=============================================================================
