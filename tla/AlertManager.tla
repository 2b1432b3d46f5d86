---------------------------- MODULE AlertManager ----------------------------
(***************************************************************************)
(* The alerts of internal/notifier: CreateAlert stores an alert and sends  *)
(* it, in the caller's goroutine, over a bounded channel to the notifier,  *)
(* which starts one goroutine for each notification channel.               *)
(***************************************************************************)
EXTENDS Naturals, Sequences

CONSTANTS
    Alerts,   \* every alert that may be created, each with a fresh ID
    AlertCap, \* capacity of alertCh
    Enabled   \* notification.enabled

ASSUME AlertAssumption ==
    /\ AlertCap \in Nat \ {0}
    /\ Enabled \in BOOLEAN

VARIABLES
    alertStatus, \* Alert.Resolved, "none" if not in the store
    creating,    \* alerts whose CreateAlert is about to send
    alertCh,     \* the channel
    notified,    \* alerts the notifier has handed to its channels
    notifier     \* processAlerts: at work, told to stop, or gone

alertVars == <<alertStatus, creating, alertCh, notified, notifier>>

AlertTypeOK ==
    /\ alertStatus \in [Alerts -> {"none", "active", "resolved"}]
    /\ creating \subseteq Alerts
    /\ alertCh \in Seq(Alerts)
    /\ Len(alertCh) <= AlertCap
    /\ notified \in [Alerts -> Nat]
    /\ notifier \in {"up", "stopping", "exited"}

AlertInit ==
    /\ alertStatus = [a \in Alerts |-> "none"]
    /\ creating = {}
    /\ alertCh = <<>>
    /\ notified = [a \in Alerts |-> 0]
    /\ notifier = "up"

\* AddAlert; CreateAlert returns at once unless notifications are enabled.
AddAlert(a) ==
    /\ alertStatus[a] = "none"
    /\ alertStatus' = [alertStatus EXCEPT ![a] = "active"]
    /\ creating' = IF Enabled THEN creating \cup {a} ELSE creating
    /\ UNCHANGED <<alertCh, notified, notifier>>

\* Mutant: a full channel drops the notification.
SendAlert_NonBlocking(a) ==
    /\ a \in creating
    /\ alertCh' = IF Len(alertCh) < AlertCap THEN Append(alertCh, a) ELSE alertCh
    /\ creating' = creating \ {a}
    /\ UNCHANGED <<alertStatus, notified, notifier>>

\* The send blocks while the channel is full, whoever the caller is.
SendAlert(a) ==
    /\ a \in creating
    /\ Len(alertCh) < AlertCap
    /\ alertCh' = Append(alertCh, a)
    /\ creating' = creating \ {a}
    /\ UNCHANGED <<alertStatus, notified, notifier>>

ResolveAlert(a) ==
    /\ alertStatus[a] # "none"
    /\ alertStatus' = [alertStatus EXCEPT ![a] = "resolved"]
    /\ UNCHANGED <<creating, alertCh, notified, notifier>>

\* processAlerts; sendNotifications does not wait for any channel.  After
\* Stop its select may still prefer an alert to the end of the context.
ProcessAlert ==
    /\ notifier # "exited"
    /\ alertCh # <<>>
    /\ alertCh' = Tail(alertCh)
    /\ notified' = [notified EXCEPT ![Head(alertCh)] = @ + 1]
    /\ UNCHANGED <<alertStatus, creating, notifier>>

StopNotifier ==
    /\ notifier = "up"
    /\ notifier' = "stopping"
    /\ UNCHANGED <<alertStatus, creating, alertCh, notified>>

ExitNotifier ==
    /\ notifier = "stopping"
    /\ notifier' = "exited"
    /\ UNCHANGED <<alertStatus, creating, alertCh, notified>>

=============================================================================
