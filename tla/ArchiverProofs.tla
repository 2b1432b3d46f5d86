--------------------------- MODULE ArchiverProofs ---------------------------
(***************************************************************************)
(* Proofs, for every number of records and alerts, every capacity of the   *)
(* two channels and every storage, of the safety properties of             *)
(* ArchiverProperties.                                                     *)
(*                                                                         *)
(* Every step of the server is a step of the alert manager or leaves its   *)
(* state alone, and the same for the records: what each component promises *)
(* is proved of its own steps.                                             *)
(***************************************************************************)
EXTENDS ArchiverProperties, CommonProofs, SequenceTheorems, FiniteSetTheorems, TLAPS

AlertNext ==
    \/ \E a \in Alerts : AddAlert(a) \/ SendAlert(a) \/ ResolveAlert(a)
    \/ ProcessAlert \/ StopNotifier \/ ExitNotifier

recordVars == <<dataVars, loopVars, adding, archiveCh, objects, givenUp>>

RecordNext ==
    \/ \E d \in Data : AddData(d) \/ SendData(d)
    \/ ArchiveLoop

-----------------------------------------------------------------------------
(* Type correctness.                                                        *)

\* The archive loop has a record at hand exactly while it works on one.
LoopAtWork ==
    /\ apc \in {"idle", "exited"} => aitem = NoData
    /\ apc \notin {"idle", "exited"} => aitem \in Data

RecordTypeOK ==
    /\ archiveStatus \in [Data -> {"none", "pending", "archived", "failed"}]
    /\ filePath \in [Data -> Data \cup {NoPath}]
    /\ adding \subseteq Data
    /\ archiveCh \in Seq(Data)
    /\ Len(archiveCh) <= ArchiveCap
    /\ apc \in {"idle", "put", "copy", "status", "path", "fail", "alert", "unlock", "exited", "panicked"}
    /\ aitem \in Data \cup {NoData}
    /\ keys \subseteq Data
    /\ objects \in [Data -> {"none", "partial", "whole"}]
    /\ givenUp \subseteq Data

TypeInv == TypeOK /\ LoopAtWork

LEMMA TypeParts ==
    TypeOK <=> /\ AlertTypeOK /\ RecordTypeOK /\ ServerTypeOK
               /\ storage \in {"local", "s3", "unset", "closed"}
               /\ archiverUp \in BOOLEAN
BY DEF TypeOK, ArchiverTypeOK, RecordTypeOK

LEMMA InitTypeInv == Init => TypeInv
<1> SUFFICES ASSUME Init PROVE TypeInv
  OBVIOUS
<1> USE AlertAssumption, ArchiverAssumption DEF Init, ArchiverInit, AlertInit
<1>1. AlertTypeOK
  BY DEF AlertTypeOK
<1>2. RecordTypeOK /\ LoopAtWork
  BY DEF RecordTypeOK, LoopAtWork
<1>3. ServerTypeOK /\ storage \in {"local", "s3", "unset", "closed"} /\ archiverUp \in BOOLEAN
  BY DEF ServerTypeOK
<1> QED
  BY <1>1, <1>2, <1>3, TypeParts DEF TypeInv

\* What the server does to the alerts it does through the alert manager.
LEMMA AlertSteps ==
    TypeInv /\ [Next]_vars => [AlertNext]_alertVars
<1> SUFFICES ASSUME TypeInv, [Next]_vars PROVE [AlertNext]_alertVars
  OBVIOUS
<1>0. Data \subseteq Alerts /\ OtherAlerts \subseteq Alerts
  BY ArchiverAssumption
<1>1. CASE UNCHANGED vars
  BY <1>1 DEF vars, archiverVars
<1>2. CASE Requests
  BY <1>0, <1>2
  DEF Requests, Call, HandleAdd, AddData, FinishAdd, SendData, HandleAlert, FinishAlert, HandleResolve,
      Alert, AlertNext, archiverVars
<1>3. CASE Goroutines
  <2>1. CASE Step(ArchiveLoop)
    <3>1. CASE ReportFailure
      <4>1. aitem \in Alerts
        BY <1>0, <3>1 DEF ReportFailure, TypeInv, LoopAtWork
      <4> QED
        BY <3>1, <4>1 DEF ReportFailure, AlertNext
    <3>2. CASE ~ReportFailure
      BY <2>1, <3>2
      DEF Step, ArchiveLoop, ReceiveData, PutObject, CopyData, MarkArchivedStatus, MarkArchivedPath,
          MarkFailed, UnlockArchive, ExitLoop
    <3> QED
      BY <3>1, <3>2
  <2>2. CASE ~Step(ArchiveLoop)
    BY <1>0, <1>3, <2>2 DEF Goroutines, RaiseAlert, SendRaised, Step, Alert, AlertNext
  <2> QED
    BY <2>1, <2>2
<1>4. CASE Signal \/ Shutdown
  BY <1>4
  DEF Signal, Shutdown, DeferArchiver, DeferNotifier, DeferStorage, StopArchiver, CloseStorage,
      Alert, AlertNext, archiverVars
<1> QED
  BY <1>1, <1>2, <1>3, <1>4 DEF Next

\* What it does to the records it does through AddData and the archive loop.
LEMMA RecordSteps ==
    [Next]_vars => [RecordNext]_recordVars
<1> SUFFICES ASSUME [Next]_vars PROVE [RecordNext]_recordVars
  OBVIOUS
<1>1. CASE UNCHANGED vars
  BY <1>1 DEF vars, archiverVars, recordVars
<1>2. CASE Requests
  BY <1>2
  DEF Requests, Call, HandleAdd, FinishAdd, HandleAlert, FinishAlert, HandleResolve,
      Alert, RecordNext, archiverVars, recordVars
<1>3. CASE Goroutines
  BY <1>3 DEF Goroutines, RaiseAlert, SendRaised, Step, Alert, RecordNext, recordVars
<1>4. CASE Signal \/ Shutdown
  BY <1>4
  DEF Signal, Shutdown, DeferArchiver, DeferNotifier, DeferStorage, StopArchiver, CloseStorage,
      Alert, RecordNext, archiverVars, recordVars
<1> QED
  BY <1>1, <1>2, <1>3, <1>4 DEF Next

LEMMA AlertTypes ==
    AlertTypeOK /\ [AlertNext]_alertVars => AlertTypeOK'
<1> SUFFICES ASSUME AlertTypeOK, [AlertNext]_alertVars PROVE AlertTypeOK'
  OBVIOUS
<1> USE AlertAssumption DEF AlertTypeOK
<1>1. CASE UNCHANGED alertVars
  BY <1>1 DEF alertVars
<1>2. ASSUME NEW a \in Alerts, AddAlert(a) PROVE AlertTypeOK'
  BY <1>2 DEF AddAlert
<1>3. ASSUME NEW a \in Alerts, SendAlert(a) PROVE AlertTypeOK'
  BY <1>3 DEF SendAlert
<1>4. ASSUME NEW a \in Alerts, ResolveAlert(a) PROVE AlertTypeOK'
  BY <1>4 DEF ResolveAlert
<1>5. CASE ProcessAlert
  BY <1>5 DEF ProcessAlert
<1>6. CASE StopNotifier \/ ExitNotifier
  BY <1>6 DEF StopNotifier, ExitNotifier
<1> QED
  BY <1>1, <1>2, <1>3, <1>4, <1>5, <1>6 DEF AlertNext

LEMMA RecordTypes ==
    RecordTypeOK /\ LoopAtWork /\ [RecordNext]_recordVars => RecordTypeOK' /\ LoopAtWork'
<1> SUFFICES ASSUME RecordTypeOK, LoopAtWork, [RecordNext]_recordVars
             PROVE  RecordTypeOK' /\ LoopAtWork'
  OBVIOUS
<1> USE ArchiverAssumption DEF RecordTypeOK, LoopAtWork, dataVars, loopVars
<1>1. CASE UNCHANGED recordVars
  BY <1>1 DEF recordVars
<1>2. ASSUME NEW d \in Data, AddData(d) PROVE RecordTypeOK' /\ LoopAtWork'
  BY <1>2 DEF AddData
<1>3. ASSUME NEW d \in Data, SendData(d) PROVE RecordTypeOK' /\ LoopAtWork'
  BY <1>3 DEF SendData
<1>4. CASE ReceiveData
  <2>1. Head(archiveCh) \in Data /\ Tail(archiveCh) \in Seq(Data) /\ Len(Tail(archiveCh)) <= ArchiveCap
    BY <1>4 DEF ReceiveData
  <2> QED
    BY <1>4, <2>1 DEF ReceiveData, LockRecord, LockFails
<1>5. CASE PutObject
  BY <1>5 DEF PutObject
<1>6. CASE CopyData
  BY <1>6 DEF CopyData
<1>7. CASE MarkArchivedStatus \/ MarkArchivedPath \/ MarkFailed
  BY <1>7 DEF MarkArchivedStatus, MarkArchivedPath, MarkFailed
<1>8. CASE ReportFailure \/ UnlockArchive \/ ExitLoop
  BY <1>8 DEF ReportFailure, UnlockArchive, ExitLoop
<1> QED
  BY <1>1, <1>2, <1>3, <1>4, <1>5, <1>6, <1>7, <1>8 DEF RecordNext, ArchiveLoop

LEMMA TypeInvStep ==
    TypeInv /\ [Next]_vars => TypeInv'
<1> SUFFICES ASSUME TypeInv, [Next]_vars PROVE TypeInv'
  OBVIOUS
<1>1. AlertTypeOK'
  BY AlertSteps, AlertTypes, TypeParts DEF TypeInv
<1>2. RecordTypeOK' /\ LoopAtWork'
  BY RecordSteps, RecordTypes, TypeParts DEF TypeInv
<1>3. /\ ServerTypeOK'
      /\ storage' \in {"local", "s3", "unset", "closed"}
      /\ archiverUp' \in BOOLEAN
  <2> USE TypeParts DEF TypeInv, ServerTypeOK, serverVars
  <2>1. CASE UNCHANGED vars
    BY <2>1 DEF vars, archiverVars
  <2>2. CASE Requests
    BY <2>2, ArchiverAssumption
    DEF Requests, Call, HandleAdd, AddData, FinishAdd, SendData, HandleAlert, FinishAlert, HandleResolve,
        Answer, Alert, archiverVars
  <2>3. CASE Goroutines
    BY <2>3
    DEF Goroutines, RaiseAlert, SendRaised, Step, Alert, ArchiveLoop, ReceiveData, PutObject, CopyData,
        MarkArchivedStatus, MarkArchivedPath, MarkFailed, ReportFailure, UnlockArchive, ExitLoop
  <2>4. CASE Signal \/ Shutdown
    BY <2>4
    DEF Signal, Shutdown, DeferArchiver, DeferNotifier, DeferStorage, StopArchiver, CloseStorage,
        Alert, MainAt, archiverVars
  <2> QED
    BY <2>1, <2>2, <2>3, <2>4 DEF Next
<1> QED
  BY <1>1, <1>2, <1>3 DEF TypeInv, TypeOK, ArchiverTypeOK, RecordTypeOK

\* Every variable of the server keeps its type, whatever the constants are;
\* in particular no channel of the archiver or the notifier overfills.
THEOREM ServerTypeCorrect == Spec => []TypeOK
<1>1. TypeInv => TypeOK
  BY DEF TypeInv
<1> QED
  BY <1>1, InitTypeInv, TypeInvStep, PTL DEF Spec

-----------------------------------------------------------------------------
(* Alerts: each is in one place on its way to the notification channels.    *)

AlertsOnTheirWay ==
    \A a \in Alerts :
        notified[a] + Queued(alertCh, a) + Count(a \in creating)
            = Count(Enabled /\ alertStatus[a] # "none")

LEMMA AlertsOnTheirWayStep ==
    AlertTypeOK /\ AlertsOnTheirWay /\ [AlertNext]_alertVars => AlertsOnTheirWay'
<1> SUFFICES ASSUME AlertTypeOK, AlertsOnTheirWay, [AlertNext]_alertVars,
                    NEW b \in Alerts
             PROVE  notified'[b] + Queued(alertCh', b) + Count(b \in creating')
                        = Count(Enabled /\ alertStatus'[b] # "none")
  BY DEF AlertsOnTheirWay
<1>0. /\ notified[b] + Queued(alertCh, b) + Count(b \in creating)
            = Count(Enabled /\ alertStatus[b] # "none")
      /\ notified[b] \in Nat /\ Queued(alertCh, b) \in Nat
  BY QueuedNat DEF AlertsOnTheirWay, AlertTypeOK
<1>1. CASE UNCHANGED alertVars
  BY <1>0, <1>1 DEF alertVars
<1>2. ASSUME NEW a \in Alerts, AddAlert(a)
      PROVE  notified'[b] + Queued(alertCh', b) + Count(b \in creating')
                 = Count(Enabled /\ alertStatus'[b] # "none")
  BY <1>0, <1>2 DEF AddAlert, AlertTypeOK, Count
<1>3. ASSUME NEW a \in Alerts, SendAlert(a)
      PROVE  notified'[b] + Queued(alertCh', b) + Count(b \in creating')
                 = Count(Enabled /\ alertStatus'[b] # "none")
  <2>1. Queued(alertCh', b) = Queued(alertCh, b) + Count(a = b)
    BY <1>3, QueuedAppend DEF SendAlert, AlertTypeOK
  <2> QED
    BY <1>0, <1>3, <2>1 DEF SendAlert, AlertTypeOK, Count
<1>4. ASSUME NEW a \in Alerts, ResolveAlert(a)
      PROVE  notified'[b] + Queued(alertCh', b) + Count(b \in creating')
                 = Count(Enabled /\ alertStatus'[b] # "none")
  BY <1>0, <1>4 DEF ResolveAlert, AlertTypeOK, Count
<1>5. CASE ProcessAlert
  <2>1. Queued(alertCh, b) = Queued(alertCh', b) + Count(Head(alertCh) = b)
    BY <1>5, QueuedTail DEF ProcessAlert, AlertTypeOK
  <2>2. alertCh' \in Seq(Alerts) /\ Head(alertCh) \in Alerts
    BY <1>5 DEF ProcessAlert, AlertTypeOK
  <2>3. Queued(alertCh', b) \in Nat
    BY <2>2, QueuedNat
  <2>4. CASE Head(alertCh) = b
    BY <1>0, <1>5, <2>1, <2>2, <2>3, <2>4 DEF ProcessAlert, AlertTypeOK, Count
  <2>5. CASE Head(alertCh) # b
    BY <1>0, <1>5, <2>1, <2>2, <2>3, <2>5 DEF ProcessAlert, AlertTypeOK, Count
  <2> QED
    BY <2>4, <2>5
<1>6. CASE StopNotifier \/ ExitNotifier
  BY <1>0, <1>6 DEF StopNotifier, ExitNotifier
<1> QED
  BY <1>1, <1>2, <1>3, <1>4, <1>5, <1>6 DEF AlertNext

-----------------------------------------------------------------------------
(* Records: each is in one place from AddData to its decision.              *)

\* What the archive loop has established for the record at hand.
LoopKnows ==
    /\ apc = "status" => objects[aitem] = "whole"
    /\ apc = "alert" => archiveStatus[aitem] = "failed"

RecordInv == RecordsAccounted /\ ArchivedIsStored /\ LoopKnows

InLoop(d) == Count(aitem = d /\ apc \in {"put", "copy", "status", "fail", "panicked"})

LEMMA RecordsAccountedStep ==
    RecordTypeOK /\ LoopAtWork /\ RecordsAccounted /\ [RecordNext]_recordVars => RecordsAccounted'
<1> DEFINE Total(e) ==
        Count(e \in adding) + Queued(archiveCh, e) + InLoop(e) + Count(e \in givenUp)
          + Count(archiveStatus[e] \in {"archived", "failed"})
<1> SUFFICES ASSUME RecordTypeOK, LoopAtWork, RecordsAccounted, [RecordNext]_recordVars,
                    NEW e \in Data
             PROVE  Count(archiveStatus'[e] # "none") = Total(e)'
  BY DEF RecordsAccounted, InLoop
<1>0. /\ Count(archiveStatus[e] # "none") = Total(e)
      /\ Queued(archiveCh, e) \in Nat
      /\ archiveStatus[e] \in {"none", "pending", "archived", "failed"}
  BY QueuedNat DEF RecordsAccounted, RecordTypeOK, InLoop
<1> USE <1>0 DEF InLoop, RecordTypeOK, dataVars, loopVars
<1>1. CASE UNCHANGED recordVars
  BY <1>1 DEF recordVars
<1>2. ASSUME NEW d \in Data, AddData(d) PROVE Count(archiveStatus'[e] # "none") = Total(e)'
  BY <1>2 DEF AddData, Count
<1>3. ASSUME NEW d \in Data, SendData(d) PROVE Count(archiveStatus'[e] # "none") = Total(e)'
  <2>1. Queued(archiveCh', e) = Queued(archiveCh, e) + Count(d = e)
    BY <1>3, QueuedAppend DEF SendData
  <2> QED
    BY <1>3, <2>1 DEF SendData, Count
<1>4. CASE ReceiveData
  <2>1. Queued(archiveCh, e) = Queued(archiveCh', e) + Count(Head(archiveCh) = e)
    BY <1>4, QueuedTail DEF ReceiveData
  <2>2. Queued(archiveCh', e) \in Nat
    <3>1. archiveCh' \in Seq(Data)
      BY <1>4 DEF ReceiveData
    <3> QED
      BY <3>1, QueuedNat
  <2>3. CASE LockRecord(Head(archiveCh))
    BY <1>4, <2>1, <2>2, <2>3, ArchiverAssumption DEF ReceiveData, LockRecord, LoopAtWork, Count
  <2>4. CASE LockFails(Head(archiveCh))
    BY <1>4, <2>1, <2>2, <2>4 DEF ReceiveData, LockFails, Count
  <2> QED
    BY <1>4, <2>3, <2>4 DEF ReceiveData
<1>5. CASE PutObject
  BY <1>5 DEF PutObject, Count
<1>6. CASE CopyData
  BY <1>6 DEF CopyData, Count
<1>7. CASE MarkArchivedStatus \/ MarkFailed
  BY <1>7 DEF MarkArchivedStatus, MarkFailed, LoopAtWork, Count
<1>8. CASE MarkArchivedPath
  BY <1>8 DEF MarkArchivedPath, Count
<1>9. CASE ReportFailure \/ UnlockArchive \/ ExitLoop
  BY <1>9, ArchiverAssumption DEF ReportFailure, UnlockArchive, ExitLoop, Count
<1> QED
  BY <1>1, <1>2, <1>3, <1>4, <1>5, <1>6, <1>7, <1>8, <1>9 DEF RecordNext, ArchiveLoop

\* The loop never works on a record that was decided already.
LEMMA LoopWorksOnPending ==
    ASSUME RecordTypeOK, LoopAtWork, RecordsAccounted
    PROVE  apc \in {"put", "copy", "status", "fail"} => archiveStatus[aitem] = "pending"
<1> SUFFICES ASSUME apc \in {"put", "copy", "status", "fail"}
             PROVE  archiveStatus[aitem] = "pending"
  OBVIOUS
<1>1. aitem \in Data
  BY DEF LoopAtWork
<1>2. Queued(archiveCh, aitem) \in Nat
  BY QueuedNat DEF RecordTypeOK
<1> QED
  BY <1>1, <1>2 DEF RecordsAccounted, RecordTypeOK, Count

LEMMA RecordInvStep ==
    RecordTypeOK /\ LoopAtWork /\ RecordInv /\ [RecordNext]_recordVars => RecordInv'
<1> SUFFICES ASSUME RecordTypeOK, LoopAtWork, RecordInv, [RecordNext]_recordVars
             PROVE  ArchivedIsStored' /\ LoopKnows'
  BY RecordsAccountedStep DEF RecordInv
<1>0. apc \in {"put", "copy", "status", "fail"} => archiveStatus[aitem] = "pending"
  BY LoopWorksOnPending DEF RecordInv
<1> USE <1>0 DEF RecordInv, ArchivedIsStored, LoopKnows, RecordTypeOK, dataVars, loopVars
<1>1. CASE UNCHANGED recordVars
  BY <1>1 DEF recordVars
<1>2. ASSUME NEW d \in Data, AddData(d) PROVE ArchivedIsStored' /\ LoopKnows'
  BY <1>2 DEF AddData, LoopAtWork
<1>3. ASSUME NEW d \in Data, SendData(d) PROVE ArchivedIsStored' /\ LoopKnows'
  BY <1>3 DEF SendData
<1>4. CASE ReceiveData
  BY <1>4 DEF ReceiveData, LockRecord, LockFails
<1>5. CASE PutObject
  BY <1>5 DEF PutObject, LoopAtWork
<1>6. CASE CopyData
  BY <1>6 DEF CopyData, LoopAtWork
<1>7. CASE MarkArchivedStatus
  BY <1>7 DEF MarkArchivedStatus, LoopAtWork
<1>8. CASE MarkArchivedPath
  BY <1>8 DEF MarkArchivedPath, LoopAtWork
<1>9. CASE MarkFailed
  BY <1>9 DEF MarkFailed, LoopAtWork
<1>10. CASE ReportFailure \/ UnlockArchive \/ ExitLoop
  BY <1>10 DEF ReportFailure, UnlockArchive, ExitLoop
<1> QED
  BY <1>1, <1>2, <1>3, <1>4, <1>5, <1>6, <1>7, <1>8, <1>9, <1>10 DEF RecordNext, ArchiveLoop

\* Whatever the loop is not at work on, and has not decided, is as AddData left it.
Untouched ==
    /\ apc \in {"path", "alert", "unlock"} => archiveStatus[aitem] \in {"archived", "failed"}
    /\ \A d \in Data :
          archiveStatus[d] \in {"none", "pending"} /\ aitem # d =>
              objects[d] = "none" /\ filePath[d] = NoPath

LEMMA UntouchedStep ==
    RecordTypeOK /\ LoopAtWork /\ RecordInv /\ Untouched /\ [RecordNext]_recordVars => Untouched'
<1> SUFFICES ASSUME RecordTypeOK, LoopAtWork, RecordInv, Untouched, [RecordNext]_recordVars
             PROVE  Untouched'
  OBVIOUS
<1>0. apc \in {"put", "copy", "status", "fail"} => archiveStatus[aitem] = "pending"
  BY LoopWorksOnPending DEF RecordInv
<1>1. CASE UNCHANGED recordVars
  BY <1>1 DEF recordVars, Untouched, dataVars, loopVars
<1>2. ASSUME NEW d \in Data, AddData(d) PROVE Untouched'
  <2>1. /\ archiveStatus' = [archiveStatus EXCEPT ![d] = "pending"] /\ archiveStatus[d] = "none"
        /\ UNCHANGED <<filePath, objects, apc, aitem>>
    BY <1>2 DEF AddData, loopVars
  <2> QED
    BY <2>1 DEF Untouched, LoopAtWork, RecordTypeOK
<1>3. ASSUME NEW d \in Data, SendData(d) PROVE Untouched'
  BY <1>3 DEF SendData, dataVars, loopVars, Untouched
<1>4. CASE ReceiveData
  BY <1>4, ArchiverAssumption
     DEF ReceiveData, LockRecord, LockFails, dataVars, loopVars, Untouched, LoopAtWork
<1>5. CASE PutObject \/ CopyData
  BY <1>0, <1>5 DEF PutObject, CopyData, dataVars, Untouched, LoopAtWork, RecordTypeOK
<1>6. CASE MarkArchivedStatus \/ MarkFailed
  BY <1>0, <1>6 DEF MarkArchivedStatus, MarkFailed, Untouched, LoopAtWork, RecordTypeOK
<1>7. CASE MarkArchivedPath \/ ReportFailure
  BY <1>7 DEF MarkArchivedPath, ReportFailure, dataVars, Untouched, LoopAtWork, RecordTypeOK
<1>8. CASE UnlockArchive \/ ExitLoop
  BY <1>8 DEF UnlockArchive, ExitLoop, dataVars, Untouched, LoopAtWork
<1> QED
  BY <1>1, <1>2, <1>3, <1>4, <1>5, <1>6, <1>7, <1>8 DEF RecordNext, ArchiveLoop

-----------------------------------------------------------------------------
(* The alerts of failed records, between the two components.                *)

FailuresReported ==
    \A d \in Data :
        alertStatus[d] # "none" <=>
            archiveStatus[d] = "failed" /\ ~(apc = "alert" /\ aitem = d)

LEMMA FailuresReportedStep ==
    TypeInv /\ RecordInv /\ FailuresReported /\ [Next]_vars => FailuresReported'
<1> SUFFICES ASSUME TypeInv, RecordInv, FailuresReported, [Next]_vars, NEW d \in Data
             PROVE  alertStatus'[d] # "none" <=>
                        archiveStatus'[d] = "failed" /\ ~(apc' = "alert" /\ aitem' = d)
  BY DEF FailuresReported
<1>0. /\ alertStatus[d] # "none" <=>
            archiveStatus[d] = "failed" /\ ~(apc = "alert" /\ aitem = d)
      /\ alertStatus \in [Alerts -> {"none", "active", "resolved"}]
      /\ archiveStatus \in [Data -> {"none", "pending", "archived", "failed"}]
      /\ d \in Alerts /\ d \notin OtherAlerts
  BY TypeParts, ArchiverAssumption DEF FailuresReported, TypeInv, AlertTypeOK, RecordTypeOK
<1>1. apc \in {"put", "copy", "status", "fail"} => archiveStatus[aitem] = "pending"
  BY LoopWorksOnPending, TypeParts DEF TypeInv, RecordInv
<1>2. LoopAtWork /\ LoopKnows
  BY DEF TypeInv, RecordInv
<1> USE <1>0 DEF alertVars, dataVars, loopVars
<1>3. CASE UNCHANGED vars
  BY <1>3 DEF vars, archiverVars
<1>4. CASE Requests
  BY <1>4
  DEF Requests, Call, HandleAdd, AddData, FinishAdd, SendData, HandleAlert, AddAlert, FinishAlert,
      SendAlert, HandleResolve, ResolveAlert, Alert, archiverVars
<1>5. CASE Goroutines
  <2>1. CASE Step(ArchiveLoop)
    <3>1. CASE ReceiveData
      BY <3>1 DEF ReceiveData, LockRecord, LockFails
    <3>2. CASE PutObject \/ CopyData \/ MarkArchivedPath \/ UnlockArchive \/ ExitLoop
      BY <3>2 DEF PutObject, CopyData, MarkArchivedPath, UnlockArchive, ExitLoop
    <3>3. CASE MarkArchivedStatus
      BY <1>1, <1>2, <3>3 DEF MarkArchivedStatus, LoopAtWork
    <3>4. CASE MarkFailed
      BY <1>1, <1>2, <3>4 DEF MarkFailed, LoopAtWork
    <3>5. CASE ReportFailure
      BY <1>2, <3>5 DEF ReportFailure, AddAlert, LoopAtWork, LoopKnows
    <3> QED
      BY <2>1, <3>1, <3>2, <3>3, <3>4, <3>5 DEF Step, ArchiveLoop
  <2>2. CASE \E a \in OtherAlerts : RaiseAlert(a)
    BY <2>2 DEF RaiseAlert, Alert, AddAlert
  <2>3. CASE \E a \in Alerts : SendRaised(a)
    BY <2>3 DEF SendRaised, Alert, SendAlert
  <2>4. CASE Step(Alert(ProcessAlert)) \/ Step(Alert(ExitNotifier))
    BY <2>4 DEF Step, Alert, ProcessAlert, ExitNotifier
  <2> QED
    BY <1>5, <2>1, <2>2, <2>3, <2>4 DEF Goroutines
<1>6. CASE Signal \/ Shutdown
  BY <1>6
  DEF Signal, Shutdown, DeferArchiver, DeferNotifier, DeferStorage, StopArchiver, CloseStorage,
      StopNotifier, Alert, archiverVars
<1> QED
  BY <1>3, <1>4, <1>5, <1>6 DEF Next

ArchiverInv == TypeInv /\ AlertsOnTheirWay /\ RecordInv /\ FailuresReported

LEMMA ArchiverInvInit == Init => ArchiverInv
<1> SUFFICES ASSUME Init PROVE ArchiverInv
  OBVIOUS
<1>1. TypeInv
  BY InitTypeInv
<1>2. /\ \A a \in Alerts : Queued(alertCh, a) = 0
      /\ \A d \in Data : Queued(archiveCh, d) = 0
  BY QueuedEmpty DEF Init, ArchiverInit, AlertInit
<1>3. AlertsOnTheirWay
  <2> SUFFICES ASSUME NEW a \in Alerts
               PROVE  notified[a] + Queued(alertCh, a) + Count(a \in creating)
                          = Count(Enabled /\ alertStatus[a] # "none")
    BY DEF AlertsOnTheirWay
  <2>1. notified[a] = 0 /\ a \notin creating /\ alertStatus[a] = "none"
    BY DEF Init, ArchiverInit, AlertInit
  <2>2. Queued(alertCh, a) = 0
    BY <1>2
  <2> QED
    BY <2>1, <2>2 DEF Count
<1>4. RecordInv
  <2>1. ArchivedIsStored /\ LoopKnows
    BY DEF ArchivedIsStored, LoopKnows, Init, ArchiverInit
  <2>2. RecordsAccounted
    <3> SUFFICES ASSUME NEW d \in Data
                 PROVE  Count(archiveStatus[d] # "none") =
                            Count(d \in adding) + Queued(archiveCh, d) + InLoop(d)
                              + Count(d \in givenUp) + Count(archiveStatus[d] \in {"archived", "failed"})
      BY DEF RecordsAccounted, InLoop
    <3>1. archiveStatus[d] = "none" /\ d \notin adding /\ d \notin givenUp /\ apc = "idle"
      BY DEF Init, ArchiverInit
    <3>2. Queued(archiveCh, d) = 0
      BY <1>2
    <3> QED
      BY <3>1, <3>2 DEF InLoop, Count
  <2> QED
    BY <2>1, <2>2 DEF RecordInv
<1>5. FailuresReported
  BY ArchiverAssumption DEF FailuresReported, Init, ArchiverInit, AlertInit
<1> QED
  BY <1>1, <1>3, <1>4, <1>5 DEF ArchiverInv

LEMMA ArchiverInvStep == ArchiverInv /\ [Next]_vars => ArchiverInv'
<1> SUFFICES ASSUME ArchiverInv, [Next]_vars PROVE ArchiverInv'
  OBVIOUS
<1>1. TypeInv /\ AlertTypeOK /\ RecordTypeOK /\ LoopAtWork
  BY TypeParts DEF ArchiverInv, TypeInv
<1>2. TypeInv'
  BY <1>1, TypeInvStep
<1>3. AlertsOnTheirWay'
  BY <1>1, AlertSteps, AlertsOnTheirWayStep DEF ArchiverInv
<1>4. RecordInv'
  BY <1>1, RecordSteps, RecordInvStep DEF ArchiverInv
<1>5. FailuresReported'
  BY <1>1, FailuresReportedStep DEF ArchiverInv
<1> QED
  BY <1>2, <1>3, <1>4, <1>5 DEF ArchiverInv

LEMMA ArchiverInvariant == Spec => []ArchiverInv
BY ArchiverInvInit, ArchiverInvStep, PTL DEF Spec

\* A record is marked as archived only while its whole object is stored, and
\* an archived record has its path as soon as MarkArchived is through.
THEOREM ArchivedAlwaysStored == Spec => []ArchivedIsStored
<1>1. ArchiverInv => ArchivedIsStored
  BY DEF ArchiverInv, RecordInv
<1> QED
  BY <1>1, ArchiverInvariant, PTL

\* No record is lost or worked on twice between AddData and its decision.
THEOREM RecordsNeverLost == Spec => []RecordsAccounted
<1>1. ArchiverInv => RecordsAccounted
  BY DEF ArchiverInv, RecordInv
<1> QED
  BY <1>1, ArchiverInvariant, PTL

\* A failing TryLock costs a record its archiving and nothing else: it stays as
\* AddData stored it, whatever the loop does afterwards.
THEOREM GivenUpLeftAlone == Spec => []GivenUpUntouched
<1>1. Init => Untouched
  BY DEF Init, ArchiverInit, Untouched
<1>2. ArchiverInv /\ Untouched /\ [Next]_vars => Untouched'
  BY TypeParts, RecordSteps, UntouchedStep DEF ArchiverInv, TypeInv
<1>3. ArchiverInv /\ Untouched => GivenUpUntouched
  <2> SUFFICES ASSUME ArchiverInv, Untouched, NEW d \in givenUp
               PROVE  /\ archiveStatus[d] = "pending" /\ filePath[d] = NoPath
                      /\ objects[d] = "none"
                      /\ alertStatus[d] = "none"
                      /\ aitem # d
    BY DEF GivenUpUntouched
  <2>1. RecordTypeOK /\ LoopAtWork /\ RecordsAccounted /\ FailuresReported
    BY TypeParts DEF ArchiverInv, TypeInv, RecordInv
  <2>2. d \in Data /\ Queued(archiveCh, d) \in Nat
    BY <2>1, QueuedNat DEF RecordTypeOK
  <2>3. /\ archiveStatus[d] = "pending"
        /\ ~(aitem = d /\ apc \in {"put", "copy", "status", "fail", "panicked"})
    BY <2>1, <2>2 DEF RecordsAccounted, RecordTypeOK, Count
  <2>4. aitem # d
    BY <2>1, <2>2, <2>3, ArchiverAssumption DEF RecordTypeOK, LoopAtWork, Untouched
  <2> QED
    BY <2>1, <2>2, <2>3, <2>4 DEF Untouched, FailuresReported
<1> QED
  BY <1>1, <1>2, <1>3, ArchiverInvariant, PTL DEF Spec

\* No alert is lost or sent twice, and every failed record raises one.
THEOREM AlertsNeverLost == Spec => []AlertsAccounted
<1>1. ArchiverInv => AlertsAccounted
  BY DEF ArchiverInv, AlertsOnTheirWay, FailuresReported, AlertsAccounted
<1> QED
  BY <1>1, ArchiverInvariant, PTL

-----------------------------------------------------------------------------
(* Requests and shutdown.                                                   *)

\* Whoever is about to send is the handler of a request without an answer, or
\* a goroutine of the server that nobody asked.
SendersWait ==
    /\ \A d \in adding : call[d] = "sent"
    /\ \A a \in creating \cap OtherAlerts : call[a] # "created"

\* How far main has come is to be seen in what it stopped.
MainStopped ==
    /\ archiverUp <=> main \in {"serving", "draining"}
    /\ notifier = "up" <=> main \in {"serving", "draining", "archiver"}
    /\ storage = "closed" => main = "storage"
    /\ ~archiverUp /\ ~timedOut => Drained

ServerInv == SendersWait /\ AnswersHonest /\ MainStopped

\* Whoever waits at a channel has its record or alert in the store.
LEMMA SendersStored ==
    ASSUME ArchiverInv
    PROVE  /\ \A d \in adding : archiveStatus[d] # "none"
           /\ \A a \in creating : alertStatus[a] # "none" /\ Enabled
<1>1. ASSUME NEW d \in adding PROVE archiveStatus[d] # "none"
  <2>1. d \in Data /\ Queued(archiveCh, d) \in Nat
    BY QueuedNat, TypeParts DEF ArchiverInv, TypeInv, RecordTypeOK
  <2> QED
    BY <2>1 DEF ArchiverInv, RecordInv, RecordsAccounted, Count
<1>2. ASSUME NEW a \in creating PROVE alertStatus[a] # "none" /\ Enabled
  <2>1. a \in Alerts /\ Queued(alertCh, a) \in Nat /\ notified[a] \in Nat
    BY QueuedNat, TypeParts DEF ArchiverInv, TypeInv, AlertTypeOK
  <2> QED
    BY <2>1, AlertAssumption DEF ArchiverInv, AlertsOnTheirWay, Count
<1> QED
  BY <1>1, <1>2

LEMMA ServerInvInit == Init => ServerInv
BY ArchiverAssumption
DEF Init, ArchiverInit, AlertInit, ServerInv, SendersWait, AnswersHonest, MainStopped

LEMMA SendersWaitStep ==
    ArchiverInv /\ ServerInv /\ [Next]_vars => SendersWait' /\ AnswersHonest'
<1> SUFFICES ASSUME ArchiverInv, ServerInv, [Next]_vars PROVE SendersWait' /\ AnswersHonest'
  OBVIOUS
<1>0. /\ Alerts = Data \cup OtherAlerts /\ Data \cap OtherAlerts = {}
      /\ alertStatus \in [Alerts -> {"none", "active", "resolved"}]
      /\ creating \subseteq Alerts
      /\ archiveStatus \in [Data -> {"none", "pending", "archived", "failed"}]
      /\ adding \subseteq Data
      /\ call \in [Alerts -> {"none", "sent", "created"}]
      /\ LoopAtWork
  BY TypeParts, ArchiverAssumption
  DEF ArchiverInv, TypeInv, AlertTypeOK, RecordTypeOK, ServerTypeOK
<1>1. /\ \A d \in adding : archiveStatus[d] # "none"
      /\ \A a \in creating : alertStatus[a] # "none" /\ Enabled
  BY SendersStored
<1> USE <1>0 DEF ServerInv, SendersWait, AnswersHonest, alertVars, dataVars, loopVars, serverVars
<1>2. CASE UNCHANGED vars
  BY <1>2 DEF vars, archiverVars
<1>3. ASSUME NEW x \in Alerts, Call(x) PROVE SendersWait' /\ AnswersHonest'
  BY <1>3, <1>1 DEF Call, archiverVars
<1>4. ASSUME NEW d \in Data, HandleAdd(d) PROVE SendersWait' /\ AnswersHonest'
  BY <1>4 DEF HandleAdd, Unhandled, AddData
<1>5. ASSUME NEW d \in Data, FinishAdd(d) PROVE SendersWait' /\ AnswersHonest'
  BY <1>5, <1>1 DEF FinishAdd, SendData, Answer
<1>6. ASSUME NEW a \in OtherAlerts, HandleAlert(a) PROVE SendersWait' /\ AnswersHonest'
  BY <1>6, <1>1, AlertAssumption DEF HandleAlert, Unhandled, Alert, AddAlert, Answer
<1>7. ASSUME NEW a \in OtherAlerts, FinishAlert(a) PROVE SendersWait' /\ AnswersHonest'
  BY <1>7, <1>1 DEF FinishAlert, Alert, SendAlert, Answer
<1>8. ASSUME NEW a \in OtherAlerts, HandleResolve(a) PROVE SendersWait' /\ AnswersHonest'
  BY <1>8 DEF HandleResolve, Alert, ResolveAlert
<1>9. ASSUME NEW a \in OtherAlerts, RaiseAlert(a) PROVE SendersWait' /\ AnswersHonest'
  BY <1>9 DEF RaiseAlert, Alert, AddAlert
<1>10. ASSUME NEW a \in Alerts, SendRaised(a) PROVE SendersWait' /\ AnswersHonest'
  BY <1>10 DEF SendRaised, Alert, SendAlert
<1>11. CASE Step(ArchiveLoop)
  <2>1. UNCHANGED <<call, adding>>
    BY <1>11
    DEF Step, ArchiveLoop, ReceiveData, PutObject, CopyData, MarkArchivedStatus, MarkArchivedPath,
        MarkFailed, ReportFailure, UnlockArchive, ExitLoop
  <2>2. \A d \in Data : archiveStatus[d] # "none" => archiveStatus'[d] # "none"
    BY <1>11
    DEF Step, ArchiveLoop, ReceiveData, PutObject, CopyData, MarkArchivedStatus, MarkArchivedPath,
        MarkFailed, ReportFailure, UnlockArchive, ExitLoop
  <2>3. \A a \in OtherAlerts : alertStatus'[a] = alertStatus[a] /\ (a \in creating' <=> a \in creating)
    BY <1>11
    DEF Step, ArchiveLoop, ReceiveData, PutObject, CopyData, MarkArchivedStatus, MarkArchivedPath,
        MarkFailed, ReportFailure, UnlockArchive, ExitLoop, AddAlert, LoopAtWork
  <2> QED
    BY <2>1, <2>2, <2>3
<1>12. CASE Step(Alert(ProcessAlert)) \/ Step(Alert(ExitNotifier))
  BY <1>12 DEF Step, Alert, ProcessAlert, ExitNotifier
<1>13. CASE Signal \/ Shutdown
  BY <1>13
  DEF Signal, Shutdown, DeferArchiver, DeferNotifier, DeferStorage, StopArchiver, CloseStorage,
      StopNotifier, Alert, archiverVars
<1> QED
  BY <1>2, <1>3, <1>4, <1>5, <1>6, <1>7, <1>8, <1>9, <1>10, <1>11, <1>12, <1>13
  DEF Next, Requests, Goroutines

LEMMA MainStoppedStep ==
    ArchiverInv /\ ServerInv /\ [Next]_vars => MainStopped'
<1> SUFFICES ASSUME ArchiverInv, ServerInv, [Next]_vars PROVE MainStopped'
  OBVIOUS
<1>0. /\ ServerTypeOK
      /\ storage \in {"local", "s3", "unset", "closed"}
      /\ archiverUp \in BOOLEAN
  BY TypeParts DEF ArchiverInv, TypeInv
<1> USE <1>0 DEF ServerInv, MainStopped, Drained, ServerTypeOK, serverVars
<1>1. CASE UNCHANGED vars
  BY <1>1 DEF vars, archiverVars, alertVars
<1>2. CASE Requests
  BY <1>2
  DEF Requests, Call, HandleAdd, AddData, FinishAdd, SendData, HandleAlert, AddAlert, FinishAlert,
      SendAlert, HandleResolve, ResolveAlert, Answer, Alert, archiverVars, alertVars
<1>3. CASE Goroutines
  <2>1. CASE Step(ArchiveLoop)
    BY <2>1
    DEF Step, ArchiveLoop, ReceiveData, PutObject, CopyData, MarkArchivedStatus, MarkArchivedPath,
        MarkFailed, ReportFailure, AddAlert, UnlockArchive, ExitLoop, alertVars
  <2>2. CASE ~Step(ArchiveLoop)
    BY <1>3, <2>2
    DEF Goroutines, RaiseAlert, AddAlert, SendRaised, SendAlert, Step, Alert, ProcessAlert, ExitNotifier
  <2> QED
    BY <2>1, <2>2
<1>4. CASE Signal
  BY <1>4 DEF Signal, MainAt, archiverVars, alertVars
<1>5. CASE DeferArchiver
  BY <1>5 DEF DeferArchiver, MainAt, StopArchiver, alertVars
<1>6. CASE DeferNotifier
  BY <1>6 DEF DeferNotifier, MainAt, StopNotifier, Alert
<1>7. CASE DeferStorage
  BY <1>7 DEF DeferStorage, MainAt, CloseStorage, alertVars
<1> QED
  BY <1>1, <1>2, <1>3, <1>4, <1>5, <1>6, <1>7 DEF Next, Shutdown

LEMMA ServerInvariant == Spec => [](ArchiverInv /\ ServerInv)
<1>1. ArchiverInv /\ ServerInv /\ [Next]_vars => (ArchiverInv /\ ServerInv)'
  BY ArchiverInvStep, SendersWaitStep, MainStoppedStep DEF ServerInv
<1> QED
  BY <1>1, ArchiverInvInit, ServerInvInit, PTL DEF Spec

\* A 201 is the truth: what was answered is stored and on its way.
THEOREM AnswersAlwaysHonest == Spec => []AnswersHonest
<1>1. ArchiverInv /\ ServerInv => AnswersHonest
  BY DEF ServerInv
<1> QED
  BY <1>1, ServerInvariant, PTL

\* With a storage, an archive call that panics meets a closed client.
StorageThere == storage # "unset" /\ (apc = "panicked" => storage = "closed")

LEMMA StorageThereStep ==
    ArchiverInv /\ StorageThere /\ [Next]_vars => StorageThere'
<1> SUFFICES ASSUME ArchiverInv, StorageThere, [Next]_vars PROVE StorageThere'
  OBVIOUS
<1>0. storage \in {"local", "s3", "closed"}
  BY TypeParts DEF ArchiverInv, TypeInv, StorageThere
<1> USE <1>0 DEF StorageThere, loopVars
<1>1. CASE UNCHANGED vars
  BY <1>1 DEF vars, archiverVars
<1>2. CASE Requests
  BY <1>2
  DEF Requests, Call, HandleAdd, AddData, FinishAdd, SendData, HandleAlert, FinishAlert, HandleResolve,
      Alert, archiverVars
<1>3. CASE Goroutines
  BY <1>3
  DEF Goroutines, RaiseAlert, SendRaised, Step, Alert, ArchiveLoop, ReceiveData, LockRecord, LockFails,
      PutObject, CopyData, MarkArchivedStatus, MarkArchivedPath, MarkFailed, ReportFailure, UnlockArchive,
      ExitLoop
<1>4. CASE Signal \/ Shutdown
  BY <1>4
  DEF Signal, Shutdown, DeferArchiver, DeferNotifier, DeferStorage, StopArchiver, CloseStorage,
      Alert, archiverVars
<1> QED
  BY <1>1, <1>2, <1>3, <1>4 DEF Next

\* With a storage that is configured, main stops everything in an order in
\* which nobody who still has to send is cut off, but for the timeout.
THEOREM ShutdownAlwaysClean ==
    ASSUME "unset" \notin Backends
    PROVE  Spec => []CleanShutdown
<1>1. Init => StorageThere
  BY DEF Init, ArchiverInit, StorageThere
<1>2. Spec => []StorageThere
  BY <1>1, ArchiverInvariant, StorageThereStep, PTL DEF Spec
<1>3. ArchiverInv /\ ServerInv /\ StorageThere => CleanShutdown
  <2> SUFFICES ASSUME ArchiverInv, ServerInv, StorageThere PROVE CleanShutdown
    OBVIOUS
  <2>1. creating \subseteq Alerts /\ adding \subseteq Data /\ Data \subseteq Alerts /\ ServerTypeOK
    BY TypeParts, ArchiverAssumption DEF ArchiverInv, TypeInv, AlertTypeOK, RecordTypeOK
  <2>2. ~archiverUp /\ ~timedOut =>
            adding = {} /\ \A a \in creating \cap OtherAlerts : call[a] = "none"
    BY <2>1 DEF ServerInv, SendersWait, MainStopped, Drained, ServerTypeOK
  <2>3. storage = "closed" \/ apc = "panicked" => ~archiverUp /\ notifier # "up"
    BY DEF StorageThere, ServerInv, MainStopped
  <2> QED
    BY <2>2, <2>3 DEF CleanShutdown
<1> QED
  BY <1>2, <1>3, ServerInvariant, PTL

=============================================================================
