------------------------------ MODULE Archiver ------------------------------
(***************************************************************************)
(* The archiver of internal/archiver with the alert manager and the object *)
(* storage it calls: AddData stores a record and queues its ID, and one    *)
(* archiveLoop copies it to the storage and marks it.  GetData returns a   *)
(* pointer to the record, so a reader may see it between the two fields    *)
(* that MarkArchived writes one after the other.                           *)
(*                                                                         *)
(* An object key holds the record's ID and never changes: the key of d is  *)
(* d itself here, and NoPath is the empty FilePath.                        *)
(***************************************************************************)
EXTENDS AlertManager

CONSTANTS
    Data,         \* records, one for each POST /data, each with a fresh ID
    OtherAlerts,  \* alerts of POST /alerts, the scheduler and the node manager
    NoData,
    NoPath,
    ArchiveCap,   \* capacity of archiveCh
    Backends      \* the kinds of storage a configuration may ask for

ASSUME ArchiverAssumption ==
    /\ Alerts = Data \cup OtherAlerts
    /\ Data \cap OtherAlerts = {}
    /\ NoData \notin Data
    /\ NoPath \notin Data
    /\ ArchiveCap \in Nat \ {0}
    /\ Backends \subseteq {"local", "s3", "unset"}

VARIABLES
    archiveStatus, \* ObservationData.ArchiveStatus, "none" if not in the store
    filePath,      \* ObservationData.FilePath
    adding,        \* records whose AddData is about to send
    archiveCh,     \* the channel
    apc, aitem,    \* archiveLoop: its place in processArchive and its record
    keys,          \* keys "archive:data:<id>" that are locked
    storage,       \* the object storage; "unset" is S3 without an endpoint
    objects,       \* what the object of each record holds
    archiverUp,    \* the archiver's context is not cancelled
    givenUp        \* records whose TryLock failed, which only logs

dataVars == <<archiveStatus, filePath>>
loopVars == <<apc, aitem, keys>>
archiverVars == <<alertVars, dataVars, loopVars, adding, archiveCh, storage, objects, archiverUp, givenUp>>

ArchiverTypeOK ==
    /\ AlertTypeOK
    /\ archiveStatus \in [Data -> {"none", "pending", "archived", "failed"}]
    /\ filePath \in [Data -> Data \cup {NoPath}]
    /\ adding \subseteq Data
    /\ archiveCh \in Seq(Data)
    /\ Len(archiveCh) <= ArchiveCap
    /\ apc \in {"idle", "put", "copy", "status", "path", "fail", "alert", "unlock", "exited", "panicked"}
    /\ aitem \in Data \cup {NoData}
    /\ keys \subseteq Data
    /\ storage \in {"local", "s3", "unset", "closed"}
    /\ objects \in [Data -> {"none", "partial", "whole"}]
    /\ archiverUp \in BOOLEAN
    /\ givenUp \subseteq Data

ArchiverInit ==
    /\ AlertInit
    /\ archiveStatus = [d \in Data |-> "none"]
    /\ filePath = [d \in Data |-> NoPath]
    /\ adding = {}
    /\ archiveCh = <<>>
    /\ apc = "idle" /\ aitem = NoData
    /\ keys = {}
    /\ storage \in Backends
    /\ objects = [d \in Data |-> "none"]
    /\ archiverUp = TRUE
    /\ givenUp = {}

-----------------------------------------------------------------------------
(* AddData.                                                                 *)

AddData(d) ==
    /\ archiveStatus[d] = "none"
    /\ archiveStatus' = [archiveStatus EXCEPT ![d] = "pending"]
    /\ adding' = adding \cup {d}
    /\ UNCHANGED <<alertVars, loopVars, filePath, archiveCh, storage, objects, archiverUp, givenUp>>

\* Mutant: a full channel drops the record.
SendData_NonBlocking(d) ==
    /\ d \in adding
    /\ archiveCh' = IF Len(archiveCh) < ArchiveCap THEN Append(archiveCh, d) ELSE archiveCh
    /\ adding' = adding \ {d}
    /\ UNCHANGED <<alertVars, dataVars, loopVars, storage, objects, archiverUp, givenUp>>

\* The send blocks while the channel is full, with no way out for the request.
SendData(d) ==
    /\ d \in adding
    /\ Len(archiveCh) < ArchiveCap
    /\ archiveCh' = Append(archiveCh, d)
    /\ adding' = adding \ {d}
    /\ UNCHANGED <<alertVars, dataVars, loopVars, storage, objects, archiverUp, givenUp>>

\* What GetPresignedURL makes of a record: nothing before it is archived.  A local
\* storage has no URLs, the S3 client refuses an empty object name, and without a
\* client the call panics, which ends the request.
GetPresignedURL(d) ==
    IF archiveStatus[d] = "archived" /\ storage = "local" THEN "none"
    ELSE IF archiveStatus[d] = "archived" /\ storage = "s3" /\ filePath[d] # NoPath THEN "url"
    ELSE "refused"

\* The place that the handler of a download names in an answer of 200: the path
\* the URL was made for, or the path itself where there are no URLs.  Status and
\* path are read through the pointer, without the store's lock.
DownloadData(d) == IF GetPresignedURL(d) = "refused" THEN NoData ELSE filePath[d]

-----------------------------------------------------------------------------
(* The archive loop.                                                        *)

\* Mutant: an error of the lock is logged and archiving goes on without it.
LockFails_GoesOn(d) ==
    /\ givenUp' = givenUp \cup {d}
    /\ apc' = "put" /\ aitem' = d
    /\ UNCHANGED keys

\* A lock that fails, or a key that is taken, makes the loop forget the record.
LockFails(d) ==
    /\ givenUp' = givenUp \cup {d}
    /\ UNCHANGED loopVars

\* Over a record that is archived already the loop passes.
LockRecord(d) ==
    /\ d \notin keys
    /\ keys' = keys \cup {d}
    /\ apc' = IF archiveStatus[d] = "archived" THEN "unlock" ELSE "put"
    /\ aitem' = d
    /\ UNCHANGED givenUp

\* Mutant: a lock that fails ends the loop.
ReceiveData_EndsOnError ==
    /\ apc = "idle"
    /\ archiveCh # <<>>
    /\ archiveCh' = Tail(archiveCh)
    /\ \/ LockRecord(Head(archiveCh))
       \/ /\ givenUp' = givenUp \cup {Head(archiveCh)}
          /\ apc' = "exited"
          /\ UNCHANGED <<aitem, keys>>
    /\ UNCHANGED <<alertVars, dataVars, adding, storage, objects, archiverUp>>

ReceiveData ==
    /\ apc = "idle"
    /\ archiveCh # <<>>
    /\ archiveCh' = Tail(archiveCh)
    /\ LockRecord(Head(archiveCh)) \/ LockFails(Head(archiveCh))
    /\ UNCHANGED <<alertVars, dataVars, adding, storage, objects, archiverUp>>

\* Mutant: a copy that breaks off counts as done.
CopyData_IgnoresError ==
    /\ apc = "copy"
    /\ apc' = "status"
    /\ \/ objects' = [objects EXCEPT ![aitem] = "whole"]
       \/ objects' = objects
    /\ UNCHANGED <<alertVars, dataVars, adding, archiveCh, aitem, keys, storage, archiverUp, givenUp>>

\* The call goes out: a local storage creates the file, which may fail.  An S3
\* storage without an endpoint is a nil pointer in a non-nil interface, so that
\* the test for nil in processArchive is passed; its client is nil like that of
\* a closed one, and the call panics, which ends the process.
PutObject ==
    /\ apc = "put"
    /\ CASE storage = "local" ->
                \/ /\ apc' = "copy"
                   /\ objects' = [objects EXCEPT ![aitem] = "partial"]
                \/ apc' = "fail" /\ objects' = objects
         [] storage = "s3" -> apc' = "copy" /\ objects' = objects
         [] OTHER -> apc' = "panicked" /\ objects' = objects
    /\ UNCHANGED <<alertVars, dataVars, adding, archiveCh, aitem, keys, storage, archiverUp, givenUp>>

\* The call ends.  A failed copy leaves the part of the file it wrote, and the
\* answer of an S3 storage may be lost; Stop cancels the call.
CopyData ==
    /\ apc = "copy"
    /\ \/ /\ objects' = [objects EXCEPT ![aitem] = "whole"]
          /\ apc' \in IF objects[aitem] = "partial" THEN {"status"} ELSE {"status", "fail"}
       \/ objects' = objects /\ apc' = "fail"
    /\ UNCHANGED <<alertVars, dataVars, adding, archiveCh, aitem, keys, storage, archiverUp, givenUp>>

MarkArchivedStatus ==
    /\ apc = "status"
    /\ archiveStatus' = [archiveStatus EXCEPT ![aitem] = "archived"]
    /\ apc' = "path"
    /\ UNCHANGED <<alertVars, filePath, adding, archiveCh, aitem, keys, storage, objects, archiverUp, givenUp>>

MarkArchivedPath ==
    /\ apc = "path"
    /\ filePath' = [filePath EXCEPT ![aitem] = aitem]
    /\ apc' = "unlock"
    /\ UNCHANGED <<alertVars, archiveStatus, adding, archiveCh, aitem, keys, storage, objects, archiverUp, givenUp>>

\* Mutant: a failure that the store knows of already is not reported.
MarkFailed_Unreported ==
    /\ apc = "fail"
    /\ archiveStatus' = [archiveStatus EXCEPT ![aitem] = "failed"]
    /\ apc' = IF Len(archiveCh) = ArchiveCap THEN "unlock" ELSE "alert"
    /\ UNCHANGED <<alertVars, filePath, adding, archiveCh, aitem, keys, storage, objects, archiverUp, givenUp>>

MarkFailed ==
    /\ apc = "fail"
    /\ archiveStatus' = [archiveStatus EXCEPT ![aitem] = "failed"]
    /\ apc' = "alert"
    /\ UNCHANGED <<alertVars, filePath, adding, archiveCh, aitem, keys, storage, objects, archiverUp, givenUp>>

ReportFailure ==
    /\ apc = "alert"
    /\ AddAlert(aitem)
    /\ apc' = "unlock"
    /\ UNCHANGED <<dataVars, adding, archiveCh, aitem, keys, storage, objects, archiverUp, givenUp>>

\* CreateAlert has returned.  A Redis lock refuses the cancelled context after
\* Stop and the key expires later; nobody asks for it again.
UnlockArchive ==
    /\ apc = "unlock"
    /\ aitem \notin creating
    /\ keys' = keys \ {aitem}
    /\ apc' = "idle" /\ aitem' = NoData
    /\ UNCHANGED <<alertVars, dataVars, adding, archiveCh, storage, objects, archiverUp, givenUp>>

ExitLoop ==
    /\ apc = "idle"
    /\ ~archiverUp
    /\ apc' = "exited"
    /\ UNCHANGED <<alertVars, dataVars, aitem, keys, adding, archiveCh, storage, objects, archiverUp, givenUp>>

ArchiveLoop ==
    \/ ReceiveData \/ PutObject \/ CopyData \/ MarkArchivedStatus \/ MarkArchivedPath
    \/ MarkFailed \/ ReportFailure \/ UnlockArchive \/ ExitLoop

-----------------------------------------------------------------------------
(* The actions of main and of the alert manager.                            *)

StopArchiver ==
    /\ archiverUp
    /\ archiverUp' = FALSE
    /\ UNCHANGED <<alertVars, dataVars, loopVars, adding, archiveCh, storage, objects, givenUp>>

\* Close of an S3 storage drops its client, that of a local one does nothing.
\* (On the nil pointer without an endpoint it panics at the end of main.)
CloseStorage ==
    /\ storage' = IF storage = "local" THEN "local" ELSE "closed"
    /\ UNCHANGED <<alertVars, dataVars, loopVars, adding, archiveCh, objects, archiverUp, givenUp>>

Alert(A) ==
    /\ A
    /\ UNCHANGED <<dataVars, loopVars, adding, archiveCh, storage, objects, archiverUp, givenUp>>

=============================================================================
