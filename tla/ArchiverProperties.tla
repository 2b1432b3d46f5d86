------------------------- MODULE ArchiverProperties -------------------------
(***************************************************************************)
(* What the archiver and the alert manager owe to whoever adds data,       *)
(* downloads it, or waits for alerts.                                      *)
(***************************************************************************)
EXTENDS Server, Channels

\* processArchive marks a record only when its object is in the storage, and
\* leaves no archived record without its path.
ArchivedIsStored ==
    \A d \in Data :
        archiveStatus[d] = "archived" =>
            /\ objects[d] = "whole"
            /\ filePath[d] = d \/ (apc = "path" /\ aitem = d)

\* A record that AddData stored is in exactly one place: with its request, in
\* archiveCh, with the loop, given up because its lock failed, or decided.
RecordsAccounted ==
    \A d \in Data :
        Count(archiveStatus[d] # "none") =
              Count(d \in adding) + Queued(archiveCh, d)
            + Count(aitem = d /\ apc \in {"put", "copy", "status", "fail", "panicked"})
            + Count(d \in givenUp) + Count(archiveStatus[d] \in {"archived", "failed"})

\* A record whose TryLock failed is left as AddData stored it, and for good: it
\* stays pending without an object or an alert, and the loop is not at work on it.
\* Its client may well have been told 201.
GivenUpUntouched ==
    \A d \in givenUp :
        /\ archiveStatus[d] = "pending" /\ filePath[d] = NoPath
        /\ objects[d] = "none"
        /\ alertStatus[d] = "none"
        /\ aitem # d

\* A failed record has its alert, or the loop is about to raise it, and no
\* other record has one (handleArchiveFailure); with notifications enabled an
\* alert in the store is with its sender, in alertCh, or was notified, once.
AlertsAccounted ==
    /\ \A d \in Data :
          alertStatus[d] # "none" <=>
              archiveStatus[d] = "failed" /\ ~(apc = "alert" /\ aitem = d)
    /\ \A a \in Alerts :
          notified[a] + Queued(alertCh, a) + Count(a \in creating)
              = Count(Enabled /\ alertStatus[a] # "none")

\* A client that was told its record or alert is created can rely on it: the
\* record is stored and out of the handler's hands (POST /data, POST /alerts).
AnswersHonest ==
    \A x \in Alerts :
        call[x] = "created" =>
            IF x \in Data THEN archiveStatus[x] # "none" /\ x \notin adding
                          ELSE alertStatus[x] # "none" /\ x \notin creating

\* Main stops the archiver when no handler has a record or an alert left to
\* send, unless the 10 s of Server.Stop were not enough, and it closes the
\* storage after all who use it: the nil client of a closed storage is met
\* only by what the archiver left behind.
CleanShutdown ==
    /\ ~archiverUp /\ ~timedOut =>
          adding = {} /\ \A a \in creating \cap OtherAlerts : call[a] = "none"
    /\ storage = "closed" \/ apc = "panicked" => ~archiverUp /\ notifier # "up"

\* A download that is answered with 200 names an object that is there: until then
\* the answer is "data not archived yet" (DataHandler.DownloadData).  Violated: a
\* request may read the record between the two writes of MarkArchived, and names
\* an empty path.
DownloadsNameObjects ==
    \A d \in Data :
        DownloadData(d) # NoData => DownloadData(d) \in {k \in Data : objects[k] = "whole"}

\* Without an object storage the archiver keeps running "in limited mode".
\* Violated: the nil test in processArchive never sees the nil S3 client.
LimitedMode == apc # "panicked"

\* While the archiver runs a record is archived, fails with an alert, or is
\* given up: neither full channel stops its request or the loop for good.
RecordsSettled ==
    \A d \in Data :
        archiveStatus[d] = "pending" ~>
            archiveStatus[d] # "pending" \/ d \in givenUp \/ ~archiverUp

\* While the notifier runs every alert is handed to the notification channels.
AlertsSent ==
    \A a \in Alerts :
        Enabled /\ alertStatus[a] # "none" ~> notified[a] > 0 \/ notifier # "up"

\* A signal brings main to its end, whatever the clients and the channels do.
ShutdownEnds == main = "draining" ~> main = "storage"

=============================================================================
