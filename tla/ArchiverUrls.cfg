\* Violation: a download is answered from a record that is half marked.
SPECIFICATION Spec
CONSTANTS
    Data = {d1, d2}
    OtherAlerts = {a1}
    Alerts = {d1, d2, a1}
    NoData = NoData
    NoPath = NoPath
    ArchiveCap = 1
    AlertCap = 1
    Enabled = TRUE
    Backends = {"local", "s3"}
CHECK_DEADLOCK FALSE
INVARIANTS
    DownloadsNameObjects
