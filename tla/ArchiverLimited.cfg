\* Violation: an S3 storage without an endpoint.
SPECIFICATION Spec
CONSTANTS
    Data = {d1, d2}
    OtherAlerts = {a1}
    Alerts = {d1, d2, a1}
    NoData = NoData
    NoPath = NoPath
    ArchiveCap = 1
    AlertCap = 1
    Enabled = TRUE
    Backends = {"unset"}
CHECK_DEADLOCK FALSE
INVARIANTS
    LimitedMode
