\* Two devices on one context, no reports.
SPECIFICATION FairSpec
CONSTANTS
    Devices = {d1, d2}
    NoDevice = NoDevice
    QueueLimit = 0
    MaxReports = 0
PROPERTIES
    CloseReturns
\* The caller may stop reading.
CHECK_DEADLOCK FALSE
