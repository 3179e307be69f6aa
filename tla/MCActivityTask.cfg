SPECIFICATION FairSpec
CONSTANTS
    None = None
    MaxDetails = 4
    MaxErrors = 3
    AutoHeartbeat = TRUE
CHECK_DEADLOCK FALSE
INVARIANTS
    AcknowledgedProgressKept
PROPERTIES
    CancellationArrives
    GoroutinesEnd
