SPECIFICATION Spec
CONSTANTS
    a1 = a1
    a2 = a2
    a3 = a3
    a4 = a4
    Activities = {a1, a2}
    After <- Sequential
    QueueSize = 2
    Executors = 2
    WithRetryPolicy = {a1, a2}
    MaximumAttempts = 1
    TransientErrors = TRUE
    MayFail = FALSE
    MayStop = FALSE
    MaxTasks = 3
CHECK_DEADLOCK FALSE
INVARIANTS
    AllPendingInFlight
