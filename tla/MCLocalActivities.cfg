SPECIFICATION FairSpec
CONSTANTS
    a1 = a1
    a2 = a2
    a3 = a3
    a4 = a4
    Activities = {a1, a2, a3, a4}
    After <- FanOut
    QueueSize = 1
    Executors = 1
    WithRetryPolicy = {a1, a2}
    MaximumAttempts = 1
    TransientErrors = TRUE
    MayFail = TRUE
    MayStop = TRUE
    MaxTasks = 2
CHECK_DEADLOCK FALSE
INVARIANTS
    PendingIsInFlight
    NothingSentTwice
PROPERTIES
    DecisionTaskEnds
    ResultIsTaken
