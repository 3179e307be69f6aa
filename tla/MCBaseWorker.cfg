SPECIFICATION FairSpec
CONSTANTS
    None = None
    p1 = p1
    p2 = p2
    Window = 1
    WaitTimes <- WaitsLowHigh
    PollerWaitTimeLowerBound = 1
    PollerWaitTimeUpperBound = 3
    PollerInitCount = 2
    PollerMinCount = 1
    PollerMaxCount = 2
    Pollers = {p1, p2}
    MaxConcurrentTask = 2
    Options <- Workers
CHECK_DEADLOCK FALSE
INVARIANTS
    PermitsConserved
    QuotaFollowsHints
PROPERTIES
    PollingGoesOn
    GoroutinesEnd
