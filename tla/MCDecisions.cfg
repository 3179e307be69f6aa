SPECIFICATION FairSpec
CONSTANTS
    Activities = {a1, a2}
    Timers = {t1}
    Children = {c1}
    Cancellations = {x1}
    Signals = {s1}
    Markers = {m1}
    WaitForCancellation = {a1}
    MaxStarts = 2
    MaxCalls = 2
CHECK_DEADLOCK FALSE
INVARIANTS
    OrderMatchesMap
    PanicsOnlyOnChildCancellation
    AgreesWithService
PROPERTIES
    DelayedCancelIsSent
