CONSTANTS
    activity = activity
    local = local
    request = request
    child = child
    Root = Root
    None = None
    Children = {child}
    Calls = {activity, local, request}
    Kind <- MCKind
    Delays = {1, 2}
    MaxRuns = 1
    MaxTimerID = 8
    ExecutionTimeout = 1
    Plans <- MCPlans
SPECIFICATION Spec
INVARIANT NeverIdleWithTimers
PROPERTIES ClockWaits ResultsArrive
