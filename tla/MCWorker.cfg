SPECIFICATION Spec
CONSTANTS
    DecisionPollers = {p1, p2, p3}
    MaxBacklog = 1
    NumDecisions = 2
    LDAPollers = {q1, q2}
    MaxResponds = 2
    MaxCalls = 2
    SessionIDs = {s1, s2}
    MaxConcurrentSessionExecutionSize = 1
CHECK_DEADLOCK FALSE
INVARIANTS
    BothListsArePolled
    NothingLeftRunning
    TokensAreConserved
PROPERTIES
    StartedRunsOnce
    SessionsEnd
