SPECIFICATION Spec
CONSTANTS
    None = None
    Futures <- BatchFutures
    WaitGroups = {"wg", "wgForFutures"}
    factories = 4
    batchSize = 2
    Getters = {"g1"}
    ReadyAtOnce = {2}
    MaxContexts = 4
    Goroutines = {g1, g2}
    Keys = {k1, k2, k3}
    Values = {v1, v2}
    Nil = Nil
    ErrCacheFull = ErrCacheFull
    MaxSizes = {0, 1, 2, 3}
    TTLs = {0, 1}
    MaxRefCount = 2
    MaxRuns = 4
    MaxStarts = 2
    NumExecutions = 3
    MaxReplayAttempts = 3
    ShadowCounts = {0, 2}
CHECK_DEADLOCK FALSE
INVARIANTS
    GetSeesResults
    CancellationReachesAll
    CountedOnce
PROPERTIES
    BatchGetReturns
    KeepsContract
    GetReturnsLastRun
