SPECIFICATION FairSpec
CONSTANTS
    None = None
    p1 = p1
    p2 = p2
    p3 = p3
    c1 = c1
    c2 = c2
    f1 = f1
    Channels = {c1, f1}
    Futures = {f1}
    size <- TwoBuffered
    Corrupt = {1}
    Coroutines <- ThreeCoroutines
    Cases <- ReceiveOrFuture
    HasDefault = {p3}
    ConsumesFirst = TRUE
    MaxOps <- ThreeForSecond
    MaxValues = 3
CHECK_DEADLOCK FALSE
PROPERTIES
    DeliversInOrder
    ReturnsWhenAllBlocked
