SPECIFICATION Spec
CONSTANTS
    None = None
    t1 = t1
    t2 = t2
    t3 = t3
    Threads = {t1, t2, t3}
    Deciders = {t1, t2}
    Queriers = {t3}
    Contexts = {c1, c2}
    MaxTasks = 4
    MaxQueries = 1
    FullQueries = TRUE
    Transient = TRUE
SYMMETRY Symmetry
CHECK_DEADLOCK FALSE
INVARIANTS
    StateMatchesHistory
    QuerySeesOneState
    CachedIsUsable
    LocksAreReleased
