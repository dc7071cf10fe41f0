SPECIFICATION Spec
CONSTANTS
    Threads = {t1, t2}
    Clients = {c1, c2}
    Limit = 1
    Window = 3
    MaxTime = 5
    MaxArrivals = 4
    NoWindow = NoWindow
INVARIANTS
    LimiterInv
    WindowLimit
    AnySecondLimit
PROPERTY ImplementsTokenBatch
CHECK_DEADLOCK FALSE
