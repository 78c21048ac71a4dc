SPECIFICATION LazySpec
CONSTANTS
    Threads = {a, b}
    Home = a
    Tasks = {e1, e2}
    SharedLifts = TRUE
    MaxNodes = 4
    MaxLifts = 2
    MaxRoots = 1
INVARIANT BoundRight
CHECK_DEADLOCK FALSE
