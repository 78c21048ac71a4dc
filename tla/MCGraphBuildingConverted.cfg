SPECIFICATION BuildingSpec
CONSTANTS
    w = w
    t1 = t1
    t2 = t2
    e1 = e1
    e2 = e2
    Paths = {w}
    Converted = {w}
    Limits <- MCLimits
    Arity = 2
    Outer = 2
    SharedInitial = FALSE
    Modulus = 4
    MaxValues = 4
    MaxIterations = 3
    Threads = {t1, t2}
    Home = t1
    Tasks = {e1, e2}
    SharedLifts = FALSE
    MaxNodes = 4
    MaxLifts = 2
    MaxRoots = 2
INVARIANT ParametersInScope
CHECK_DEADLOCK FALSE
