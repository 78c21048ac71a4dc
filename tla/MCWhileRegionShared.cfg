SPECIFICATION Spec
CONSTANTS
    Arity = 2
    Outer = 3
    SharedInitial = TRUE
    Modulus = 4
    MaxValues = 4
    MaxIterations = 3
INVARIANTS
    LoopIsReference
