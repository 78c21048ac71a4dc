SPECIFICATION ProgramsSpec
CONSTANTS
    Families = {"vector", "matrix", "cube", "image", "heads", "rows", "boxes", "layers", "pixels", "colors", "axes", "state", "statistics", "table", "table3"}
    Parameters <- MCParameters
    Calls <- MCCalls
    cpu = cpu
    gpu = gpu
    g1 = g1
    g2 = g2
    s1 = s1
    Executables = {1, 2, 3}
    Compiled <- MCPlan
    Clients = {cpu, gpu}
    Sessions = {s1}
    SlotNames = {"value", "total", "step"}
    InputNames = {"scale", "x"}
    Values = {0, 1}
    Nothing = Nothing
    OtherType = "U8"
    PayloadBytes <- MCPayloadBytes
    PayloadLimits = {1, 2, 4, 5}
    Transition <- MCTransition
    CallerBindings <- MCBindings
INVARIANTS
    GradientIsAdjoint
    SweepIsWhole
    RecordedIsVerified
    LoweredProgramMeansGraph
    ComposedAgree
    CallsFit
PROPERTIES
    ImplementsSlotStore
CHECK_DEADLOCK FALSE
