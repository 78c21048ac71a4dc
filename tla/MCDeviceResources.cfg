SPECIFICATION Spec
CONSTANTS
    ThreadCount = 2
    BufferCount = 3
    TaskCount = 2
    Devices = 2
    MaxHandles = 2
    Shared = {1}
    Faults = {"null_output", "null_event", "null_buffer"}
    Nobody = 0
    Components = {"text", "image", "decoder"}
    Sizes <- MCSizes
    Limit = 7
    Capacity = 9
    Headroom = 1
    OtherBytes = {0, 1, 2}
    Nodes = {n1, n2, n3}
    Missing = Missing
INVARIANTS
    NativeOutlivesWork
    DonatedUnreachable
    ReturnedMeansDone
    WithinBudget
    CallbackStateAlive
PROPERTIES
    WaitsReturn
    StoreAnswers
CHECK_DEADLOCK FALSE
