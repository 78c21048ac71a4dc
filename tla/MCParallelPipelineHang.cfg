SPECIFICATION FairSpec
CONSTANTS
    ItemCount = 3
    WorkerCount = 2
    InputCapacity = 1
    Capacity = 1
    Outcomes = {"ok", "transformPanic"}
PROPERTIES
    FinishReturns
