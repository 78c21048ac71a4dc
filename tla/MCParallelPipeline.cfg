SPECIFICATION FairSpec
CONSTANTS
    ItemCount = 3
    WorkerCount = 2
    InputCapacity = 1
    Capacity = 2
    Outcomes = {"ok", "sourceErr", "transformErr", "sourcePanic", "transformPanic"}
INVARIANTS
    CompletedHasRoom
    FinishMeansJoined
PROPERTIES
    ImplementsStream
    FinishReturnsIntact
    DropReleasesThreads
    StreamEnds
