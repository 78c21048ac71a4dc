SPECIFICATION Spec
CONSTANTS
    Prime = 7
    ParameterList <- MCParameters
    Options <- MCOptions
    Steps = 2
    LearningRate = 3
    Decay <- MCDecay
    Gradients <- MCGradients
    Statistics = {1, 3}
    MaxUpdates = 2
    Absent = Absent
    ItemCount = 4
    PoolSize = 2
    StageCount = 2
    ChannelSize = 1
    Words = {0, 1}
    Faultings <- MCNeighbours
    NoValue = NoValue
    ImageCount = 3
    StartImage = 1
    EmptyImages = {2}
    ShuffleBuffer = 2
    BatchSize = 2
    Accumulation = 2
    TotalSteps = 3
    NoAugmentationSteps = 1
    MosaicSize = 2
    ResizeEvery = 2
    Word <- MCWord
    Mosaic <- MCMosaic
    Mixup <- MCMixup
    Size <- MCSize
    QueueSize = 2
    CheckpointEvery = 1
    Outputs = {1, 2}
    RunLimits = {1, 3}
    FailingReads = {7}
    MaxRuns = 3
    NoFile = NoFile
    Half = 4
    Counters <- MCCounters
    Counts = {1, 2}
    MaxBlocks = 3
    MaxExecutions = 2
    ParameterPaths = {"w", "b"}
    StatePaths = {"s"}
    TransformPaths = {"m"}
    InputLimit = 2
    RetraceLimit = 3
INVARIANTS
    FinishTells
    ResumeIsExact
    DrawsAreFresh
    CallsBindByName
    SchedulesAgree
PROPERTIES
    ImplementsOptimizerLoop
    ImplementsShuffledStream
    FinishReturns
CHECK_DEADLOCK FALSE
