CONSTANTS
    Requests = {"a", "b", "c", "d"}
    PromptLen <- MCPromptLen
    BlockSize = 2
    MaxBatchSize = 2
    MaxTokensPerBatch = 5
    MaxGpuBlocks = 4
    PipelineSize = 2
    WindowMultiplier = 2
    BucketBounds = {2}
    MaxBlockMargin = 1
    BridgeTarget = 2
    BlockTarget = 4
    Unit = 4
    SnapshotPressures = {0, 4}
    ScoringModes = {"default", "bucket_only"}
    SmoothPercent = 80
    RhoLowPercent = 55
    RhoHighPercent = 75
SPECIFICATION CCSpec
INVARIANTS TypeOK RequestConserved BlockAccounting NoAllocationFailure
PROPERTIES EveryRequestLeaves AgedYieldsToOlder
