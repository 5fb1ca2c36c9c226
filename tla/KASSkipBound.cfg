CONSTANTS
    Requests = {"a", "b", "c"}
    PromptLen <- MCSkipPromptLen
    MaxOutput <- MCSkipMaxOutput
    BlockSize = 1
    MaxBatchSize = 1
    MaxTokensPerBatch = 2
    MaxGpuBlocks = 7
    MaxCpuBlocks = 8
    WaitingPercent = 100
    SkipThreshold = 4
    MaxLevel = 2
    AppendMargin = 0
    ScanLimits = {1}
    SwapBudgets = {1}
    SkipsBound = 6
    RoundsBound = 6
SPECIFICATION FairSpec
CHECK_DEADLOCK FALSE
INVARIANTS SkipBound
