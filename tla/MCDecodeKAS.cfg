CONSTANTS
    Requests = {"a", "b", "c", "d"}
    PromptLen <- MCPromptLen
    MaxOutput <- MCMaxOutput
    BlockSize = 2
    MaxBatchSize = 2
    MaxTokensPerBatch = 2
    MaxGpuBlocks = 6
    MaxCpuBlocks = 4
    WaitingPercent = 100
    SkipThreshold = 1
    MaxLevel = 2
    AppendMargin = 0
    ScanLimits = {3, 4}
    SwapBudgets = {1}
    SkipsBound = 1
    RoundsBound = 0
SPECIFICATION FairSpec
INVARIANTS TypeOK RequestConserved SelectionCanRun
PROPERTIES IterationFeasible StarvedNotBypassed EveryRequestFinishes
CHECK_DEADLOCK FALSE
