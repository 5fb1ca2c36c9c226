CONSTANTS
    Requests = {"a", "b"}
    PromptLen <- MCLongPrompts
    MaxOutput <- MCLongOutput
    BlockSize = 2
    MaxBatchSize = 2
    MaxTokensPerBatch = 2
    MaxGpuBlocks = 4
    MaxCpuBlocks = 4
    WaitingPercent = 5
    PipelineSize = 1
SPECIFICATION FairSpec
CHECK_DEADLOCK FALSE
PROPERTIES NoLastingStall
