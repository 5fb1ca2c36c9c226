CONSTANTS
    Requests = {"a", "b"}
    PromptLen <- MCPromptLen
    MaxOutput <- MCMaxOutput
    BlockSize = 2
    MaxBatchSize = 2
    MaxTokensPerBatch = 2
    MaxGpuBlocks = 4
    MaxCpuBlocks = 1
    WaitingPercent = 50
    PipelineSize = 2
    CtxMaxBatchSize = 2
    CtxMaxTokensPerBatch = 4
    CtxGpuBlocks = 2
    CtxPipelineSize = 2
    Streaming = {"a"}
SPECIFICATION ServingSpec
CHECK_DEADLOCK FALSE
INVARIANTS CallbacksFindTables KVHandedOver LifetimeAsDocumented
PROPERTIES ImplementsTokenStream EveryRequestSettles
