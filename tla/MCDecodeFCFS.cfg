CONSTANTS
    Requests = {"a", "b", "c", "d"}
    PromptLen <- MCPromptLen
    MaxOutput <- MCMaxOutput
    BlockSize = 2
    MaxBatchSize = 2
    MaxTokensPerBatch = 2
    MaxGpuBlocks = 4
    MaxCpuBlocks = 1
    WaitingPercent = 50
    PipelineSize = 2
SPECIFICATION FairSpec
CHECK_DEADLOCK FALSE
INVARIANTS TypeOK RequestConserved LocationMatchesQueue OnlyCpuCanFail AnswerFitsBatch
PROPERTIES EveryRequestFinishes
