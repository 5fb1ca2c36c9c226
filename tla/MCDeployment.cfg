\* Clusters of up to two nodes; two steps of bisection, two processes at a time.
SPECIFICATION DeploySpec
CONSTANTS
    Layers = 4
    NumLayers = 4
    Heads = 2
    Runnable <- MCRunnable
    Commands <- MCCommands
    MaxRate = 4
    Esp = 1
    MaxProcs = 2
    MaxFaults = 1
INVARIANTS
    BestRateBracketed
    LoadsWholeWeights
PROPERTIES
    FoundConfigurationStarts
CHECK_DEADLOCK FALSE
