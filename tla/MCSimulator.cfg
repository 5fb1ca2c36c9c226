CONSTANTS
    Requests = {"a", "b", "c"}
    PrefillLen <- MCPrefillLen
    OutputLen <- MCOutputLen
    Clusters <- MCClusters
    PrefillMaxBatch = 2
    DecodeMaxBatch = 4
    PrefillMaxTokens = 4
    DecodeMaxTokens = 2
    ContextCap = 7
SPECIFICATION SimSpec
CHECK_DEADLOCK FALSE
INVARIANTS ChunksStayWhole
PROPERTIES EveryRequestExits
