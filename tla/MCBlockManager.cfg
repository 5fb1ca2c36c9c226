CONSTANTS
    Requests = {r1, r2, r3}
    GpuBlocks = {g1, g2, g3}
    CpuBlocks = {c1, c2, c3}
    BlockSize = 2
    MaxTokens = 5
    MaxRunning = 3
SPECIFICATION SwapSpec
SYMMETRY MCSymmetry
INVARIANTS TypeOK BlocksPartitioned TableFitsTokens FlushLeavesOneCopy
PROPERTIES KVNeverLost ImplementsCounts
