SPECIFICATION FairSpec
CONSTANTS
    NumReq = 3
    Inputs = {2, 3}
    Outputs = {1, 4}
    MaxContext = 7
    BlockSize = 2
    NpuBlocks = 4
    CpuBlocks = 40
    NumNPUs = 2
    PPSize = 1
    MaxSeqs = 3
    MaxTokens = 6
    Threshold = 0
    Chunked = FALSE
    PrioritizePrefill = TRUE
    CpuSwap = FALSE
INVARIANTS
    NeverAborts
PROPERTIES
    EveryRequestServed
