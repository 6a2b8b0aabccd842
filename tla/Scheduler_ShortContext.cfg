SPECIFICATION Spec
CONSTANTS
    NumReq = 2
    Inputs = {2}
    Outputs = {3}
    MaxContext = 5
    BlockSize = 1
    NpuBlocks = 6
    CpuBlocks = 40
    NumNPUs = 1
    PPSize = 1
    MaxSeqs = 3
    MaxTokens = 8
    Threshold = 0
    Chunked = TRUE
    PrioritizePrefill = FALSE
    CpuSwap = FALSE
INVARIANTS
    ContextMatchesOutput
