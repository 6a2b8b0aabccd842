SPECIFICATION Spec
CONSTANTS
    NumReq = 3
    Inputs = {2, 4}
    Outputs = {1, 4}
    MaxContext = 8
    BlockSize = 2
    NpuBlocks = 4
    CpuBlocks = 8
    NumNPUs = 2
    PPSize = 2
    MaxSeqs = 2
    MaxTokens = 3
    Threshold = 0
    Chunked = TRUE
    PrioritizePrefill = FALSE
    CpuSwap = TRUE
INVARIANTS
    HbmBooksExact
    SwapBooksExact
    OnePlace
    PipelineInStep
    ContextMatchesOutput
PROPERTIES
    ServesTokens
CHECK_DEADLOCK FALSE
