SPECIFICATION FairSpec
CONSTANTS
    s1 = s1
    s2 = s2
    Session <- MCSession
    MaxCalls = 2
    Inputs = {2}
    Outputs = {1, 2}
    Prefixes = {0, 2}
    MaxContext = 3
    BlockSize = 2
    MaxTokens = 2
    MaxChunk = 2
    PMaxSeqs = 2
    DMaxSeqs = 2
INVARIANTS
    BooksFollowCalls
    SourceKept
    RoomKept
    PoolIntact
PROPERTY
    EveryCallDrained
CHECK_DEADLOCK FALSE
