SPECIFICATION FairSpec
CONSTANTS
    s1 = s1
    s2 = s2
    Session <- MCSession
    MaxCalls = 1
    MaxFresh = 3
    Outputs = {1, 3}
    MaxTokens = 3
    MaxChunk = 2
    PMaxSeqs = 2
    DMaxSeqs = 1
    MaxHolds = 1
INVARIANTS
    NeverIdleWithWork
PROPERTIES
    ServesTokens
    EveryRequestSettled
CHECK_DEADLOCK FALSE
