SPECIFICATION Spec
CONSTANTS
    s1 = s1
    s2 = s2
    s3 = s3
    NoCopy = NoCopy
    NoTicket = NoTicket
    Session <- MCSession
    CopyId <- MCCopyId
    Calls <- MCCalls
    Setups <- MCSetups
    Tp = 2
    Block = 1
INVARIANTS
    SourcesPinned
    RetiredIsRead
    OneAuthority
    HitsAreCurrent
    LedgersBalance
PROPERTIES
    CallOwnsSession
    CacheRefinesSessions
    EveryCallServed
CHECK_DEADLOCK FALSE
