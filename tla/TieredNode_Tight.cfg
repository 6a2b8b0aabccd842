SPECIFICATION Spec
CONSTANTS
    s1 = s1
    s2 = s2
    s3 = s3
    NoCopy = NoCopy
    NoTicket = NoTicket
    Session <- MCSession
    CopyId <- MCCopyId
    Calls <- MCCalls
    Setups <- MCTight
    Tp = 2
    Block = 1
INVARIANTS
    NeverStuck
CHECK_DEADLOCK FALSE
