SPECIFICATION Spec
CONSTANTS
    NumReq = 4
    Page <- MCPage
    Root = Root
    None = None
    Gone = Gone
    Upto <- MCUpto
    Setups <- MCSetups
    Block = 1
INVARIANTS
    BooksExact
    LocksMatchHolders
    ComputesOnCached
PROPERTIES
    ServesTokens
    EveryRequestServed
CHECK_DEADLOCK FALSE
