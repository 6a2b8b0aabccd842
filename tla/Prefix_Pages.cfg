SPECIFICATION Spec
CONSTANTS
    NumReq = 2
    Page <- MCPage
    Root = Root
    None = None
    Gone = Gone
    Upto <- MCUpto
    Setups <- PagedSetups
    Block = 2
INVARIANT NeverRaises
CHECK_DEADLOCK FALSE
