SPECIFICATION Spec
CONSTANTS
    s1 = s1
    s2 = s2
    Session <- MCSession
    PCap = 4
    DCap = 6
    BlockSize = 2
    Inputs = {1, 3}
    Outputs = {1, 2}
    MaxAdmissions = 4
    LateCancel = FALSE
SYMMETRY Symmetry
INVARIANTS
    Capacity
    BooksMatchAdmissions
    FinalContextReserved
    DeferralBlamesOthers
PROPERTY
    EndedForGood
