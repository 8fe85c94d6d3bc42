SPECIFICATION FairSpec
CONSTANTS
    Fair = fair
    Gala = gala
    Event = {fair, gala}
    StartAt <- MCStartAt
    Already <- MCAlready
    Limit = 1
    Scanner = {s1}
    Call = {c1, c2}
    MaxTypes = 1
    MaxSold = 1
    MaxLate = 1
    None = None
INVARIANTS
    PageCatchesUp
    DialogIsKept
PROPERTIES
    NeverBackward
    PageIsFreed
