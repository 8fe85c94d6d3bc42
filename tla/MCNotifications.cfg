SPECIFICATION FairSpec
CONSTANTS
    User = {ann, bob}
    Note = {n1, n2}
    None = None
INVARIANTS
    ShownIsTrue
    OneAccount
    NothingElseIsMissed
PROPERTIES
    RowsAreFetched
