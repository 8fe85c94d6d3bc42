SPECIFICATION FairSpec
CONSTANTS
    Tab = {a, b}
    Call = {c1, c2}
    Refresh = {r1, r2}
    Token = {k1, k2}
    None = None
INVARIANTS
    SessionSurvives
    RefusedByOthers
PROPERTIES
    RequestsEnd
