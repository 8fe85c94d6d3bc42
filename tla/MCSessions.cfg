\* One account, three tokens, three requests at a time.
CONSTANTS
    User = {ann}
    Token = {t1, t2, t3}
    Request = {r1, r2, r3}
    MaxPasswords = 1
    None = None
SPECIFICATION Spec
SYMMETRY Symmetry
INVARIANTS
    TypeOK
    OneSuccessor
PROPERTIES
    RevokedIsFinal
    ImplementsFamilies
CHECK_DEADLOCK FALSE
