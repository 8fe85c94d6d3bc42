\* One account, three tokens, two requests at a time: a replayed token leaves
\* its family alive.
CONSTANTS
    User = {ann}
    Token = {t1, t2, t3}
    Request = {r1, r2}
    MaxPasswords = 0
    None = None
SPECIFICATION Spec
SYMMETRY Symmetry
INVARIANT ReplayEndsFamily
CHECK_DEADLOCK FALSE
