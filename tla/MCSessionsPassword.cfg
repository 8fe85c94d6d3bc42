\* One account, three tokens, two requests at a time: a token that is being
\* rotated survives the password change.
CONSTANTS
    User = {ann}
    Token = {t1, t2, t3}
    Request = {r1, r2}
    MaxPasswords = 1
    None = None
SPECIFICATION Spec
SYMMETRY Symmetry
PROPERTY PasswordChangeEndsSessions
CHECK_DEADLOCK FALSE
