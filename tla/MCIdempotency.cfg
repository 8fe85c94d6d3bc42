\* One key, two payloads, three attempts.
CONSTANTS
    Key = {key}
    Payload = {p1, p2}
    Attempt = {a1, a2, a3}
    None = None
SPECIFICATION Spec
SYMMETRY Symmetry
INVARIANTS
    IdempotencyInv
    OneClaim
    ReplaysAreTrue
PROPERTIES
    FreshRowsStay
CHECK_DEADLOCK FALSE
