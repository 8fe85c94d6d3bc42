\* One key, two payloads, two attempts: a crash before the answer is stored.
CONSTANTS
    Key = {key}
    Payload = {p1, p2}
    Attempt = {a1, a2}
    None = None
SPECIFICATION Spec
SYMMETRY Symmetry
INVARIANT OneOperation
CHECK_DEADLOCK FALSE
