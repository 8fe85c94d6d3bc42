\* Two tickets of one event: its cancellation has to win two tickets, two
\* codes and two transfers, one row at a time, against a request.
CONSTANTS
    Fair = fair
    Host = ann
    Guest = bob
    User = {ann, bob}
    Event = {fair}
    Ticket = {t1, t2}
    Key = {k1, k2, k3}
    Transfer = {x1, x2}
    Request = {r1, r2}
    Job = {}
    Scanner = {bob}
    EventOf <- MCEventOf
    Organizer <- MCOrganizer
    None = None
SPECIFICATION Spec
SYMMETRY Symmetry
INVARIANTS
    CancelledEventIsDead
PROPERTIES
    ImplementsLifecycle
CHECK_DEADLOCK FALSE
