\* One ticket, everything that can happen to it between two requests and the
\* expiry worker.
CONSTANTS
    Fair = fair
    Host = ann
    Guest = bob
    User = {ann, bob, cyd}
    Event = {fair}
    Ticket = {t1}
    Key = {k1, k2, k3}
    Transfer = {x1, x2}
    Request = {r1, r2}
    Job = {j1}
    Scanner = {bob}
    EventOf <- MCEventOf
    Organizer <- MCOrganizer
    None = None
SPECIFICATION Spec
SYMMETRY Symmetry
INVARIANTS
    TicketingInv
    OffersConsistent
    CredentialFollowsOwner
    AdmitsOnce
    CancelledEventIsDead
PROPERTIES
    OwnershipMovesByAcceptance
    AdmissionIsCurrent
    NothingRevives
    ImplementsLifecycle
CHECK_DEADLOCK FALSE
