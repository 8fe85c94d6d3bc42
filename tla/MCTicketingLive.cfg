\* Two tickets, each with a transfer that expires: a run of the worker has two
\* candidates to visit, another run (its concurrency is 2) visits the same
\* ones, and a request contends for the rows.  No symmetry: this checks
\* liveness.
CONSTANTS
    Fair = fair
    Host = ann
    Guest = bob
    User = {ann, bob}
    Event = {fair}
    Ticket = {t1, t2}
    Key = {k1, k2, k3}
    Transfer = {x1, x2}
    Request = {r1}
    Job = {j1, j2}
    Scanner = {bob}
    EventOf <- MCEventOf
    Organizer <- MCOrganizer
    None = None
SPECIFICATION OfferedFairSpec
PROPERTIES
    ExpiredOffersResolve
CHECK_DEADLOCK FALSE
