\* One event with two ticket types, two orders, two requests at a time: they
\* race for a stock of at most two tickets.
CONSTANTS
    Fair = fair
    Event = {fair}
    Type = {floor, stand}
    Order = {o1, o2}
    Request = {r1, r2}
    EventOf <- MCEventOf
    MaxUnits = 2
    MaxCharges = 2
    None = None
SPECIFICATION Spec
SYMMETRY Symmetry
INVARIANTS
    InventoryFits
    NeverOversold
    TicketsArePaid
PROPERTIES
    ImplementsBoxOffice
    TermsAreFrozen
CHECK_DEADLOCK FALSE
