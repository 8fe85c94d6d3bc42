\* One order for one ticket, paid while its event is cancelled.
CONSTANTS
    Fair = fair
    Event = {fair}
    Type = {floor}
    Order = {o1}
    Request = {r1, r2}
    EventOf <- MCEventOf
    MaxUnits = 2
    MaxCharges = 2
    None = None
SPECIFICATION Spec
SYMMETRY Symmetry
INVARIANT CancelledEventsSellNothing
CHECK_DEADLOCK FALSE
