SPECIFICATION FairSpec
CONSTANTS
    Camera = {k1, k2, k3}
    Check = {c1, c2}
    None = None
INVARIANTS
    TypeOK
    OneVerification
    ResultIsCurrent
    RunningCamerasAreHeld
PROPERTIES
    PageIsFreed
CHECK_DEADLOCK FALSE
