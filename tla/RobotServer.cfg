SPECIFICATION FairSpec
CONSTANTS
    Request = {r1, r2}
    Command <- Commands
    None = None
    MaxTroubles = 1
    Ops <- AllOps
INVARIANTS
    AbortStays
    OneInFront
    BusyIsTold
PROPERTIES
    FaultEnds
CHECK_DEADLOCK FALSE
