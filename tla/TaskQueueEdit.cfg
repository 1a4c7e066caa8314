SPECIFICATION FairSpec
CONSTANTS
    Caller = {c1, c2}
    Thread = {w1, w2}
    NoThread = NoThread
    MaxTasks = 2
    MaxScans = 0
    Ops <- EditOps
    OnError = "pause"
INVARIANTS
    Bookkeeping
PROPERTIES
    FailureHolds
    PendingIsServed
    WaitEnds
CHECK_DEADLOCK FALSE
