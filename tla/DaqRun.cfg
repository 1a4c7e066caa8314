SPECIFICATION FairRunSpec
CONSTANTS
    Run = {r1}
    Torn = Torn
    MaxCalls = 2
    Faults = {"refuse", "lose", "error", "raise", "read"}
    MaxRestarts = 1
INVARIANTS
    StatusTypeOK
    LastUploadCounts
    
    PushIsInRow
PROPERTIES
    RunIsFiled
CHECK_DEADLOCK FALSE
