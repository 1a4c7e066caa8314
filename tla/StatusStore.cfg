SPECIFICATION FairSpec
CONSTANTS
    Client = {c1, c2}
    Rec = {r1, r2}
    None = None
    MaxReinits = 2
INVARIANTS
    ReadyIsCurrent
    StopGivesData
PROPERTIES
    BuildEnds
CHECK_DEADLOCK FALSE
