SPECIFICATION RunSpec
CONSTANTS
    Run = {r1}
    Torn = Torn
    MaxCalls = 2
    Faults = {}
    MaxRestarts = 0
INVARIANTS
    StartSurvives
CHECK_DEADLOCK FALSE
