SPECIFICATION RecordingSpec
CONSTANTS
    s1 = s1
    s2 = s2
    None = None
    Session = {s1, s2}
    Modes = {"all", "throttle", "sample"}
    Cap <- Caps
    Flaky = {s1}
    Large = {}
    MaxUpdates = 2
    MaxBackfills = 1
INVARIANTS
    RecordingTypeOK
    Faithful
    InOrder
CHECK_DEADLOCK FALSE
