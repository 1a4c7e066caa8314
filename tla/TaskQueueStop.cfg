SPECIFICATION Spec
CONSTANTS
    Caller = {c1, c2}
    Thread = {w1, w2}
    NoThread = NoThread
    MaxTasks = 2
    MaxScans = 1
    Ops <- StopOps
    OnError = "pause"
INVARIANTS
    OneTaskAtATime
PROPERTIES
    TaskLife
SYMMETRY Symmetry
