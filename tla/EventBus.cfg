SPECIFICATION Spec
CONSTANTS
    s1 = s1
    s2 = s2
    Publisher = {p1, p2}
    Subscriber = {s1, s2}
    Value = {Ready, Busy}
    Other = Other
    Unset = Unset
    Filtered = {s1}
    QueueSize = 2

    
PROPERTIES
    LossyQueues
SYMMETRY Symmetry
CHECK_DEADLOCK FALSE
