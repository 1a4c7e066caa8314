SPECIFICATION FairSpec
CONSTANTS
    Asker = {a1, a2}
    Caller = {c1}
    None = None
    MaxWakes = 1
INVARIANTS
    TypeOK
    NoReentry
PROPERTIES
    QuestionsEnd
CHECK_DEADLOCK FALSE
