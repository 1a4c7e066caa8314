SPECIFICATION FairSpec
CONSTANTS
    a = a
    b = b
    Thread = {t1, t2}
    Name = {a, b}
    Deps <- Circle
    Faults <- FaultyA
    Ops = {"giveup", "retry"}
    MaxDepth = 2
    MaxCalls = 1
INVARIANTS
    OnePlace
    BooksAgree
PROPERTIES
    UsesEnd
