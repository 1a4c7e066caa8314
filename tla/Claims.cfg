SPECIFICATION ClaimsSpec
CONSTANTS
    Task = {t1, t2}
    NoTask = NoTask
    Adj = {a1, a2}
    NoAdj = NoAdj
    Mover = {m1, m2, m3}
INVARIANTS
    ClaimsTypeOK
    MovesAreClaimed
    Exclusive
PROPERTIES
    ClaimsAreKept
SYMMETRY Symmetry
