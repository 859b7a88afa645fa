SPECIFICATION Spec
CONSTANTS
    c1 = c1
    c2 = c2
    t1 = t1
    t2 = t2
    t3 = t3
    Clients = {c1, c2}
    Tasks = {t1, t2, t3}
    Client <- TwoOfOne
    Ids = {f1}
    Contents = {Empty, v1}
    Empty = Empty
    None = None
    Gone = Gone
SYMMETRY SymmetricTasks
INVARIANTS TypeOK CachedWasTrue CacheIsCurrent
PROPERTIES WritesAreNotBlind
