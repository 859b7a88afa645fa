SPECIFICATION Spec
CONSTANTS
    Clients = {c1}
    Tasks = {t1, t2}
    Client <- OneClient
    Names = {n1}
    Operations <- Unlisted
    MaxId = 3
SYMMETRY Symmetric
INVARIANTS TypeOK CachedWasTrue
