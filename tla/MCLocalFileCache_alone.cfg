SPECIFICATION UndisturbedSpec
CONSTANTS
    Clients = {c1}
    Tasks = {t1}
    Client <- OneClient
    Names = {n1, n2}
    Operations <- AllOperations
    MaxId = 4
SYMMETRY SymmetricNames
INVARIANTS CacheIsCurrent RepliesArePosix
