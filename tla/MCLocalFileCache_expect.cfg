SPECIFICATION UndisturbedSpec
CONSTANTS
    Clients = {c1}
    Tasks = {t1, t2}
    Client <- OneClient
    Names = {n1}
    Operations <- AllOperations
    MaxId = 2
INVARIANTS ChildrenExist
