SPECIFICATION Spec
CONSTANTS
    Names = {n1, n2}
    Handlers = {h1, h2}
    RequestSet <- AllRequests
    MaxId = 3
SYMMETRY Symmetry
INVARIANTS TypeOK TreeConsistent TransactionsIsolated NoPanic LocksAreGivenUp ReadsAreAtomic
PROPERTIES IdsNeverReused ImplementsNodeTree
