SPECIFICATION LiveHSpec
CONSTANTS
    Writers = {w1, w2}
    Readers = {r1}
    Ids = {f1}
    Bodies <- Short
    Inodes = {i1, i2}
    None = None
    Gone = Gone
INVARIANTS TypeOK CommittedHaveContent ReadersFindTheFile DatabaseLockIsReleased ContentIsWhole
PROPERTIES ImplementsContentStore WritesAreAnswered
