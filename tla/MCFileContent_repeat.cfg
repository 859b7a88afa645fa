SPECIFICATION HSpec
CONSTANTS
    Writers = {w1, w2}
    Readers = {}
    Ids = {f1}
    Bodies <- ShortAndLong
    Inodes = {i1, i2, i3}
    None = None
    Gone = Gone
SYMMETRY Symmetric
INVARIANTS UploadsAreRepeatable
