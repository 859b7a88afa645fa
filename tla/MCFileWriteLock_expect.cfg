SPECIFICATION Spec
CONSTANTS
    Tasks = {t1, t2}
    Ids = {f1}
    Mutexes = {m1, m2}
    None = None
INVARIANTS ExpectNeverFails
