SPECIFICATION LiveSpec
CONSTANTS
    Tasks = {t1, t2}
    Ids = {f1, f2, f3}
    Mutexes = {m1, m2, m3}
    None = None
INVARIANTS TypeOK MutualExclusion MapStaysSmall
PROPERTIES ImplementsPerFileMutex LockIsGranted
