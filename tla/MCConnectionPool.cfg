SPECIFICATION LiveSpec
CONSTANTS
    Connections = {c1, c2, c3}
    LastMigration = 2
    Requests = {r1, r2}
    Files = {f1}
    Threads = 1
    None = None
INVARIANTS TypeOK ConnectionsAreClean OutIsHeld MigratedBeforeUse MigratingAgainIsFine
PROPERTIES RequestsAreAnswered
