-------------------------- MODULE ConnectionManager ------------------------
(***************************************************************************)
(* The start of the server (main.rs) and the connections its pool makes    *)
(* (ConnectionManager in extractors.rs, establish_connection in db.rs).    *)
(*                                                                         *)
(* r2d2 has a fixed number of places for connections.  An empty place is   *)
(* filled by one of its threads, which calls connect(); an error is tried  *)
(* again, a panic leaves the place empty for as long as the process lives. *)
(* The first connections run the migrations; SQLite lets one of them write *)
(* at a time and, without a busy timeout, fails a statement that meets     *)
(* another's lock.  The lock a connection has is told by its place.        *)
(***************************************************************************)
EXTENDS Naturals

CONSTANTS
    Connections,    \* the places of the pool: ten in main
    LastMigration   \* the number of migrations: two in server/migrations

ASSUME MigrationAssumption == Connections # {} /\ LastMigration \in Nat \ {0}

VARIABLES
    listed,             \* whether the database has the table that lists them
    applied,            \* the migrations applied to the database, in order
    server,             \* whether main waits for the pool, serves, or has ended
    did_run_migrations, \* the flag of the ConnectionManager
    place,              \* where each place of the pool is
    runs,               \* what connect() has loaded: run the migrations
    found,              \* the migrations it has seen or applied
    atStart,            \* history: what was applied when the process started
    skipped             \* history: a connect() set the flag without migrating

database == <<listed, applied>>
startVars == <<database, server, did_run_migrations, place, runs, found, atStart, skipped>>
connecting == <<runs, found>>
past == <<atStart, skipped>>

Migrating == {"opened", "reading", "found", "beginning", "writing", "committing", "refused", "busy"}
Places == {"empty", "loaded", "idle", "out", "lost"} \cup Migrating

NoConnections ==
    /\ listed = FALSE
    /\ applied = 0
    /\ server = "stopped"
    /\ did_run_migrations = FALSE
    /\ place = [c \in Connections |-> "empty"]
    /\ runs = [c \in Connections |-> FALSE]
    /\ found = [c \in Connections |-> 0]
    /\ atStart = 0
    /\ skipped = FALSE

Put(c, where) == place' = [place EXCEPT ![c] = where]

-----------------------------------------------------------------------------
(* connect(), from the load of the flag to its store                       *)

\* Mutant of Load: the flag is passed on as it is.
LoadFlag(c) ==
    /\ place[c] = "empty"
    /\ Put(c, "loaded")
    /\ runs' = [runs EXCEPT ![c] = did_run_migrations]
    /\ UNCHANGED <<database, server, did_run_migrations, found, past>>

Load(c) ==
    /\ place[c] = "empty"
    /\ Put(c, "loaded")
    /\ runs' = [runs EXCEPT ![c] = ~did_run_migrations]
    /\ UNCHANGED <<database, server, did_run_migrations, found, past>>

\* After establish_connection: Ok or Err, the flag is set (extractors.rs:92-95).
Return(c, where) ==
    /\ Put(c, where)
    /\ did_run_migrations' = (did_run_migrations \/ runs[c])
    /\ runs' = [runs EXCEPT ![c] = FALSE]
    /\ found' = [found EXCEPT ![c] = 0]

\* SqliteConnection::establish cannot open the file; r2d2 tries again.
OpenFails(c) ==
    /\ place[c] = "loaded"
    /\ Return(c, "empty")
    /\ skipped' = (skipped \/ runs[c])
    /\ UNCHANGED <<database, server, atStart>>

Open(c) ==
    /\ place[c] = "loaded"
    /\ \/ runs[c] /\ Put(c, "opened") /\ UNCHANGED <<did_run_migrations, connecting>>
       \/ ~runs[c] /\ \E where \in {"idle", "empty"} : Return(c, where)
    /\ UNCHANGED <<database, server, past>>

-----------------------------------------------------------------------------
(* run_pending_migrations (db.rs:15): every statement needs a lock         *)

Shared == {"reading", "beginning", "refused"}
Reserved == {"writing"}
Pending == {"busy", "committing"}   \* PENDING or EXCLUSIVE

Others(c, places) == \E d \in Connections \ {c} : place[d] \in places
CanRead(c) == ~Others(c, Pending)
CanWrite(c) == ~Others(c, Reserved \cup Pending)
CanCommit(c) == ~Others(c, Shared \cup Reserved \cup Pending)

\* The list of migrations is looked for, with a lock that is then kept.
Read(c) ==
    /\ place[c] = "opened"
    /\ CanRead(c)
    /\ Put(c, "reading")
    /\ UNCHANGED <<database, server, did_run_migrations, connecting, past>>

\* It says which are applied.  Mutant: none are.
SeenNone(c) == 0
Seen(c) == applied

LookUp(c) ==
    /\ place[c] = "reading"
    /\ listed
    /\ Put(c, "found")
    /\ found' = [found EXCEPT ![c] = Seen(c)]
    /\ UNCHANGED <<database, server, did_run_migrations, runs, past>>

\* There is none: it is made, and looked at again.
MakeList(c) ==
    /\ place[c] = "reading"
    /\ ~listed
    /\ CanWrite(c)
    /\ Put(c, "writing")
    /\ UNCHANGED <<database, server, did_run_migrations, connecting, past>>

\* Mutant of ToApply: one more than there are.
ToApplyOneMore(c) == found[c] <= LastMigration
ToApply(c) == found[c] < LastMigration

\* BEGIN and the first statement of the next migration.
Begin(c) ==
    /\ place[c] = "found"
    /\ ToApply(c)
    /\ CanRead(c)
    /\ Put(c, "beginning")
    /\ UNCHANGED <<database, server, did_run_migrations, connecting, past>>

\* The migration was applied by another connection: its table exists.
Repeats(c) == found[c] # applied

Apply(c) ==
    /\ place[c] = "beginning"
    /\ ~Repeats(c)
    /\ CanWrite(c)
    /\ Put(c, "writing")
    /\ UNCHANGED <<database, server, did_run_migrations, connecting, past>>

CommitBegin(c) ==
    /\ place[c] = "writing"
    /\ CanCommit(c)
    /\ Put(c, "committing")
    /\ UNCHANGED <<database, server, did_run_migrations, connecting, past>>

CommitEnd(c) ==
    /\ place[c] = "committing"
    /\ listed' = TRUE
    /\ IF ~listed
       THEN Put(c, "opened") /\ UNCHANGED <<applied, found>>
       ELSE /\ Put(c, "found")
            /\ applied' = found[c] + 1
            /\ found' = [found EXCEPT ![c] = @ + 1]
    /\ UNCHANGED <<server, did_run_migrations, runs, past>>

\* Nothing is left to apply; PRAGMA foreign_keys succeeds, or its error is that of
\* connect() (db.rs:18-20).
Finish(c) ==
    /\ place[c] = "found"
    /\ ~ToApply(c)
    /\ \E where \in {"idle", "empty"} : Return(c, where)
    /\ UNCHANGED <<database, server, past>>

\* SQLITE_BUSY for a connection that has no lock, or has SHARED and keeps it, or
\* for its COMMIT, which keeps PENDING; or the table exists.
Fails(c) ==
    /\ \/ place[c] = "opened" /\ ~CanRead(c) /\ Put(c, "lost")
       \/ place[c] = "found" /\ ToApply(c) /\ ~CanRead(c) /\ Put(c, "lost")
       \/ place[c] = "reading" /\ ~listed /\ ~CanWrite(c) /\ Put(c, "refused")
       \/ place[c] = "beginning" /\ (Repeats(c) \/ ~CanWrite(c)) /\ Put(c, "refused")
       \/ place[c] = "writing" /\ ~CanCommit(c) /\ Put(c, "busy")
    /\ UNCHANGED <<database, server, did_run_migrations, connecting, past>>

\* The unwrap panics and drops the connection with its lock (db.rs:15).
Panic(c) ==
    /\ place[c] \in {"refused", "busy"}
    /\ Put(c, "lost")
    /\ UNCHANGED <<database, server, did_run_migrations, connecting, past>>

Connect(c) == /\ server # "stopped"
              /\ \/ Load(c) \/ OpenFails(c) \/ Open(c)
                 \/ Read(c) \/ LookUp(c) \/ MakeList(c)
                 \/ Begin(c) \/ Apply(c) \/ CommitBegin(c) \/ CommitEnd(c) \/ Finish(c)
                 \/ Fails(c) \/ Panic(c)

-----------------------------------------------------------------------------
(* main.  Pool::build waits for all connections, at most thirty seconds.   *)

Start ==
    /\ server = "stopped"
    /\ server' = "starting"
    /\ atStart' = applied
    /\ UNCHANGED <<database, did_run_migrations, place, connecting, skipped>>

Built ==
    /\ server = "starting"
    /\ \A c \in Connections : place[c] = "idle"
    /\ server' = "serving"
    /\ UNCHANGED <<database, did_run_migrations, place, connecting, past>>

\* The process ends: what remains is the database.
Stop ==
    /\ server' = "stopped"
    /\ did_run_migrations' = FALSE
    /\ place' = [c \in Connections |-> "empty"]
    /\ runs' = [c \in Connections |-> FALSE]
    /\ found' = [c \in Connections |-> 0]
    /\ skipped' = FALSE
    /\ UNCHANGED <<database, atStart>>

\* The build fails and its unwrap ends the process.
BuildTimesOut == server = "starting" /\ Stop

=============================================================================
