------------------------ MODULE ConnectionPool_proofs ----------------------
(***************************************************************************)
(* Theorems about ConnectionPool and the ConnectionManager it extends, for *)
(* every number of connections, migrations, requests, files and threads.   *)
(*                                                                         *)
(* The first part is about the start: which connection may be where, given *)
(* the migrations that are applied.  The second is about requests and what *)
(* they hold, the last about the locks they use and what they wait for.    *)
(***************************************************************************)
EXTENDS ConnectionPool, TLAPS

StartTypeOK ==
    /\ listed \in BOOLEAN
    /\ applied \in 0..LastMigration
    /\ server \in {"stopped", "starting", "serving"}
    /\ did_run_migrations \in BOOLEAN
    /\ place \in [Connections -> Places]
    /\ runs \in [Connections -> BOOLEAN]
    /\ found \in [Connections -> 0..LastMigration]
    /\ atStart \in 0..LastMigration
    /\ skipped \in BOOLEAN

RequestTypeOK ==
    /\ kind \in [Requests -> Kinds]
    /\ pc \in [Requests -> PCs]
    /\ conn \in [Requests -> Connections \cup {None}]
    /\ open \subseteq Connections
    /\ queue \in Seq(Jobs)
    /\ running \subseteq Jobs
    /\ wants \in [Requests -> Files \cup {None}]
    /\ holder \in [Files -> Requests \cup {None}]

\* Migrations are only added, one at a time, by one that has seen all before: the
\* lock on the database makes it the only one that writes.
Writers == {"writing", "busy", "committing"}
AppliedFits ==
    /\ atStart <= applied
    /\ applied > 0 => listed
    /\ \A c \in Connections :
          /\ found[c] <= applied
          /\ place[c] \in {"found", "beginning"} => listed
          /\ place[c] = "beginning" => found[c] < LastMigration
          /\ place[c] \in {"writing", "committing"} /\ listed => found[c] = applied /\ applied < LastMigration
    /\ \A c, d \in Connections : place[c] \in Writers /\ place[d] \in Writers => c = d

\* A connection is only ready when the flag is set, and the flag is only set
\* when all is applied or opening the database has failed.
FlagFits ==
    /\ did_run_migrations /\ ~skipped => applied = LastMigration
    /\ \A c \in Connections :
          /\ place[c] \in {"idle", "out"} => did_run_migrations
          /\ place[c] = "loaded" /\ ~runs[c] => did_run_migrations
          /\ place[c] \in Migrating => runs[c]
    /\ server = "stopped" => \A c \in Connections : place[c] = "empty"
    /\ server = "serving" => did_run_migrations

\* Where all was applied at the start, no connection finds anything to do.
Unneeded == {"lost", "beginning", "writing", "committing", "refused", "busy"}
NothingToDo ==
    atStart = LastMigration => \A c \in Connections :
        /\ place[c] \notin Unneeded
        /\ place[c] = "found" => found[c] = LastMigration

StartInv == StartTypeOK /\ AppliedFits /\ FlagFits /\ NothingToDo

\* What a request holds, given where it is.
RequestsFit ==
    /\ \A r \in Requests : conn[r] = None <=> pc[r] \in {"idle", "connect", "waiting"}
    /\ server # "serving" => open = {} /\ \A r \in Requests : pc[r] = "idle"

\* An open transaction is that of a connection that is out.
OpenAreOut == \A c \in open : place[c] = "out"

IInv == StartInv /\ RequestTypeOK /\ RequestsFit /\ OpenAreOut /\ OutIsHeld

-----------------------------------------------------------------------------
(* The start *)

\* The initial state satisfies the invariant of the start.
LEMMA StartInit == NoConnections => StartInv
<1> SUFFICES ASSUME NoConnections PROVE StartInv
  OBVIOUS
<1> USE MigrationAssumption DEF NoConnections
<1>1. StartTypeOK
  <2>1. 0 \in 0..LastMigration
    OBVIOUS
  <2>2. place \in [Connections -> Places] /\ runs \in [Connections -> BOOLEAN]
    BY DEF Places
  <2>3. found \in [Connections -> 0..LastMigration]
    BY <2>1
  <2> QED
    BY <2>1, <2>2, <2>3 DEF StartTypeOK
<1>2. AppliedFits /\ FlagFits /\ NothingToDo
  BY DEF AppliedFits, FlagFits, NothingToDo, Writers, Unneeded, Migrating
<1> QED
  BY <1>1, <1>2 DEF StartInv

\* A request takes, returns or breaks a connection, or the pool discards it.
LEMMA PutKeeps ==
    ASSUME StartInv, NEW c \in Connections, NEW where \in {"idle", "out", "empty"},
           place[c] \in {"idle", "out"}, Put(c, where), server # "stopped",
           UNCHANGED <<database, server, did_run_migrations, connecting, past>>
    PROVE  StartInv'
<1> USE DEF StartInv, Migrating, Writers, Unneeded
<1>1. /\ place' = [place EXCEPT ![c] = where]
      /\ UNCHANGED <<listed, applied, server, did_run_migrations, runs, found, atStart, skipped>>
  BY DEF Put, connecting, past, database
<1>2. StartTypeOK'
  BY <1>1 DEF StartTypeOK, Places
<1>3. AppliedFits'
  BY <1>1 DEF AppliedFits, StartTypeOK
<1>4. FlagFits'
  BY <1>1 DEF FlagFits, StartTypeOK
<1>5. NothingToDo'
  BY <1>1 DEF NothingToDo, StartTypeOK
<1> QED
  BY <1>2, <1>3, <1>4, <1>5

\* A connect() that goes on without touching the database or the flag.
LEMMA LoadKeeps ==
    ASSUME StartInv, NEW c \in Connections, server # "stopped", Load(c)
    PROVE  StartInv'
<1> USE DEF StartInv, Migrating, Writers, Unneeded
<1>1. /\ place[c] = "empty" /\ place' = [place EXCEPT ![c] = "loaded"]
      /\ runs' = [runs EXCEPT ![c] = ~did_run_migrations]
      /\ UNCHANGED <<listed, applied, server, did_run_migrations, found, atStart, skipped>>
  BY DEF Load, Put, past, database
<1>2. StartTypeOK'
  BY <1>1 DEF StartTypeOK, Places
<1>3. AppliedFits'
  BY <1>1 DEF AppliedFits, StartTypeOK
<1>4. FlagFits'
  <2>1. \A d \in Connections : place'[d] = "loaded" /\ ~runs'[d] => did_run_migrations'
    BY <1>1 DEF FlagFits, StartTypeOK
  <2> QED
    BY <1>1, <2>1 DEF FlagFits, StartTypeOK
<1>5. NothingToDo'
  BY <1>1 DEF NothingToDo, StartTypeOK
<1> QED
  BY <1>2, <1>3, <1>4, <1>5

\* The return of connect(): a connection without migrations to run finds the
\* flag set; the others have applied all, or could not open the database.
LEMMA ReturnKeeps ==
    ASSUME StartInv, NEW c \in Connections, server # "stopped",
           NEW where \in {"empty", "idle"}, Return(c, where), place[c] \in {"loaded", "found"},
           UNCHANGED <<listed, applied, server, atStart>>,
           skipped' \in BOOLEAN, skipped => skipped',
           runs[c] => skipped' \/ applied = LastMigration,
           where = "idle" => runs[c] \/ did_run_migrations
    PROVE  StartInv'
<1> USE MigrationAssumption DEF StartInv, Migrating, Writers, Unneeded
<1>1. /\ place' = [place EXCEPT ![c] = where]
      /\ did_run_migrations' = (did_run_migrations \/ runs[c])
      /\ runs' = [runs EXCEPT ![c] = FALSE]
      /\ found' = [found EXCEPT ![c] = 0]
  BY DEF Return, Put
<1>2. StartTypeOK'
  BY <1>1 DEF StartTypeOK, Places
<1>3. AppliedFits'
  BY <1>1 DEF AppliedFits, StartTypeOK
<1>4. FlagFits'
  <2>1. did_run_migrations' /\ ~skipped' => applied' = LastMigration
    BY <1>1 DEF FlagFits
  <2>2. ASSUME NEW d \in Connections
        PROVE  /\ place'[d] \in {"idle", "out"} => did_run_migrations'
               /\ place'[d] = "loaded" /\ ~runs'[d] => did_run_migrations'
               /\ place'[d] \in Migrating => runs'[d]
    <3>1. CASE d = c
      BY <1>1, <3>1 DEF FlagFits, StartTypeOK
    <3>2. CASE d # c
      BY <1>1, <3>2 DEF FlagFits, StartTypeOK
    <3> QED
      BY <3>1, <3>2
  <2> QED
    BY <1>1, <2>1, <2>2 DEF FlagFits, StartTypeOK
<1>5. NothingToDo'
  BY <1>1 DEF NothingToDo, StartTypeOK
<1> QED
  BY <1>2, <1>3, <1>4, <1>5

\* The connections that return.
LEMMA ReturnsKeep ==
    ASSUME StartInv, NEW c \in Connections, server # "stopped",
           OpenFails(c) \/ Finish(c) \/ (place[c] = "loaded" /\ ~runs[c] /\ Open(c))
    PROVE  StartInv'
<1>1. skipped \in BOOLEAN /\ runs[c] \in BOOLEAN
  BY DEF StartInv, StartTypeOK
<1>2. CASE OpenFails(c)
  <2>1. skipped' = (skipped \/ runs[c]) /\ skipped' \in BOOLEAN
    BY <1>1, <1>2 DEF OpenFails
  <2> QED
    BY <1>2, <2>1, ReturnKeeps DEF OpenFails, database
<1>3. CASE Finish(c)
  <2>1. place[c] = "found" /\ applied = LastMigration /\ runs[c]
    <3>1. /\ place[c] = "found" /\ ~(found[c] < LastMigration) /\ found[c] <= applied
          /\ found[c] \in 0..LastMigration /\ applied \in 0..LastMigration
      BY <1>3 DEF Finish, ToApply, StartInv, AppliedFits, StartTypeOK
    <3>2. applied = LastMigration
      BY <3>1, MigrationAssumption
    <3> QED
      BY <3>1, <3>2 DEF StartInv, FlagFits, Migrating
  <2>2. UNCHANGED skipped /\ skipped' \in BOOLEAN /\ UNCHANGED <<listed, applied, server, atStart>>
    BY <1>1, <1>3 DEF Finish, past, database
  <2>3. PICK where \in {"idle", "empty"} : Return(c, where)
    BY <1>3 DEF Finish
  <2> QED
    BY <2>1, <2>2, <2>3, ReturnKeeps
<1>4. CASE place[c] = "loaded" /\ ~runs[c] /\ Open(c)
  <2>1. did_run_migrations
    BY <1>4 DEF StartInv, FlagFits
  <2>2. UNCHANGED skipped /\ skipped' \in BOOLEAN /\ UNCHANGED <<listed, applied, server, atStart>>
    BY <1>1, <1>4 DEF Open, past, database
  <2>3. PICK where \in {"idle", "empty"} : Return(c, where)
    BY <1>4 DEF Open
  <2> QED
    BY <1>4, <2>1, <2>2, <2>3, ReturnKeeps
<1> QED
  BY <1>2, <1>3, <1>4

\* A connection moves on in its migrations: one that writes is the only one.
LEMMA MoveKeeps ==
    ASSUME StartInv, NEW c \in Connections, server # "stopped",
           NEW where \in Migrating \cup {"lost"}, Put(c, where),
           place[c] \in Migrating \/ (place[c] = "loaded" /\ runs[c]),
           UNCHANGED <<listed, applied, server, did_run_migrations, runs, atStart, skipped>>,
           NEW seen \in 0..LastMigration, seen <= applied, found' = [found EXCEPT ![c] = seen],
           where \in {"found", "beginning"} => listed,
           where = "beginning" => seen < LastMigration,
           where \in {"writing", "committing"} /\ listed => seen = applied /\ applied < LastMigration,
           where \in Writers => \A d \in Connections \ {c} : place[d] \notin Writers,
           atStart = LastMigration => where \notin Unneeded /\ (where = "found" => seen = LastMigration)
    PROVE  StartInv'
<1> USE MigrationAssumption DEF StartInv
<1>1. place' = [place EXCEPT ![c] = where]
  BY DEF Put
<1>2. StartTypeOK'
  BY <1>1 DEF StartTypeOK, Places
<1>3. AppliedFits'
  <2>1. ASSUME NEW d \in Connections
        PROVE  /\ found'[d] <= applied
               /\ place'[d] \in {"found", "beginning"} => listed
               /\ place'[d] = "beginning" => found'[d] < LastMigration
               /\ place'[d] \in {"writing", "committing"} /\ listed => found'[d] = applied /\ applied < LastMigration
    <3>1. CASE d = c
      BY <1>1, <3>1 DEF StartTypeOK
    <3>2. CASE d # c
      BY <1>1, <3>2 DEF AppliedFits, StartTypeOK
    <3> QED
      BY <3>1, <3>2
  <2>2. \A d, e \in Connections : place'[d] \in Writers /\ place'[e] \in Writers => d = e
    BY <1>1 DEF AppliedFits, StartTypeOK
  <2> QED
    BY <2>1, <2>2 DEF AppliedFits
<1>4. FlagFits'
  <2>1. runs[c]
    BY DEF FlagFits
  <2> QED
    BY <1>1, <2>1 DEF FlagFits, StartTypeOK, Migrating
<1>5. NothingToDo'
  BY <1>1 DEF NothingToDo, StartTypeOK
<1> QED
  BY <1>2, <1>3, <1>4, <1>5

\* Where all was applied at the start, the list is there and all is in it.
LEMMA AllIsListed ==
    ASSUME StartInv, atStart = LastMigration
    PROVE  listed /\ applied = LastMigration /\ \A c \in Connections : CanRead(c)
<1>1. applied \in 0..LastMigration /\ atStart <= applied /\ LastMigration \in Nat \ {0}
  BY MigrationAssumption DEF StartInv, StartTypeOK, AppliedFits
<1>2. applied = LastMigration /\ listed
  BY <1>1 DEF StartInv, AppliedFits
<1>3. \A c \in Connections : CanRead(c)
  BY DEF StartInv, NothingToDo, CanRead, Others, Pending, Unneeded
<1> QED
  BY <1>2, <1>3

\* The steps of run_pending_migrations but for its commits.
LEMMA MigratingKeeps ==
    ASSUME StartInv, NEW c \in Connections, server # "stopped",
           \/ runs[c] /\ Open(c)
           \/ Read(c) \/ LookUp(c) \/ MakeList(c) \/ Begin(c) \/ Apply(c) \/ CommitBegin(c)
           \/ Fails(c) \/ Panic(c)
    PROVE  StartInv'
<1> USE MigrationAssumption DEF database, connecting, past
<1>0. /\ found \in [Connections -> 0..LastMigration] /\ applied \in 0..LastMigration /\ found[c] <= applied
      /\ found = [found EXCEPT ![c] = found[c]] /\ applied <= applied
  BY DEF StartInv, StartTypeOK, AppliedFits
<1>1. CASE runs[c] /\ Open(c)
  <2>1. place[c] = "loaded" /\ runs[c] /\ Put(c, "opened")
        /\ UNCHANGED <<listed, applied, server, did_run_migrations, runs, found, atStart, skipped>>
    BY <1>1 DEF Open
  <2> QED
    BY <1>0, <2>1, MoveKeeps DEF Migrating, Writers, Unneeded
<1>2. CASE Read(c)
  <2>1. place[c] = "opened" /\ Put(c, "reading")
        /\ UNCHANGED <<listed, applied, server, did_run_migrations, runs, found, atStart, skipped>>
    BY <1>2 DEF Read
  <2> QED
    BY <1>0, <2>1, MoveKeeps DEF Migrating, Writers, Unneeded
<1>3. CASE LookUp(c)
  <2>1. place[c] = "reading" /\ listed /\ Put(c, "found") /\ found' = [found EXCEPT ![c] = applied]
        /\ UNCHANGED <<listed, applied, server, did_run_migrations, runs, atStart, skipped>>
    BY <1>3 DEF LookUp, Seen
  <2>2. atStart = LastMigration => applied = LastMigration
    BY AllIsListed
  <2>3. /\ "found" \in Migrating \cup {"lost"} /\ place[c] \in Migrating
        /\ "found" \notin Writers /\ "found" \notin Unneeded
    BY <2>1 DEF Migrating, Writers, Unneeded
  <2> QED
    BY <1>0, <2>1, <2>2, <2>3, MoveKeeps
<1>4. CASE MakeList(c)
  <2>1. place[c] = "reading" /\ ~listed /\ Put(c, "writing")
        /\ UNCHANGED <<listed, applied, server, did_run_migrations, runs, found, atStart, skipped>>
    BY <1>4 DEF MakeList
  <2>2. \A d \in Connections \ {c} : place[d] \notin Writers
    BY <1>4 DEF MakeList, CanWrite, Others, Reserved, Pending, Writers
  <2>3. atStart # LastMigration
    BY <2>1, AllIsListed
  <2> QED
    BY <1>0, <2>1, <2>2, <2>3, MoveKeeps DEF Migrating
<1>5. CASE Begin(c)
  <2>1. place[c] = "found" /\ found[c] < LastMigration /\ Put(c, "beginning")
        /\ UNCHANGED <<listed, applied, server, did_run_migrations, runs, found, atStart, skipped>>
    BY <1>5 DEF Begin, ToApply
  <2>2. listed /\ atStart # LastMigration
    BY <1>0, <2>1 DEF StartInv, AppliedFits, NothingToDo
  <2> QED
    BY <1>0, <2>1, <2>2, MoveKeeps DEF Migrating, Writers
<1>6. CASE Apply(c)
  <2>1. place[c] = "beginning" /\ found[c] = applied /\ Put(c, "writing")
        /\ UNCHANGED <<listed, applied, server, did_run_migrations, runs, found, atStart, skipped>>
    BY <1>6 DEF Apply, Repeats
  <2>2. \A d \in Connections \ {c} : place[d] \notin Writers
    BY <1>6 DEF Apply, CanWrite, Others, Reserved, Pending, Writers
  <2>3. atStart # LastMigration /\ found[c] < LastMigration
    BY <2>1 DEF StartInv, NothingToDo, AppliedFits, Unneeded
  <2> QED
    BY <1>0, <2>1, <2>2, <2>3, MoveKeeps DEF Migrating
<1>7. CASE CommitBegin(c)
  <2>1. place[c] = "writing" /\ Put(c, "committing")
        /\ UNCHANGED <<listed, applied, server, did_run_migrations, runs, found, atStart, skipped>>
    BY <1>7 DEF CommitBegin
  <2>2. \A d \in Connections \ {c} : place[d] \notin Writers
    BY <2>1 DEF StartInv, AppliedFits, Writers
  <2>3. atStart # LastMigration /\ (listed => found[c] = applied /\ applied < LastMigration)
    BY <2>1 DEF StartInv, NothingToDo, AppliedFits, Unneeded
  <2> QED
    BY <1>0, <2>1, <2>2, <2>3, MoveKeeps DEF Migrating
<1>8. CASE Fails(c)
  <2>1. UNCHANGED <<listed, applied, server, did_run_migrations, runs, found, atStart, skipped>>
    BY <1>8 DEF Fails
  <2>2. atStart # LastMigration
    <3>1. ASSUME atStart = LastMigration PROVE FALSE
      <4>1. listed /\ CanRead(c) /\ place[c] \notin Unneeded /\ (place[c] = "found" => ~(found[c] < LastMigration))
        BY <1>0, <3>1, AllIsListed DEF StartInv, NothingToDo
      <4> QED
        BY <1>8, <4>1 DEF Fails, ToApply, Unneeded
    <3> QED
      BY <3>1
  <2>3. place[c] \in Migrating
    BY <1>8 DEF Fails, Migrating
  <2>4. CASE Put(c, "lost") \/ Put(c, "refused")
    BY <1>0, <2>1, <2>2, <2>3, <2>4, MoveKeeps DEF Migrating, Writers
  <2>5. CASE place[c] = "writing" /\ Put(c, "busy")
    <3>1. \A d \in Connections \ {c} : place[d] \notin Writers
      BY <2>5 DEF StartInv, AppliedFits, Writers
    <3> QED
      BY <1>0, <2>1, <2>2, <2>3, <2>5, <3>1, MoveKeeps DEF Migrating
  <2> QED
    BY <1>8, <2>4, <2>5 DEF Fails
<1>9. CASE Panic(c)
  <2>1. place[c] \in {"refused", "busy"} /\ Put(c, "lost")
        /\ UNCHANGED <<listed, applied, server, did_run_migrations, runs, found, atStart, skipped>>
    BY <1>9 DEF Panic
  <2>2. atStart # LastMigration
    BY <2>1 DEF StartInv, NothingToDo, Unneeded
  <2> QED
    BY <1>0, <2>1, <2>2, MoveKeeps DEF Migrating, Writers
<1> QED
  BY <1>1, <1>2, <1>3, <1>4, <1>5, <1>6, <1>7, <1>8, <1>9

\* The list is made, or a migration is committed on top of all others.
LEMMA CommitKeeps ==
    ASSUME StartInv, NEW c \in Connections, server # "stopped", CommitEnd(c)
    PROVE  StartInv'
<1> USE MigrationAssumption DEF StartInv
<1>1. /\ place[c] = "committing" /\ listed' = TRUE
      /\ UNCHANGED <<server, did_run_migrations, runs, atStart, skipped>>
  BY DEF CommitEnd, past
<1>2. \A d \in Connections \ {c} : place[d] \notin Writers
  BY <1>1 DEF AppliedFits, Writers
<1>3. atStart # LastMigration
  BY <1>1 DEF NothingToDo, Unneeded
<1>4. runs[c]
  BY <1>1 DEF FlagFits, Migrating
<1>5. CASE ~listed
  <2>1. place' = [place EXCEPT ![c] = "opened"] /\ UNCHANGED <<applied, found>>
    BY <1>5 DEF CommitEnd, Put
  <2>2. StartTypeOK'
    BY <1>1, <2>1 DEF StartTypeOK, Places, Migrating
  <2>3. AppliedFits'
    <3>1. \A d \in Connections : place'[d] \notin Writers
      BY <1>2, <2>1 DEF StartTypeOK, Writers
    <3>2. \A d \in Connections : found'[d] <= applied' /\ (place'[d] = "beginning" => found'[d] < LastMigration)
      BY <2>1 DEF AppliedFits, StartTypeOK
    <3> QED
      BY <1>1, <2>1, <3>1, <3>2 DEF AppliedFits, Writers
  <2>4. FlagFits'
    BY <1>1, <1>4, <2>1 DEF FlagFits, StartTypeOK, Migrating
  <2>5. NothingToDo'
    BY <1>1, <1>3 DEF NothingToDo
  <2> QED
    BY <2>2, <2>3, <2>4, <2>5
<1>6. CASE listed
  <2>1. /\ place' = [place EXCEPT ![c] = "found"]
        /\ applied' = found[c] + 1 /\ found' = [found EXCEPT ![c] = found[c] + 1]
    BY <1>6 DEF CommitEnd, Put
  <2>2. found[c] = applied /\ applied < LastMigration /\ applied \in Nat /\ LastMigration \in Nat
    BY <1>1, <1>6 DEF AppliedFits, StartTypeOK
  <2>3. applied' \in 0..LastMigration /\ applied <= applied'
    BY <2>1, <2>2
  <2>4. StartTypeOK'
    BY <1>1, <2>1, <2>2, <2>3 DEF StartTypeOK, Places, Migrating
  <2>5. AppliedFits'
    <3>1. \A d \in Connections : place'[d] \notin Writers
      BY <1>2, <2>1 DEF StartTypeOK, Writers
    <3>2. \A d \in Connections : found'[d] <= applied' /\ (place'[d] = "beginning" => found'[d] < LastMigration)
      BY <2>1, <2>2 DEF AppliedFits, StartTypeOK
    <3>3. atStart' <= applied'
      BY <1>1, <2>1, <2>2 DEF AppliedFits, StartTypeOK
    <3> QED
      BY <1>1, <2>1, <3>1, <3>2, <3>3 DEF AppliedFits, Writers
  <2>6. FlagFits'
    <3>1. did_run_migrations' /\ ~skipped' => applied' = LastMigration'
      BY <1>1, <2>2 DEF FlagFits
    <3> QED
      BY <1>1, <1>4, <2>1, <3>1 DEF FlagFits, StartTypeOK, Migrating
  <2>7. NothingToDo'
    BY <1>1, <1>3 DEF NothingToDo
  <2> QED
    BY <2>4, <2>5, <2>6, <2>7
<1> QED
  BY <1>5, <1>6 DEF StartTypeOK

\* The steps of connect().
LEMMA ConnectKeeps ==
    ASSUME StartInv, NEW c \in Connections, Connect(c)
    PROVE  StartInv'
<1>1. server # "stopped" /\ runs[c] \in BOOLEAN
  BY DEF Connect, StartInv, StartTypeOK
<1>2. CASE Open(c)
  BY <1>1, <1>2, MigratingKeeps, ReturnsKeep DEF Open
<1> QED
  BY <1>1, <1>2, LoadKeeps, ReturnsKeep, MigratingKeeps, CommitKeeps DEF Connect

\* The process starts, serves, or ends.
LEMMA ProcessKeeps ==
    ASSUME StartInv, Start \/ Built \/ Stop
    PROVE  StartInv'
<1> USE MigrationAssumption DEF StartInv, database, Migrating, Writers, Unneeded
<1>1. CASE Start
  <2>1. /\ server = "stopped" /\ server' = "starting" /\ atStart' = applied
        /\ UNCHANGED <<listed, applied, did_run_migrations, place, runs, found, skipped>>
    BY <1>1 DEF Start, connecting
  <2>2. \A c \in Connections : place[c] = "empty"
    BY <2>1 DEF FlagFits
  <2>3. StartTypeOK'
    BY <2>1 DEF StartTypeOK
  <2>4. AppliedFits' /\ FlagFits' /\ NothingToDo'
    BY <2>1, <2>2 DEF AppliedFits, FlagFits, NothingToDo, StartTypeOK
  <2> QED
    BY <2>3, <2>4
<1>2. CASE Built
  <2>1. /\ server' = "serving" /\ \A c \in Connections : place[c] = "idle"
        /\ UNCHANGED <<listed, applied, did_run_migrations, place, runs, found, atStart, skipped>>
    BY <1>2 DEF Built, connecting, past
  <2>2. did_run_migrations
    BY <2>1 DEF FlagFits
  <2>3. StartTypeOK'
    BY <2>1 DEF StartTypeOK
  <2>4. AppliedFits' /\ FlagFits' /\ NothingToDo'
    BY <2>1, <2>2 DEF AppliedFits, FlagFits, NothingToDo
  <2> QED
    BY <2>3, <2>4
<1>3. CASE Stop
  <2>1. /\ server' = "stopped" /\ did_run_migrations' = FALSE /\ skipped' = FALSE
        /\ place' = [c \in Connections |-> "empty"]
        /\ runs' = [c \in Connections |-> FALSE]
        /\ found' = [c \in Connections |-> 0]
        /\ UNCHANGED <<listed, applied, atStart>>
    BY <1>3 DEF Stop
  <2>2. 0 \in 0..LastMigration /\ applied \in Nat
    BY DEF StartTypeOK
  <2>3. StartTypeOK'
    <3>1. place' \in [Connections -> Places] /\ runs' \in [Connections -> BOOLEAN]
      BY <2>1 DEF Places
    <3>2. found' \in [Connections -> 0..LastMigration]
      BY <2>1, <2>2
    <3> QED
      BY <2>1, <3>1, <3>2 DEF StartTypeOK
  <2>4. AppliedFits' /\ FlagFits' /\ NothingToDo'
    BY <2>1, <2>2 DEF AppliedFits, FlagFits, NothingToDo
  <2> QED
    BY <2>3, <2>4
<1> QED
  BY <1>1, <1>2, <1>3

-----------------------------------------------------------------------------
(* Requests *)

\* A request is served by a server that serves.
LEMMA ServerServes ==
    ASSUME IInv, NEW r \in Requests, pc[r] # "idle"
    PROVE  server = "serving" /\ server # "stopped"
BY DEF IInv, RequestsFit

\* The initial state satisfies the invariant.
LEMMA InitHolds == Init => IInv
<1> SUFFICES ASSUME NoConnections, NoRequests PROVE IInv
  BY DEF Init
<1> USE PoolAssumption
<1>1. StartInv
  BY StartInit
<1>2. wants = [r \in Requests |-> None] /\ holder = [f \in Files |-> None] /\ queue = <<>>
  BY DEF NoRequests, L!Init
<1>3. queue \in Seq(Jobs)
  BY <1>2
<1>4. RequestTypeOK
  BY <1>2, <1>3 DEF RequestTypeOK, NoRequests, Kinds, PCs
<1>5. RequestsFit /\ OpenAreOut
  BY DEF RequestsFit, OpenAreOut, NoRequests
<1>6. OutIsHeld
  BY DEF OutIsHeld, NoRequests, NoConnections
<1> QED
  BY <1>1, <1>4, <1>5, <1>6 DEF IInv

\* A request goes on with what it holds.
LEMMA GoKeeps ==
    ASSUME IInv, NEW r \in Requests, server = "serving", NEW where \in PCs, Go(r, where),
           where \in {"idle", "connect", "waiting"} <=> pc[r] \in {"idle", "connect", "waiting"},
           kind' \in [Requests -> Kinds],
           queue' \in Seq(Jobs), running' \subseteq Jobs,
           wants' \in [Requests -> Files \cup {None}],
           holder' \in [Files -> Requests \cup {None}],
           open' = open \/ (open' = open \cup {conn[r]} /\ conn[r] # None),
           UNCHANGED <<startVars, conn>>
    PROVE  IInv'
<1> USE PoolAssumption DEF IInv
<1>1. /\ pc' = [pc EXCEPT ![r] = where]
      /\ UNCHANGED <<place, server, conn>>
  BY DEF Go, startVars
<1>2. StartInv'
  BY DEF StartInv, StartTypeOK, AppliedFits, FlagFits, NothingToDo, startVars, database, Migrating, Writers, Unneeded
<1>3. conn[r] \in Connections \cup {None} /\ open' \subseteq Connections
  BY DEF RequestTypeOK
<1>4. RequestTypeOK'
  BY <1>1, <1>3 DEF RequestTypeOK
<1>5. RequestsFit'
  BY <1>1 DEF RequestsFit, RequestTypeOK
<1>6. OutIsHeld'
  BY <1>1 DEF OutIsHeld
<1>7. OpenAreOut'
  BY <1>1, <1>3 DEF OpenAreOut, OutIsHeld
<1> QED
  BY <1>2, <1>4, <1>5, <1>6, <1>7

\* The pool hands out a connection.
LEMMA TakeKeeps ==
    ASSUME IInv, NEW r \in Requests, NEW c \in Connections, pc[r] \in {"connect", "waiting"}, Take(r, c),
           queue' \in Seq(Jobs), running' \subseteq Jobs, UNCHANGED <<kind, open, lockVars>>
    PROVE  IInv'
<1> USE PoolAssumption DEF IInv
<1>1. /\ place[c] = "idle" /\ place' = [place EXCEPT ![c] = "out"]
      /\ conn' = [conn EXCEPT ![r] = c] /\ pc' = [pc EXCEPT ![r] = "working"]
      /\ UNCHANGED <<server, wants, holder>>
  BY DEF Take, Put, Go, OtherStart, lockVars
<1>2. server = "serving" /\ conn[r] = None
  BY ServerServes DEF RequestsFit
<1>3. StartInv'
  BY <1>1, <1>2, PutKeeps DEF Take, OtherStart
<1>4. RequestTypeOK'
  BY <1>1 DEF RequestTypeOK, PCs
<1>5. RequestsFit'
  BY <1>1, <1>2 DEF RequestsFit, RequestTypeOK
<1>6. OpenAreOut'
  BY <1>1 DEF OpenAreOut, RequestTypeOK, StartInv, StartTypeOK
<1>7. OutIsHeld'
  <2> SUFFICES ASSUME NEW d \in Connections
               PROVE  /\ place'[d] = "out" <=> \E q \in Requests : conn'[q] = d
                      /\ \A q, u \in Requests : conn'[q] = d /\ conn'[u] = d => q = u
    BY DEF OutIsHeld
  <2>1. place \in [Connections -> Places] /\ conn \in [Requests -> Connections \cup {None}]
    BY DEF StartInv, StartTypeOK, RequestTypeOK
  <2>2. CASE d = c
    <3>1. \A q \in Requests : conn[q] # c
      BY <1>1, <2>1 DEF OutIsHeld
    <3> QED
      BY <1>1, <2>1, <2>2, <3>1
  <2>3. CASE d # c
    <3>1. \A q \in Requests : conn'[q] = d <=> conn[q] = d
      BY <1>1, <1>2, <2>1, <2>3
    <3> QED
      BY <1>1, <2>1, <2>3, <3>1 DEF OutIsHeld
  <2> QED
    BY <2>2, <2>3
<1> QED
  BY <1>3, <1>4, <1>5, <1>6, <1>7

\* A connection that is dropped is clean, or is closed.
LEMMA DropKeeps ==
    ASSUME NEW c \in Connections, NEW STATE left, NEW panicking \in BOOLEAN, Drop(c, left, panicking)
    PROVE  \/ Put(c, "idle") /\ open' = left /\ c \notin left
           \/ Put(c, "empty") /\ open' = left \ {c}
BY DEF Drop, has_broken

\* A request ends.
LEMMA LeaveKeeps ==
    ASSUME IInv, NEW r \in Requests, pc[r] # "idle",
           NEW STATE left, left \in {open, open \cup {conn[r]}, open \ {conn[r]}},
           NEW panicking \in BOOLEAN, Leave(r, left, panicking),
           queue' \in Seq(Jobs), running' \subseteq Jobs
    PROVE  IInv'
<1> USE PoolAssumption DEF IInv
<1>1. server = "serving" /\ server # "stopped" /\ UNCHANGED server
  BY ServerServes DEF Leave, OtherStart
<1>2. /\ pc' = [pc EXCEPT ![r] = "idle"] /\ kind' = [kind EXCEPT ![r] = "tree"]
      /\ conn' = [conn EXCEPT ![r] = None]
  BY DEF Leave, Go
<1>3. /\ wants' \in [Requests -> Files \cup {None}]
      /\ holder' \in [Files -> Requests \cup {None}]
  BY DEF Leave, L!Leave, lockVars, RequestTypeOK
<1>4. conn \in [Requests -> Connections \cup {None}] /\ place \in [Connections -> Places]
  BY DEF StartInv, StartTypeOK, RequestTypeOK
<1>5. RequestsFit'
  BY <1>1, <1>2 DEF RequestsFit, RequestTypeOK
<1>6. CASE conn[r] = None
  <2>1. conn' = conn
    BY <1>2, <1>4, <1>6
  <2>2. UNCHANGED <<startVars, open>>
    BY <1>6 DEF Leave, startVars, OtherStart, connecting, past
  <2>3. StartInv'
    BY <2>2 DEF StartInv, StartTypeOK, AppliedFits, FlagFits, NothingToDo, startVars, database, Migrating, Writers, Unneeded
  <2>4. RequestTypeOK'
    BY <1>2, <1>3, <2>1, <2>2 DEF RequestTypeOK, Kinds, PCs
  <2>5. OpenAreOut' /\ OutIsHeld'
    BY <2>1, <2>2 DEF OpenAreOut, OutIsHeld, startVars
  <2> QED
    BY <1>5, <2>3, <2>4, <2>5
<1>7. CASE conn[r] # None
  <2> DEFINE c == conn[r]
  <2>1. c \in Connections /\ place[c] = "out"
    BY <1>4, <1>7 DEF OutIsHeld
  <2>2. PICK where \in {"idle", "empty"} : Put(c, where) /\ open' \subseteq left /\ c \notin open'
    BY <1>7, <2>1, DropKeeps DEF Leave
  <2>3. place' = [place EXCEPT ![c] = where] /\ open' \subseteq open
    BY <2>2 DEF Put
  <2>4. StartInv'
    BY <1>1, <2>1, <2>2, PutKeeps DEF Leave, OtherStart
  <2>5. RequestTypeOK'
    BY <1>2, <1>3, <2>3 DEF RequestTypeOK, Kinds, PCs
  <2>6. OpenAreOut'
    BY <1>4, <2>1, <2>2, <2>3 DEF OpenAreOut, RequestTypeOK
  <2>7. OutIsHeld'
    <3> SUFFICES ASSUME NEW d \in Connections
                 PROVE  /\ place'[d] = "out" <=> \E q \in Requests : conn'[q] = d
                        /\ \A q, u \in Requests : conn'[q] = d /\ conn'[u] = d => q = u
      BY DEF OutIsHeld
    <3>1. CASE d = c
      <4>1. \A q \in Requests : conn[q] = c => q = r
        BY <2>1 DEF OutIsHeld
      <4>2. \A q \in Requests : conn'[q] # c
        BY <1>2, <1>4, <2>1, <4>1
      <4> QED
        BY <1>4, <2>1, <2>3, <3>1, <4>2
    <3>2. CASE d # c
      <4>1. \A q \in Requests : conn'[q] = d <=> conn[q] = d
        BY <1>2, <1>4, <3>2
      <4> QED
        BY <1>4, <2>1, <2>3, <3>2, <4>1 DEF OutIsHeld
    <3> QED
      BY <3>1, <3>2
  <2> QED
    BY <1>5, <2>4, <2>5, <2>6, <2>7
<1> QED
  BY <1>6, <1>7

\* The pool or the manager moves a connection nobody has: requests keep theirs.
LEMMA OthersKeep ==
    ASSUME IInv, StartInv', server' = "serving" \/ server = server' \/ server # "serving",
           \A c \in Connections : place'[c] = "out" <=> place[c] = "out",
           UNCHANGED <<kind, pc, conn, open, wants, holder>>,
           queue' \in Seq(Jobs), running' \subseteq Jobs
    PROVE  IInv'
<1> USE PoolAssumption DEF IInv
<1>1. RequestTypeOK'
  BY DEF RequestTypeOK
<1>2. RequestsFit'
  BY DEF RequestsFit
<1>3. OpenAreOut' /\ OutIsHeld'
  BY DEF OpenAreOut, OutIsHeld, RequestTypeOK
<1> QED
  BY <1>1, <1>2, <1>3

\* What the blocking pool has to do.
LEMMA JobsKept ==
    ASSUME IInv, NEW job
    PROVE  /\ queue \in Seq(Jobs) /\ running \subseteq Jobs
           /\ UNCHANGED jobs => queue' \in Seq(Jobs) /\ running' \subseteq Jobs
           /\ job \in Jobs /\ Spawn(job) => queue' \in Seq(Jobs) /\ running' \subseteq Jobs
           /\ Ended(job) => queue' \in Seq(Jobs) /\ running' \subseteq Jobs
<1>1. queue \in Seq(Jobs) /\ running \subseteq Jobs
  BY DEF IInv, RequestTypeOK
<1>2. UNCHANGED jobs => queue' \in Seq(Jobs) /\ running' \subseteq Jobs
  BY <1>1 DEF jobs
<1>3. ASSUME job \in Jobs, Spawn(job) PROVE queue' \in Seq(Jobs) /\ running' \subseteq Jobs
  BY <1>1, <1>3 DEF Spawn
<1>4. ASSUME Ended(job) PROVE queue' \in Seq(Jobs) /\ running' \subseteq Jobs
  BY <1>1, <1>4 DEF Ended
<1> QED
  BY <1>1, <1>2, <1>3, <1>4

\* The jobs of a request.
LEMMA JobTypes ==
    ASSUME NEW r \in Requests
    PROVE  Getting(r) \in Jobs /\ Accessing(r) \in Jobs /\ Writing(r) \in Jobs
BY DEF Getting, Accessing, Writing, Jobs

\* A request that only goes on: it arrives, asks for a lock, gets it, or has a
\* file accessed.
LEMMA OnwardKeeps ==
    ASSUME IInv, NEW r \in Requests, server = "serving", NEW where \in PCs, Go(r, where),
           where \in {"idle", "connect", "waiting"} <=> pc[r] \in {"idle", "connect", "waiting"},
           UNCHANGED <<startVars, kind, conn, open>>,
           queue' \in Seq(Jobs), running' \subseteq Jobs,
           \/ UNCHANGED lockVars
           \/ (\E f \in Files : L!Ask(r, f)) \/ L!Grant(r)
    PROVE  IInv'
<1>1. /\ wants' \in [Requests -> Files \cup {None}]
      /\ holder' \in [Files -> Requests \cup {None}]
  BY DEF IInv, RequestTypeOK, L!Ask, L!Grant, lockVars
<1>2. kind' \in [Requests -> Kinds]
  BY DEF IInv, RequestTypeOK
<1> QED
  BY <1>1, <1>2, GoKeeps

\* The job of getting a connection, or nothing.
LEMMA GetKeeps ==
    ASSUME IInv, NEW r \in Requests, TryGet(r) \/ Get(r) \/ GetTimesOut(r)
    PROVE  IInv'
<1>1. CASE TryGet(r)
  <2>1. pc[r] = "connect" /\ server = "serving"
    BY <1>1, ServerServes DEF TryGet
  <2>2. CASE (\E c \in Connections : Take(r, c)) /\ UNCHANGED jobs
    BY <1>1, <2>1, <2>2, TakeKeeps, JobsKept DEF TryGet
  <2>3. CASE Spawn(Getting(r)) /\ Go(r, "waiting") /\ UNCHANGED <<startVars, conn>>
    BY <1>1, <2>1, <2>3, OnwardKeeps, JobsKept, JobTypes DEF TryGet, PCs
  <2> QED
    BY <1>1, <2>2, <2>3 DEF TryGet
<1>2. CASE Get(r)
  <2>1. queue' \in Seq(Jobs) /\ running' \subseteq Jobs /\ UNCHANGED <<kind, lockVars>>
    BY <1>2, JobsKept DEF Get
  <2>2. ASSUME NEW c \in Connections, pc[r] = "waiting", Take(r, c), UNCHANGED open
        PROVE  IInv'
    BY <2>1, <2>2, TakeKeeps
  <2>3. ASSUME NEW c \in Connections, place[c] = "idle", Unreceived(c), UNCHANGED <<OtherStart, pc, conn>>
        PROVE  IInv'
    <3>1. c \notin open /\ place \in [Connections -> Places] /\ server # "stopped"
      BY <2>3 DEF IInv, OpenAreOut, StartInv, StartTypeOK, FlagFits
    <3>2. PICK where \in {"idle", "empty"} : Put(c, where) /\ UNCHANGED open
      <4>1. \/ Put(c, "idle") /\ open' = open
            \/ Put(c, "empty") /\ open' = open \ {c}
        BY <2>3 DEF Unreceived, Drop, has_broken
      <4> QED
        BY <3>1, <4>1
    <3>3. StartInv'
      BY <2>3, <3>1, <3>2, PutKeeps DEF IInv, OtherStart
    <3>4. \A d \in Connections : place'[d] = "out" <=> place[d] = "out"
      BY <2>3, <3>1, <3>2 DEF Put
    <3>5. UNCHANGED <<kind, pc, conn, open, wants, holder>> /\ server' = server
      BY <2>1, <2>3, <3>2 DEF OtherStart, lockVars
    <3> QED
      BY <2>1, <3>3, <3>4, <3>5, OthersKeep
  <2> QED
    BY <1>2, <2>2, <2>3 DEF Get
<1>3. CASE GetTimesOut(r)
  <2>1. queue' \in Seq(Jobs) /\ running' \subseteq Jobs
    BY <1>3, JobsKept DEF GetTimesOut
  <2>2. CASE pc[r] = "waiting" /\ Leave(r, open, FALSE)
    BY <2>1, <2>2, LeaveKeeps
  <2>3. CASE UNCHANGED <<startVars, kind, pc, conn, open, lockVars>>
    <3>1. StartInv'
      BY <2>3 DEF IInv, StartInv, StartTypeOK, AppliedFits, FlagFits, NothingToDo, startVars, database, Migrating, Writers, Unneeded
    <3> QED
      BY <2>1, <2>3, <3>1, OthersKeep DEF startVars, lockVars
  <2> QED
    BY <1>3, <2>2, <2>3 DEF GetTimesOut
<1> QED
  BY <1>1, <1>2, <1>3

\* The routes, from the connection they get to their answer.
LEMMA ServeKeeps ==
    ASSUME IInv, NEW r \in Requests,
           Serve(r) \/ Lock(r) \/ Cancel(r) \/ \E k \in Kinds : Receive(r, k)
    PROVE  IInv'
<1>1. ASSUME pc[r] # "idle", Answer(r) \/ AnswerClean(r) \/ Leave(r, open, TRUE) \/ Leave(r, open, FALSE),
             UNCHANGED jobs
      PROVE  IInv'
  BY <1>1, LeaveKeeps, JobsKept DEF Answer, AnswerClean
<1>2. ASSUME NEW where \in {"reading", "opening", "moving"}, AccessFile(r, where),
             pc[r] \in {"working", "locked", "streaming"}, open' \in {open, open \cup {conn[r]}}
      PROVE  IInv'
  <2>1. server = "serving" /\ conn[r] # None
    BY <1>2, ServerServes, PoolAssumption DEF IInv, RequestsFit
  <2>2. /\ Go(r, where) /\ where \in PCs /\ where \notin {"idle", "connect", "waiting"}
        /\ pc[r] \notin {"idle", "connect", "waiting"}
        /\ UNCHANGED <<startVars, kind, conn, wants, holder>>
    BY <1>2 DEF AccessFile, PCs, lockVars
  <2>3. queue' \in Seq(Jobs) /\ running' \subseteq Jobs
    BY <1>2, JobsKept, JobTypes DEF AccessFile
  <2>4. /\ kind' \in [Requests -> Kinds]
        /\ wants' \in [Requests -> Files \cup {None}] /\ holder' \in [Files -> Requests \cup {None}]
    BY <2>2 DEF IInv, RequestTypeOK
  <2> QED
    BY <1>2, <2>1, <2>2, <2>3, <2>4, GoKeeps
<1>3. CASE ServeTree(r)
  BY <1>1, <1>3 DEF ServeTree
<1>4. CASE ServeData(r)
  BY <1>1, <1>2, <1>4 DEF ServeData
<1>5. CASE AskForLock(r)
  <2>1. pc[r] = "working" /\ server = "serving" /\ UNCHANGED jobs
    BY <1>5, ServerServes DEF AskForLock
  <2>2. CASE (\E f \in Files : L!Ask(r, f)) /\ Go(r, "locking") /\ UNCHANGED <<startVars, kind, conn, open>>
    BY <2>1, <2>2, OnwardKeeps, JobsKept DEF PCs
  <2> QED
    BY <1>1, <1>5, <2>1, <2>2 DEF AskForLock
<1>6. CASE Check(r)
  BY <1>1, <1>2, <1>6 DEF Check
<1>7. CASE WriteBlock(r) \/ Update(r)
  <2>1. pc[r] = "streaming" /\ server = "serving" /\ conn[r] # None
    BY <1>7, ServerServes, PoolAssumption DEF WriteBlock, Update, IInv, RequestsFit
  <2>2. CASE WriteBlock(r)
    <3>1. queue' \in Seq(Jobs) /\ running' \subseteq Jobs
      BY <2>2, JobsKept, JobTypes DEF WriteBlock
    <3> QED
      BY <2>1, <2>2, <3>1, OnwardKeeps DEF WriteBlock, PCs
  <2>3. CASE /\ queue' = Append(Append(queue, Writing(r)), Accessing(r)) /\ UNCHANGED running
             /\ Go(r, "moving")
             /\ open' = open \cup {conn[r]}
             /\ UNCHANGED <<startVars, kind, conn, lockVars>>
    <3>1. queue' \in Seq(Jobs) /\ running' \subseteq Jobs
      BY <2>3, JobTypes DEF IInv, RequestTypeOK
    <3>2. /\ kind' \in [Requests -> Kinds]
          /\ wants' \in [Requests -> Files \cup {None}] /\ holder' \in [Files -> Requests \cup {None}]
      BY <2>3 DEF IInv, RequestTypeOK, lockVars
    <3> QED
      BY <2>1, <2>3, <3>1, <3>2, GoKeeps DEF PCs
  <2>4. CASE Answer(r) /\ UNCHANGED jobs
    BY <1>1, <2>1, <2>4
  <2>5. CASE AccessFile(r, "moving") /\ open' = open \cup {conn[r]}
    BY <1>2, <2>1, <2>5
  <2> QED
    BY <1>7, <2>2, <2>3, <2>4, <2>5 DEF Update
<1>8. CASE Lock(r)
  <2>1. /\ pc[r] = "locking" /\ server = "serving" /\ L!Grant(r) /\ Go(r, "locked")
        /\ UNCHANGED jobs /\ UNCHANGED <<startVars, kind, conn, open>>
    BY <1>8, ServerServes DEF Lock
  <2> QED
    BY <2>1, OnwardKeeps, JobsKept DEF PCs
<1>9. CASE Cancel(r)
  BY <1>1, <1>9 DEF Cancel
<1>10. ASSUME NEW k \in Kinds, Receive(r, k) PROVE IInv'
  <2>1. /\ server = "serving" /\ pc[r] = "idle" /\ Go(r, "connect")
        /\ UNCHANGED <<startVars, conn, open, wants, holder>> /\ UNCHANGED jobs
    BY <1>10 DEF Receive, lockVars
  <2>2. /\ kind' \in [Requests -> Kinds] /\ wants' \in [Requests -> Files \cup {None}]
        /\ holder' \in [Files -> Requests \cup {None}]
    BY <1>10, <2>1 DEF Receive, IInv, RequestTypeOK
  <2>3. queue' \in Seq(Jobs) /\ running' \subseteq Jobs
    BY <2>1, JobsKept
  <2> QED
    BY <2>1, <2>2, <2>3, GoKeeps DEF PCs
<1> QED
  BY <1>3, <1>4, <1>5, <1>6, <1>7, <1>8, <1>9, <1>10 DEF Serve

\* A file has been accessed, a block is written, or a thread takes a job.
LEMMA PoolKeeps ==
    ASSUME IInv, (\E r \in Requests : AccessEnds(r) \/ BlockEnds(r)) \/ StartJob
    PROVE  IInv'
<1>1. ASSUME UNCHANGED <<startVars, kind, pc, conn, open, lockVars>>, queue' \in Seq(Jobs), running' \subseteq Jobs
      PROVE  IInv'
  <2>1. StartInv'
    BY <1>1 DEF IInv, StartInv, StartTypeOK, AppliedFits, FlagFits, NothingToDo, startVars, database, Migrating, Writers, Unneeded
  <2> QED
    BY <1>1, <2>1, OthersKeep DEF startVars, lockVars
<1>2. ASSUME NEW r \in Requests, AccessEnds(r) PROVE IInv'
  <2>1. queue' \in Seq(Jobs) /\ running' \subseteq Jobs
    BY <1>2, JobsKept DEF AccessEnds
  <2>2. CASE pc[r] # "idle" /\ (AnswerClean(r) \/ Answer(r))
    BY <2>1, <2>2, LeaveKeeps DEF Answer, AnswerClean
  <2>3. CASE pc[r] = "opening" /\ Go(r, "streaming") /\ UNCHANGED <<startVars, kind, conn, open, lockVars>>
    BY <2>1, <2>3, ServerServes, OnwardKeeps DEF PCs
  <2>4. CASE UNCHANGED <<startVars, kind, pc, conn, open, lockVars>>
    BY <1>1, <2>1, <2>4
  <2> QED
    BY <1>2, <2>2, <2>3, <2>4 DEF AccessEnds
<1>4. ASSUME NEW r \in Requests, BlockEnds(r) PROVE IInv'
  <2>1. queue' \in Seq(Jobs) /\ running' \subseteq Jobs
    BY <1>4, JobsKept DEF BlockEnds
  <2>2. CASE pc[r] # "idle" /\ AnswerClean(r)
    BY <2>1, <2>2, LeaveKeeps DEF AnswerClean
  <2>3. CASE pc[r] = "writing" /\ Go(r, "streaming") /\ UNCHANGED <<startVars, kind, conn, open, lockVars>>
    BY <2>1, <2>3, ServerServes, OnwardKeeps DEF PCs
  <2>4. CASE UNCHANGED <<startVars, kind, pc, conn, open, lockVars>>
    BY <1>1, <2>1, <2>4
  <2> QED
    BY <1>4, <2>2, <2>3, <2>4 DEF BlockEnds
<1>3. CASE StartJob
  <2>1. /\ queue # <<>> /\ running' = running \cup {Head(queue)} /\ queue' = Tail(queue)
        /\ queue \in Seq(Jobs) /\ running \subseteq Jobs
    BY <1>3, JobsKept DEF StartJob
  <2>2. Head(queue) \in Jobs /\ Tail(queue) \in Seq(Jobs)
    BY <2>1
  <2> QED
    BY <1>1, <1>3, <2>1, <2>2 DEF StartJob
<1> QED
  BY <1>2, <1>3, <1>4

\* The pool's own threads, and the process.
LEMMA ManagerKeeps ==
    ASSUME IInv,
           \/ \E c \in Connections : Discard(c) \/ (Connect(c) /\ UNCHANGED requestVars)
           \/ (Start \/ Built \/ BuildTimesOut) /\ UNCHANGED requestVars
    PROVE  IInv'
<1>1. place \in [Connections -> Places] /\ StartInv
  BY DEF IInv, StartInv, StartTypeOK
<1>2. ASSUME NEW c \in Connections, Discard(c) PROVE IInv'
  <2>1. server = "serving" /\ place[c] = "idle" /\ Put(c, "empty")
        /\ UNCHANGED <<database, server, did_run_migrations, connecting, past>>
        /\ UNCHANGED <<kind, pc, conn, open, wants, holder>> /\ UNCHANGED jobs
    BY <1>2 DEF Discard, OtherStart, lockVars
  <2>2. StartInv'
    BY <1>1, <2>1, PutKeeps
  <2>3. \A d \in Connections : place'[d] = "out" <=> place[d] = "out"
    BY <1>1, <2>1 DEF Put
  <2> QED
    BY <2>1, <2>2, <2>3, JobsKept, OthersKeep
<1>3. UNCHANGED requestVars => UNCHANGED <<kind, pc, conn, open, wants, holder, queue, running>>
  BY DEF requestVars, jobs, lockVars
<1>4. ASSUME NEW c \in Connections, Connect(c), UNCHANGED requestVars PROVE IInv'
  <2>1. StartInv' /\ UNCHANGED server
    BY <1>1, <1>4, ConnectKeeps DEF Connect, Load, OpenFails, Open, Read, LookUp, MakeList, Begin, Apply,
                                        CommitBegin, CommitEnd, Finish, Fails, Panic, past
  <2>2. \A d \in Connections : place'[d] = "out" <=> place[d] = "out"
    BY <1>1, <1>4 DEF Connect, Load, OpenFails, Open, Read, LookUp, MakeList, Begin, Apply,
                           CommitBegin, CommitEnd, Finish, Fails, Panic, Return, Put
  <2> QED
    BY <1>3, <1>4, <2>1, <2>2, JobsKept, OthersKeep
<1>5. CASE (Start \/ Built \/ BuildTimesOut) /\ UNCHANGED requestVars
  <2>1. StartInv' /\ server # "serving"
    BY <1>1, <1>5, ProcessKeeps DEF BuildTimesOut, Start, Built
  <2>2. \A d \in Connections : place[d] # "out"
    BY <2>1, PoolAssumption DEF IInv, OutIsHeld, RequestsFit
  <2>3. \A d \in Connections : place'[d] # "out"
    BY <1>5, <2>2 DEF BuildTimesOut, Start, Built, Stop
  <2> QED
    BY <1>3, <1>5, <2>1, <2>2, <2>3, JobsKept, OthersKeep
<1> QED
  BY <1>2, <1>4, <1>5

\* A crash leaves no request and no connection.
LEMMA CrashKeeps ==
    ASSUME IInv, Crash
    PROVE  IInv'
<1> USE PoolAssumption
<1>1. StartInv'
  BY ProcessKeeps DEF IInv, Crash
<1>2. queue' \in Seq(Jobs)
  BY DEF Crash
<1>3. RequestTypeOK'
  BY <1>2 DEF Crash, RequestTypeOK, Kinds, PCs
<1>4. RequestsFit' /\ OpenAreOut'
  BY DEF Crash, RequestsFit, OpenAreOut
<1>5. OutIsHeld'
  BY DEF Crash, Stop, OutIsHeld
<1> QED
  BY <1>1, <1>3, <1>4, <1>5 DEF IInv

\* Every step keeps the invariant.
LEMMA StepKeeps == IInv /\ [Next]_vars => IInv'
<1> SUFFICES ASSUME IInv, [Next]_vars PROVE IInv'
  OBVIOUS
<1>1. CASE Next
  BY <1>1, GetKeeps, ServeKeeps, PoolKeeps, ManagerKeeps, CrashKeeps DEF Next
<1>2. CASE UNCHANGED vars
  BY <1>2 DEF vars, startVars, requestVars, connecting, past, database, jobs, lockVars, IInv, StartInv,
              StartTypeOK, Migrating, Writers, Unneeded, AppliedFits, FlagFits, NothingToDo, RequestTypeOK, RequestsFit, OpenAreOut, OutIsHeld
<1> QED
  BY <1>1, <1>2

\* The inductive invariant.
THEOREM Invariance == Spec => []IInv
BY InitHolds, StepKeeps, PTL DEF Spec

\* Every variable keeps its type.
THEOREM TypeCorrect == Spec => []TypeOK
<1>1. IInv => TypeOK
  BY DEF IInv, StartInv, StartTypeOK, RequestTypeOK, TypeOK
<1> QED
  BY <1>1, Invariance, PTL

\* A connection the pool hands out has no open transaction (error.rs:124).
THEOREM ConnectionsStayClean == Spec => []ConnectionsAreClean
<1>1. IInv => ConnectionsAreClean
  BY DEF IInv, OpenAreOut, ConnectionsAreClean
<1> QED
  BY <1>1, Invariance, PTL

\* The pool does not leak: who is out is held (extractors.rs:143).
THEOREM NothingLeaks == Spec => []OutIsHeld
<1>1. IInv => OutIsHeld
  BY DEF IInv
<1> QED
  BY <1>1, Invariance, PTL

\* Where no connect() has failed before its migrations, requests meet all tables
\* (extractors.rs:89-94).
THEOREM RequestsMeetTheTables == Spec => []MigratedBeforeUse
<1>1. IInv => MigratedBeforeUse
  BY DEF IInv, StartInv, FlagFits, MigratedBeforeUse
<1> QED
  BY <1>1, Invariance, PTL

\* Migrations run twice are fine on a database that has them (extractors.rs:93).
THEOREM MigratingTwiceIsFine == Spec => []MigratingAgainIsFine
<1>1. IInv => MigratingAgainIsFine
  BY DEF IInv, StartInv, NothingToDo, Unneeded, MigratingAgainIsFine
<1> QED
  BY <1>1, Invariance, PTL

-----------------------------------------------------------------------------
(* The locks of the files                                                  *)

\* A request that does not get on with its lock leaves it.
LEMMA LocksKeptOrLeft ==
    ASSUME NEW r \in Requests, NEW left, NEW panicking, Leave(r, left, panicking)
    PROVE  [L!Next]_(L!vars)
BY DEF Leave, L!Next, L!vars, lockVars

\* Every step is one that PerFileMutex has, or none, or makes a new one.
LEMMA StepUsesLocks ==
    ASSUME [Next]_vars
    PROVE  [L!Next]_(L!vars) \/ L!Init'
<1>1. ASSUME NEW r \in Requests, Serve(r)
      PROVE  [L!Next]_(L!vars)
  <2>1. CASE \E left \in {open, open \cup {conn[r]}, open \ {conn[r]}} : \E panicking \in BOOLEAN : Leave(r, left, panicking)
    BY <2>1, LocksKeptOrLeft
  <2>2. CASE UNCHANGED lockVars
    BY <2>2 DEF lockVars, L!vars
  <2>3. CASE \E f \in Files : L!Ask(r, f)
    BY <2>3 DEF L!Next
  <2> QED
    BY <1>1, <2>1, <2>2, <2>3
    DEF Serve, ServeTree, ServeData, AskForLock, Check, WriteBlock, Update, AccessFile, Answer, AnswerClean
<1>2. ASSUME NEW r \in Requests, AccessEnds(r) \/ BlockEnds(r) \/ Cancel(r) \/ GetTimesOut(r)
      PROVE  [L!Next]_(L!vars)
  <2>1. CASE \E left \in {open, open \cup {conn[r]}, open \ {conn[r]}} : Leave(r, left, FALSE)
    BY <2>1, LocksKeptOrLeft
  <2>2. CASE UNCHANGED lockVars
    BY <2>2 DEF lockVars, L!vars
  <2> QED
    BY <1>2, <2>1, <2>2 DEF AccessEnds, BlockEnds, Cancel, GetTimesOut, Answer, AnswerClean
<1>3. ASSUME NEW r \in Requests, Lock(r)
      PROVE  L!Next
  BY <1>3 DEF Lock, L!Next
<1>4. CASE Crash
  BY <1>4 DEF Crash, L!Init
<1>5. CASE UNCHANGED lockVars
  BY <1>5 DEF lockVars, L!vars
<1>6. ASSUME NEW r \in Requests, (\E k \in Kinds : Receive(r, k)) \/ TryGet(r) \/ Get(r)
      PROVE  UNCHANGED lockVars
  BY <1>6 DEF Receive, TryGet, Get
<1>7. StartJob \/ (\E c \in Connections : Discard(c)) => UNCHANGED lockVars
  BY DEF StartJob, Discard
<1>8. UNCHANGED requestVars \/ UNCHANGED vars => UNCHANGED lockVars
  BY DEF requestVars, vars
<1> QED
  BY <1>1, <1>2, <1>3, <1>4, <1>5, <1>6, <1>7, <1>8 DEF Next

\* Requests use the locks as FileWriteLock promises them to work (files.rs:69),
\* however they end, until a crash makes a new FileWriteLock.
THEOREM LocksAreUsed == Spec => L!Init /\ [][L!Next \/ L!Init']_(L!vars)
<1>1. Init => L!Init
  BY DEF Init, NoRequests
<1>2. [Next]_vars => [L!Next \/ L!Init']_(L!vars)
  BY StepUsesLocks
<1> QED
  BY <1>1, <1>2, PTL DEF Spec

-----------------------------------------------------------------------------
(* What a request waits for is on its way.                                 *)

\* A job is in the blocking pool, in a thread or waiting for one.
InPool(job) == job \in running \/ \E i \in DOMAIN queue : queue[i] = job
AwaitedInPool ==
    \A r \in Requests : /\ pc[r] = "waiting" => InPool(Getting(r))
                        /\ pc[r] \in {"reading", "opening", "moving"} => InPool(Accessing(r))
                        /\ pc[r] = "writing" => InPool(Writing(r))

\* The places of a request that has the lock of its file.
HasLock(r) == pc[r] \in {"locked", "opening", "streaming", "writing", "moving"}
LocksFit ==
    \A r \in Requests : /\ wants[r] # None <=> HasLock(r) \/ pc[r] = "locking"
                        /\ HasLock(r) => holder[wants[r]] = r

\* A lock is held by a request that is at work on its file.
HoldersAtWork == \A f \in Files, r \in Requests : holder[f] = r => HasLock(r) /\ wants[r] = f

WaitInv == AwaitedInPool /\ LocksFit /\ HoldersAtWork

\* Nobody waits in vain: for a job the blocking pool does not have, for a lock
\* that was left locked (extractors.rs:139-143, files.rs:69-96), or for a
\* connection that nobody has.
NobodyWaitsInVain == AwaitedInPool /\ HoldersAtWork /\ OutIsHeld

\* What is not ended stays in the pool.
LEMMA JobsStay ==
    ASSUME IInv, NEW job, NEW done
    PROVE  /\ InPool(job) /\ UNCHANGED jobs => InPool(job)'
           /\ done \in Jobs /\ Spawn(done) => (InPool(job) => InPool(job)') /\ InPool(done)'
           /\ InPool(job) /\ job # done /\ Ended(done) => InPool(job)'
           /\ InPool(job) /\ StartJob => InPool(job)'
<1>1. queue \in Seq(Jobs)
  BY DEF IInv, RequestTypeOK
<1>2. ASSUME InPool(job), UNCHANGED jobs PROVE InPool(job)'
  BY <1>2 DEF InPool, jobs
<1>3. ASSUME done \in Jobs, Spawn(done) PROVE (InPool(job) => InPool(job)') /\ InPool(done)'
  <2>1. /\ DOMAIN queue = 1..Len(queue) /\ Len(queue) \in Nat /\ DOMAIN queue' = 1..Len(queue) + 1
        /\ \A i \in 1..Len(queue) : queue'[i] = queue[i]
        /\ queue'[Len(queue) + 1] = done
    BY <1>1, <1>3 DEF Spawn
  <2> QED
    BY <1>3, <2>1 DEF InPool, Spawn
<1>4. ASSUME InPool(job), job # done, Ended(done) PROVE InPool(job)'
  BY <1>4 DEF InPool, Ended
<1>5. ASSUME InPool(job), StartJob PROVE InPool(job)'
  <2>1. /\ running' = running \cup {Head(queue)} /\ queue' = Tail(queue) /\ queue # <<>>
    BY <1>5 DEF StartJob
  <2>2. /\ DOMAIN queue = 1..Len(queue) /\ Len(queue) \in Nat /\ Head(queue) = queue[1]
        /\ DOMAIN queue' = 1..Len(queue) - 1
        /\ \A i \in 1..Len(queue) - 1 : queue'[i] = queue[i + 1]
    BY <1>1, <2>1
  <2>3. \A i \in DOMAIN queue \ {1} : i - 1 \in DOMAIN queue' /\ queue'[i - 1] = queue[i]
    BY <2>2
  <2> QED
    BY <1>5, <2>1, <2>2, <2>3 DEF InPool
<1> QED
  BY <1>2, <1>3, <1>4, <1>5

\* Two jobs are queued one behind the other.
LEMMA TwoJobsStay ==
    ASSUME IInv, NEW one \in Jobs, NEW two \in Jobs,
           queue' = Append(Append(queue, one), two), UNCHANGED running
    PROVE  InPool(two)' /\ \A job : InPool(job) => InPool(job)'
<1>1. queue \in Seq(Jobs)
  BY DEF IInv, RequestTypeOK
<1>2. /\ DOMAIN queue = 1..Len(queue) /\ Len(queue) \in Nat /\ DOMAIN queue' = 1..Len(queue) + 2
      /\ \A i \in 1..Len(queue) : queue'[i] = queue[i]
      /\ queue'[Len(queue) + 2] = two
  BY <1>1
<1> QED
  BY <1>2 DEF InPool

\* The jobs of different requests are different, as are the three of one.
LEMMA JobsDiffer ==
    ASSUME NEW r \in Requests, NEW q \in Requests
    PROVE  /\ Getting(r) # Accessing(q) /\ Getting(r) # Writing(q) /\ Accessing(r) # Writing(q)
           /\ r # q => Getting(r) # Getting(q) /\ Accessing(r) # Accessing(q) /\ Writing(r) # Writing(q)
BY DEF Getting, Accessing, Writing

\* A request that ends waits for nothing and leaves its lock.
LEMMA LeaveFits ==
    ASSUME IInv, WaitInv, NEW r \in Requests, NEW left, NEW panicking, Leave(r, left, panicking)
    PROVE  /\ LocksFit' /\ HoldersAtWork'
           /\ pc' = [pc EXCEPT ![r] = "idle"]
<1> USE PoolAssumption DEF IInv, WaitInv
<1>1. pc' = [pc EXCEPT ![r] = "idle"]
  BY DEF Leave, Go
<1>2. /\ wants' = [wants EXCEPT ![r] = None]
      /\ wants[r] = None => holder' = holder
      /\ wants[r] # None => holder' = [holder EXCEPT ![wants[r]] = IF @ = r THEN None ELSE @]
  BY DEF Leave, L!Leave, lockVars, RequestTypeOK
<1>3. LocksFit'
  <2> SUFFICES ASSUME NEW q \in Requests
               PROVE  /\ wants'[q] # None <=> HasLock(q)' \/ pc'[q] = "locking"
                      /\ HasLock(q)' => holder'[wants'[q]] = q
    BY DEF LocksFit
  <2>1. CASE q = r
    BY <1>1, <1>2, <2>1 DEF HasLock, RequestTypeOK
  <2>2. CASE q # r
    <3>1. wants'[q] = wants[q] /\ pc'[q] = pc[q] /\ HasLock(q)' = HasLock(q)
      BY <1>1, <1>2, <2>2 DEF HasLock, RequestTypeOK
    <3>2. HasLock(q) => holder[wants[q]] = q /\ wants[q] \in Files
      BY DEF LocksFit, RequestTypeOK
    <3> QED
      BY <1>2, <2>2, <3>1, <3>2 DEF LocksFit, RequestTypeOK
  <2> QED
    BY <2>1, <2>2
<1>4. HoldersAtWork'
  <2> SUFFICES ASSUME NEW f \in Files, NEW q \in Requests, holder'[f] = q
               PROVE  HasLock(q)' /\ wants'[q] = f
    BY DEF HoldersAtWork
  <2>1. holder[f] = q
    BY <1>2 DEF RequestTypeOK
  <2>2. HasLock(q) /\ wants[q] = f
    BY <2>1 DEF HoldersAtWork
  <2>3. q # r
    BY <1>2, <2>1, <2>2 DEF RequestTypeOK
  <2> QED
    BY <1>1, <1>2, <2>2, <2>3 DEF HasLock, RequestTypeOK
<1> QED
  BY <1>1, <1>3, <1>4

\* A request that goes on without its lock, or with it, keeps the others'.
LEMMA LocksStay ==
    ASSUME IInv, WaitInv, UNCHANGED lockVars,
           \A q \in Requests : HasLock(q)' = HasLock(q) /\ (pc'[q] = "locking" <=> pc[q] = "locking")
    PROVE  LocksFit' /\ HoldersAtWork'
<1>1. UNCHANGED <<wants, holder>>
  BY DEF lockVars
<1> QED
  BY <1>1 DEF WaitInv, LocksFit, HoldersAtWork

\* The request that is on its way into a lock, or in it.
LEMMA LockingFits ==
    ASSUME IInv, WaitInv, NEW r \in Requests,
           \/ /\ pc[r] = "working" /\ pc' = [pc EXCEPT ![r] = "locking"]
              /\ \E f \in Files : L!Ask(r, f)
           \/ /\ pc[r] = "locking" /\ pc' = [pc EXCEPT ![r] = "locked"]
              /\ L!Grant(r)
    PROVE  LocksFit' /\ HoldersAtWork'
<1> USE PoolAssumption DEF IInv, WaitInv
<1>1. CASE pc[r] = "working"
  <2>1. PICK f \in Files : wants[r] = None /\ wants' = [wants EXCEPT ![r] = f] /\ holder' = holder
    BY <1>1 DEF L!Ask
  <2>2. pc' = [pc EXCEPT ![r] = "locking"]
    BY <1>1
  <2>3. LocksFit'
    BY <1>1, <2>1, <2>2 DEF LocksFit, HasLock, RequestTypeOK
  <2>4. HoldersAtWork'
    BY <1>1, <2>1, <2>2 DEF HoldersAtWork, HasLock, RequestTypeOK
  <2> QED
    BY <2>3, <2>4
<1>2. CASE pc[r] = "locking"
  <2>1. /\ wants[r] # None /\ holder[wants[r]] = None /\ wants' = wants
        /\ holder' = [holder EXCEPT ![wants[r]] = r]
        /\ pc' = [pc EXCEPT ![r] = "locked"]
    BY <1>2 DEF L!Grant
  <2>2. wants[r] \in Files
    BY <2>1 DEF RequestTypeOK
  <2>3. LocksFit'
    <3> SUFFICES ASSUME NEW q \in Requests
                 PROVE  /\ wants'[q] # None <=> HasLock(q)' \/ pc'[q] = "locking"
                        /\ HasLock(q)' => holder'[wants'[q]] = q
      BY DEF LocksFit
    <3>1. CASE q = r
      BY <2>1, <2>2, <3>1 DEF HasLock, RequestTypeOK
    <3>2. CASE q # r
      <4>1. /\ wants[q] # None <=> HasLock(q) \/ pc[q] = "locking"
            /\ HasLock(q) => holder[wants[q]] = q /\ wants[q] \in Files
        BY DEF LocksFit, RequestTypeOK
      <4>2. pc'[q] = pc[q] /\ HasLock(q)' = HasLock(q)
        BY <2>1, <3>2 DEF HasLock, RequestTypeOK
      <4> QED
        BY <2>1, <2>2, <3>2, <4>1, <4>2 DEF RequestTypeOK
    <3> QED
      BY <3>1, <3>2
  <2>4. HoldersAtWork'
    <3> SUFFICES ASSUME NEW f \in Files, NEW q \in Requests, holder'[f] = q
                 PROVE  HasLock(q)' /\ wants'[q] = f
      BY DEF HoldersAtWork
    <3>1. CASE f = wants[r]
      BY <2>1, <2>2, <3>1 DEF HasLock, RequestTypeOK
    <3>2. CASE f # wants[r]
      BY <2>1, <2>2, <3>2 DEF HoldersAtWork, HasLock, RequestTypeOK
    <3> QED
      BY <3>1, <3>2
  <2> QED
    BY <2>3, <2>4
<1> QED
  BY <1>1, <1>2

\* A request that gets a connection has asked the pool for it, or has given up.
LEMMA GettingFits ==
    ASSUME IInv, WaitInv, NEW r \in Requests, TryGet(r) \/ Get(r) \/ GetTimesOut(r)
    PROVE  WaitInv'
<1> USE DEF WaitInv
<1>0. pc \in [Requests -> PCs]
  BY DEF IInv, RequestTypeOK
<1>1. ASSUME NEW where \in {"working", "waiting"}, pc[r] \in {"connect", "waiting"},
             pc' = [pc EXCEPT ![r] = where], UNCHANGED lockVars
      PROVE  LocksFit' /\ HoldersAtWork'
  <2>1. \A q \in Requests : HasLock(q)' = HasLock(q) /\ (pc'[q] = "locking" <=> pc[q] = "locking")
    BY <1>0, <1>1 DEF HasLock
  <2> QED
    BY <1>1, <2>1, LocksStay
<1>2. ASSUME UNCHANGED <<pc, lockVars>> PROVE LocksFit' /\ HoldersAtWork'
  BY <1>2, LocksStay DEF HasLock
<1>3. CASE TryGet(r)
  <2>1. pc[r] = "connect" /\ UNCHANGED lockVars
    BY <1>3 DEF TryGet
  <2>2. CASE pc' = [pc EXCEPT ![r] = "working"] /\ UNCHANGED jobs
    <3>1. AwaitedInPool'
      BY <1>0, <2>2, JobsStay DEF AwaitedInPool
    <3> QED
      BY <1>1, <2>1, <2>2, <3>1
  <2>3. CASE pc' = [pc EXCEPT ![r] = "waiting"] /\ Spawn(Getting(r))
    <3>1. AwaitedInPool'
      BY <1>0, <2>3, JobsStay, JobTypes DEF AwaitedInPool
    <3> QED
      BY <1>1, <2>1, <2>3, <3>1
  <2> QED
    BY <1>3, <2>2, <2>3 DEF TryGet, Take, Go
<1>4. ASSUME Ended(Getting(r)), pc'[r] # "waiting",
             \A q \in Requests \ {r} : pc'[q] = pc[q],
             pc'[r] \in {"reading", "opening", "moving", "writing"} => pc'[r] = pc[r]
      PROVE  AwaitedInPool'
  <2> SUFFICES ASSUME NEW q \in Requests
               PROVE  /\ pc'[q] = "waiting" => InPool(Getting(q))'
                      /\ pc'[q] \in {"reading", "opening", "moving"} => InPool(Accessing(q))'
                      /\ pc'[q] = "writing" => InPool(Writing(q))'
    BY DEF AwaitedInPool, Getting, Accessing, Writing
  <2>1. /\ pc[q] = "waiting" => InPool(Getting(q))
        /\ pc[q] \in {"reading", "opening", "moving"} => InPool(Accessing(q))
        /\ pc[q] = "writing" => InPool(Writing(q))
    BY DEF AwaitedInPool
  <2>2. (InPool(Accessing(q)) => InPool(Accessing(q))') /\ (InPool(Writing(q)) => InPool(Writing(q))')
    BY <1>4, JobsStay, JobsDiffer
  <2>3. q # r => (InPool(Getting(q)) => InPool(Getting(q))')
    BY <1>4, JobsStay, JobsDiffer
  <2> QED
    BY <1>4, <2>1, <2>2, <2>3
<1>5. CASE Get(r)
  <2>1. Ended(Getting(r)) /\ UNCHANGED lockVars
    BY <1>5 DEF Get
  <2>2. \/ pc[r] = "waiting" /\ pc' = [pc EXCEPT ![r] = "working"]
        \/ pc[r] # "waiting" /\ pc' = pc
    BY <1>5 DEF Get, Take, Go
  <2>3. AwaitedInPool'
    BY <1>0, <1>4, <2>1, <2>2
  <2> QED
    BY <1>1, <1>2, <2>1, <2>2, <2>3
<1>6. CASE GetTimesOut(r)
  <2>1. Ended(Getting(r))
    BY <1>6 DEF GetTimesOut
  <2>2. CASE Leave(r, open, FALSE)
    <3>1. LocksFit' /\ HoldersAtWork' /\ pc' = [pc EXCEPT ![r] = "idle"]
      BY <2>2, LeaveFits
    <3> QED
      BY <1>0, <1>4, <2>1, <3>1
  <2>3. CASE pc[r] # "waiting" /\ UNCHANGED <<startVars, kind, pc, conn, open, lockVars>>
    BY <1>2, <1>4, <2>1, <2>3
  <2> QED
    BY <1>6, <2>2, <2>3 DEF GetTimesOut
<1> QED
  BY <1>3, <1>5, <1>6

\* The routes give the pool what they await, and take their locks along to the end.
LEMMA ServingFits ==
    ASSUME IInv, WaitInv, NEW r \in Requests,
           \/ Serve(r) \/ Lock(r) \/ Cancel(r) \/ AccessEnds(r) \/ BlockEnds(r)
           \/ \E k \in Kinds : Receive(r, k)
    PROVE  WaitInv'
<1> USE DEF WaitInv
<1>0. pc \in [Requests -> PCs]
  BY DEF IInv, RequestTypeOK
<1>1. ASSUME NEW where \in {"idle", "connect", "locking", "locked", "streaming"},
             pc' = [pc EXCEPT ![r] = where],
             UNCHANGED jobs \/ Ended(Accessing(r)) \/ Ended(Writing(r))
      PROVE  AwaitedInPool'
  <2> SUFFICES ASSUME NEW q \in Requests
               PROVE  /\ pc'[q] = "waiting" => InPool(Getting(q))'
                      /\ pc'[q] \in {"reading", "opening", "moving"} => InPool(Accessing(q))'
                      /\ pc'[q] = "writing" => InPool(Writing(q))'
    BY DEF AwaitedInPool, Getting, Accessing, Writing
  <2>1. /\ pc[q] = "waiting" => InPool(Getting(q))
        /\ pc[q] \in {"reading", "opening", "moving"} => InPool(Accessing(q))
        /\ pc[q] = "writing" => InPool(Writing(q))
    BY DEF AwaitedInPool
  <2>2. InPool(Getting(q)) => InPool(Getting(q))'
    BY <1>1, JobsStay, JobsDiffer
  <2>3. q # r => (InPool(Accessing(q)) => InPool(Accessing(q))') /\ (InPool(Writing(q)) => InPool(Writing(q))')
    BY <1>1, JobsStay, JobsDiffer
  <2>4. q = r => pc'[q] = where
    BY <1>0, <1>1
  <2>5. q # r => pc'[q] = pc[q]
    BY <1>0, <1>1
  <2> QED
    BY <2>1, <2>2, <2>3, <2>4, <2>5
<1>2. ASSUME NEW left, NEW panicking, Leave(r, left, panicking),
             UNCHANGED jobs \/ Ended(Accessing(r)) \/ Ended(Writing(r))
      PROVE  WaitInv'
  BY <1>1, <1>2, LeaveFits
<1>3. ASSUME NEW where \in PCs, pc' = [pc EXCEPT ![r] = where], UNCHANGED lockVars,
             where # "locking" /\ pc[r] # "locking",
             where \in {"locked", "opening", "streaming", "writing", "moving"} <=> HasLock(r)
      PROVE  LocksFit' /\ HoldersAtWork'
  <2>1. \A q \in Requests : HasLock(q)' = HasLock(q) /\ (pc'[q] = "locking" <=> pc[q] = "locking")
    BY <1>0, <1>3 DEF HasLock
  <2> QED
    BY <1>3, <2>1, LocksStay
<1>4. ASSUME NEW where \in {"reading", "opening", "moving"}, AccessFile(r, where),
             pc[r] \in {"working", "locked", "streaming"}, pc[r] = "working" <=> where = "reading"
      PROVE  WaitInv'
  <2>1. pc' = [pc EXCEPT ![r] = where] /\ Spawn(Accessing(r)) /\ UNCHANGED lockVars
    BY <1>4 DEF AccessFile, Go
  <2>2. AwaitedInPool'
    BY <1>0, <2>1, JobsStay, JobTypes DEF AwaitedInPool
  <2>3. LocksFit' /\ HoldersAtWork'
    BY <1>3, <1>4, <2>1 DEF HasLock, PCs
  <2> QED
    BY <2>2, <2>3
<1>5. CASE ServeTree(r) \/ Cancel(r)
  BY <1>2, <1>5 DEF ServeTree, Cancel, Answer
<1>6. CASE ServeData(r) \/ Check(r)
  BY <1>2, <1>4, <1>6 DEF ServeData, Check, AnswerClean
<1>10. CASE WriteBlock(r)
  <2>1. pc[r] = "streaming" /\ pc' = [pc EXCEPT ![r] = "writing"] /\ Spawn(Writing(r)) /\ UNCHANGED lockVars
    BY <1>10 DEF WriteBlock, Go
  <2>2. AwaitedInPool'
    BY <1>0, <2>1, JobsStay, JobTypes DEF AwaitedInPool
  <2>3. LocksFit' /\ HoldersAtWork'
    BY <1>3, <2>1 DEF HasLock, PCs
  <2> QED
    BY <2>2, <2>3
<1>11. CASE Update(r)
  <2>1. CASE /\ pc[r] = "streaming"
             /\ queue' = Append(Append(queue, Writing(r)), Accessing(r)) /\ UNCHANGED running
             /\ pc' = [pc EXCEPT ![r] = "moving"]
             /\ UNCHANGED lockVars
    <3>1. InPool(Accessing(r))' /\ \A job : InPool(job) => InPool(job)'
      BY <2>1, JobTypes, TwoJobsStay
    <3>2. AwaitedInPool'
      BY <1>0, <2>1, <3>1 DEF AwaitedInPool
    <3>3. LocksFit' /\ HoldersAtWork'
      BY <1>3, <2>1 DEF HasLock, PCs
    <3> QED
      BY <3>2, <3>3
  <2> QED
    BY <1>2, <1>4, <1>11, <2>1 DEF Update, Answer, Go
<1>7. CASE AskForLock(r) \/ Lock(r)
  <2>1. UNCHANGED jobs
    BY <1>7 DEF AskForLock, Lock
  <2>2. CASE AnswerClean(r)
    BY <1>2, <2>1, <2>2 DEF AnswerClean
  <2>3. CASE \/ /\ pc[r] = "working" /\ pc' = [pc EXCEPT ![r] = "locking"]
                /\ \E f \in Files : L!Ask(r, f)
             \/ /\ pc[r] = "locking" /\ pc' = [pc EXCEPT ![r] = "locked"]
                /\ L!Grant(r)
    BY <1>1, <2>1, <2>3, LockingFits
  <2> QED
    BY <1>7, <2>2, <2>3 DEF AskForLock, Lock, Go
<1>8. CASE AccessEnds(r)
  <2>1. Ended(Accessing(r))
    BY <1>8 DEF AccessEnds
  <2>2. CASE AnswerClean(r) \/ Answer(r)
    BY <1>2, <2>1, <2>2 DEF AnswerClean, Answer
  <2>3. CASE pc[r] = "opening" /\ Go(r, "streaming") /\ UNCHANGED <<startVars, kind, conn, open, lockVars>>
    BY <1>1, <1>3, <2>1, <2>3 DEF Go, HasLock, PCs
  <2>4. CASE pc[r] = "idle" /\ UNCHANGED <<startVars, kind, pc, conn, open, lockVars>>
    <3>1. pc' = [pc EXCEPT ![r] = "idle"]
      BY <1>0, <2>4
    <3> QED
      BY <1>1, <1>3, <2>1, <2>4, <3>1 DEF HasLock, PCs
  <2> QED
    BY <1>8, <2>2, <2>3, <2>4 DEF AccessEnds
<1>12. CASE BlockEnds(r)
  <2>1. Ended(Writing(r))
    BY <1>12 DEF BlockEnds
  <2>2. CASE AnswerClean(r)
    BY <1>2, <2>1, <2>2 DEF AnswerClean
  <2>3. CASE pc[r] = "writing" /\ Go(r, "streaming") /\ UNCHANGED <<startVars, kind, conn, open, lockVars>>
    BY <1>1, <1>3, <2>1, <2>3 DEF Go, HasLock, PCs
  <2>4. CASE pc[r] # "writing" /\ UNCHANGED <<startVars, kind, pc, conn, open, lockVars>>
    <3>1. \A q \in Requests : pc[q] = "writing" => Writing(q) # Writing(r)
      BY <2>4, JobsDiffer
    <3>2. \A q \in Requests : Getting(q) # Writing(r) /\ Accessing(q) # Writing(r)
      BY JobsDiffer
    <3>3. AwaitedInPool'
      <4> SUFFICES ASSUME NEW q \in Requests
                   PROVE  /\ pc[q] = "waiting" => InPool(Getting(q))'
                          /\ pc[q] \in {"reading", "opening", "moving"} => InPool(Accessing(q))'
                          /\ pc[q] = "writing" => InPool(Writing(q))'
        BY <2>4 DEF AwaitedInPool, Getting, Accessing, Writing
      <4> QED
        BY <2>1, <3>1, <3>2, JobsStay DEF AwaitedInPool
    <3>4. LocksFit' /\ HoldersAtWork'
      BY <2>4, LocksStay DEF HasLock
    <3> QED
      BY <3>3, <3>4
  <2> QED
    BY <1>12, <2>2, <2>3, <2>4 DEF BlockEnds
<1>9. ASSUME NEW k \in Kinds, Receive(r, k) PROVE WaitInv'
  <2>1. pc[r] = "idle" /\ pc' = [pc EXCEPT ![r] = "connect"] /\ UNCHANGED <<lockVars, jobs>>
    BY <1>9 DEF Receive, Go
  <2> QED
    BY <1>1, <1>3, <2>1 DEF HasLock, PCs
<1> QED
  BY <1>5, <1>6, <1>7, <1>8, <1>9, <1>10, <1>11, <1>12 DEF Serve

\* Every step keeps what is waited for on its way.
LEMMA WaitStep == IInv /\ WaitInv /\ [Next]_vars => WaitInv'
<1> SUFFICES ASSUME IInv, WaitInv, [Next]_vars PROVE WaitInv'
  OBVIOUS
<1> USE DEF WaitInv
<1>1. CASE \E r \in Requests : \/ \E k \in Kinds : Receive(r, k)
                               \/ TryGet(r) \/ Get(r) \/ GetTimesOut(r)
                               \/ Serve(r) \/ Lock(r) \/ AccessEnds(r) \/ BlockEnds(r) \/ Cancel(r)
  BY <1>1, GettingFits, ServingFits
<1>2. CASE StartJob
  <2>1. UNCHANGED <<pc, lockVars>>
    BY <1>2 DEF StartJob
  <2>2. AwaitedInPool'
    BY <1>2, <2>1, JobsStay DEF AwaitedInPool, Getting, Accessing, Writing
  <2> QED
    BY <2>1, <2>2, LocksStay DEF HasLock
<1>3. CASE \/ \E c \in Connections : Discard(c) \/ (Connect(c) /\ UNCHANGED requestVars)
           \/ (Start \/ Built \/ BuildTimesOut) /\ UNCHANGED requestVars
           \/ UNCHANGED vars
  <2>1. UNCHANGED <<pc, lockVars, jobs>>
    BY <1>3 DEF Discard, requestVars, vars
  <2>2. AwaitedInPool'
    BY <2>1, JobsStay DEF AwaitedInPool, Getting, Accessing, Writing
  <2> QED
    BY <2>1, <2>2, LocksStay DEF HasLock
<1>4. CASE Crash
  BY <1>4, PoolAssumption DEF Crash, AwaitedInPool, LocksFit, HoldersAtWork, HasLock
<1> QED
  BY <1>1, <1>2, <1>3, <1>4 DEF Next

\* What every request waits for is under way; with the fairness of the blocking
\* pool, of get() and of the locks it is what RequestsAreAnswered needs.
THEOREM WaitingEnds == Spec => []NobodyWaitsInVain
<1>1. Init => WaitInv
  BY PoolAssumption DEF Init, NoRequests, L!Init, WaitInv, AwaitedInPool, LocksFit, HoldersAtWork, HasLock
<1>2. IInv /\ WaitInv => NobodyWaitsInVain
  BY DEF IInv, WaitInv, NobodyWaitsInVain
<1> QED
  BY <1>1, <1>2, WaitStep, Invariance, PTL DEF Spec

=============================================================================
