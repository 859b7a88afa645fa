----------------------------- MODULE NodeRoutes ----------------------------
(***************************************************************************)
(* The tree routes of the server (server/src/routes/create.rs, delete.rs,  *)
(* info.rs and file_info of files.rs) running concurrently, each on a      *)
(* pooled connection of its own to one SQLite database.                    *)
(*                                                                         *)
(* The database is in SQLite's default mode (a rollback journal, deferred  *)
(* transactions) and no busy timeout is set (db::establish_connection), so *)
(* a statement that meets another connection's lock fails at once:         *)
(*   - a SELECT takes SHARED, unless another holds PENDING or EXCLUSIVE,   *)
(*     and in a transaction keeps it;                                      *)
(*   - the first statement of a transaction that writes takes RESERVED,    *)
(*     unless another holds RESERVED, PENDING or EXCLUSIVE;                *)
(*   - COMMIT takes EXCLUSIVE, unless another holds SHARED, in which case  *)
(*     it fails and leaves the transaction open and PENDING.               *)
(* A writing transaction works on a copy that COMMIT installs.             *)
(***************************************************************************)
EXTENDS NodeApi, FiniteSets

CONSTANTS
    Handlers,    \* the connections of the pool, each serving a request at a time
    RequestSet,  \* the requests clients send
    MaxId        \* BOUND: no create is received that could use a higher id

ASSUME RequestSetAssumption == RequestSet \subseteq Requests

VARIABLES
    db,         \* the committed database
    work,       \* the copy a writing transaction works on
    lock,       \* the lock each connection holds on the database
    pc,         \* where each handler is
    request,    \* the request it serves
    result,     \* the answer it has determined, or has so far
    table,      \* the table a read is going to query next
    possible    \* history: the answers a read could give at an instant since it was sent

vars == <<db, work, lock, pc, request, result, table, possible>>

Locks == {"none", "shared", "reserved", "pending", "exclusive"}
Tables == {"files", "directories", "entries", "none"}
PCs == {"idle", "received", "selected", "executed", "committing", "failed", "broken",
        "reading", "answered"}

\* The tree the tables stand for, and what this module implements.
Tree(d) == [last |-> d.current, links |-> d.entries]
Answered == [h \in Handlers |-> IF pc[h] = "answered" THEN result[h] ELSE NoAnswer]
T == INSTANCE NodeTree WITH tree <- Tree(db), answer <- Answered

Init ==
    /\ db = InitialDb
    /\ work = [h \in Handlers |-> InitialDb]
    /\ lock = [h \in Handlers |-> "none"]
    /\ pc = [h \in Handlers |-> "idle"]
    /\ request = [h \in Handlers |-> NoRequest]
    /\ result = [h \in Handlers |-> NoAnswer]
    /\ table = [h \in Handlers |-> "none"]
    /\ possible = [h \in Handlers |-> {}]

-----------------------------------------------------------------------------
(* SQLite's locks *)

OthersHold(h, locks) == \E o \in Handlers \ {h} : lock[o] \in locks
CanRead(h) == ~OthersHold(h, {"pending", "exclusive"})
CanWrite(h) == ~OthersHold(h, {"reserved", "pending", "exclusive"})
CanCommit(h) == ~OthersHold(h, {"shared", "reserved", "pending", "exclusive"})

Go(h, place) == pc' = [pc EXCEPT ![h] = place]
Hold(h, l) == lock' = [lock EXCEPT ![h] = l]
Determine(h, a) == result' = [result EXCEPT ![h] = a]
Unlocked(h) == lock[h] = "none"

\* A statement of a transaction fails; what it has done stays until the ROLLBACK.
Fail(h, a) == Go(h, "failed") /\ Determine(h, a)

-----------------------------------------------------------------------------
(* A request arrives and the extractors have run: the handler has its      *)
(* connection.                                                             *)

\* The creates that may still use an id.
Creating == {o \in Handlers : request[o].op \in CreateOps /\ pc[o] # "answered"}

Receive(h, r) ==
    /\ pc[h] = "idle"
    /\ r.op \in CreateOps => db.current + Cardinality(Creating) < MaxId
    /\ request' = [request EXCEPT ![h] = r]
    /\ Go(h, IF r.op \in ReadOps THEN "reading" ELSE "received")
    /\ table' = [table EXCEPT ![h] = IF r.op = "dir_info" THEN "directories"
                                     ELSE IF r.op \in ReadOps THEN "files" ELSE "none"]
    /\ possible' = [possible EXCEPT ![h] =
                       IF r.op \in ReadOps THEN {T!ReadAnswer(Tree(db), r)} ELSE {}]
    /\ UNCHANGED <<db, work, lock, result>>

-----------------------------------------------------------------------------
(* create_dir and create_file.  Every statement runs under the RESERVED    *)
(* lock of the first, the UPDATE of node_id, so they are one step here.    *)

CreateBusy(h) ==
    /\ pc[h] = "received" /\ request[h].op \in CreateOps
    /\ ~CanWrite(h)
    /\ Hold(h, IF CanRead(h) THEN "shared" ELSE "none")
    /\ Fail(h, Answer("Locked"))
    /\ UNCHANGED <<db, work, request, table, possible>>

CreateExecute(h) ==
    LET r == request[h]
        kind == WantedKind(r.op)
        id == NextAvailableId(db)
        entry == [parent |-> r.node, name |-> r.name, kind |-> kind, child |-> id]
        node == WithNode(db, id, kind, r.node)
    IN  /\ pc[h] = "received" /\ r.op \in CreateOps
        /\ CanWrite(h)
        /\ Hold(h, "reserved")
        /\ \/ /\ kind = "directory" /\ DirectoryInsertViolatesForeignKey(db, id, r.node)
              /\ Fail(h, Answer("Internal"))
              /\ work' = [work EXCEPT ![h] = [db EXCEPT !.current = id]]
           \/ /\ ~(kind = "directory" /\ DirectoryInsertViolatesForeignKey(db, id, r.node))
              /\ \/ \* get_entry_url
                    /\ EntryInsertViolatesUnique(node, entry)
                    /\ \/ \E e \in EntriesAt(node, r.node, r.name) :
                             Fail(h, Located("AlreadyExists", e.kind, e.child))
                       \/ /\ EntriesAt(node, r.node, r.name) = {}
                          /\ Fail(h, Answer("Internal"))
                    /\ work' = [work EXCEPT ![h] = node]
                 \/ /\ ~EntryInsertViolatesUnique(node, entry)
                    /\ EntryInsertViolatesForeignKey(node, entry)
                    /\ Fail(h, Answer("NotFound"))
                    /\ work' = [work EXCEPT ![h] = node]
                 \/ /\ ~EntryInsertViolatesUnique(node, entry)
                    /\ ~EntryInsertViolatesForeignKey(node, entry)
                    /\ Go(h, "executed")
                    /\ Determine(h, Located("Created", kind, id))
                    /\ work' = [work EXCEPT ![h] = WithEntry(node, entry)]
        /\ UNCHANGED <<db, request, table, possible>>

-----------------------------------------------------------------------------
(* delete_dir and delete_file: a SELECT of the entry and, when it leads to *)
(* nothing, of the parent; then the DELETE.                                *)

\* Mutant of HeldFromRead: without a transaction SHARED is given up at once.
HeldFromReadAlone == "none"
HeldFromRead == "shared"

DeleteSelect(h) ==
    LET r == request[h]
        found == EntriesAt(db, r.node, r.name)
    IN  /\ pc[h] = "received" /\ r.op \in DeleteOps
        /\ \/ /\ ~CanRead(h)
              /\ Fail(h, Answer("Locked"))
              /\ UNCHANGED lock
           \/ /\ CanRead(h)
              /\ Hold(h, HeldFromRead)
              /\ \/ /\ found = {}
                    /\ Fail(h, Answer(IF FileExists(db, r.node) THEN "NotADirectory" ELSE "NotFound"))
                 \/ /\ \E e \in found : e.kind # WantedKind(r.op)
                    /\ Fail(h, WrongKind(r.op))
                 \/ /\ \E e \in found : e.kind = WantedKind(r.op)
                    /\ Go(h, "selected")
                    /\ UNCHANGED result
        /\ UNCHANGED <<db, work, request, table, possible>>

\* The id of the entry found is kept in a local; the entry itself cannot
\* change as long as SHARED is held.
DeleteExecute(h) ==
    LET r == request[h] IN
    /\ pc[h] = "selected"
    /\ \E e \in EntriesAt(db, r.node, r.name) :
          \/ /\ ~CanWrite(h)
             /\ Fail(h, Answer("Locked"))
             /\ UNCHANGED <<lock, work>>
          \/ /\ CanWrite(h)
             /\ Hold(h, "reserved")
             /\ \/ /\ e.kind = "directory" /\ DirectoryDeleteViolatesForeignKey(db, e.child)
                   /\ Fail(h, Answer("DirectoryNotEmpty"))
                   /\ work' = [work EXCEPT ![h] = db]
                \/ /\ ~(IF e.kind = "directory" THEN DirectoryExists(db, e.child)
                                                ELSE FileExists(db, e.child))
                   /\ Fail(h, Answer("Panic"))
                   /\ work' = [work EXCEPT ![h] = db]
                \/ /\ IF e.kind = "directory"
                      THEN DirectoryExists(db, e.child) /\ ~DirectoryDeleteViolatesForeignKey(db, e.child)
                      ELSE FileExists(db, e.child)
                   /\ Go(h, "executed")
                   /\ Determine(h, Answer("NoContent"))
                   /\ work' = [work EXCEPT ![h] = WithoutNode(db, e.kind, e.child)]
    /\ UNCHANGED <<db, request, table, possible>>

-----------------------------------------------------------------------------
(* The end of a transaction: error::transaction *)

CommitBegin(h) ==
    /\ pc[h] = "executed"
    /\ CanCommit(h)
    /\ Hold(h, "exclusive")
    /\ Go(h, "committing")
    /\ UNCHANGED <<db, work, request, result, table, possible>>

CommitEnd(h) ==
    /\ pc[h] = "committing"
    /\ db' = work[h]
    /\ work' = [work EXCEPT ![h] = InitialDb]
    /\ Hold(h, "none")
    /\ Go(h, "answered")
    /\ possible' = [o \in Handlers |->
                       IF pc[o] = "reading"
                       THEN possible[o] \cup {T!ReadAnswer(Tree(work[h]), request[o])}
                       ELSE possible[o]]
    /\ UNCHANGED <<request, result, table>>

\* Mutant of CommitError: the error of COMMIT is not looked at.
CommitErrorIgnored(h) == result[h]
CommitError(h) == Answer("Locked")

\* SQLITE_BUSY: diesel leaves the transaction open and the handler returns
\* the error.
CommitBusy(h) ==
    /\ pc[h] = "executed"
    /\ ~CanCommit(h)
    /\ Hold(h, "pending")
    /\ Go(h, "broken")
    /\ Determine(h, CommitError(h))
    /\ UNCHANGED <<db, work, request, table, possible>>

\* Mutant of LeftHeld: a broken connection goes back into use as it is.
LeftHeldIfBroken(h) == IF pc[h] = "broken" THEN lock[h] ELSE "none"
LeftHeld(h) == "none"

\* ROLLBACK after an error; or ConnectionManager::has_broken finds the
\* transaction still open when the connection comes back to the pool, and
\* the connection is closed.
Rollback(h) ==
    /\ pc[h] \in {"failed", "broken"}
    /\ work' = [work EXCEPT ![h] = InitialDb]
    /\ Hold(h, LeftHeld(h))
    /\ Go(h, "answered")
    /\ UNCHANGED <<db, request, result, table, possible>>

-----------------------------------------------------------------------------
(* node_info, dir_info and file_info: up to three SELECTs, none of them in *)
(* a transaction, so that each takes and releases SHARED.                  *)

\* What is read leads to the next query, or determines the answer.
Query(h, a, next) ==
    /\ Determine(h, a)
    /\ table' = [table EXCEPT ![h] = next]

SelectBusy(h) ==
    /\ pc[h] = "reading" /\ Unlocked(h) /\ table[h] # "none"
    /\ ~CanRead(h)
    /\ Query(h, Answer("Locked"), "none")
    /\ UNCHANGED <<db, work, lock, pc, request, possible>>

Selecting(h, t) ==
    /\ pc[h] = "reading" /\ Unlocked(h) /\ table[h] = t
    /\ CanRead(h)
    /\ Hold(h, "shared")
    /\ UNCHANGED <<db, work, pc, request, possible>>

SelectFile(h) ==
    LET r == request[h]
        exists == FileExists(db, r.node)
    IN  /\ Selecting(h, "files")
        /\ \/ exists /\ Query(h, IF r.op = "dir_info" THEN WrongKind(r.op) ELSE FileInfo, "none")
           \/ ~exists /\ r.op = "dir_info" /\ Query(h, Answer("NotFound"), "none")
           \/ ~exists /\ r.op # "dir_info" /\ Query(h, result[h], "directories")

SelectDirectory(h) ==
    LET r == request[h]
        exists == DirectoryExists(db, r.node)
    IN  /\ Selecting(h, "directories")
        /\ \/ exists /\ r.op = "file_info" /\ Query(h, WrongKind(r.op), "none")
           \/ /\ r.op # "file_info"
              /\ \E row \in {d \in db.directories : d.id = r.node} : Query(h, DirectoryInfo(row.parent, {}), "entries")
           \/ ~exists /\ r.op = "dir_info" /\ Query(h, result[h], "files")
           \/ ~exists /\ r.op # "dir_info" /\ Query(h, Answer("NotFound"), "none")

SelectEntries(h) ==
    /\ Selecting(h, "entries")
    /\ Query(h, DirectoryInfo(result[h].node, EntriesOf(db, request[h].node)), "none")

\* The rows are loaded and the statement is reset.
SelectEnd(h) ==
    /\ pc[h] = "reading" /\ lock[h] = "shared"
    /\ Hold(h, "none")
    /\ UNCHANGED <<db, work, pc, request, result, table, possible>>

ReadEnd(h) ==
    /\ pc[h] = "reading" /\ Unlocked(h) /\ table[h] = "none"
    /\ Go(h, "answered")
    /\ UNCHANGED <<db, work, lock, request, result, table, possible>>

-----------------------------------------------------------------------------

Respond(h) ==
    /\ pc[h] = "answered"
    /\ Go(h, "idle")
    /\ request' = [request EXCEPT ![h] = NoRequest]
    /\ Determine(h, NoAnswer)
    /\ possible' = [possible EXCEPT ![h] = {}]
    /\ UNCHANGED <<db, work, lock, table>>

\* The server process stops and starts again; a journal that is still there
\* is rolled back.
Crash ==
    /\ \E h \in Handlers : pc[h] # "idle"
    /\ work' = [h \in Handlers |-> InitialDb]
    /\ lock' = [h \in Handlers |-> "none"]
    /\ pc' = [h \in Handlers |-> "idle"]
    /\ request' = [h \in Handlers |-> NoRequest]
    /\ result' = [h \in Handlers |-> NoAnswer]
    /\ table' = [h \in Handlers |-> "none"]
    /\ possible' = [h \in Handlers |-> {}]
    /\ UNCHANGED db

Transaction(h) == \/ CreateBusy(h) \/ CreateExecute(h)
                  \/ DeleteSelect(h) \/ DeleteExecute(h)
                  \/ CommitBegin(h) \/ CommitEnd(h) \/ CommitBusy(h) \/ Rollback(h)
Reading(h) == \/ SelectBusy(h) \/ SelectFile(h) \/ SelectDirectory(h) \/ SelectEntries(h)
              \/ SelectEnd(h) \/ ReadEnd(h)
Handle(h) == Transaction(h) \/ Reading(h) \/ Respond(h)

\* A client has the ids it names from answers of the server: they have been
\* given out (some of them to nodes deleted since).
Known(r) == r.node <= db.current

Next == \/ \E h \in Handlers : \/ \E r \in RequestSet : Known(r) /\ Receive(h, r)
                               \/ Handle(h)
        \/ Crash

Spec == Init /\ [][Next]_vars

-----------------------------------------------------------------------------
(* Properties *)

\* The type of every variable.
TypeOK ==
    /\ db \in Databases
    /\ work \in [Handlers -> Databases]
    /\ lock \in [Handlers -> Locks]
    /\ pc \in [Handlers -> PCs]
    /\ request \in [Handlers -> Requests \cup {NoRequest}]
    /\ result \in [Handlers -> Answers \cup {NoAnswer}]
    /\ table \in [Handlers -> Tables]
    /\ possible \in [Handlers -> SUBSET Answers]

\* No node has an id the counter has not reached, and none is both a file and
\* a directory.
IdsGivenOut(d) ==
    /\ \A r \in d.directories : r.id <= d.current /\ r.id \notin d.files
    /\ \A id \in d.files : id <= d.current

\* Every entry leads from a directory to a node of its kind, away from the
\* root: what it names has a higher id than the directory that holds it.
LinksLead(d) ==
    \A e \in d.entries :
        /\ DirectoryExists(d, e.parent)
        /\ e.kind = "directory" => [id |-> e.child, parent |-> e.parent] \in d.directories
        /\ e.kind = "file" => FileExists(d, e.child)
        /\ e.parent < e.child

\* Neither a name in a directory nor a node has two entries.
LinksUnique(d) ==
    \A e, f \in d.entries :
        \/ e.parent = f.parent /\ e.name = f.name
        \/ e.kind = f.kind /\ e.child = f.child
        => e = f

\* Every node but the root has an entry; the root is its own parent.
NodesNamed(d) ==
    /\ [id |-> Root, parent |-> Root] \in d.directories
    /\ \A r \in d.directories : \/ r = [id |-> Root, parent |-> Root]
                                \/ \E e \in d.entries : e.kind = "directory" /\ e.child = r.id
    /\ \A id \in d.files : \E e \in d.entries : e.kind = "file" /\ e.child = id

Consistent(d) == IdsGivenOut(d) /\ LinksLead(d) /\ LinksUnique(d) /\ NodesNamed(d)

\* The four tables, each changed by statements of its own, always describe one
\* tree hanging from the root: no orphan node, no entry that leads nowhere, no
\* cycle, whatever requests and crashes interleave.
TreeConsistent == Consistent(db)

\* A request that is answered has given up its lock, also when its COMMIT has
\* met a reader and left the transaction of its connection open (error.rs:114,
\* extractors.rs:104-106): it would keep all others out for ever.
LocksAreGivenUp == \A h \in Handlers : pc[h] \in {"idle", "answered"} => lock[h] = "none"

\* The entry a delete has looked up (delete.rs:7, 41) is still there, with its
\* kind, when the DELETE that uses its id runs, and what a finished but not
\* yet committed transaction has read is still what is stored: its copy
\* differs from the database by its own one node.
TransactionsIsolated ==
    \A h \in Handlers :
        LET r == request[h] IN
        /\ pc[h] = "selected" =>
              \E e \in EntriesAt(db, r.node, r.name) : e.kind = WantedKind(r.op)
        /\ pc[h] \in {"executed", "committing"} /\ r.op \in CreateOps =>
              \E e \in work[h].entries \ db.entries :
                 db = WithoutNode([work[h] EXCEPT !.current = db.current], e.kind, e.child)
        /\ pc[h] \in {"executed", "committing"} /\ r.op \in DeleteOps =>
              \E e \in EntriesAt(db, r.node, r.name) :
                 work[h] = WithoutNode(db, e.kind, e.child)

\* The panics that create.rs:11 and delete.rs:22, 29, 56, 62 call impossible are.
NoPanic == \A h \in Handlers : result[h] # Answer("Panic")

\* A step that adds a node gives it an id above all those given out before.
IdsGrow ==
    /\ db.current <= db'.current
    /\ \A id \in (db'.files \cup DirectoryIds(db')) \ (db.files \cup DirectoryIds(db)) :
          id > db.current

\* A node's id was never that of another node, not even of one deleted since:
\* clients keep ids for as long as they like (db.rs:243-246, 263-265).
IdsNeverReused == [][IdsGrow]_db

\* node_info, dir_info and file_info use several SELECTs and no transaction
\* (info.rs:6, 14, 18), yet what they answer was true at one instant.
ReadsAreAtomic ==
    \A h \in Handlers :
        pc[h] = "answered" /\ request[h].op \in ReadOps =>
            result[h] \in possible[h] \cup {Answer("Locked")}

\* Every request takes effect at one instant, as NodeTree says: success
\* answers are given for exactly the change they report, and refusals change
\* nothing and give a reason that was true.
ImplementsNodeTree == T!Spec

=============================================================================
