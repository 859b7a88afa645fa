--------------------------- MODULE ConnectionPool --------------------------
(***************************************************************************)
(* What a request waits for: a connection of the pool                      *)
(* (from_request_parts of DbConnection in extractors.rs), the lock of a    *)
(* file, its body, and tokio's blocking pool.  A connection is held to the *)
(* end of the handler, so also while a write waits for the lock of its     *)
(* file and for its body (routes/files.rs:61-103); and who waits for a     *)
(* connection occupies a thread of the blocking pool, which those who hold *)
(* the connections need to write their uploads.                            *)
(*                                                                         *)
(* The lock of a file is PerFileMutex.  What a request does with tables    *)
(* and content is in NodeRoutes and FileContent; here it matters how it    *)
(* leaves its connection.                                                  *)
(***************************************************************************)
EXTENDS ConnectionManager, Sequences, FiniteSets

CONSTANTS
    Requests,   \* BOUND: requests at once; one is used again when its jobs are done
    Files,      \* the files that are written
    Threads,    \* the threads of the blocking pool
    None        \* no request, no file, no connection

ASSUME PoolAssumption ==
    /\ None \notin Requests \cup Files \cup Connections
    /\ Threads \in Nat \ {0}

VARIABLES
    kind,       \* what each request is for
    pc,         \* where it is
    conn,       \* the connection it holds
    open,       \* the connections with an open transaction
    queue,      \* the jobs no thread of the blocking pool has taken yet
    running,    \* the jobs that occupy a thread
    wants,      \* the file each request asks for or has locked
    holder      \* the request that has each file locked

lockVars == <<wants, holder>>
jobs == <<queue, running>>
requestVars == <<kind, pc, conn, open, jobs, lockVars>>
vars == <<startVars, requestVars>>

L == INSTANCE PerFileMutex WITH Tasks <- Requests, Ids <- Files

\* tree: a route of the tree; data: file_data; write: write_file_data
Kinds == {"tree", "data", "write"}
Getting(r) == [by |-> r, op |-> "get"]
Accessing(r) == [by |-> r, op |-> "file"]
Writing(r) == [by |-> r, op |-> "block"]
Jobs == [by : Requests, op : {"get", "file", "block"}]
PCs == {"idle", "connect", "waiting", "working", "locking", "locked",
        "reading", "opening", "streaming", "writing", "moving"}

NoRequests ==
    /\ kind = [r \in Requests |-> "tree"]
    /\ pc = [r \in Requests |-> "idle"]
    /\ conn = [r \in Requests |-> None]
    /\ open = {}
    /\ queue = <<>>
    /\ running = {}
    /\ L!Init

Init == NoConnections /\ NoRequests

Go(r, where) == pc' = [pc EXCEPT ![r] = where]
Spawn(job) == queue' = Append(queue, job) /\ UNCHANGED running
Ended(job) == running' = running \ {job} /\ UNCHANGED queue
OtherStart == <<database, server, did_run_migrations, connecting, past>>

-----------------------------------------------------------------------------
(* The end of a request: its connection goes back to the pool.             *)

\* Mutant of has_broken: it does not look at the connection.
has_broken_unless_panicking(c, left, panicking) == panicking
has_broken(c, left, panicking) == panicking \/ c \in left

\* left: the connections with an open transaction when it is dropped.  One
\* that is broken is closed, which rolls back, and its place is empty.
Drop(c, left, panicking) ==
    LET broken == has_broken(c, left, panicking) IN
    /\ Put(c, IF broken THEN "empty" ELSE "idle")
    /\ open' = IF broken THEN left \ {c} ELSE left

Leave(r, left, panicking) ==
    /\ Go(r, "idle")
    /\ kind' = [kind EXCEPT ![r] = "tree"]
    /\ conn' = [conn EXCEPT ![r] = None]
    /\ \/ conn[r] # None /\ Drop(conn[r], left, panicking)
       \/ conn[r] = None /\ UNCHANGED <<place, open>>
    /\ \/ wants[r] # None /\ L!Leave(r)
       \/ wants[r] = None /\ UNCHANGED lockVars
    /\ UNCHANGED OtherStart

\* A transaction that fails to commit or roll back may stay open.
Answer(r) == \E left \in {open, open \cup {conn[r]}} : Leave(r, left, FALSE)
AnswerClean(r) == Leave(r, open \ {conn[r]}, FALSE)

\* The client goes away at an await.
Cancel(r) ==
    /\ pc[r] \in {"waiting", "locking", "reading", "opening", "streaming", "writing", "moving"}
    /\ Leave(r, open, FALSE)
    /\ UNCHANGED jobs

-----------------------------------------------------------------------------
(* A request gets its connection.                                          *)

Receive(r, k) ==
    /\ server = "serving"
    /\ pc[r] = "idle"
    /\ \A job \in running : job.by # r
    /\ \A i \in DOMAIN queue : queue[i].by # r
    /\ kind' = [kind EXCEPT ![r] = k]
    /\ Go(r, "connect")
    /\ UNCHANGED <<startVars, conn, open, jobs, lockVars>>

Take(r, c) ==
    /\ place[c] = "idle"
    /\ Put(c, "out")
    /\ conn' = [conn EXCEPT ![r] = c]
    /\ Go(r, "working")
    /\ UNCHANGED OtherStart

TryGet(r) ==
    /\ pc[r] = "connect"
    /\ \/ (\E c \in Connections : Take(r, c)) /\ UNCHANGED jobs
       \/ /\ \A c \in Connections : place[c] # "idle"
          /\ Spawn(Getting(r))
          /\ Go(r, "waiting")
          /\ UNCHANGED <<startVars, conn>>
    /\ UNCHANGED <<kind, open, lockVars>>

\* What get() returns for a request that is gone is dropped.  Mutant: it is not.
UnreceivedKept(c) == Put(c, "out") /\ UNCHANGED open
Unreceived(c) == Drop(c, open, FALSE)

\* get() in a thread of the blocking pool.
Get(r) ==
    /\ Getting(r) \in running
    /\ \E c \in Connections :
          \/ pc[r] = "waiting" /\ Take(r, c) /\ UNCHANGED open
          \/ /\ pc[r] # "waiting" /\ place[c] = "idle"
             /\ Unreceived(c)
             /\ UNCHANGED <<OtherStart, pc, conn>>
    /\ Ended(Getting(r))
    /\ UNCHANGED <<kind, lockVars>>

\* "could not acquire a connection from the pool".  Mutant: get() waits on.
GetNeverTimesOut(r) == FALSE
GetTimesOut(r) ==
    /\ Getting(r) \in running
    /\ \/ pc[r] = "waiting" /\ Leave(r, open, FALSE)
       \/ pc[r] # "waiting" /\ UNCHANGED <<startVars, kind, pc, conn, open, lockVars>>
    /\ Ended(Getting(r))

-----------------------------------------------------------------------------
(* The routes                                                              *)

\* A route of the tree runs to its end at once; or it panics.
ServeTree(r) ==
    /\ pc[r] = "working" /\ kind[r] = "tree"
    /\ Answer(r) \/ Leave(r, open, TRUE)
    /\ UNCHANGED jobs

AccessFile(r, where) ==
    /\ Spawn(Accessing(r))
    /\ Go(r, where)
    /\ UNCHANGED <<startVars, kind, conn, lockVars>>

ServeData(r) ==
    /\ pc[r] = "working" /\ kind[r] = "data"
    /\ \/ AnswerClean(r) /\ UNCHANGED jobs
       \/ AccessFile(r, "reading") /\ UNCHANGED open

\* ... unless the request has no usable If-Match header.
AskForLock(r) ==
    /\ pc[r] = "working" /\ kind[r] = "write"
    /\ \/ AnswerClean(r)
       \/ /\ \E f \in Files : L!Ask(r, f)
          /\ Go(r, "locking")
          /\ UNCHANGED <<startVars, kind, conn, open>>
    /\ UNCHANGED jobs

Lock(r) ==
    /\ pc[r] = "locking"
    /\ L!Grant(r)
    /\ Go(r, "locked")
    /\ UNCHANGED <<startVars, kind, conn, open, jobs>>

Check(r) ==
    /\ pc[r] = "locked"
    /\ \/ AnswerClean(r) /\ UNCHANGED jobs
       \/ AccessFile(r, "opening") /\ UNCHANGED open

\* A block of the body, and the next waits for it (stream.rs:33-51).
WriteBlock(r) ==
    /\ pc[r] = "streaming"
    /\ Spawn(Writing(r))
    /\ Go(r, "writing")
    /\ UNCHANGED <<startVars, kind, conn, open, lockVars>>

\* The body has ended, or failed.  Nothing waits for its last block: the move,
\* which is part of the transaction, may be queued behind it.
Update(r) ==
    /\ pc[r] = "streaming"
    /\ \/ Answer(r) /\ UNCHANGED jobs
       \/ AccessFile(r, "moving") /\ open' = open \cup {conn[r]}
       \/ /\ queue' = Append(Append(queue, Writing(r)), Accessing(r)) /\ UNCHANGED running
          /\ Go(r, "moving")
          /\ open' = open \cup {conn[r]}
          /\ UNCHANGED <<startVars, kind, conn, lockVars>>

-----------------------------------------------------------------------------
(* The blocking pool                                                       *)

StartJob ==
    /\ queue # <<>>
    /\ Cardinality(running) < Threads
    /\ running' = running \cup {Head(queue)}
    /\ queue' = Tail(queue)
    /\ UNCHANGED <<startVars, kind, pc, conn, open, lockVars>>

AccessEnds(r) ==
    /\ Accessing(r) \in running
    /\ \/ pc[r] \in {"reading", "opening"} /\ AnswerClean(r)
       \/ pc[r] = "opening" /\ Go(r, "streaming") /\ UNCHANGED <<startVars, kind, conn, open, lockVars>>
       \/ pc[r] = "moving" /\ (AnswerClean(r) \/ Answer(r))
       \/ pc[r] = "idle" /\ UNCHANGED <<startVars, kind, pc, conn, open, lockVars>>
    /\ Ended(Accessing(r))

\* A block is written, or the error is that of the request.
BlockEnds(r) ==
    /\ Writing(r) \in running
    /\ \/ pc[r] = "writing" /\ AnswerClean(r)
       \/ pc[r] = "writing" /\ Go(r, "streaming") /\ UNCHANGED <<startVars, kind, conn, open, lockVars>>
       \/ pc[r] # "writing" /\ UNCHANGED <<startVars, kind, pc, conn, open, lockVars>>
    /\ Ended(Writing(r))

-----------------------------------------------------------------------------
(* The pool replaces a connection that fails its test or is old.           *)

Discard(c) ==
    /\ server = "serving"
    /\ place[c] = "idle"
    /\ Put(c, "empty")
    /\ UNCHANGED <<OtherStart, kind, pc, conn, open, jobs, lockVars>>

Crash ==
    /\ server # "stopped"
    /\ Stop
    /\ kind' = [r \in Requests |-> "tree"]
    /\ pc' = [r \in Requests |-> "idle"]
    /\ conn' = [r \in Requests |-> None]
    /\ open' = {}
    /\ queue' = <<>>
    /\ running' = {}
    /\ wants' = [r \in Requests |-> None]
    /\ holder' = [f \in Files |-> None]

Serve(r) == ServeTree(r) \/ ServeData(r) \/ AskForLock(r) \/ Check(r) \/ WriteBlock(r) \/ Update(r)

Next ==
    \/ \E r \in Requests : \/ \E k \in Kinds : Receive(r, k)
                           \/ TryGet(r) \/ Get(r) \/ GetTimesOut(r)
                           \/ Serve(r) \/ Lock(r) \/ AccessEnds(r) \/ BlockEnds(r) \/ Cancel(r)
    \/ StartJob
    \/ \E c \in Connections : \/ Discard(c)
                              \/ Connect(c) /\ UNCHANGED requestVars
    \/ (Start \/ Built \/ BuildTimesOut) /\ UNCHANGED requestVars
    \/ Crash

\* The server works on what it has received; a thread of the blocking pool does
\* its job, where get() gives up after thirty seconds at the latest; the lock of a
\* file is a queue, and bodies end (Update).
JobEnds(r) == GetTimesOut(r) \/ AccessEnds(r) \/ BlockEnds(r)

Fairness ==
    /\ \A r \in Requests : /\ WF_vars(TryGet(r) \/ Serve(r))
                           /\ WF_vars(JobEnds(r))
                           /\ SF_vars(Lock(r) \/ Update(r))
    /\ WF_vars(StartJob)

Spec == Init /\ [][Next]_vars
LiveSpec == Spec /\ Fairness

-----------------------------------------------------------------------------
(* Properties *)

\* The type of every variable.
TypeOK ==
    /\ listed \in BOOLEAN
    /\ applied \in 0..LastMigration
    /\ server \in {"stopped", "starting", "serving"}
    /\ did_run_migrations \in BOOLEAN
    /\ place \in [Connections -> Places]
    /\ runs \in [Connections -> BOOLEAN]
    /\ found \in [Connections -> 0..LastMigration]
    /\ atStart \in 0..LastMigration
    /\ skipped \in BOOLEAN
    /\ kind \in [Requests -> Kinds]
    /\ pc \in [Requests -> PCs]
    /\ conn \in [Requests -> Connections \cup {None}]
    /\ open \subseteq Connections
    /\ queue \in Seq(Jobs)
    /\ running \subseteq Jobs
    /\ wants \in [Requests -> Files \cup {None}]
    /\ holder \in [Files -> Requests \cup {None}]

\* A connection the pool hands out has no open transaction, whatever its last
\* request came to: a commit that failed, a panic, or a client that went away
\* while async_transaction, "not cancel-safe" (error.rs:124), awaited the move.
ConnectionsAreClean == \A c \in Connections : place[c] = "idle" => c \notin open

\* Each connection that is out is held by one request, and goes back when its
\* request is gone, also if it is only then that get() returns it
\* (extractors.rs:143): the pool does not leak.
OutIsHeld ==
    \A c \in Connections :
        /\ place[c] = "out" <=> \E r \in Requests : conn[r] = c
        /\ \A r, q \in Requests : conn[r] = c /\ conn[q] = c => r = q

\* Where no connect() has failed before its migrations, requests meet all tables,
\* although it is another connection that may have set did_run_migrations and
\* another that has applied them (extractors.rs:89-94).
MigratedBeforeUse == server = "serving" /\ ~skipped => applied = LastMigration

\* "migrations being run twice which is fine" (extractors.rs:93): it is, if the
\* database had them when the server started.
MigratingAgainIsFine == atStart = LastMigration => \A c \in Connections : place[c] # "lost"

\* Every request is answered, with an error if need be: also when all threads of
\* the blocking pool wait for connections, and those who hold the connections
\* wait for a thread.
RequestsAreAnswered == \A r \in Requests : pc[r] # "idle" ~> pc[r] = "idle"

=============================================================================
