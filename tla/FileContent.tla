---------------------------- MODULE FileContent ----------------------------
(***************************************************************************)
(* Writing and reading the content of files: write_file_data and file_data *)
(* (server/src/routes/files.rs), UploadFile (upload_file.rs), the body     *)
(* written to it (stream.rs) and async_transaction (error.rs).             *)
(*                                                                         *)
(* A body is written to uploads/<id> under the lock of the file, then      *)
(* renamed to files/<hash> in the transaction that records the hash.       *)
(* Every operation on the file system is a task of tokio's blocking pool:  *)
(* the threads take tasks in order and finish them in any, also when the   *)
(* request that spawned one is gone.  What is on disk outlives a crash.    *)
(*                                                                         *)
(* The lock of a file is PerFileMutex, which FileWriteLock implements.     *)
(* The other users of the database appear as statements that may fail with *)
(* SQLITE_BUSY at any time and as the deletion of a file.                  *)
(***************************************************************************)
EXTENDS Naturals, Sequences

CONSTANTS
    Writers,    \* BOUND: requests to write; one is used again when its tasks have run
    Readers,    \* requests to read
    Ids,        \* the files, created before; the id of a directory is none of them
    Bodies,     \* what is written to them: sequences of blocks, one for each chunk
    Inodes,     \* the files the file system has room for
    None,       \* no writer, id or inode
    Gone        \* the content of a deleted file

\* EMPTY_HASH.  A content stands for its hash.
Empty == <<>>
Contents == Bodies \cup {Empty}
Blocks == UNION {{b[i] : i \in DOMAIN b} : b \in Bodies}

ASSUME ConstantsAssumption ==
    /\ Bodies \subseteq Seq(Blocks)
    /\ None \notin Writers \cup Ids \cup Inodes \cup Contents
    /\ None \notin [id : Ids, prev : Contents, body : Contents]
    /\ Gone \notin Contents

VARIABLES
    stored,     \* the hash in the row of each file
    uploads,    \* the directory uploads/: the inode at the path of each file
    files,      \* the directory files/: the inode at the path of each hash
    bytes,      \* what is in each inode
    tasks,      \* what the blocking pool has still to do
    wants,      \* the file each writer asks for or has locked
    holder,     \* the writer that has each file locked
    reserved,   \* the writer whose transaction has SQLite's RESERVED lock
    pc,         \* where each writer is
    prev,       \* the hash its If-Match header names
    body,       \* the body of its request
    sent,       \* the number of blocks of it given to the blocking pool
    handle,     \* the inode of its UploadFile
    status,     \* its answer
    seen        \* the hash each reader has looked up

db == <<stored, reserved>>
disk == <<uploads, files, bytes>>
lockVars == <<wants, holder>>
input == <<prev, body, sent>>
vars == <<db, disk, tasks, lockVars, pc, input, handle, status, seen>>

L == INSTANCE PerFileMutex WITH Tasks <- Writers

PCs == {"idle", "locking", "locked", "opening", "streaming", "moving", "moved", "answered"}
Statuses == {"none", "NoContent", "NotFound", "Modified", "Locked", "UploadFailed", "MoveFailed"}
Tasks == [op : {"open", "remove"}, by : Writers, id : Ids]
         \cup [op : {"rename"}, by : Writers, id : Ids, to : Contents]
         \cup [op : {"write"}, by : Writers, inode : Inodes, pos : Nat, block : Blocks]

Init ==
    /\ stored = [id \in Ids |-> Empty]
    /\ uploads = [id \in Ids |-> None]
    /\ files = [c \in Contents |-> None]
    /\ bytes = [i \in Inodes |-> <<>>]
    /\ tasks = <<>>
    /\ L!Init
    /\ reserved = None
    /\ pc = [w \in Writers |-> "idle"]
    /\ prev = [w \in Writers |-> Empty]
    /\ body = [w \in Writers |-> Empty]
    /\ sent = [w \in Writers |-> 0]
    /\ handle = [w \in Writers |-> None]
    /\ status = [w \in Writers |-> "none"]
    /\ seen = [r \in Readers |-> None]

Go(w, place) == pc' = [pc EXCEPT ![w] = place]
Pending(P(_)) == \E i \in DOMAIN tasks : P(tasks[i])

-----------------------------------------------------------------------------
(* The end of a request, however it comes about: its locals are dropped.   *)

\* Drop for UploadFile: unless it was moved, its path is removed later.
Dropped(w, moved) ==
    IF handle[w] = None \/ moved THEN <<>> ELSE <<[op |-> "remove", by |-> w, id |-> wants[w]]>>

\* A connection whose transaction was rolled back, or is still open and so is
\* closed by the pool (has_broken).  Mutant: it goes on holding its lock.
StillReserved(w) == reserved
Released(w) == IF reserved = w THEN None ELSE reserved

\* queue is what else the blocking pool has to do.
Leave(w, queue, moved) ==
    /\ tasks' = queue \o Dropped(w, moved)
    /\ reserved' = Released(w)
    /\ L!Leave(w)
    /\ prev' = [prev EXCEPT ![w] = Empty]
    /\ body' = [body EXCEPT ![w] = Empty]
    /\ sent' = [sent EXCEPT ![w] = 0]
    /\ handle' = [handle EXCEPT ![w] = None]
    /\ UNCHANGED seen

Answer(w, s, queue, moved) ==
    /\ Go(w, "answered")
    /\ status' = [status EXCEPT ![w] = s]
    /\ Leave(w, queue, moved)

Refuse(w, s) == Answer(w, s, tasks, FALSE) /\ UNCHANGED <<stored, disk>>

Respond(w) ==
    /\ pc[w] = "answered"
    /\ Go(w, "idle")
    /\ status' = [status EXCEPT ![w] = "none"]
    /\ UNCHANGED <<db, disk, tasks, lockVars, input, handle, seen>>

\* The client goes away at an await: the future is dropped.
Cancel(w) ==
    /\ pc[w] \in {"locking", "opening", "streaming", "moving", "moved"}
    /\ Go(w, "idle")
    /\ Leave(w, tasks, FALSE)
    /\ UNCHANGED <<stored, disk, status>>

-----------------------------------------------------------------------------
(* write_file_data up to the end of the body                               *)

Receive(w, id, p, b) ==
    /\ pc[w] = "idle"
    /\ \A i \in DOMAIN tasks : tasks[i].by # w
    /\ L!Ask(w, id)
    /\ prev' = [prev EXCEPT ![w] = p]
    /\ body' = [body EXCEPT ![w] = b]
    /\ Go(w, "locking")
    /\ UNCHANGED <<db, disk, tasks, sent, handle, status, seen>>

Lock(w) ==
    /\ pc[w] = "locking"
    /\ L!Grant(w)
    /\ Go(w, "locked")
    /\ UNCHANGED <<db, disk, tasks, input, handle, status, seen>>

\* get_file_info and the comparison with If-Match
CheckFails(w) ==
    /\ pc[w] = "locked"
    /\ \/ Refuse(w, "Locked")
       \/ stored[wants[w]] = Gone /\ Refuse(w, "NotFound")
       \/ stored[wants[w]] \notin {Gone, prev[w]} /\ Refuse(w, "Modified")

\* ... and UploadFile::new
Check(w) ==
    /\ pc[w] = "locked"
    /\ stored[wants[w]] = prev[w]
    /\ tasks' = Append(tasks, [op |-> "open", by |-> w, id |-> wants[w]])
    /\ Go(w, "opening")
    /\ UNCHANGED <<db, disk, lockVars, input, handle, status, seen>>

\* The file takes the next chunk when the write of the one before is done.
WriteBlock(w) ==
    /\ pc[w] = "streaming"
    /\ sent[w] < Len(body[w])
    /\ ~Pending(LAMBDA t : t.op = "write" /\ t.by = w)
    /\ sent' = [sent EXCEPT ![w] = @ + 1]
    /\ tasks' = Append(tasks, [op |-> "write", by |-> w, inode |-> handle[w],
                               pos |-> sent[w] + 1, block |-> body[w][sent[w] + 1]])
    /\ UNCHANGED <<db, disk, lockVars, pc, prev, body, handle, status, seen>>

\* The body ends with an error, or a write has failed.
UploadFails(w) == pc[w] = "streaming" /\ Refuse(w, "UploadFailed")

-----------------------------------------------------------------------------
(* write_file_data: the transaction.  The last block may still be with the *)
(* blocking pool: the file is not flushed.                                 *)

\* Mutant of BodyEnded: the end of the body is not waited for.
BodyNotAwaited(w) == pc[w] = "streaming"
BodyEnded(w) == pc[w] = "streaming" /\ sent[w] = Len(body[w])

\* The UPDATE finds the row by its id and its old hash.  Mutant: by its id.
MatchesId(w) == TRUE
Matches(w) == stored[wants[w]] = prev[w]

UpdateFails(w) ==
    /\ BodyEnded(w)
    /\ \/ Refuse(w, "Locked")
       \/ ~Matches(w) /\ Refuse(w, "Modified")

\* RESERVED is held while the rename is waited for.
Update(w) ==
    /\ BodyEnded(w)
    /\ reserved = None
    /\ Matches(w)
    /\ reserved' = w
    /\ tasks' = Append(tasks, [op |-> "rename", by |-> w, id |-> wants[w], to |-> body[w]])
    /\ Go(w, "moving")
    /\ UNCHANGED <<stored, disk, lockVars, input, handle, status, seen>>

Commit(w) ==
    /\ pc[w] = "moved"
    /\ stored' = [stored EXCEPT ![wants[w]] = body[w]]
    /\ Answer(w, "NoContent", tasks, TRUE)
    /\ UNCHANGED disk

CommitFails(w) ==
    /\ pc[w] = "moved"
    /\ Answer(w, "Locked", tasks, TRUE)
    /\ UNCHANGED <<stored, disk>>

-----------------------------------------------------------------------------
(* The blocking pool: the i-th task is done.                               *)

Rest(i) == [j \in 1..Len(tasks) - 1 |-> tasks[IF j < i THEN j ELSE j + 1]]
Awaited(t, place) == pc[t.by] = place

Free == {i \in Inodes : /\ \A id \in Ids : uploads[id] # i
                        /\ \A c \in Contents : files[c] # i
                        /\ \A w \in Writers : handle[w] # i
                        /\ ~Pending(LAMBDA t : t.op = "write" /\ t.inode = i)}

\* O_WRONLY | O_CREAT: a file that is there is opened as it is.
\* Mutant of Opened: it is not created.
OpenedExisting(id) == {uploads[id]}
Opened(id) == IF uploads[id] # None THEN {uploads[id]} ELSE Free

RunOpen(i) ==
    LET t == tasks[i] IN
    /\ t.op = "open"
    /\ \/ \E inode \in Opened(t.id) :
             /\ uploads' = [uploads EXCEPT ![t.id] = inode]
             /\ bytes' = IF uploads[t.id] = None THEN [bytes EXCEPT ![inode] = <<>>] ELSE bytes
             /\ tasks' = Rest(i)
             /\ \/ /\ Awaited(t, "opening")
                   /\ handle' = [handle EXCEPT ![t.by] = inode]
                   /\ Go(t.by, "streaming")
                \/ ~Awaited(t, "opening") /\ UNCHANGED <<handle, pc>>
             /\ UNCHANGED <<db, files, lockVars, input, status, seen>>
       \/ /\ Opened(t.id) = {}
          /\ \/ Awaited(t, "opening") /\ Answer(t.by, "UploadFailed", Rest(i), FALSE)
             \/ /\ ~Awaited(t, "opening")
                /\ tasks' = Rest(i)
                /\ UNCHANGED <<reserved, lockVars, pc, input, handle, status, seen>>
          /\ UNCHANGED <<stored, disk>>

Written(content, pos, block) ==
    IF pos <= Len(content) THEN [content EXCEPT ![pos] = block] ELSE Append(content, block)

RunWrite(i) ==
    LET t == tasks[i] IN
    /\ t.op = "write"
    /\ bytes' = [bytes EXCEPT ![t.inode] = Written(@, t.pos, t.block)]
    /\ tasks' = Rest(i)
    /\ UNCHANGED <<db, uploads, files, lockVars, pc, input, handle, status, seen>>

\* What rename leaves in files/.  Mutant: it also removes the content replaced.
RenamedAndPruned(t) == [files EXCEPT ![t.to] = uploads[t.id], ![prev[t.by]] = None]
Renamed(t) == [files EXCEPT ![t.to] = uploads[t.id]]

\* Mutant of Missing: the result of rename is not looked at.
MissingIgnored(t) == FALSE
Missing(t) == uploads[t.id] = None

RunRename(i) ==
    LET t == tasks[i] IN
    /\ t.op = "rename"
    /\ \/ /\ ~Missing(t)
          /\ files' = Renamed(t)
          /\ uploads' = [uploads EXCEPT ![t.id] = None]
          /\ tasks' = Rest(i)
          /\ \/ Awaited(t, "moving") /\ Go(t.by, "moved")
             \/ ~Awaited(t, "moving") /\ UNCHANGED pc
          /\ UNCHANGED <<db, bytes, lockVars, input, handle, status, seen>>
       \/ /\ Missing(t)
          /\ \/ Awaited(t, "moving") /\ Answer(t.by, "MoveFailed", Rest(i), FALSE)
             \/ /\ ~Awaited(t, "moving")
                /\ tasks' = Rest(i)
                /\ UNCHANGED <<reserved, lockVars, pc, input, handle, status, seen>>
          /\ UNCHANGED <<stored, disk>>

\* That nothing is there is only printed.
RunRemove(i) ==
    LET t == tasks[i] IN
    /\ t.op = "remove"
    /\ uploads' = [uploads EXCEPT ![t.id] = None]
    /\ tasks' = Rest(i)
    /\ UNCHANGED <<db, files, bytes, lockVars, pc, input, handle, status, seen>>

Run(i) == RunOpen(i) \/ RunWrite(i) \/ RunRename(i) \/ RunRemove(i)

-----------------------------------------------------------------------------
(* file_data, the deletion of a file, and a crash of the server            *)

\* For an empty file, or if its hash is not what the headers of the request ask
\* for, the answer is there already.
ReadLookup(r, id) ==
    /\ seen[r] = None
    /\ stored[id] \notin {Empty, Gone}
    /\ seen' = [seen EXCEPT ![r] = stored[id]]
    /\ UNCHANGED <<db, disk, tasks, lockVars, pc, input, handle, status>>

\* The file is opened or found missing.  The answer is sent from what was opened.
ReadOpen(r) ==
    /\ seen[r] # None
    /\ seen' = [seen EXCEPT ![r] = None]
    /\ UNCHANGED <<db, disk, tasks, lockVars, pc, input, handle, status>>

\* delete_file: only the row goes.
DeleteFile(id) ==
    /\ stored[id] # Gone
    /\ reserved = None
    /\ stored' = [stored EXCEPT ![id] = Gone]
    /\ UNCHANGED <<reserved, disk, tasks, lockVars, pc, input, handle, status, seen>>

Crash ==
    /\ tasks' = <<>>
    /\ wants' = [w \in Writers |-> None]
    /\ holder' = [id \in Ids |-> None]
    /\ reserved' = None
    /\ pc' = [w \in Writers |-> "idle"]
    /\ prev' = [w \in Writers |-> Empty]
    /\ body' = [w \in Writers |-> Empty]
    /\ sent' = [w \in Writers |-> 0]
    /\ handle' = [w \in Writers |-> None]
    /\ status' = [w \in Writers |-> "none"]
    /\ seen' = [r \in Readers |-> None]
    /\ UNCHANGED <<stored, disk>>

-----------------------------------------------------------------------------

Work(w) == \/ CheckFails(w) \/ Check(w) \/ WriteBlock(w) \/ UpdateFails(w) \/ Update(w)
           \/ Commit(w) \/ CommitFails(w) \/ Respond(w)

\* What neither ends a task of the blocking pool nor stops the server.
Serve ==
    \/ \E w \in Writers : \/ \E id \in Ids, p \in Contents, b \in Bodies : Receive(w, id, p, b)
                          \/ Lock(w) \/ Work(w) \/ UploadFails(w) \/ Cancel(w)
    \/ \E r \in Readers : (\E id \in Ids : ReadLookup(r, id)) \/ ReadOpen(r)
    \/ \E id \in Ids : DeleteFile(id)

Next == Serve \/ (\E i \in DOMAIN tasks : Run(i)) \/ Crash

\* The server works on what it has received; a body comes to an end; the mutex
\* is granted in the order it was asked for; the pool's oldest task gets done.
Fairness ==
    /\ \A w \in Writers : WF_vars(Work(w)) /\ SF_vars(Lock(w))
    /\ WF_vars(tasks # <<>> /\ Run(1))

Spec == Init /\ [][Next]_vars
LiveSpec == Spec /\ Fairness

-----------------------------------------------------------------------------
(* Properties *)

\* The type of every variable; an upload that is under way has its file open.
TypeOK ==
    /\ stored \in [Ids -> Contents \cup {Gone}]
    /\ uploads \in [Ids -> Inodes \cup {None}]
    /\ files \in [Contents -> Inodes \cup {None}]
    /\ bytes \in [Inodes -> Seq(Blocks)]
    /\ tasks \in Seq(Tasks)
    /\ wants \in [Writers -> Ids \cup {None}]
    /\ holder \in [Ids -> Writers \cup {None}]
    /\ reserved \in Writers \cup {None}
    /\ pc \in [Writers -> PCs]
    /\ prev \in [Writers -> Contents]
    /\ body \in [Writers -> Contents]
    /\ sent \in [Writers -> Nat]
    /\ handle \in [Writers -> Inodes \cup {None}]
    /\ \A w \in Writers : pc[w] \in {"streaming", "moving", "moved"} => handle[w] \in Inodes
    /\ status \in [Writers -> Statuses]
    /\ seen \in [Readers -> Contents \cup {None}]

\* A row never names a hash without a file in files/: the move is done before
\* the commit and a failed move rolls the row back (files.rs:95-97), also when
\* requests are cancelled and late tasks remove or move other requests' uploads.
CommittedHaveContent ==
    \A id \in Ids : stored[id] \notin {Empty, Gone} => files[stored[id]] # None

\* A reader opens files/<hash> some time after it read the hash from the row,
\* without any lock; the file is there although the row may have changed or
\* gone meanwhile (files.rs:38, 53).
ReadersFindTheFile ==
    \A r \in Readers : seen[r] # None => files[seen[r]] # None

\* RESERVED is held across an await (files.rs:96), and a transaction that is
\* dropped there does not keep it: it belongs to a request waiting for its move.
DatabaseLockIsReleased == reserved # None => pc[reserved] \in {"moving", "moved"}

\* Writing and deleting files is one step each for whoever looks at the rows: a
\* write replaces exactly the version its client named in If-Match, however long
\* the upload took after the first comparison (files.rs:73, 88); no other write is
\* lost, no deleted file comes back, and an error means that nothing was replaced.
InProgress(w) == pc[w] \notin {"idle", "answered"}
Plain(s) == IF s \in {"Locked", "UploadFailed", "MoveFailed"} THEN "Internal" ELSE s
Store == INSTANCE ContentStore WITH
    content <- stored,
    request <- [w \in Writers |-> IF InProgress(w)
                                  THEN [id |-> wants[w], prev |-> prev[w], body |-> body[w]]
                                  ELSE None],
    answer <- [w \in Writers |-> Plain(status[w])]
ImplementsContentStore == Store!Spec

\* Every request to write is answered, unless the client goes: nobody waits for
\* ever for the lock of a file or for the blocking pool.
WritesAreAnswered ==
    \A w \in Writers : pc[w] = "locking" ~> pc[w] \in {"answered", "idle"}

\* An upload goes to a "new file" (files.rs:78): what is under the hash of a row is
\* that content, or its beginning, and nothing of another upload.
UploadFilesAreNew ==
    \A id \in Ids : stored[id] \notin {Empty, Gone} =>
        \E n \in 0..Len(stored[id]) : bytes[files[stored[id]]] = SubSeq(stored[id], 1, n)

\* An upload that fails "should be repeatable" (routes.rs:258): what it leaves behind
\* does not make the next one fail.
UploadsAreRepeatable == \A w \in Writers : status[w] # "MoveFailed"

=============================================================================
