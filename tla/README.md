# A TLA+ model of fye

fye is a network file system: a server (`src/server`) keeps a tree of
directories and files in SQLite and the content of files on disk, and a client
(`src/client`) mounts it with FUSE and keeps a cache of what the server said.
This directory holds TLA+ modules for the parts that have state, TLC
configurations that check them on small instances, and theorems that TLAPS
checks for every instance. Line numbers in the modules and in
`PROJECT.json` refer to the commit this was written against.

## Inventory

| component | state | operations | what is hard | what makes it correct |
|---|---|---|---|---|
| tables and statements: `server/src/db.rs`, migrations | rows of `node_id`, `directories`, `files`, `directory_entries` | one method for each statement; foreign keys, UNIQUE and CASCADE are the constraints | each statement touches one table, a node is spread over three | the tables describe one tree; ids are not used again |
| tree routes: `routes/create.rs`, `delete.rs`, `info.rs`, `files.rs` (`file_info`), `error.rs` (`transaction`) | nothing of their own: a connection, its transaction and the lock it holds on the database file | create and delete a directory or file; read a node, a directory, a file's info | several connections at once, no busy timeout, reads of three SELECTs without a transaction, a COMMIT that fails and leaves its transaction open, crashes | every request takes effect at one instant or not at all |
| file write lock: `routes/files/write_lock.rs` | a map from file to a weak reference to a mutex, under an `RwLock` | `lock`, dropping the guard | mutexes die between any two steps of `get_mutex`; a panic poisons the map | one holder for each file; the map stays small; who asks is served |
| file content: `routes/files.rs`, `upload_file.rs`, `stream.rs`, `error.rs` (`async_transaction`) | `uploads/<id>`, `files/<hash>`, the hash in the row; tasks of the blocking pool | write and read the data of a file; drop of an upload | three kinds of state changed one after the other; removals and renames that run after the request that wanted them; cancellation at every await; crashes | a row names content that exists and is what was sent; a write replaces what its client named |
| connection pool and migrations: `extractors.rs`, `db::establish_connection`, `main.rs` | ten connections; whether the migrations have run | make, get, return, replace a connection | connections held while a request waits for a file or a body; who waits for one occupies a thread that the holders need; several connections run the migrations at once | nobody waits for ever; a returned connection has no open transaction and what was given out comes back; requests meet all tables |
| client cache: `client/src/local_file_cache.rs` | a map from node to what the server said of it, with the hash of a file | fetch or take from the cache, create, delete, read and write a file | concurrent operations, late and lost answers, other clients | what is in the cache was true; a lone client's cache is current; no write replaces a version its client never saw |
| FUSE operations: `client/src/filesystem.rs`, `filesystem/reply.rs` | a tokio task for each | getattr, lookup, readdir, read, write, mkdir, create, unlink, rmdir | several requests to cache and server for one operation; `expect`s on what other operations can change; a listing in pages of what changes meanwhile | a reply to everything, with the errno POSIX has for it; no panic; listings that miss and repeat nothing |
| remote data service: `client/src/remote_data_service*` | none | one HTTP request for each method; the status becomes an error kind | an answer lost after the server has acted; three tables of errors that must fit | each answer of the server becomes the error it stands for |
| extractors, hashing, shared types, start of the programs | none, or constant | parsing and construction | | |

How they interact: a FUSE operation runs as a task of the client, looks in the
cache, and sends a request by the remote data service. The server gives each
request a connection of the pool. The tree routes touch only the database.
Writing the data of a file takes the file's write lock, compares the hash in
the row, streams the body to disk through tokio's blocking pool, and renames
the upload inside a transaction. Reading looks up the hash and opens the file
of that name, without a lock.

`PROJECT.json` lists, under `hazards`, what in this code is hard to reach by a
test, each with the line where it bites and the properties that cover it.

## Modules

| module | models | role |
|---|---|---|
| `NodeStore` | the tables and statements | pure operators on a database value |
| `NodeApi` | requests and answers | shared by tree routes, abstract tree and client |
| `NodeTree` | what the tree routes promise | abstract specification |
| `NodeRoutes` | the tree routes on SQLite | implements `NodeTree` |
| `PerFileMutex` | what the file write lock promises | abstract specification |
| `FileWriteLock` | `write_lock.rs` | implements `PerFileMutex` |
| `ContentStore` | what writing a file promises | abstract specification |
| `FileContent` | content of files on disk and in the rows | uses `PerFileMutex` as its lock; implements `ContentStore` |
| `UploadHistory` | whose upload is at which path | extends `FileContent` by a history |
| `ConnectionManager` | `main.rs`, `connect()`, the migrations | extended by `ConnectionPool` |
| `ConnectionPool` | what requests hold and wait for | uses `PerFileMutex` as the lock of files |
| `LocalFileCache` | the client's cache of the tree and its FUSE operations | uses `NodeTree` as its server, `ErrorCodes` for its replies |
| `ErrorCodes` | an error on its way from the server to the kernel | pure operators |
| `FileClient` | the client's `read` and `write` and its cache of hashes | uses `ContentStore` as its server |
| `DirectoryListing` | `readdir` in pages | |
| `NodeRoutes_proofs`, `NodeTree_proofs`, `FileWriteLock_proofs`, `FileContent_proofs`, `ConnectionPool_proofs`, `LocalFileCache_proofs`, `FileClient_proofs`, `DirectoryListing_proofs` | | theorems |
| `MC...` | | the instances TLC checks |

The three abstract specifications are what joins the parts:

    LocalFileCache          FileClient                     ConnectionPool
          | asks                | asks                           |
       NodeTree            ContentStore      PerFileMutex <-- locks with
          ^ implements          ^ implements   ^   ^ implements
       NodeRoutes           FileContent -- locks   FileWriteLock

Each module defines, beside the operators that model code, some *mutants*: the
same operator with a plausible mistake, defined just before it and used by
nothing. `PROJECT.json` says which property each one must break.

### NodeRoutes

A handler is a pooled connection with the request it serves; `pc` says where it
is. The database is a committed value `db` and, for a transaction that writes,
a copy `work` that COMMIT installs. `lock` is the lock the connection holds on
the database file, by the rules of SQLite's rollback journal: the server sets
neither WAL nor a busy timeout (`db.rs:9-23`), so a statement that meets
another's lock fails at once. These rules are not in the repository; they are
marked external in the map.

| action | code |
|---|---|
| `Receive` | the extractors have run and the handler is called |
| `CreateBusy`, `CreateExecute` | `create_dir`, `create_file`: the UPDATE of `node_id` takes RESERVED or fails; the statements after it run under that lock and are one step |
| `DeleteSelect`, `DeleteExecute` | the SELECT of the entry under SHARED; the DELETE under RESERVED |
| `CommitBegin`, `CommitEnd`, `CommitBusy` | COMMIT: EXCLUSIVE, installed and released; or SQLITE_BUSY with the transaction left open and PENDING |
| `Rollback` | ROLLBACK after an error, or the pool closing a connection whose transaction is open |
| `SelectFile`, `SelectDirectory`, `SelectEntries`, `SelectBusy`, `SelectEnd`, `ReadEnd` | the SELECTs of the read routes, each a transaction of its own |
| `Respond`, `Crash` | the answer; the process stops and starts again |

Clients name ids that were given out once, as `filesystem.rs` does.

### FileWriteLock

One action for each step of `get_mutex` that other tasks can come between,
with the `RwLock` as `writer` and `poisoned`, a tokio mutex as `owner`, and a
strong reference as `arc`. A mutex lives while a task refers to it; a dead one
keeps its place in memory while the map refers to it weakly. A guard is dropped
in two steps (unlock, then the reference), neither under the `RwLock`.

### FileContent

A write waits for its lock (`locking`), compares (`Check`), opens its upload
(`opening`), streams (`streaming`), updates the row inside a transaction and
waits for the rename (`moving`), and commits (`moved`). What it asks of the
file system is appended to `tasks`, the blocking pool; `Run(i)` finishes any of
them, and the request hears of it if it is still there to wait. `Cancel` drops
the request at an await: its locals are dropped, among them the `UploadFile`,
whose drop spawns a removal, and the open transaction, which the pool closes.
`Crash` leaves only rows and disk. The last block of a body may still be with
the pool when the stream ends, since nothing flushes the file. A content is the
sequence of its blocks and stands for its hash: blake3 is taken to be injective.
Other users of the database are statements that may fail at any time and the
deletion of a file.

A request to write that names a directory is left out: it is refused (`files.rs:14`)
under the lock of an id nobody writes and changes nothing.

`ContentStore` says what all this is for: a write whose If-Match names the
current version replaces it in one step, or nothing happens. In `FileContent` the
step is the commit of the row.

### UploadHistory

The steps of `FileContent`, beside which two history variables are kept: `owner`, the
request that has last opened the file at each path of `uploads/`, and `spoilt`, the
files to which one of three things has happened: an upload has opened what an earlier
one had left, with bytes in it or on their way to it (`Opens`); a rename has moved what
another request had made (`Renames`); a crash has lost a block (`Crashes`).
`ContentIsWhole` is about all other files.

### ConnectionManager and ConnectionPool

`place[c]` is where one of the pool's places is, on its way through `connect()`, in
the pool (`idle`), with a request (`out`), or `lost`. While it migrates, its place also
tells the lock its connection has: SHARED (`reading`, `beginning`, and `refused`, where
a statement has failed and the lock is still held), RESERVED (`writing`), or PENDING and
EXCLUSIVE (`committing`, and `busy`, where a COMMIT has failed).

| action | code |
|---|---|
| `Load`, `OpenFails`, `Open`, `Return` | `connect()` (`extractors.rs:88-99`): the flag `did_run_migrations` is read, the file opened, the flag set whatever came of it |
| `Read`, `LookUp`, `MakeList` | `run_pending_migrations` looks for the list of migrations, and makes it in a transaction if there is none |
| `Begin`, `Apply`, `CommitBegin`, `CommitEnd` | what is applied is looked up once, then each migration is a transaction of its own |
| `Finish` | nothing is left to apply; the PRAGMA that follows succeeds or its error is that of `connect()` (`db.rs:18-20`) |
| `Fails`, `Panic` | SQLITE_BUSY, or a table another connection has made; in a step of its own the `unwrap` (`db.rs:15`) drops the connection with its lock, and r2d2's thread dies with the place |
| `Start`, `Built`, `BuildTimesOut`, `Stop` | `main`: `Pool::build` waits for all connections, at most thirty seconds |
| `TryGet`, `Get`, `GetTimesOut` | `from_request_parts` (`extractors.rs:132-150`): a free connection at once, or `get()` in the blocking pool, which ends with a connection or after thirty seconds, whether or not the request is still there |
| `ServeTree`, `ServeData`, `AskForLock`, `Lock`, `Check`, `WriteBlock`, `Update`, `AccessEnds`, `BlockEnds` | the routes, as far as they hold a connection, wait, occupy a thread, or leave a transaction open; the last block of a body may be queued before the move, which nobody waits for |
| `Leave`, `Cancel`, `has_broken` | the end of a request and the test of what it gives back |
| `StartJob`, `Discard`, `Crash` | tokio's blocking pool; r2d2 replacing an idle connection; the process stops |

r2d2, SQLite's locks and tokio's pool are not in the repository; their actions
are marked external in the map.

### LocalFileCache

A task is one FUSE operation. It alternates between the cache, which it looks
at or changes under the `RwLock`, and the server. `cache[c]` is a partial
function from ids to what is known; `ever` is a history of every link there was,
which the properties compare the cache with. The answer of the server may be
lost (`AnswerLost`), and the server may go down (`ServerCrash`,
`ConnectionLost`). `lookup` panics where the code does (`filesystem.rs:120`).
As in the code, `readdir` asks for the node of the directory and not for those
of its children (`filesystem.rs:145`). `setattr` does what `getattr` does.

Each task is told an errno (`ErrorCodes`): the server's error becomes a status
and a code (`server/src/error.rs`), that becomes what the type of the method can
say (`remote_data_service/error.rs`), and that a number (`reply.rs`). What is not
foreseen becomes a protocol mismatch, that is EIO. `create` is called for regular files:
its branches for a mode that says directory, which does what `mkdir` does, or anything
else, which is ENOTSUP before a request is sent (`filesystem.rs:221-228`), are left out,
and so are names that are not UTF-8 (EILSEQ).

### FileClient

`cache[c][f]` is the hash a client has of a file. `getattr` takes it from there
or fetches it, `read` always fetches, `write` sends what is cached as If-Match and
removes it when the write has succeeded (`local_file_cache.rs:44-75`). A request
whose client has given up (`ConnectionLost`) stays with the server, which may still
apply it. `told` is a history of what each client was told; `disturbed` of the
files of which a client cannot know that its cache is right: others have written
them, an answer was lost, or two of its operations overlapped. `write` panics
where the code does, for an offset other than 0 and without a cached hash
(`WritePanics`). That somebody deletes a file is one action (`Delete`); how the
cache of the tree follows is in `LocalFileCache`.

### DirectoryListing

The kernel calls `readdir` with the offset of the last entry it got until no
entry comes (`filesystem.rs:127-169`). An offset is a position in "." and ".." and
the children by name, which the client takes from its cache at each call. A position
is the number of entries before it (`Position`), so no sequence is needed. Pages
have any length.

Between any two steps other clients change the directory (`OthersChange`), and other
operations of this client, as many as `MaxAnswers` at once, are under way: `Create` and
`Delete` change the directory on the server and the cached one when their answer arrives;
a getattr, lookup or other listing that found nothing in the cache (`OtherLooks`) fetches
the directory (`OtherFetches`) and puts it over what is cached by then
(`AnswerArrives`, `local_file_cache.rs:29, 40`). Answers come in any order or not at all.
`kept`, `added` and `removed` are a history of what has become of the cached directory
since the first page. The listed directory itself is not deleted during its listing.

## Runs

Two workers; times are for a small machine.

| run | instance | states | shows |
|---|---|---|---|
| `MCNodeRoutes_all` | 2 connections, 2 names, ids up to 3, all seven routes | 350 000, 50 s | `TypeOK`, `TreeConsistent`, `TransactionsIsolated`, `NoPanic`, `LocksAreGivenUp`, `ReadsAreAtomic`, `IdsNeverReused`, `ImplementsNodeTree` |
| `MCFileWriteLock_all` | 2 tasks, 3 files, 3 mutexes | 6 400, 5 s | `TypeOK`, `MutualExclusion`, `MapStaysSmall`, `ImplementsPerFileMutex`, `LockIsGranted` |
| `MCFileContent_all` | 2 writers and a reader of one file, one body, any order in the pool, crashes | 184 000, 120 s | `TypeOK`, `CommittedHaveContent`, `ReadersFindTheFile`, `DatabaseLockIsReleased`, `ContentIsWhole`, `ImplementsContentStore`, `WritesAreAnswered` |
| `MCConnectionPool` | 3 connections, 2 migrations, 2 requests, 1 file, 1 thread | 237 000, 140 s | `TypeOK`, `ConnectionsAreClean`, `OutIsHeld`, `MigratedBeforeUse`, `MigratingAgainIsFine`, `RequestsAreAnswered` |
| `MCLocalFileCache_tasks` | 1 client with 2 tasks, one name, ids up to 3, all operations but `readdir`, lost answers, crashes | 3 000 000, 140 s | `TypeOK`, `CachedWasTrue` |
| `MCLocalFileCache_alone` | 1 client with 1 task, 2 names, ids up to 4, nothing fails | 163 000, 5 s | `CacheIsCurrent`, `RepliesArePosix` |
| `MCFileClient` | 2 tasks of one client and 1 of another, 1 file, 2 contents, lost answers, requests given up | 2 200 000, 80 s | `TypeOK`, `CachedWasTrue`, `CacheIsCurrent`, `WritesAreNotBlind` |
| `MCDirectoryListing` | 2 names, 2 other operations of the client at once, any number in all | 48 000, 10 s | `TypeOK`, `NothingIsMissed`, `NothingIsListedTwice`, `ListingEnds` |
| `MCFileWriteLock_expect` | 2 tasks, 1 file | | `ExpectNeverFails` is violated |
| `MCFileContent_new` | 2 writers, 1 file, a body of one and one of two blocks | | `UploadFilesAreNew` is violated |
| `MCFileContent_repeat` | the same | | `UploadsAreRepeatable` is violated |
| `MCLocalFileCache_expect` | 1 client with 2 tasks, nothing fails | | `ChildrenExist` is violated |

Why these bounds are enough for the cases that matter:

- *Ids up to 4* give a directory with two children, a chain of two directories
  below the root, and a create after a delete, which is where an id could be
  used again; *ids up to 3* leave two nodes beside the root, enough for each pair
  of routes to meet in one directory. *Two connections* let each pair of steps
  interleave; that more connections, names and ids add nothing is proved.
- *Two tasks, three files and three mutexes* let one task hold a mutex while the
  other makes the next, and the map outgrow the tasks if nothing were dropped. As
  many mutexes as tasks are enough, because live ones are held by different tasks;
  there is one more, so that it is not the lack of mutexes that keeps the map small.
- *Two writers* are used again as soon as their tasks in the pool have run, so
  what a request leaves behind meets any number of later ones. One body of one block is
  enough to lose it, to move it late and to have it in the wrong file, which
  `ContentIsWhole` excludes; that nothing changes with longer bodies, more files
  and more inodes is proved. Two bodies of different blocks are what shows what
  is left of another upload. There are as many inodes as names in `uploads/` and `files/`
  and none beside: when all are taken, `open` fails.
- *Three connections* are needed at the start, one to go on with the
  migrations and two to fail on it in different ways; two are enough to fail on each
  other. A server only serves with all
  of them, and `Discard` and requests that hold two are what make the
  third scarce; *one thread* is where everybody waits for everybody first. The
  order of two migrations is what a second connection can fall between.
- *Two tasks of a client* are what it takes for a late answer to overwrite
  newer knowledge; ids up to 3 let a node be deleted and another take its name. To
  the cache `readdir` is a lookup and a `getattr` of the directory, so that run leaves
  it out.
  In `MCFileClient` a second client is what makes a cached hash stale; with two
  contents a file can return to the version a cache has.
- *Two names* with the two dots make listings of four entries, pages of all
  lengths, and changes before, at and behind the offset; *two other operations* let an
  answer be late behind another. That more of both add nothing is proved.

The sets `Handlers`, `Tasks`, `Writers`, `Readers`, `Inodes`, `Requests`, and
`MaxId` (`NodeRoutes`, `LocalFileCache`), `Count` and `MaxAnswers`
(`DirectoryListing`) are the bounds; there are no others. Symmetry is used only in
runs without liveness. No run has a constraint on its states.

### Fairness

- `FileWriteLock`: strong fairness of a task's own steps and of `Lock`. Threads
  run; the `RwLock` does not pass a thread over for ever; a tokio mutex is a
  first-in-first-out queue; and a writer ends its request, which is an
  assumption about clients (nothing times out, see hazards).
- `FileContent`: weak fairness of a request's own steps, strong fairness of
  `Lock` (the same queue), and weak fairness of the *oldest* task of the
  blocking pool, whose threads take tasks in order. `Cancel`, `UploadFails`,
  `DeleteFile`, readers and `Crash` need not happen.
- `ConnectionPool`: weak fairness of a request's own steps, of a free thread taking a
  job, and of the end of a request's jobs (`JobEnds`): accesses to files and blocks end,
  and `get()` gives up after r2d2's thirty seconds (`main.rs` does not change them).
  Strong fairness of `Lock` and of `Update`, the end of a body: a body has finitely many
  blocks. Nothing is assumed of `Get`: that a connection comes back in time is just what
  must not be relied on.
- `DirectoryListing`: weak fairness of `readdir`, that is, the client works on a call it
  has received, its server answers or the call fails, and the kernel calls again until it
  is told that there is nothing more. A program that stops reading its directory is
  outside this.

The tree routes wait for nothing: a lock in the way is an error, so what could
go wrong is a lock that is never given up, which `LocksAreGivenUp` excludes.

## What the runs found

- **`write_lock.rs:37`** The `expect` after `entry()` says the mutex was upgraded
  from a `Weak` with a strong count or has just been made. The last holder
  drops its `Arc` without the `RwLock`, so the entry `retain` kept can be dead
  when it is upgraded: the handler panics with the write guard in hand and
  every later write fails on a poisoned lock. `MCFileWriteLock_expect`.
- **`upload_file.rs:13`** "could not open new file for upload" (`files.rs:78`): the file
  need not be new. An upload that ends without having been moved (it fails, its client
  goes away, or the server stops) leaves its file at `uploads/<id>`, with its removal
  queued or lost, and perhaps a block on its way. `UploadFile::new` opens that file as it
  is, and the row is committed while a block of the earlier upload is in the file under
  the new hash. In the trace the new upload's own block is still with the blocking pool
  then; if the other block gets there later, or a crash loses the new one, it stays so.
  Truncating on open would not be enough. `MCFileContent_new`.
- **`upload_file.rs:40`** An upload that has failed "should be repeatable"
  (`routes.rs:258`): its removal is spawned and not waited for. It can take away the
  file of the next upload, whose rename then finds nothing, and which is answered with an
  internal error although nothing was wrong with it. `MCFileContent_repeat`.
- **`filesystem.rs:120`** "child of directory should always exist": a directory
  fetched before a deletion of the same client can be put into the cache after
  it; `lookup` then panics on the child it lists. `MCLocalFileCache_expect`.

Seen while modelling, and part of the model where they change state:

- What uploads do to each other's files is more than the two traces: a rename whose
  request has gone moves the next upload to the wrong hash, and the answer No Content is
  given before the last block is on disk, so that a crash loses it (`stream.rs:54-80` does
  not flush). `ContentIsWhole` says that there is nothing else: but for a file that was
  opened with remains, moved by another request, or hit by a crash, content is whole.
- A request dropped while its upload is being opened leaves the file in
  `uploads/` for good (`upload_file.rs:16`).
- `create_dir` below a missing directory is an internal error, `create_file` Not
  Found (`create.rs:28, 38`): `NodeTree` has it so in `Refusals`.
- `next_available_id` must not be called "from within a transaction"
  (`db.rs:249`); it is (`create.rs:21, 60`), and a failed create moves the
  counter back. No id is reused all the same (`IdsNeverReused`).
- `create_dir` below the id it is about to give out makes a directory that is
  its own parent. No client of this repository does that.
- `local_file_cache.rs:34` says cached directories are ignored; line 35 uses
  them, so changes of other clients are not seen.
- "possible race leading to migrations being run twice which is fine"
  (`extractors.rs:93`) is right for a database that has its tables
  (`MigratingAgainIsFine`). At a new one the connections that lose the race panic in
  r2d2's threads (`db.rs:15`), their places stay empty, and `build().unwrap()`
  (`main.rs`) ends the server after thirty seconds. It may be all of
  them: one keeps SHARED and is refused RESERVED, the one that has it is refused its
  COMMIT, and both panic. The next start tries again from what has been applied.
- `did_run_migrations` is set also if the database could not be opened
  (`extractors.rs:94`): then the next connection runs no migrations, and the server
  serves without tables. `MigratedBeforeUse` says "unless" for this (`skipped`).
- As long as all threads of the blocking pool wait in `get()`, those who hold the
  connections cannot open or move their uploads. It is the timeout that lets
  them go on (`RequestsAreAnswered`).
- A second write without a `read` or `getattr` between panics on the hash the first
  has removed (`local_file_cache.rs:69, 72`). The answer "Modified" is a `todo!()`
  (`filesystem.rs:419`), and leaves the stale hash in the cache, where `getattr` keeps
  using it; only `read` replaces it.
- No write is blind (`WritesAreNotBlind`), but a `getattr` is enough to be told of a
  version: after its own write a client fetches the hash of what is there, which
  may be somebody else's, and may write over it without having read it.
- The server never answers a create with "not a directory": below a file
  `mkdir` ends as EIO and `create` as ENOENT. `getattr` turns every error into
  ENOENT. `RepliesArePosix` names these cases.
- A listing can miss an entry when another before it goes from the cached directory
  between two pages, and repeat one when another comes. That takes no deletion or
  creation by this client: the late answer to a `getattr` that asked before the
  directory was cached does the same with what others have changed. The two properties of
  `DirectoryListing` say that there is no other way. Every entry is listed with the kind
  of its directory (`filesystem.rs:145`).

## Theorems

`NodeRoutes_proofs`, for every set of handlers, names and requests and every
`MaxId`, from `RequestSetAssumption` alone:

- `TypeCorrect`, `TreeStaysConsistent`, `LocksAreReleased`,
  `TransactionsStayIsolated`, `PanicsAreImpossible`, `IdsStayUnique`.

None of these is inductive. `IInv` adds which lock a handler holds where
(`LocksFit`), which request it can be serving (`RequestsFit`), and above all
`WorkReady`: the copy of a transaction that has run its statements is itself a
consistent tree and goes beyond the database only by ids above its counter.
That survives other connections' steps because only `CommitEnd` changes `db`,
and it needs EXCLUSIVE, which no one gets beside a RESERVED lock
(`LocksExclude`: the handlers never hold locks SQLite would not grant
together). `CreateKeepsConsistent` and `DeleteKeepsConsistent` are the
two lemmas about the statements. `TransactionsStayIsolated` is a second
induction on top of `IInv`, with `CreateIsUndone` for what a create adds.

`FileWriteLock_proofs`, for every set of tasks, files and mutexes, from
`NoneAssumption`:

- `TypeCorrect`, `MutualExclusionHolds`, and `Implementation`:
  `Spec => ImplementsPerFileMutex`.

Here the strengthening is `OneMutex`: whoever has a reference to a mutex finds
it in the map under its file. So a task that makes a new mutex, having found
the entry dead or absent, is the first to have one for its file.
`Implementation` maps each step to one of the abstract lock or to a stutter;
`HolderIsUnique` turns the `CHOOSE` in the mapping into "the task that has it".

`NodeRoutes_proofs` and `NodeTree_proofs` are one argument in two modules. The
second shows `ImplementsNodeTree` and `ReadsAreAtomic`, from `IInv` and `JInv`:

- a transaction that has run its statements is one link away from the database,
  and that link is what its request asked for (`Prepared`);
- a refusal is true of the database for as long as its transaction holds a lock
  (`Refused`);
- what the SELECTs of a read have found is true now, or was true together at an
  instant of the request (`ReadsSoFar`). `possible`, a history variable of
  `NodeTree`, holds the answers a read may still give, and takes the place of a
  prophecy. This rests on ids never being used again.

`FileWriteLock_proofs` also proves `MapIsBounded` (`MapStaysSmall`) from
`TasksAssumption`, that there are finitely many tasks: each entry of the map has
a task of its own that has made it or keeps it alive (`SmallInv`). And it proves
`WaitingEnds` (see below): a locked mutex is locked by a task with the same file,
because no mutex is in the map twice.

`FileContent_proofs`, for every set of writers, readers, files, bodies and inodes
and any order in the blocking pool, from `ConstantsAssumption`:

- `TypeCorrect`, `CommittedContentIsThere`, `ReadersAreServed`,
  `DatabaseLockIsNotLeaked`, and `Implementation`: `Spec => ImplementsContentStore`.

Nothing takes a file out of `files/`, so what matters is that a name gets there
before it is committed. `RenamesFit` says that a rename under way carries the body of
the request that waits for it, and that renames of earlier requests belong to
requests that are over; `MovedIsThere` that a request told of its rename finds the
file; `RowsStay` that a request with RESERVED still sees the row it compared.

The same module, for `HSpec`, which is `Spec` with the history of `UploadHistory`:

- `HistoryInvariance` and `ContentStaysWhole` (`ContentIsWhole`).

`ContentIsWhole` says nothing of uploads before they are committed, nor of the tasks in
the pool, on which it depends. `HInv` does: the owner of a path is at work on it or has
its removal in the pool, and no other request has its file open (`OwnersFit`); a file that is
not spoilt will hold, when the pool has done the at most one block on its way to it
(`WillHold`), what its owner has sent so far (`StreamsFit`), and in `files/` what its name
says (`FilesFit`); a move that is under way finds its owner's whole body
(`MovesFit`), unless a removal has been before it; no inode has two names (`NamesFit`).
The order of tasks does not come into it, so it holds for any order the pool takes them in.

`ConnectionPool_proofs`, for every number of connections, migrations, requests,
files and threads, from `MigrationAssumption` and `PoolAssumption`:

- `TypeCorrect`, `ConnectionsStayClean`, `NothingLeaks`, `RequestsMeetTheTables`,
  `MigratingTwiceIsFine`.

The start has an invariant of its own (`StartInv`): no connection has seen more
than is applied, only one writes, and only what is next (`AppliedFits`); the flag
is set only when all is applied or a `connect()` has skipped it (`FlagFits`); at a
database that has everything nobody has anything to write (`NothingToDo`). Requests
add that whoever is past `TryGet` or `Get` has a connection (`RequestsFit`) and that
only connections that are out have a transaction open (`OpenAreOut`).

`LocalFileCache_proofs`, for all clients, tasks, names and operations, from
`ClientAssumption`:

- `TypeCorrect`, `CachedAnswersWereTrue`.

`CachedWasTrue` alone says nothing of answers under way. `AnswersFit` does: each
answer, and each a read may still get, is true of the node that was asked for;
`TasksFit` adds that a task still knows what it asked for when the answer arrives.

- `LoneCacheIsCurrent`, `LoneRepliesArePosix`: for `UndisturbedSpec` and a client
  with one task (`Tasks = {t}`), any number of names, ids and operations. It is the
  assumption of `MCLocalFileCache_alone`: `MCLocalFileCache_expect` shows that two
  tasks are enough to go wrong.

Between the server's write and its answer the cache is behind the server, so the
property itself is not what can be followed from step to step. `Settled` is the cache
as it will be when the answer under way has been heard, and `Alone` says that *that* is
current, that the answer is what the tree says now (`Heard`), that the task looks
at the node the kernel has named or its child (`Aimed`), and that ids and names lead
to one node each (`TreeFits`), which makes it right to forget the node and its entry.

`FileClient_proofs`, for all clients, tasks, files and contents, from its own
`ClientAssumption`:

- `TypeCorrect`, `CachedHashesWereTrue`, `NoUpdateIsLost`, `CachesAreCurrent`.

`TrueInv` carries the first two properties along the messages; `CalmInv` says what an
undisturbed client can have under way with a file: one operation, whose request
names the current version, whose fetched content is current, and a wrong hash in the
cache only until the answer to its own write is read.

`DirectoryListing_proofs`, for any number of names and changes, from
`ListingAssumption`:

- `TypeCorrect`, `ListingsAreComplete`, `ListingsDoNotRepeat`, `ListingsShrink`.

What has been listed and what is before the offset are the same, entry by entry, up to
what has become of the cached directory: an entry before the offset has been listed if
nothing before it has gone (`PassedAreListed`), one that has been listed is before the
offset if nothing before it has come (`ListedArePassed`). The lemmas are about
`Position`, the cardinality of the entries before: between two directories it
moves in one direction only, if names only go from, or only come to, what is before.

### The parts together

Each user of a part is shown to use it as its abstract specification allows, for all
constants. `LocalFileCache_proofs!ServerIsUsed` is `Spec => S!Spec` with
`NodeTree`, which `NodeRoutes` implements; `FileClient_proofs!ServerIsUsed` the
same with `ContentStore`, which `FileContent` implements; `LocksAreUsed` in
`FileContent_proofs` and `ConnectionPool_proofs` says that requests take steps of
`PerFileMutex`, which `FileWriteLock` implements, except that a crash makes a new
lock (`L!Init'`). So no user relies on a step that its part does not have, and
none asks a part for what it was not made for.

### Why nobody waits in vain

Liveness under fairness is beyond the prover. What is not: that whatever is waited for
is on its way, or in the hands of somebody who is at work.

- `FileWriteLock_proofs!WaitingEnds`: who waits for the map waits for another task that
  is changing it; who waits for a mutex waits for another task that has it locked for
  the same file.
- `FileContent_proofs!WaitingEnds`: a request that waits for its upload to be opened or
  moved has that task in the pool, and a lock is held by a request at work on that file.
- `ConnectionPool_proofs!WaitingEnds`: the same, and a connection that is out is
  held by a request.
- `DirectoryListing_proofs!ListingsShrink`: a natural number bounds what is left of a
  listing; it never grows while the listing goes on, and each step of `readdir` makes
  it less.

With the fairness stated above this is what `LockIsGranted`, `WritesAreAnswered`,
`RequestsAreAnswered` and `ListingEnds` rest on. Those four themselves are only
model-checked; every other property of the passing runs is a theorem.

## Not modelled

- Extractors and headers parse one request at a time and keep nothing.
- `hash.rs`: a content stands for its hash.
- `schema.rs` is generated; `testing.rs`, the nix files and the construction in
  `main.rs` and `lib.rs` do not take part in the behaviour of a running system.
- `NodeID::increment` (`shared/src/lib.rs:15`) and `Directory::children` are not
  called by the programs. The counter's overflow at 2^63 is out of reach.
- An error of the very last write of a body: writes of the model succeed.
- Requests to write that name a directory, the modes of `create`, and the deletion of a
  directory while it is listed, as said above.
- The bytes a reader streams after it has opened its file, and the conditional
  headers of `file_data` (`routes/files.rs:42-48`), which change nothing.

## Plan

In the order of importance, and as far as it is done: `NodeStore`, `NodeApi`,
`NodeTree`, `NodeRoutes` and their proofs; `PerFileMutex`, `FileWriteLock` and its
proofs; `ContentStore`, `FileContent` and its proofs; `LocalFileCache` with
`ErrorCodes` and its proofs; `ConnectionManager`, `ConnectionPool` and their proofs;
`FileClient` and its proofs; `DirectoryListing` and its proofs; the theorems about the
parts together and about waiting. What is left:

1. The error of the last write of a body (`stream.rs:74`), when the code decides what
   is to become of it.
2. The answer "Modified" in the client, when it is more than a `todo!()`.
3. A client with one task whose answers are lost: which part of its cache stays
   current, as `disturbed` has it in `FileClient`.
