----------------------------- MODULE FileClient ----------------------------
(***************************************************************************)
(* Reading and writing files through a client: getattr, read and write of  *)
(* client/src/filesystem.rs on the hashes that local_file_cache.rs has of  *)
(* files.  A write names the hash that is cached (If-Match) and removes it *)
(* when it has succeeded.                                                  *)
(*                                                                         *)
(* The server is ContentStore, which FileContent implements.  Any answer   *)
(* may be lost, and a request whose client has given it up may still be    *)
(* applied.  The cache of directories is in LocalFileCache.                *)
(***************************************************************************)
CONSTANTS
    Clients,    \* the mounted file systems
    Tasks,      \* BOUND: the operations under way at once
    Client,     \* the client of each task
    Ids,        \* the files
    Contents,   \* what is in them, each content for its hash
    Empty,      \* the content of a new file
    None,       \* no request, answer or hash
    Gone        \* the content of a deleted file

ASSUME ClientAssumption ==
    /\ Client \in [Tasks -> Clients]
    /\ Empty \in Contents
    /\ {None, Gone, "error"} \cap Contents = {} /\ None # Gone

VARIABLES
    content, request, answer,   \* the server, as in ContentStore
    was,        \* history: all contents each file has had
    cache,      \* local_cache of each client: the hash it has of each file
    pc,         \* where each task is
    operation,  \* the operation it works on
    fetched,    \* the server's answer to its GET: a content, Gone or an error
    told,       \* history: the hashes each client has been told by the server
    disturbed   \* history: the files that changed without the cache

server == <<content, request, answer, was>>
history == <<told, disturbed>>
task == <<pc, operation, fetched>>
vars == <<server, cache, task, history>>

S == INSTANCE ContentStore WITH Writers <- Tasks

\* data is what a write writes; partial, that it does not begin at offset 0.
Operations == [op : {"getattr", "read"}, id : Ids]
              \cup [op : {"write"}, id : Ids, data : Contents, partial : BOOLEAN]
NoOperation == [op |-> "none"]
PCs == {"idle", "asked", "fetching", "writing"}

\* The client that has created a file has it cached.
Init ==
    /\ content = [id \in Ids |-> Empty]
    /\ request = [t \in Tasks |-> None]
    /\ answer = [t \in Tasks |-> "none"]
    /\ was = [id \in Ids |-> {Empty}]
    /\ cache \in [Clients -> [Ids -> {None, Empty}]]
    /\ pc = [t \in Tasks |-> "idle"]
    /\ operation = [t \in Tasks |-> NoOperation]
    /\ fetched = [t \in Tasks |-> None]
    /\ told = [c \in Clients |-> [id \in Ids |-> {cache[c][id]} \ {None}]]
    /\ disturbed = [c \in Clients |-> {}]

Go(t, place) == pc' = [pc EXCEPT ![t] = place]
File(t) == operation[t].id
Cached(t) == cache[Client[t]][File(t)]
PutHash(t, hash) == cache' = [cache EXCEPT ![Client[t]][File(t)] = hash]

\* The kernel gets its reply, or learns of an error when the task has panicked.
Reply(t) == Go(t, "idle") /\ operation' = [operation EXCEPT ![t] = NoOperation]

\* Other tasks of the client that work on the file, or whose request still does.
Others(t) == {u \in Tasks \ {t} : /\ Client[u] = Client[t]
                                  /\ \/ operation[u] # NoOperation /\ File(u) = File(t)
                                     \/ request[u] # None}
Disturb(t) == disturbed' = [disturbed EXCEPT ![Client[t]] = @ \cup {File(t)}]

-----------------------------------------------------------------------------
(* An operation begins.  A request that was given up on keeps its task     *)
(* until the server is done with it.                                       *)

Begin(t, o) ==
    /\ pc[t] = "idle"
    /\ request[t] = None /\ answer[t] = "none"
    /\ operation' = [operation EXCEPT ![t] = o]
    /\ Go(t, "asked")
    /\ disturbed' = IF \E u \in Tasks \ {t} : Client[u] = Client[t] /\ operation[u] # NoOperation
                    THEN [disturbed EXCEPT ![Client[t]] = @ \cup {o.id}] ELSE disturbed
    /\ UNCHANGED <<server, cache, fetched, told>>

-----------------------------------------------------------------------------
(* get_node_info and get_file_data                                         *)

NodeCached(t) ==
    /\ pc[t] = "asked" /\ operation[t].op = "getattr"
    /\ Cached(t) # None
    /\ Reply(t)
    /\ UNCHANGED <<server, cache, fetched, history>>

\* read asks the server whatever is cached.
Fetch(t) ==
    /\ pc[t] = "asked"
    /\ operation[t].op = "read" \/ (operation[t].op = "getattr" /\ Cached(t) = None)
    /\ Go(t, "fetching")
    /\ UNCHANGED <<server, cache, operation, fetched, history>>

\* The hash and the data are of one version.
ServeFetch(t) ==
    /\ pc[t] = "fetching"
    /\ fetched[t] = None
    /\ \E a \in {content[File(t)], "error"} : fetched' = [fetched EXCEPT ![t] = a]
    /\ UNCHANGED <<server, cache, pc, operation, history>>

\* The client has the file as it is, and no other task may change that.
Settled(t) == Others(t) = {} /\ fetched[t] = content[File(t)]

\* Mutant of Arrived: the status of the answer is not looked at.
ArrivedAnything(t) == fetched[t] # None
Arrived(t) == fetched[t] \in Contents

FetchArrives(t) ==
    /\ Arrived(t)
    /\ PutHash(t, fetched[t])
    /\ fetched' = [fetched EXCEPT ![t] = None]
    /\ told' = [told EXCEPT ![Client[t]][File(t)] = @ \cup {fetched[t]}]
    /\ disturbed' = IF Settled(t) THEN [disturbed EXCEPT ![Client[t]] = @ \ {File(t)}] ELSE disturbed
    /\ Reply(t)
    /\ UNCHANGED server

\* The server's error, or the network's.
FetchFails(t) ==
    /\ pc[t] = "fetching"
    /\ fetched[t] # None
    /\ fetched' = [fetched EXCEPT ![t] = None]
    /\ Reply(t)
    /\ UNCHANGED <<server, cache, history>>

-----------------------------------------------------------------------------
(* write_file_data                                                         *)

\* The assertion about the offset and the unwrap of the hash panic
\* (local_file_cache.rs:56, 69).
WritePanics(t) ==
    /\ pc[t] = "asked" /\ operation[t].op = "write"
    /\ operation[t].partial \/ Cached(t) = None
    /\ Reply(t)
    /\ UNCHANGED <<server, cache, fetched, history>>

\* Mutant of CachedWhenSent: what is written is cached as it is sent.
CachedAsWritten(t) == PutHash(t, operation[t].data)
CachedWhenSent(t) == UNCHANGED cache

SendWrite(t) ==
    /\ pc[t] = "asked" /\ operation[t].op = "write"
    /\ ~operation[t].partial
    /\ Cached(t) # None
    /\ S!Call(t, [id |-> File(t), prev |-> Cached(t), body |-> operation[t].data])
    /\ CachedWhenSent(t)
    /\ Go(t, "writing")
    /\ UNCHANGED <<was, operation, fetched, history>>

\* Mutant of CachedWhenWritten: the old hash stays.
CachedAsBefore(t) == UNCHANGED cache
CachedWhenWritten(t) == PutHash(t, None)

WriteArrives(t) ==
    /\ pc[t] = "writing"
    /\ answer[t] = "NoContent"
    /\ S!Return(t)
    /\ CachedWhenWritten(t)
    /\ Reply(t)
    /\ UNCHANGED <<was, fetched, history>>

\* An error, or for "Modified" a todo! (filesystem.rs:419): the hash stays.
WriteFails(t) ==
    /\ pc[t] = "writing"
    /\ answer[t] \in S!Refusals
    /\ S!Return(t)
    /\ Reply(t)
    /\ UNCHANGED <<was, cache, fetched, history>>

-----------------------------------------------------------------------------
(* Networks and servers that fail                                          *)

\* The client hears of an error; what becomes of its request is another matter.
ConnectionLost(t) ==
    /\ pc[t] = "writing"
    /\ Reply(t)
    /\ Disturb(t)
    /\ UNCHANGED <<server, cache, fetched, told>>

AnswerLost(t) ==
    /\ pc[t] # "writing"
    /\ S!Return(t)
    /\ UNCHANGED <<was, cache, task, history>>

-----------------------------------------------------------------------------
(* The server                                                              *)

\* The clients whose caches the change of a file is not made in.
Disturbed(id, by) ==
    disturbed' = [c \in Clients |-> IF c \in by THEN disturbed[c] ELSE disturbed[c] \cup {id}]

Apply(t) ==
    /\ S!Apply(t)
    /\ was' = [was EXCEPT ![request[t].id] = @ \cup {request[t].body}]
    /\ Disturbed(request[t].id, IF pc[t] = "writing" THEN {Client[t]} ELSE {})
    /\ UNCHANGED <<cache, task, told>>

Refuse(t) ==
    /\ \/ \E a \in S!Refusals : S!Refuse(t, a)
       \/ pc[t] # "writing" /\ S!Drop(t)
    /\ UNCHANGED <<was, cache, task, history>>

\* Somebody deletes the file; a client that does so forgets what it has cached.
Delete(id) ==
    /\ S!Delete(id)
    /\ Disturbed(id, {})
    /\ \E forget \in SUBSET Clients :
          cache' = [c \in Clients |-> IF c \in forget THEN [cache[c] EXCEPT ![id] = None] ELSE cache[c]]
    /\ UNCHANGED <<was, task, told>>

Work(t) == \/ NodeCached(t) \/ Fetch(t) \/ FetchArrives(t) \/ FetchFails(t)
           \/ WritePanics(t) \/ SendWrite(t) \/ WriteArrives(t) \/ WriteFails(t)

Next ==
    \/ \E t \in Tasks : \/ \E o \in Operations : Begin(t, o)
                        \/ Work(t) \/ ConnectionLost(t) \/ AnswerLost(t)
                        \/ ServeFetch(t) \/ Apply(t) \/ Refuse(t)
    \/ \E id \in Ids : Delete(id)

Spec == Init /\ [][Next]_vars

-----------------------------------------------------------------------------
(* Properties *)

\* The type of every variable.
TypeOK ==
    /\ content \in [Ids -> Contents \cup {Gone}]
    /\ request \in [Tasks -> S!Requests \cup {None}]
    /\ answer \in [Tasks -> {"none", "NoContent"} \cup S!Refusals]
    /\ was \in [Ids -> SUBSET Contents]
    /\ cache \in [Clients -> [Ids -> Contents \cup {None}]]
    /\ pc \in [Tasks -> PCs]
    /\ operation \in [Tasks -> Operations \cup {NoOperation}]
    /\ fetched \in [Tasks -> Contents \cup {None, Gone, "error"}]
    /\ told \in [Clients -> [Ids -> SUBSET Contents]]
    /\ disturbed \in [Clients -> SUBSET Ids]

\* A cached hash was the file's once, although answers arrive long after they
\* were given, and although a write may fail or succeed unheard.
CachedWasTrue == \A c \in Clients, id \in Ids : cache[c][id] # None => cache[c][id] \in was[id]

\* No write replaces a version that its client has never been told of: what
\* other clients have written is not lost without being looked at, whatever was
\* lost, late or given up on (local_file_cache.rs:58-71).
WritesAreNotBlind ==
    [][\A id \in Ids : content'[id] \notin {content[id], Gone} =>
          \E t \in Tasks : request[t] # None /\ request'[t] = None
                           /\ request[t].id = id /\ content[id] \in told[Client[t]][id]]_content

\* As long as nobody else changes the file, no answer is lost and the client does
\* one thing at a time, its own writes keep the cache right (local_file_cache.rs:72)
\* and never meet "Modified"; and reading the file makes it right again.
CacheIsCurrent ==
    \A c \in Clients : \A id \in Ids \ disturbed[c] :
        LET busy == {t \in Tasks : Client[t] = c /\ operation[t] # NoOperation} IN
        /\ \A t \in busy : File(t) = id => answer[t] # "Modified"
        /\ busy = {} => cache[c][id] \in {None, content[id]}

=============================================================================
