--------------------------- MODULE LocalFileCache --------------------------
(***************************************************************************)
(* The FUSE operations of a client (client/src/filesystem.rs) on the cache *)
(* of what the server said about nodes (local_file_cache.rs).  Each        *)
(* operation is a tokio task of its own (reply.rs): it looks in the cache  *)
(* or asks the server, and puts what it hears into the cache, each under   *)
(* the cache's RwLock but nothing of it under one lock.  Entries are never *)
(* refreshed.                                                              *)
(*                                                                         *)
(* The server is NodeTree, which NodeRoutes implements.  The network       *)
(* (remote_data_service.rs) may lose any answer.  Reading and writing the  *)
(* content of files, and so the hash in a FileInfo, are left out here.     *)
(***************************************************************************)
EXTENDS NodeApi, ErrorCodes, FiniteSets, Functions

CONSTANTS
    Clients,    \* the mounted file systems
    Tasks,      \* BOUND: the operations under way at once
    Client,     \* the client of each task
    Operations, \* what the kernel asks for
    MaxId       \* BOUND: no create is asked for that could use a higher id

FuseWrites == {"mkdir", "create", "unlink", "rmdir"}
FuseOperations == [op : {"lookup"} \cup FuseWrites, node : NodeIds, name : Names]
                  \cup [op : {"getattr", "readdir"}, node : NodeIds]
NoOperation == [op |-> "none"]

ASSUME ClientAssumption ==
    /\ Client \in [Tasks -> Clients]
    /\ Operations \subseteq FuseOperations

VARIABLES
    tree, request, answer, possible,    \* the server, as in NodeTree
    ever,       \* history: every link there has ever been
    cache,      \* local_cache of each client: what it knows of some nodes
    pc,         \* where each task is
    operation,  \* the operation it works on
    node,       \* the node it is going to look at
    reply       \* its reply to the kernel

server == <<tree, request, answer, possible, ever>>
vars == <<server, cache, pc, operation, node, reply>>

S == INSTANCE NodeTree WITH Handlers <- Tasks, RequestSet <- Requests

PCs == {"idle", "directory", "directory sent", "node", "node sent", "write", "write sent", "replied"}
Replies == {"none", "ok", "panic"} \cup Errnos
Infos == {a \in Answers : a.status = "Ok"}

Init ==
    /\ S!Init
    /\ ever = {}
    /\ cache = [c \in Clients |-> [id \in {} |-> NoAnswer]]
    /\ pc = [t \in Tasks |-> "idle"]
    /\ operation = [t \in Tasks |-> NoOperation]
    /\ node = [t \in Tasks |-> 0]
    /\ reply = [t \in Tasks |-> "none"]

Go(t, place) == pc' = [pc EXCEPT ![t] = place]
Reply(t, r) == Go(t, "replied") /\ reply' = [reply EXCEPT ![t] = r]
Send(t, r) == S!Call(t, r) /\ UNCHANGED ever

-----------------------------------------------------------------------------
(* A cache c: a function from some ids to what is known of them.           *)

Knows(c, id, kinds) == id \in DOMAIN c /\ c[id].kind \in kinds
With(c, id, info) == [i \in DOMAIN c \cup {id} |-> IF i = id THEN info ELSE c[i]]

\* A link in the directory, if the directory is known.
\* Mutant of WithLink: the parent is left as it is.
WithLinkUnlessCached(c, parent, name, id) == c
WithLink(c, parent, name, id) ==
    IF Knows(c, parent, {"directory"})
    THEN [c EXCEPT ![parent].children = {l \in @ : l.name # name} \cup {[name |-> name, child |-> id]}]
    ELSE c

ChildrenIn(c, id) == IF Knows(c, id, {"directory"}) THEN {l.child : l \in c[id].children} ELSE {}

\* What is known to be below id, by directories that are known.
Below(c, id) ==
    LET reached[n \in Nat] == IF n = 0 THEN {id}
                              ELSE reached[n - 1] \cup UNION {ChildrenIn(c, i) : i \in reached[n - 1]}
    IN  reached[Cardinality(DOMAIN c)]

\* delete_node_from_local_cache
Forgotten(c, parent, name) ==
    LET links == IF Knows(c, parent, {"directory"})
                 THEN {l \in c[parent].children : l.name = name} ELSE {}
        rest == IF links = {} THEN c ELSE [c EXCEPT ![parent].children = @ \ links]
    IN  Restrict(rest, DOMAIN c \ UNION {Below(rest, l.child) : l \in links})

Update(t, c) == cache' = [cache EXCEPT ![Client[t]] = c]

-----------------------------------------------------------------------------
(* An operation begins.  The kernel has the ids it names from replies.     *)

Creating == {t \in Tasks : operation[t].op \in {"mkdir", "create"} /\ pc[t] # "replied"}

Begin(t, o) ==
    /\ pc[t] = "idle"
    /\ o.node <= tree.last
    /\ o.op \in {"mkdir", "create"} => tree.last + Cardinality(Creating) < MaxId
    /\ operation' = [operation EXCEPT ![t] = o]
    /\ node' = [node EXCEPT ![t] = o.node]
    /\ \/ o.op \in {"lookup", "readdir"} /\ Go(t, "directory")
       \/ o.op = "getattr" /\ Go(t, "node")
       \/ o.op \in FuseWrites /\ Go(t, "write")
    /\ UNCHANGED <<server, cache, reply>>

Done(t) ==
    /\ pc[t] = "replied"
    /\ Go(t, "idle")
    /\ operation' = [operation EXCEPT ![t] = NoOperation]
    /\ node' = [node EXCEPT ![t] = 0]
    /\ reply' = [reply EXCEPT ![t] = "none"]
    /\ UNCHANGED <<server, cache>>

-----------------------------------------------------------------------------
(* get_dir_info, in lookup and readdir                                     *)

\* lookup goes on with the child of the name; readdir asks for the kind of the
\* directory itself, once for each of its children (filesystem.rs:145).
Found(t, info) ==
    LET o == operation[t] IN
    \/ /\ o.op = "lookup"
       /\ \E l \in info.children : l.name = o.name /\ node' = [node EXCEPT ![t] = l.child]
       /\ Go(t, "node")
       /\ UNCHANGED reply
    \/ /\ o.op = "lookup"
       /\ \A l \in info.children : l.name # o.name
       /\ Reply(t, "ENOENT")
       /\ UNCHANGED node
    \/ /\ o.op = "readdir"
       /\ Go(t, "node")
       /\ UNCHANGED <<node, reply>>

DirectoryCached(t) ==
    LET c == cache[Client[t]] IN
    /\ pc[t] = "directory"
    /\ Knows(c, node[t], {"directory"})
    /\ Found(t, c[node[t]])
    /\ UNCHANGED <<server, cache, operation>>

FetchDirectory(t) ==
    /\ pc[t] = "directory"
    /\ ~Knows(cache[Client[t]], node[t], {"directory"})
    /\ Send(t, [op |-> "dir_info", node |-> node[t]])
    /\ Go(t, "directory sent")
    /\ UNCHANGED <<cache, operation, node, reply>>

\* Mutant of Arrived: the status of the answer is not looked at.
ArrivedAnything(t) == answer[t] # NoAnswer
Arrived(t) == answer[t].status = "Ok"

DirectoryArrives(t) ==
    /\ pc[t] = "directory sent"
    /\ Arrived(t)
    /\ S!Return(t)
    /\ Update(t, With(cache[Client[t]], node[t], answer[t]))
    /\ Found(t, answer[t])
    /\ UNCHANGED <<ever, operation>>

-----------------------------------------------------------------------------
(* get_node_info, in getattr, lookup and readdir                           *)

NodeCached(t) ==
    /\ pc[t] = "node"
    /\ Knows(cache[Client[t]], node[t], Kinds)
    /\ Reply(t, "ok")
    /\ UNCHANGED <<server, cache, operation, node>>

FetchNode(t) ==
    /\ pc[t] = "node"
    /\ ~Knows(cache[Client[t]], node[t], Kinds)
    /\ Send(t, [op |-> "node_info", node |-> node[t]])
    /\ Go(t, "node sent")
    /\ UNCHANGED <<cache, operation, node, reply>>

NodeArrives(t) ==
    /\ pc[t] = "node sent"
    /\ Arrived(t)
    /\ S!Return(t)
    /\ Update(t, With(cache[Client[t]], node[t], answer[t]))
    /\ Reply(t, "ok")
    /\ UNCHANGED <<ever, operation, node>>

-----------------------------------------------------------------------------
(* mkdir, create, unlink and rmdir: the server first, then the cache       *)

RouteOf(op) == CASE op = "mkdir" -> "create_dir" [] op = "create" -> "create_file"
                 [] op = "rmdir" -> "delete_dir" [] op = "unlink" -> "delete_file"

SendWrite(t) ==
    LET o == operation[t] IN
    /\ pc[t] = "write"
    /\ Send(t, [op |-> RouteOf(o.op), node |-> o.node, name |-> o.name])
    /\ Go(t, "write sent")
    /\ UNCHANGED <<cache, operation, node, reply>>

\* The answers decode_errors lets through.  Mutant: also that of a create
\* that found something there, with the location of what it found.
AcceptedWithConflict == {"Created", "NoContent", "AlreadyExists"}
Accepted == {"Created", "NoContent"}

WriteArrives(t) ==
    LET o == operation[t]
        a == answer[t]
        c == cache[Client[t]]
        info == IF o.op = "mkdir" THEN DirectoryInfo(o.node, {}) ELSE FileInfo
    IN  /\ pc[t] = "write sent"
        /\ a.status \in Accepted
        /\ S!Return(t)
        /\ \/ /\ o.op \in {"mkdir", "create"}
              /\ Update(t, WithLink(With(c, a.node, info), o.node, o.name, a.node))
           \/ /\ o.op \in {"unlink", "rmdir"}
              /\ Update(t, Forgotten(c, o.node, o.name))
        /\ Reply(t, "ok")
        /\ UNCHANGED <<ever, operation, node>>

-----------------------------------------------------------------------------
(* An error: the server's answer, or the network's instead of an answer.   *)

Sent(t) == pc[t] \in {"directory sent", "node sent", "write sent"}

\* The error type of the request that was sent.
ErrorType(t) ==
    CASE pc[t] = "directory sent" -> "FetchDirectory"
      [] pc[t] = "node sent" -> "FetchNode"
      [] operation[t].op \in {"mkdir", "create"} -> "CreateNode"
      [] operation[t].op = "rmdir" -> "DeleteDirectory"
      [] operation[t].op = "unlink" -> "DeleteFile"

\* getattr takes every error for a missing node (attr_for); lookup expects none
\* for the child (filesystem.rs:120), and its task panics.
ReplyError(t, error) ==
    LET o == operation[t] IN
    Reply(t, IF pc[t] = "node sent" /\ o.op = "lookup" THEN "panic"
             ELSE IF pc[t] = "node sent" /\ o.op = "getattr" THEN "ENOENT"
             ELSE Errno[From(error, ErrorType(t))])

ErrorArrives(t) ==
    /\ Sent(t)
    /\ answer[t] # NoAnswer
    /\ answer[t].status \notin {"Ok"} \cup Accepted
    /\ S!Return(t)
    /\ ReplyError(t, decode_errors(IntoResponse(answer[t].status)))
    /\ UNCHANGED <<ever, cache, operation, node>>

AnswerLost(t) ==
    /\ Sent(t)
    /\ answer[t] # NoAnswer
    /\ S!Return(t)
    /\ \E failure \in NetworkFailures : ReplyError(t, failure)
    /\ UNCHANGED <<ever, cache, operation, node>>

\* The server has gone down since the request was sent.
ConnectionLost(t) ==
    /\ Sent(t)
    /\ request[t] = NoRequest
    /\ \E failure \in NetworkFailures : ReplyError(t, failure)
    /\ UNCHANGED <<server, cache, operation, node>>

-----------------------------------------------------------------------------

\* The server takes a step for the request of a task.
Serve(t) ==
    /\ S!Create(t) \/ S!Delete(t) \/ S!Refuse(t) \/ S!Read(t)
    /\ ever' = ever \cup tree'.links
    /\ UNCHANGED <<cache, pc, operation, node, reply>>

ServerCrash ==
    /\ \E t \in Tasks : request[t] # NoRequest
    /\ S!Crash
    /\ UNCHANGED <<ever, cache, pc, operation, node, reply>>

Work(t) == \/ DirectoryCached(t) \/ FetchDirectory(t) \/ DirectoryArrives(t)
           \/ NodeCached(t) \/ FetchNode(t) \/ NodeArrives(t)
           \/ SendWrite(t) \/ WriteArrives(t) \/ ErrorArrives(t) \/ Done(t)

Next == \/ \E t \in Tasks : \/ \E o \in Operations : Begin(t, o)
                            \/ Work(t) \/ AnswerLost(t) \/ ConnectionLost(t)
                            \/ Serve(t)
        \/ ServerCrash

\* Neither network nor server fails, and the database is never busy.
NextUndisturbed == \E t \in Tasks : \/ \E o \in Operations : Begin(t, o)
                                    \/ Work(t)
                                    \/ Serve(t) /\ answer'[t].status # "Locked"

Spec == Init /\ [][Next]_vars
UndisturbedSpec == Init /\ [][NextUndisturbed]_vars

-----------------------------------------------------------------------------
(* Properties *)

\* The type of every variable; a cache holds what the server has said.
TypeOK ==
    /\ ever \subseteq EntryRows
    /\ \A c \in Clients : DOMAIN cache[c] \subseteq NodeIds /\ \A id \in DOMAIN cache[c] : cache[c][id] \in Infos
    /\ pc \in [Tasks -> PCs]
    /\ operation \in [Tasks -> FuseOperations \cup {NoOperation}]
    /\ node \in [Tasks -> Nat]
    /\ reply \in [Tasks -> Replies]

\* What a cache holds was true: a node has the kind, and a directory the parent,
\* it has in the cache, and each child it lists was at that name once - although
\* answers are put into the cache long after they were given, over what other
\* tasks have put there meanwhile, and although the node may be gone
\* (local_file_cache.rs:29, 40, 81-85, 94-101, 106-122).  It rests on ids never
\* being used again.
WasTrue(id, info) ==
    /\ info.kind = "file" => \E e \in ever : e.kind = "file" /\ e.child = id
    /\ info.kind = "directory" =>
          \/ id = Root /\ info.node = Root
          \/ \E e \in ever : e.kind = "directory" /\ e.child = id /\ e.parent = info.node
    /\ \A l \in info.children : \E e \in ever : e.parent = id /\ e.name = l.name /\ e.child = l.child
CachedWasTrue == \A c \in Clients : \A id \in DOMAIN cache[c] : WasTrue(id, cache[c][id])

\* A client that is alone and does one thing at a time has in its cache what
\* the server has: its own changes keep it up to date (local_file_cache.rs:77-140).
CacheIsCurrent ==
    (\A t \in Tasks : pc[t] = "idle") =>
        \A c \in Clients : \A id \in DOMAIN cache[c] :
            S!ReadAnswer(tree, [op |-> "node_info", node |-> id]) \in {cache[c][id], Answer("NotFound")}

\* "child of directory should always exist" (filesystem.rs:120).
ChildrenExist == \A t \in Tasks : reply[t] # "panic"

\* An error is the one POSIX names for the state of the tree, through all levels
\* between a route's early return and the kernel (error.rs on both sides,
\* filesystem.rs:68-87, 179-362), and a lookup that succeeds finds what is there;
\* for a client that is alone and does one thing at a time.  Below what is not a
\* directory the kernel creates nothing, and the errors of the routes are others.
PosixErrors(o) ==
    LET found == IF o.op \in {"getattr", "readdir"} THEN {} ELSE S!LinksAt(tree, o.node, o.name)
        child(kind) == \E l \in found : l.kind = kind
        parent(kind) == IF kind = "file" THEN S!IsFile(tree, o.node) ELSE S!IsDirectory(tree, o.node)
    IN  {e \in Errnos :
           \/ e = "ENOENT" /\ ~parent("file") /\ ~parent("directory")
           \/ e = "ENOENT" /\ parent("directory") /\ found = {} /\ o.op \in {"lookup", "unlink", "rmdir"}
           \/ e = "ENOTDIR" /\ parent("file") /\ o.op # "getattr"
           \/ e = "ENOTDIR" /\ child("file") /\ o.op = "rmdir"
           \/ e = "EISDIR" /\ child("directory") /\ o.op = "unlink"
           \/ e = "EEXIST" /\ found # {} /\ o.op \in {"mkdir", "create"}
           \/ e = "ENOTEMPTY" /\ o.op = "rmdir" /\ \E l \in found : S!LinksOf(tree, l.child) # {}}
RepliesArePosix ==
    \A t \in {u \in Tasks : pc[u] = "replied"} : LET o == operation[t] IN
        /\ reply[t] \in {"ok"} \cup PosixErrors(o)
           \/ (o.op \in {"mkdir", "create"} /\ ~S!IsDirectory(tree, o.node))
        /\ reply[t] = "ok" /\ o.op = "lookup" => PosixErrors(o) = {}

=============================================================================
