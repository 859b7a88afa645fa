------------------------------ MODULE NodeTree -----------------------------
(***************************************************************************)
(* What the tree routes of the server promise: every request takes effect  *)
(* at one instant on a tree of names.  The tree is nothing but the links   *)
(* from a directory to a named child and the highest id ever given out: a  *)
(* node exists because a link leads to it, and a directory's parent is     *)
(* where that link starts.  Tables, transactions and locks do not exist    *)
(* here.                                                                   *)
(***************************************************************************)
EXTENDS NodeApi

CONSTANTS Handlers,   \* the requests the server can work on at once
          RequestSet  \* the requests clients send

VARIABLES
    tree,       \* [last : the highest id given out, links : the named children]
    request,    \* the request each handler works on
    answer,     \* its answer, NoAnswer before there is one
    possible    \* the answers a read could give at an instant since it was sent

vars == <<tree, request, answer, possible>>

-----------------------------------------------------------------------------

IsDirectory(t, id) == id = Root \/ \E e \in t.links : e.kind = "directory" /\ e.child = id
IsFile(t, id) == \E e \in t.links : e.kind = "file" /\ e.child = id
LinksAt(t, parent, name) == {e \in t.links : e.parent = parent /\ e.name = name}
LinksOf(t, parent) == {e \in t.links : e.parent = parent}
ParentOf(t, id) == IF id = Root THEN Root
                   ELSE (CHOOSE e \in t.links : e.kind = "directory" /\ e.child = id).parent

\* The answer to a read at the instant the tree is t.
ReadAnswer(t, r) ==
    CASE r.op # "dir_info" /\ IsFile(t, r.node) -> FileInfo
      [] r.op # "file_info" /\ IsDirectory(t, r.node) ->
            DirectoryInfo(ParentOf(t, r.node), LinksOf(t, r.node))
      [] r.op = "dir_info" /\ IsFile(t, r.node) -> WrongKind(r.op)
      [] r.op = "file_info" /\ IsDirectory(t, r.node) -> WrongKind(r.op)
      [] OTHER -> Answer("NotFound")

\* The reasons for which a write is refused at that instant.  A create_dir
\* below what is not a directory is an internal error, a create_file is not.
Refusals(t, r) ==
    LET found == LinksAt(t, r.node, r.name) IN
    {Answer("Locked")}
    \cup {Located("AlreadyExists", e.kind, e.child) : e \in {l \in found : r.op \in CreateOps}}
    \cup {WrongKind(r.op) : e \in {l \in found : r.op \in DeleteOps /\ l.kind # WantedKind(r.op)}}
    \cup {Answer("DirectoryNotEmpty") :
             e \in {l \in found : r.op = "delete_dir" /\ l.kind = "directory"
                                  /\ LinksOf(t, l.child) # {}}}
    \cup (IF ~IsDirectory(t, r.node) /\ r.op = "create_file" THEN {Answer("NotFound")} ELSE {})
    \cup (IF ~IsDirectory(t, r.node) /\ r.op = "create_dir" THEN {Answer("Internal")} ELSE {})
    \cup (IF found = {} /\ r.op \in DeleteOps
          THEN {Answer(IF IsFile(t, r.node) THEN "NotADirectory" ELSE "NotFound")} ELSE {})

-----------------------------------------------------------------------------

Init ==
    /\ tree = [last |-> Root, links |-> {}]
    /\ request = [h \in Handlers |-> NoRequest]
    /\ answer = [h \in Handlers |-> NoAnswer]
    /\ possible = [h \in Handlers |-> {}]

Pending(h, ops) == request[h].op \in ops /\ answer[h] = NoAnswer

\* Reads under way may answer from the new tree as well.
Becomes(t) ==
    /\ tree' = t
    /\ possible' = [h \in Handlers |->
                       IF Pending(h, ReadOps) THEN possible[h] \cup {ReadAnswer(t, request[h])}
                                              ELSE possible[h]]

Call(h, r) ==
    /\ request[h] = NoRequest
    /\ request' = [request EXCEPT ![h] = r]
    /\ possible' = [possible EXCEPT ![h] = IF r.op \in ReadOps THEN {ReadAnswer(tree, r)} ELSE {}]
    /\ UNCHANGED <<tree, answer>>

Create(h) ==
    LET r == request[h]
        kind == WantedKind(r.op)
        id == tree.last + 1
    IN  /\ Pending(h, CreateOps)
        /\ IsDirectory(tree, r.node)
        /\ LinksAt(tree, r.node, r.name) = {}
        /\ Becomes([last |-> id,
                    links |-> tree.links \cup {[parent |-> r.node, name |-> r.name,
                                                kind |-> kind, child |-> id]}])
        /\ answer' = [answer EXCEPT ![h] = Located("Created", kind, id)]
        /\ UNCHANGED request

Delete(h) ==
    LET r == request[h] IN
    /\ Pending(h, DeleteOps)
    /\ \E e \in LinksAt(tree, r.node, r.name) :
          /\ e.kind = WantedKind(r.op)
          /\ LinksOf(tree, e.child) = {}
          /\ Becomes([tree EXCEPT !.links = @ \ {e}])
    /\ answer' = [answer EXCEPT ![h] = Answer("NoContent")]
    /\ UNCHANGED request

Refuse(h) ==
    /\ Pending(h, WriteOps)
    /\ \E refusal \in Refusals(tree, request[h]) : answer' = [answer EXCEPT ![h] = refusal]
    /\ UNCHANGED <<tree, request, possible>>

Read(h) ==
    /\ Pending(h, ReadOps)
    /\ \E result \in possible[h] \cup {Answer("Locked")} :
          answer' = [answer EXCEPT ![h] = result]
    /\ UNCHANGED <<tree, request, possible>>

Return(h) ==
    /\ answer[h] # NoAnswer
    /\ request' = [request EXCEPT ![h] = NoRequest]
    /\ answer' = [answer EXCEPT ![h] = NoAnswer]
    /\ possible' = [possible EXCEPT ![h] = {}]
    /\ UNCHANGED tree

\* The server stops: the tree stays, the requests under way are lost.
Crash ==
    /\ request' = [h \in Handlers |-> NoRequest]
    /\ answer' = [h \in Handlers |-> NoAnswer]
    /\ possible' = [h \in Handlers |-> {}]
    /\ UNCHANGED tree

Next == \/ \E h \in Handlers : \/ \E r \in RequestSet : Call(h, r)
                               \/ Create(h) \/ Delete(h) \/ Refuse(h)
                               \/ Read(h) \/ Return(h)
        \/ Crash

Spec == Init /\ [][Next]_vars

=============================================================================
