------------------------------ MODULE NodeApi ------------------------------
(***************************************************************************)
(* The requests a client can send to the tree routes of the server (the    *)
(* router of server/src/main.rs) and the answers it gets: the Ok values of *)
(* the handlers and the variants of server/src/error.rs.                   *)
(*                                                                         *)
(* One status of the model is finer than HTTP: a 500 is "Locked" when it   *)
(* comes from SQLITE_BUSY, "Panic" when the handler panicked and           *)
(* "Internal" when SQLite refused a statement for another reason.          *)
(***************************************************************************)
EXTENDS NodeStore

CreateOps == {"create_dir", "create_file"}
DeleteOps == {"delete_dir", "delete_file"}
WriteOps == CreateOps \cup DeleteOps
ReadOps == {"node_info", "dir_info", "file_info"}

\* The kind of node a request wants to create, delete or hear about; node_info
\* wants either.
WantedKind(op) == IF op \in {"create_dir", "delete_dir", "dir_info"}
                  THEN "directory" ELSE "file"

WriteRequests == [op : WriteOps, node : NodeIds, name : Names]
ReadRequests == [op : ReadOps, node : NodeIds]
Requests == WriteRequests \cup ReadRequests
NoRequest == [op |-> "none"]

Statuses == {"Created", "NoContent", "Ok", "NotFound", "NotAFile", "NotADirectory",
             "AlreadyExists", "DirectoryNotEmpty", "Internal", "Locked", "Panic"}

\* kind and node are those of the Location header (Created, AlreadyExists) or,
\* of a DirectoryInfo, "directory" and its parent; children are its children.
Answers == [status   : Statuses,
            kind     : Kinds \cup {"none"},
            node     : Nat,
            children : SUBSET [name : Names, child : NodeIds]]
NoAnswer == [status |-> "none"]

Answer(status) == [status |-> status, kind |-> "none", node |-> 0, children |-> {}]
Located(status, kind, id) == [status |-> status, kind |-> kind, node |-> id, children |-> {}]
FileInfo == Located("Ok", "file", 0)
DirectoryInfo(parent, links) ==
    [status |-> "Ok", kind |-> "directory", node |-> parent,
     children |-> {[name |-> e.name, child |-> e.child] : e \in links}]

\* What is said of a node that is not of the kind wanted.
WrongKind(op) == IF WantedKind(op) = "directory" THEN Answer("NotADirectory") ELSE Answer("NotAFile")

=============================================================================
