----------------------------- MODULE NodeStore -----------------------------
(***************************************************************************)
(* The SQLite tables of the server (server/migrations) and the statements  *)
(* of server/src/db.rs, as pure operators on a database value.  A          *)
(* statement is described by the constraint that makes SQLite refuse it    *)
(* and by the database it leaves when it is accepted.                      *)
(*                                                                         *)
(* Sizes and hashes of files are left out here: no statement of the tree   *)
(* routes depends on them.                                                 *)
(***************************************************************************)
EXTENDS Integers

CONSTANT Names      \* the names a directory entry can have

NodeIds == Nat \ {0}
Root == 1           \* NodeID::ROOT
Kinds == {"directory", "file"}

\* The rows of the tables `directories` and `directory_entries`.  The CHECK
\* of the latter (exactly one of the columns directory and file is not NULL)
\* is the field `kind`.
DirectoryRows == [id : NodeIds, parent : NodeIds]
EntryRows == [parent : NodeIds, name : Names, kind : Kinds, child : NodeIds]

\* A database: the row of node_id and the rows of the three other tables.
Databases == [current     : NodeIds,
              directories : SUBSET DirectoryRows,
              files       : SUBSET NodeIds,
              entries     : SUBSET EntryRows]

\* What the migrations leave in a new database.
InitialDb == [current     |-> Root,
              directories |-> {[id |-> Root, parent |-> Root]},
              files       |-> {},
              entries     |-> {}]

-----------------------------------------------------------------------------
(* SELECT *)

DirectoryIds(d) == {r.id : r \in d.directories}
FileExists(d, id) == id \in d.files
DirectoryExists(d, id) == \E r \in d.directories : r.id = id
EntriesAt(d, parent, name) == {e \in d.entries : e.parent = parent /\ e.name = name}
EntriesOf(d, parent) == {e \in d.entries : e.parent = parent}

-----------------------------------------------------------------------------
(* UPDATE node_id, repeated until the id is that of no node.  The first    *)
(* free id above the counter is its successor or follows an existing node. *)

FreeIds(d) ==
    {id \in {d.current + 1} \cup {n + 1 : n \in d.files \cup DirectoryIds(d)} :
        id > d.current /\ ~FileExists(d, id) /\ ~DirectoryExists(d, id)}

\* Mutants of NextAvailableId: the overflow of the counter leads to 0 (here
\* already after 2); the id of a deleted node is used again.
WrappingId(d) == (d.current + 1) % 3
LowestFreeId(d) ==
    CHOOSE id \in 2..(d.current + 1) :
        /\ id \notin d.files \cup DirectoryIds(d)
        /\ \A other \in 2..(id - 1) : other \in d.files \cup DirectoryIds(d)

NextAvailableId(d) == CHOOSE id \in FreeIds(d) : \A other \in FreeIds(d) : id <= other

-----------------------------------------------------------------------------
(* INSERT.  The foreign keys are immediate and a row may reference itself. *)

DirectoryInsertViolatesForeignKey(d, id, parent) ==
    parent # id /\ ~DirectoryExists(d, parent)

EntryInsertViolatesUnique(d, entry) ==
    \E e \in d.entries : \/ e.parent = entry.parent /\ e.name = entry.name
                         \/ e.kind = entry.kind /\ e.child = entry.child

EntryInsertViolatesForeignKey(d, entry) == ~DirectoryExists(d, entry.parent)

\* The counter moved to id and the row of the new node inserted.
WithNode(d, id, kind, parent) ==
    [current     |-> id,
     directories |-> IF kind = "directory"
                     THEN d.directories \cup {[id |-> id, parent |-> parent]} ELSE d.directories,
     files       |-> IF kind = "file" THEN d.files \cup {id} ELSE d.files,
     entries     |-> d.entries]

WithEntry(d, entry) ==
    [current     |-> d.current,
     directories |-> d.directories,
     files       |-> d.files,
     entries     |-> d.entries \cup {entry}]

-----------------------------------------------------------------------------
(* DELETE.  The entry of the node goes with it (ON DELETE CASCADE); what   *)
(* still refers to a deleted directory as its parent refuses the statement. *)

\* Mutant: foreign keys are not enforced on this connection.
DirectoryDeleteUnchecked(d, id) == FALSE
DirectoryDeleteViolatesForeignKey(d, id) ==
    \/ \E r \in d.directories : r.parent = id /\ r.id # id
    \/ \E e \in d.entries : e.parent = id /\ ~(e.kind = "directory" /\ e.child = id)

WithoutRow(d, kind, id) ==
    [current     |-> d.current,
     directories |-> IF kind = "directory"
                     THEN {r \in d.directories : r.id # id} ELSE d.directories,
     files       |-> IF kind = "file" THEN d.files \ {id} ELSE d.files,
     entries     |-> d.entries]

WithoutEntryOf(d, kind, id) ==
    [current     |-> d.current,
     directories |-> d.directories,
     files       |-> d.files,
     entries     |-> {e \in d.entries : ~(e.kind = kind /\ e.child = id)}]

\* Mutant of WithoutNode: no ON DELETE CASCADE.
WithoutNodeUncascaded(d, kind, id) == WithoutRow(d, kind, id)
WithoutNode(d, kind, id) == WithoutEntryOf(WithoutRow(d, kind, id), kind, id)

=============================================================================
