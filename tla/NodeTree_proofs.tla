--------------------------- MODULE NodeTree_proofs -------------------------
(***************************************************************************)
(* NodeRoutes implements NodeTree: the tables, statements, transactions    *)
(* and locks are, to a client, a tree on which every request takes effect  *)
(* at one instant.  For every set of handlers, requests and names.         *)
(*                                                                         *)
(* A create or delete takes effect when its COMMIT ends, and is ready to   *)
(* do so from when its statements have run (Prepared): nobody else changes *)
(* the database in between.  A refusal stays true for as long as its       *)
(* transaction holds a lock (Refused).  A read of several SELECTs takes    *)
(* effect at an instant it can only know afterwards: what it has found so  *)
(* far is so now, or was so at an instant it may still answer for          *)
(* (ReadsSoFar).  That rests on ids never being used again: what a SELECT  *)
(* has not found will not appear, and a directory goes only when empty.    *)
(***************************************************************************)
EXTENDS NodeRoutes_proofs

\* The primary key of the table `directories`.
DirectoriesUnique(d) == \A r, s \in d.directories : r.id = s.id => r = s

\* Where a handler is with which request.
Placed(h) ==
    /\ pc[h] = "idle" => request[h] = NoRequest
    /\ pc[h] \in WritePCs \cup {"failed", "broken"} => request[h] \in WriteRequests
    /\ pc[h] = "reading" => request[h] \in ReadRequests /\ request[h].node <= db.current
    /\ pc[h] = "answered" => result[h] \in Answers

\* The copy is the database with the one change that was asked for.
PreparedCreate(h) ==
    LET r == request[h]
        link == [parent |-> r.node, name |-> r.name, kind |-> WantedKind(r.op), child |-> db.current + 1]
    IN  /\ r.op \in CreateOps
        /\ DirectoryExists(db, r.node) /\ EntriesAt(db, r.node, r.name) = {}
        /\ result[h] = Located("Created", WantedKind(r.op), db.current + 1)
        /\ work[h].current = db.current + 1 /\ work[h].entries = db.entries \cup {link}
        /\ db.directories \subseteq work[h].directories
PreparedDelete(h) ==
    LET r == request[h] IN
    /\ r.op \in DeleteOps
    /\ result[h] = Answer("NoContent")
    /\ \E e \in EntriesAt(db, r.node, r.name) :
          /\ e.kind = WantedKind(r.op) /\ EntriesOf(db, e.child) = {}
          /\ work[h].current = db.current /\ work[h].entries = db.entries \ {e}
          /\ work[h].directories \subseteq db.directories
          /\ \A d \in db.directories \ work[h].directories : d.id = e.child
Prepared(h) ==
    pc[h] \in {"executed", "committing"} =>
        (PreparedCreate(h) \/ PreparedDelete(h)) /\ DirectoriesUnique(work[h])

\* A refusal that depends on the database is of a transaction that holds a lock.
Refused(h) ==
    pc[h] \in {"failed", "broken"} =>
        \/ result[h] = Answer("Locked")
        \/ lock[h] # "none" /\ result[h] \in T!Refusals(Tree(db), request[h])

\* What a read has found so far.
ReadingOf(h, p) ==
    /\ result[h] = DirectoryInfo(p, {})
    /\ \/ [id |-> request[h].node, parent |-> p] \in db.directories
       \/ /\ ~DirectoryExists(db, request[h].node)
          /\ DirectoryInfo(p, {}) \in possible[h]
ReadsSoFar(h) ==
    /\ pc[h] = "reading" =>
          /\ T!ReadAnswer(Tree(db), request[h]) \in possible[h]
          /\ table[h] = "directories" /\ request[h].op # "dir_info" => ~FileExists(db, request[h].node)
          /\ table[h] = "files" /\ request[h].op = "dir_info" => ~DirectoryExists(db, request[h].node)
          /\ table[h] = "entries" => request[h].op # "file_info" /\ \E p \in NodeIds : ReadingOf(h, p)
    /\ \/ pc[h] = "reading" /\ table[h] = "none"
       \/ pc[h] = "answered" /\ request[h].op \in ReadOps
       => result[h] \in possible[h] \cup {Answer("Locked")}

Good(h) == Placed(h) /\ Prepared(h) /\ Refused(h) /\ ReadsSoFar(h)

JInv ==
    /\ DirectoriesUnique(db)
    /\ \A h \in Handlers : Good(h)

-----------------------------------------------------------------------------
(* The tree the tables stand for *)

\* NodeTree talks of the same requests and answers.
LEMMA SameApi ==
    /\ T!Root = Root /\ T!NoRequest = NoRequest /\ T!NoAnswer = NoAnswer /\ T!FileInfo = FileInfo
    /\ T!ReadOps = ReadOps /\ T!CreateOps = CreateOps /\ T!DeleteOps = DeleteOps /\ T!WriteOps = WriteOps
    /\ \A s : T!Answer(s) = Answer(s)
    /\ \A s, k, i : T!Located(s, k, i) = Located(s, k, i)
    /\ \A p, own : T!DirectoryInfo(p, own) = DirectoryInfo(p, own)
    /\ \A op : T!WantedKind(op) = WantedKind(op)
    /\ \A op : T!WrongKind(op) = WrongKind(op)
BY DEF T!Root, Root, T!NoRequest, NoRequest, T!NoAnswer, NoAnswer, T!FileInfo, FileInfo,
       T!ReadOps, ReadOps, T!CreateOps, CreateOps, T!DeleteOps, DeleteOps, T!WriteOps, WriteOps,
       T!Answer, Answer, T!Located, Located, T!DirectoryInfo, DirectoryInfo,
       T!WantedKind, WantedKind, T!WrongKind, WrongKind

\* The kinds of requests are different.
LEMMA OpsDiffer ==
    /\ ReadOps \cap WriteOps = {} /\ CreateOps \cap DeleteOps = {} /\ WriteOps = CreateOps \cup DeleteOps
    /\ NoRequest.op \notin ReadOps \cup WriteOps
    /\ \A r \in WriteRequests : r.op \in WriteOps /\ r.node \in NodeIds /\ r.name \in Names
    /\ \A r \in ReadRequests : r.op \in ReadOps /\ r.node \in NodeIds
    /\ \A r \in Requests : r # NoRequest
                           /\ (r.op \in ReadOps => r \in ReadRequests)
                           /\ (r.op \notin ReadOps => r \in WriteRequests)
BY DEF ReadOps, WriteOps, CreateOps, DeleteOps, NoRequest, Requests, WriteRequests, ReadRequests

\* A node is in a table if and only if it is in the tree.
LEMMA SameNodes ==
    ASSUME NEW d \in Databases, Consistent(d)
    PROVE  /\ \A id : T!IsDirectory(Tree(d), id) <=> DirectoryExists(d, id)
           /\ \A id : T!IsFile(Tree(d), id) <=> FileExists(d, id)
           /\ \A id : ~(DirectoryExists(d, id) /\ FileExists(d, id))
           /\ \A id, name : T!LinksAt(Tree(d), id, name) = EntriesAt(d, id, name)
           /\ \A id : T!LinksOf(Tree(d), id) = EntriesOf(d, id)
<1>1. Tree(d).links = d.entries /\ d.entries \subseteq EntryRows
  BY DEF Tree, Databases
<1>2. ASSUME NEW id PROVE T!IsDirectory(Tree(d), id) <=> DirectoryExists(d, id)
  <2>1. ASSUME T!IsDirectory(Tree(d), id) PROVE DirectoryExists(d, id)
    <3>1. CASE id = Root
      BY <3>1 DEF Consistent, NodesNamed, DirectoryExists
    <3>2. CASE id # Root
      <4>1. PICK e \in d.entries : e.kind = "directory" /\ e.child = id
        BY <1>1, <2>1, <3>2, SameApi DEF T!IsDirectory
      <4>2. [id |-> e.child, parent |-> e.parent] \in d.directories
        BY <4>1 DEF Consistent, LinksLead
      <4> QED
        BY <4>1, <4>2 DEF DirectoryExists
    <3> QED
      BY <3>1, <3>2
  <2>2. ASSUME DirectoryExists(d, id) PROVE T!IsDirectory(Tree(d), id)
    <3>1. PICK r \in d.directories : r.id = id
      BY <2>2 DEF DirectoryExists
    <3>2. r = [id |-> Root, parent |-> Root] \/ \E e \in d.entries : e.kind = "directory" /\ e.child = r.id
      BY DEF Consistent, NodesNamed
    <3> QED
      BY <1>1, <3>1, <3>2, SameApi DEF T!IsDirectory
  <2> QED
    BY <2>1, <2>2
<1>3. ASSUME NEW id PROVE T!IsFile(Tree(d), id) <=> FileExists(d, id)
  <2>1. T!IsFile(Tree(d), id) <=> \E e \in d.entries : e.kind = "file" /\ e.child = id
    BY <1>1 DEF T!IsFile
  <2>2. \A e \in d.entries : e.kind = "file" => e.child \in d.files
    BY DEF Consistent, LinksLead, FileExists
  <2>3. \A f \in d.files : \E e \in d.entries : e.kind = "file" /\ e.child = f
    BY DEF Consistent, NodesNamed
  <2> QED
    BY <2>1, <2>2, <2>3 DEF FileExists
<1>4. \A id : ~(DirectoryExists(d, id) /\ FileExists(d, id))
  BY DEF Consistent, IdsGivenOut, DirectoryExists, FileExists
<1>5. \A id, name : T!LinksAt(Tree(d), id, name) = EntriesAt(d, id, name)
  BY <1>1 DEF T!LinksAt, EntriesAt
<1>6. \A id : T!LinksOf(Tree(d), id) = EntriesOf(d, id)
  BY <1>1 DEF T!LinksOf, EntriesOf
<1> QED
  BY <1>2, <1>3, <1>4, <1>5, <1>6

\* What a read at one instant says of a directory is what its rows say.
LEMMA ReadOfDirectory ==
    ASSUME NEW d \in Databases, Consistent(d), DirectoriesUnique(d),
           NEW row \in d.directories, NEW r, r.node = row.id
    PROVE  T!ReadAnswer(Tree(d), r) = IF r.op = "file_info" THEN WrongKind(r.op)
                                      ELSE DirectoryInfo(row.parent, EntriesOf(d, r.node))
<1>1. DirectoryExists(d, r.node) /\ ~FileExists(d, r.node)
  BY SameNodes DEF DirectoryExists
<1>2. T!IsDirectory(Tree(d), r.node) /\ ~T!IsFile(Tree(d), r.node)
  BY <1>1, SameNodes
<1>3. T!ParentOf(Tree(d), r.node) = row.parent
  <2>1. CASE r.node = Root
    <3>1. row = [id |-> Root, parent |-> Root]
      BY <2>1 DEF DirectoriesUnique, Consistent, NodesNamed
    <3> QED
      BY <2>1, <3>1, SameApi DEF T!ParentOf
  <2>2. CASE r.node # Root
    <3>1. \E e \in Tree(d).links : e.kind = "directory" /\ e.child = r.node
      BY <1>2, <2>2, SameApi DEF T!IsDirectory
    <3> DEFINE l == CHOOSE e \in Tree(d).links : e.kind = "directory" /\ e.child = r.node
    <3>2. l \in Tree(d).links /\ l.kind = "directory" /\ l.child = r.node
      BY <3>1
    <3>3. T!ParentOf(Tree(d), r.node) = l.parent
      BY <2>2, SameApi DEF T!ParentOf
    <3> HIDE DEF l
    <3>4. l \in d.entries
      BY <3>2 DEF Tree
    <3>5. [id |-> l.child, parent |-> l.parent] \in d.directories
      BY <3>2, <3>4 DEF Consistent, LinksLead
    <3>6. row = [id |-> l.child, parent |-> l.parent]
      BY <3>2, <3>5 DEF DirectoriesUnique
    <3> QED
      BY <3>3, <3>6
  <2> QED
    BY <2>1, <2>2
<1>4. T!LinksOf(Tree(d), r.node) = EntriesOf(d, r.node)
  BY SameNodes
<1> QED
  BY <1>2, <1>3, <1>4, SameApi DEF T!ReadAnswer

\* What it says of a file and of nothing.
LEMMA ReadOfOther ==
    ASSUME NEW d \in Databases, Consistent(d), NEW r, ~DirectoryExists(d, r.node)
    PROVE  T!ReadAnswer(Tree(d), r) = IF FileExists(d, r.node)
                                      THEN IF r.op = "dir_info" THEN WrongKind(r.op) ELSE FileInfo
                                      ELSE Answer("NotFound")
<1>1. ~T!IsDirectory(Tree(d), r.node) /\ (T!IsFile(Tree(d), r.node) <=> FileExists(d, r.node))
  BY SameNodes
<1> QED
  BY <1>1, SameApi DEF T!ReadAnswer

\* Refusals are answers.
LEMMA RefusalsTyped ==
    ASSUME NEW d \in Databases, NEW r, NEW a \in T!Refusals(Tree(d), r)
    PROVE  a \in Answers
<1>1. \/ \E s \in {"Locked", "DirectoryNotEmpty", "NotFound", "Internal", "NotADirectory", "NotAFile"} :
            a = Answer(s)
      \/ \E e \in T!LinksAt(Tree(d), r.node, r.name) : a = Located("AlreadyExists", e.kind, e.child)
  BY SameApi DEF T!Refusals, WrongKind
<1>2. \A s \in {"Locked", "DirectoryNotEmpty", "NotFound", "Internal", "NotADirectory", "NotAFile"} :
         Answer(s) \in Answers
  BY AnswersTyped DEF Statuses
<1>3. ASSUME NEW e \in T!LinksAt(Tree(d), r.node, r.name)
      PROVE  Located("AlreadyExists", e.kind, e.child) \in Answers
  <2>1. e \in d.entries
    BY DEF T!LinksAt, Tree
  <2>2. e.kind \in Kinds /\ e.child \in Nat
    BY <2>1 DEF Databases, EntryRows, NodeIds
  <2>3. "AlreadyExists" \in Statuses
    BY DEF Statuses
  <2> QED
    BY <2>2, <2>3, AnswersTyped
<1> QED
  BY <1>1, <1>2, <1>3

-----------------------------------------------------------------------------
(* The steps of one handler that leave the database alone *)

\* They are no business of the others.
LEMMA OneMoves ==
    ASSUME JInv, NEW h \in Handlers, db' = db, Good(h)',
           \A o \in Handlers \ {h} :
              /\ pc'[o] = pc[o] /\ request'[o] = request[o] /\ result'[o] = result[o]
              /\ table'[o] = table[o] /\ possible'[o] = possible[o]
              /\ work'[o] = work[o] /\ lock'[o] = lock[o]
    PROVE  JInv'
<1>1. ASSUME NEW o \in Handlers \ {h} PROVE Good(o)'
  <2>1. Good(o)
    BY DEF JInv
  <2>2. Placed(o)'
    BY <2>1 DEF Good, Placed
  <2>3. Prepared(o)'
    BY <2>1 DEF Good, Prepared, PreparedCreate, PreparedDelete
  <2>4. Refused(o)'
    BY <2>1 DEF Good, Refused
  <2>5. ReadsSoFar(o)'
    BY <2>1 DEF Good, ReadsSoFar, ReadingOf
  <2> QED
    BY <2>2, <2>3, <2>4, <2>5 DEF Good
<1> QED
  BY <1>1 DEF JInv

\* A request that has just arrived has read nothing.
LEMMA ReceiveStays ==
    ASSUME IInv, JInv, NEW h \in Handlers, NEW r \in RequestSet, Known(r), Receive(h, r)
    PROVE  JInv'
<1> USE DEF IInv
<1>1. /\ pc[h] = "idle" /\ request' = [request EXCEPT ![h] = r]
      /\ pc' = [pc EXCEPT ![h] = IF r.op \in ReadOps THEN "reading" ELSE "received"]
      /\ table' = [table EXCEPT ![h] = IF r.op = "dir_info" THEN "directories"
                                       ELSE IF r.op \in ReadOps THEN "files" ELSE "none"]
      /\ possible' = [possible EXCEPT ![h] = IF r.op \in ReadOps THEN {T!ReadAnswer(Tree(db), r)} ELSE {}]
      /\ UNCHANGED <<db, work, lock, result>>
  BY DEF Receive, Go
<1>2. r \in Requests /\ r.node <= db.current
  BY RequestSetAssumption DEF Known
<1>3. /\ request'[h] = r
      /\ r.op \in ReadOps => pc'[h] = "reading" /\ possible'[h] = {T!ReadAnswer(Tree(db), r)}
                             /\ table'[h] = IF r.op = "dir_info" THEN "directories" ELSE "files"
      /\ r.op \notin ReadOps => pc'[h] = "received"
  BY <1>1 DEF TypeOK
<1>4. Placed(h)'
  BY <1>1, <1>2, <1>3, OpsDiffer DEF Placed, WritePCs
<1>5. Prepared(h)' /\ Refused(h)'
  BY <1>3 DEF Prepared, Refused
<1>6. ReadsSoFar(h)'
  BY <1>1, <1>3 DEF ReadsSoFar
<1> QED
  BY <1>1, <1>4, <1>5, <1>6, OneMoves DEF TypeOK, Good

\* "Locked" is always a reason.
LEMMA FailLocked ==
    ASSUME IInv, JInv, NEW h \in Handlers, pc[h] \in WritePCs, request' = request, db' = db,
           pc'[h] \in {"failed", "broken"}, result'[h] = Answer("Locked")
    PROVE  Good(h)'
<1>1. Placed(h)'
  BY DEF Placed, JInv, Good, WritePCs
<1>2. Prepared(h)' /\ Refused(h)' /\ ReadsSoFar(h)'
  BY DEF Prepared, Refused, ReadsSoFar
<1> QED
  BY <1>1, <1>2 DEF Good

\* Another reason is one as long as the lock is held.
LEMMA FailHolding ==
    ASSUME IInv, JInv, NEW h \in Handlers, pc[h] \in WritePCs, request' = request, db' = db,
           pc'[h] = "failed", lock'[h] # "none", result'[h] \in T!Refusals(Tree(db), request[h])
    PROVE  Good(h)'
<1>1. Placed(h)'
  BY DEF Placed, JInv, Good, WritePCs
<1>2. Prepared(h)' /\ Refused(h)' /\ ReadsSoFar(h)'
  BY DEF Prepared, Refused, ReadsSoFar
<1> QED
  BY <1>1, <1>2 DEF Good

\* A create that meets another writer.
LEMMA CreateBusyStays ==
    ASSUME IInv, JInv, NEW h \in Handlers, CreateBusy(h)
    PROVE  JInv'
<1>1. /\ pc[h] = "received" /\ pc' = [pc EXCEPT ![h] = "failed"]
      /\ result' = [result EXCEPT ![h] = Answer("Locked")]
      /\ \E l : lock' = [lock EXCEPT ![h] = l]
      /\ UNCHANGED <<db, work, request, table, possible>>
  BY DEF CreateBusy, Fail, Go, Determine, Hold
<1>2. pc'[h] = "failed" /\ result'[h] = Answer("Locked")
  BY <1>1 DEF IInv, TypeOK
<1>3. Good(h)'
  BY <1>1, <1>2, FailLocked DEF WritePCs
<1> QED
  BY <1>1, <1>3, OneMoves DEF IInv, TypeOK

\* What the statements of a create find wrong is a reason to refuse it; what
\* they write is the one change it asks for.
LEMMA CreateExecuteStays ==
    ASSUME IInv, JInv, NEW h \in Handlers, CreateExecute(h)
    PROVE  JInv'
<1> USE DEF IInv
<1> DEFINE r == request[h]
           kind == WantedKind(r.op)
           id == NextAvailableId(db)
           entry == [parent |-> r.node, name |-> r.name, kind |-> kind, child |-> id]
           node == WithNode(db, id, kind, r.node)
           found == EntriesAt(db, r.node, r.name)
<1>1. /\ pc[h] = "received" /\ r.op \in CreateOps
      /\ lock' = [lock EXCEPT ![h] = "reserved"]
      /\ UNCHANGED <<db, request, table, possible>>
  BY DEF CreateExecute, Hold
<1>2. /\ db \in Databases /\ Consistent(db) /\ id = db.current + 1 /\ db.current \in Nat
      /\ kind \in Kinds
  BY NextAvailableIdIsSuccessor DEF TypeOK, TreeConsistent, Consistent, WantedKind, Kinds, Databases, NodeIds
<1>3. /\ r \in WriteRequests /\ r.node \in NodeIds /\ r.node <= db.current /\ r.node # id
      /\ r.op \notin DeleteOps /\ r.op \in {"create_dir", "create_file"}
  <2>1. r \in WriteRequests /\ r.node <= db.current
    BY <1>1 DEF RequestsFit, WritePCs
  <2>2. r.node \in NodeIds
    BY <2>1, OpsDiffer
  <2> QED
    BY <1>1, <1>2, <2>1, <2>2, OpsDiffer DEF NodeIds, CreateOps
<1>4. /\ lock'[h] = "reserved"
      /\ \A o \in Handlers \ {h} : lock'[o] = lock[o]
  BY <1>1 DEF TypeOK
<1>5. /\ node.entries = db.entries /\ node.current = id
      /\ node.directories = IF kind = "directory" THEN db.directories \cup {[id |-> id, parent |-> r.node]}
                            ELSE db.directories
  BY DEF WithNode
<1>6. EntriesAt(node, r.node, r.name) = found
  BY <1>5 DEF EntriesAt
<1>7. DirectoryExists(node, r.node) <=> DirectoryExists(db, r.node)
  BY <1>3, <1>5 DEF DirectoryExists
<1>8. /\ T!LinksAt(Tree(db), r.node, r.name) = found
      /\ T!IsDirectory(Tree(db), r.node) <=> DirectoryExists(db, r.node)
  BY <1>2, SameNodes
<1>9. EntryInsertViolatesUnique(node, entry) => found # {}
  <2> SUFFICES ASSUME EntryInsertViolatesUnique(node, entry) PROVE found # {}
    OBVIOUS
  <2>1. PICK e \in db.entries : \/ e.parent = r.node /\ e.name = r.name
                                \/ e.kind = kind /\ e.child = id
    BY <1>5 DEF EntryInsertViolatesUnique
  <2>2. e.child # id
    <3>1. e \in EntryRows
      BY <1>2 DEF Databases
    <3>2. e.child \in Nodes(db)
      <4>1. /\ e.kind = "directory" => [id |-> e.child, parent |-> e.parent] \in db.directories
            /\ e.kind = "file" => FileExists(db, e.child)
        BY <1>2 DEF Consistent, LinksLead
      <4>2. e.kind \in Kinds
        BY <3>1 DEF EntryRows
      <4> QED
        BY <4>1, <4>2 DEF Nodes, DirectoryIds, FileExists, Kinds
    <3>3. e.child \in NodeIds /\ e.child <= db.current
      BY <1>2, <3>1, <3>2 DEF Consistent, IdsGivenOut, Nodes, DirectoryIds, EntryRows
    <3> QED
      BY <1>2, <3>3 DEF NodeIds
  <2> QED
    BY <2>1, <2>2 DEF EntriesAt
<1>10. found # {} => EntryInsertViolatesUnique(node, entry)
  BY <1>5 DEF EntryInsertViolatesUnique, EntriesAt
<1> HIDE DEF id, node
<1> DEFINE Failing(a) == pc' = [pc EXCEPT ![h] = "failed"] /\ result' = [result EXCEPT ![h] = a]
           Ready(w) == /\ pc' = [pc EXCEPT ![h] = "executed"]
                       /\ result' = [result EXCEPT ![h] = Located("Created", kind, id)]
                       /\ work' = [work EXCEPT ![h] = w]
<1>11. \/ kind = "directory" /\ ~DirectoryExists(db, r.node) /\ Failing(Answer("Internal"))
       \/ \E e \in found : Failing(Located("AlreadyExists", e.kind, e.child))
       \/ kind # "directory" /\ ~DirectoryExists(db, r.node) /\ Failing(Answer("NotFound"))
       \/ DirectoryExists(db, r.node) /\ found = {} /\ Ready(WithEntry(node, entry))
  <2> HIDE DEF kind, entry, found
  <2>1. DirectoryInsertViolatesForeignKey(db, id, r.node) <=> ~DirectoryExists(db, r.node)
    BY <1>3 DEF DirectoryInsertViolatesForeignKey
  <2>2. EntryInsertViolatesForeignKey(node, entry) <=> ~DirectoryExists(db, r.node)
    BY <1>7 DEF EntryInsertViolatesForeignKey, entry
  <2>3. \/ kind = "directory" /\ DirectoryInsertViolatesForeignKey(db, id, r.node) /\ Failing(Answer("Internal"))
        \/ /\ ~(kind = "directory" /\ DirectoryInsertViolatesForeignKey(db, id, r.node))
           /\ \/ /\ EntryInsertViolatesUnique(node, entry)
                 /\ \/ \E e \in found : Failing(Located("AlreadyExists", e.kind, e.child))
                    \/ found = {}
              \/ EntryInsertViolatesForeignKey(node, entry) /\ Failing(Answer("NotFound"))
              \/ /\ ~EntryInsertViolatesUnique(node, entry)
                 /\ ~EntryInsertViolatesForeignKey(node, entry)
                 /\ Ready(WithEntry(node, entry))
    BY <1>6 DEF CreateExecute, Fail, Go, Determine, kind, id, entry, node
  <2> HIDE DEF Failing, Ready
  <2> QED
    BY <1>9, <1>10, <2>1, <2>2, <2>3
<1>12. \E w, a, p : /\ work' = [work EXCEPT ![h] = w] /\ result' = [result EXCEPT ![h] = a]
                    /\ pc' = [pc EXCEPT ![h] = p]
  BY DEF CreateExecute, Fail, Go, Determine
<1>13. Good(h)'
  <2>1. ASSUME NEW a \in T!Refusals(Tree(db), r), Failing(a) PROVE Good(h)'
    <3>1. pc'[h] = "failed" /\ result'[h] = a
      BY <2>1 DEF TypeOK
    <3> QED
      BY <1>1, <1>4, <3>1, FailHolding DEF WritePCs
  <2>2. CASE kind = "directory" /\ ~DirectoryExists(db, r.node) /\ Failing(Answer("Internal"))
    <3>1. r.op = "create_dir"
      BY <1>3, <2>2 DEF WantedKind
    <3>2. Answer("Internal") \in T!Refusals(Tree(db), r)
      BY <1>8, <2>2, <3>1, SameApi DEF T!Refusals
    <3> QED
      BY <2>1, <2>2, <3>2
  <2>3. CASE \E e \in found : Failing(Located("AlreadyExists", e.kind, e.child))
    <3>1. PICK e \in found : Failing(Located("AlreadyExists", e.kind, e.child))
      BY <2>3
    <3>2. Located("AlreadyExists", e.kind, e.child) \in T!Refusals(Tree(db), r)
      BY <1>1, <1>8, SameApi DEF T!Refusals
    <3> QED
      BY <2>1, <3>1, <3>2
  <2>4. CASE kind # "directory" /\ ~DirectoryExists(db, r.node) /\ Failing(Answer("NotFound"))
    <3>1. r.op = "create_file"
      BY <1>3, <2>4 DEF WantedKind
    <3>2. Answer("NotFound") \in T!Refusals(Tree(db), r)
      BY <1>8, <2>4, <3>1, SameApi DEF T!Refusals
    <3> QED
      BY <2>1, <2>4, <3>2
  <2>5. CASE DirectoryExists(db, r.node) /\ found = {} /\ Ready(WithEntry(node, entry))
    <3>1. /\ pc'[h] = "executed" /\ result'[h] = Located("Created", kind, id)
          /\ work'[h] = WithEntry(node, entry) /\ request'[h] = r
      BY <1>1, <2>5 DEF TypeOK
    <3>2. /\ WithEntry(node, entry).current = id
          /\ WithEntry(node, entry).entries = db.entries \cup {entry}
          /\ WithEntry(node, entry).directories = node.directories
      BY <1>5 DEF WithEntry
    <3>3. DirectoriesUnique(WithEntry(node, entry))
      <4>1. \A d \in db.directories : d.id # id
        <5> SUFFICES ASSUME NEW d \in db.directories PROVE d.id # id
          OBVIOUS
        <5>1. d.id \in Nat /\ d.id <= db.current
          BY <1>2 DEF Databases, DirectoryRows, NodeIds, Consistent, IdsGivenOut
        <5> QED
          BY <1>2, <5>1
      <4> DEFINE row == [id |-> id, parent |-> r.node]
      <4>2. node.directories = db.directories \/ node.directories = db.directories \cup {row}
        BY <1>5
      <4>3. row.id = id
        OBVIOUS
      <4>4. DirectoriesUnique(db)
        BY DEF JInv
      <4> HIDE DEF row, entry
      <4> QED
        BY <3>2, <4>1, <4>2, <4>3, <4>4 DEF DirectoriesUnique
    <3>4. db.directories \subseteq node.directories
      BY <1>5
    <3>5. PreparedCreate(h)'
      BY <1>1, <1>2, <2>5, <3>1, <3>2, <3>4 DEF PreparedCreate
    <3>6. Prepared(h)'
      BY <3>1, <3>3, <3>5 DEF Prepared
    <3>7. Placed(h)' /\ Refused(h)' /\ ReadsSoFar(h)'
      BY <1>1, <1>3, <3>1 DEF Placed, Refused, ReadsSoFar
    <3> QED
      BY <3>6, <3>7 DEF Good
  <2> QED
    BY <1>11, <2>2, <2>3, <2>4, <2>5
<1>14. \A o \in Handlers \ {h} : pc'[o] = pc[o] /\ result'[o] = result[o] /\ work'[o] = work[o]
  BY <1>12 DEF TypeOK
<1> QED
  BY <1>1, <1>4, <1>13, <1>14, OneMoves

\* What the SELECTs of a delete find wrong is a reason to refuse it.
LEMMA DeleteSelectStays ==
    ASSUME IInv, JInv, NEW h \in Handlers, DeleteSelect(h)
    PROVE  JInv'
<1> USE DEF IInv
<1> DEFINE r == request[h]
           found == EntriesAt(db, r.node, r.name)
           Failing(a) == pc' = [pc EXCEPT ![h] = "failed"] /\ result' = [result EXCEPT ![h] = a]
           Holding == lock' = [lock EXCEPT ![h] = "shared"]
<1>1. /\ pc[h] = "received" /\ r.op \in DeleteOps
      /\ UNCHANGED <<db, work, request, table, possible>>
  BY DEF DeleteSelect
<1>2. \/ Failing(Answer("Locked")) /\ UNCHANGED lock
      \/ /\ found = {} /\ Holding
         /\ Failing(Answer(IF FileExists(db, r.node) THEN "NotADirectory" ELSE "NotFound"))
      \/ (\E e \in found : e.kind # WantedKind(r.op)) /\ Holding /\ Failing(WrongKind(r.op))
      \/ pc' = [pc EXCEPT ![h] = "selected"] /\ UNCHANGED result /\ Holding
  BY DEF DeleteSelect, Fail, Go, Determine, Hold, HeldFromRead
<1>3. /\ T!LinksAt(Tree(db), r.node, r.name) = found
      /\ T!IsFile(Tree(db), r.node) <=> FileExists(db, r.node)
  BY SameNodes DEF TypeOK, TreeConsistent
<1>4. Good(h)'
  <2>1. ASSUME NEW a \in T!Refusals(Tree(db), r), Failing(a), Holding PROVE Good(h)'
    <3>1. pc'[h] = "failed" /\ result'[h] = a /\ lock'[h] = "shared"
      BY <2>1 DEF TypeOK
    <3> QED
      BY <1>1, <3>1, FailHolding DEF WritePCs
  <2>2. CASE Failing(Answer("Locked"))
    <3>1. pc'[h] = "failed" /\ result'[h] = Answer("Locked")
      BY <2>2 DEF TypeOK
    <3> QED
      BY <1>1, <3>1, FailLocked DEF WritePCs
  <2>3. CASE /\ found = {} /\ Holding
             /\ Failing(Answer(IF FileExists(db, r.node) THEN "NotADirectory" ELSE "NotFound"))
    <3>1. Answer(IF FileExists(db, r.node) THEN "NotADirectory" ELSE "NotFound") \in T!Refusals(Tree(db), r)
      BY <1>1, <1>3, <2>3, SameApi DEF T!Refusals
    <3> QED
      BY <2>1, <2>3, <3>1
  <2>4. CASE (\E e \in found : e.kind # WantedKind(r.op)) /\ Holding /\ Failing(WrongKind(r.op))
    <3>1. WrongKind(r.op) \in T!Refusals(Tree(db), r)
      BY <1>1, <1>3, <2>4, SameApi DEF T!Refusals
    <3> QED
      BY <2>1, <2>4, <3>1
  <2>5. CASE pc' = [pc EXCEPT ![h] = "selected"]
    <3>1. pc'[h] = "selected" /\ request'[h] \in WriteRequests
      BY <1>1, <2>5 DEF TypeOK, JInv, Good, Placed, WritePCs
    <3>2. Placed(h)'
      BY <3>1 DEF Placed
    <3>3. Prepared(h)' /\ Refused(h)' /\ ReadsSoFar(h)'
      BY <3>1 DEF Prepared, Refused, ReadsSoFar
    <3> QED
      BY <3>2, <3>3 DEF Good
  <2> QED
    BY <1>2, <2>2, <2>3, <2>4, <2>5
<1>5. \A o \in Handlers \ {h} : pc'[o] = pc[o] /\ result'[o] = result[o] /\ lock'[o] = lock[o]
  BY <1>2 DEF TypeOK
<1> QED
  BY <1>1, <1>4, <1>5, OneMoves

\* The foreign keys refuse to delete a directory exactly if it has children.
LEMMA RefusedIfNotEmpty ==
    ASSUME NEW d \in Databases, Consistent(d), DirectoriesUnique(d), NEW e \in d.entries
    PROVE  /\ e.kind = "directory" /\ DirectoryDeleteViolatesForeignKey(d, e.child)
                 => EntriesOf(d, e.child) # {}
           /\ e.kind = "directory" /\ ~DirectoryDeleteViolatesForeignKey(d, e.child)
                 => EntriesOf(d, e.child) = {}
           /\ e.kind = "file" => EntriesOf(d, e.child) = {}
<1>1. ASSUME e.kind = "directory", DirectoryDeleteViolatesForeignKey(d, e.child)
      PROVE  EntriesOf(d, e.child) # {}
  <2>1. CASE \E f \in d.entries : f.parent = e.child
    BY <2>1 DEF EntriesOf
  <2>2. CASE \E row \in d.directories : row.parent = e.child /\ row.id # e.child
    <3>1. PICK row \in d.directories : row.parent = e.child /\ row.id # e.child
      BY <2>2
    <3>2. row # [id |-> Root, parent |-> Root]
      BY <3>1
    <3>3. PICK f \in d.entries : f.kind = "directory" /\ f.child = row.id
      BY <3>2 DEF Consistent, NodesNamed
    <3>4. [id |-> f.child, parent |-> f.parent] \in d.directories
      BY <3>3 DEF Consistent, LinksLead
    <3>5. row = [id |-> f.child, parent |-> f.parent]
      BY <3>3, <3>4 DEF DirectoriesUnique
    <3>6. f.parent = e.child
      BY <3>1, <3>5
    <3> QED
      BY <3>6 DEF EntriesOf
  <2> QED
    BY <1>1, <2>1, <2>2 DEF DirectoryDeleteViolatesForeignKey
<1>2. \A f \in d.entries : f.parent # f.child
  <2> SUFFICES ASSUME NEW f \in d.entries PROVE f.parent # f.child
    OBVIOUS
  <2>1. f.parent \in Nat /\ f.child \in Nat /\ f.parent < f.child
    BY DEF Consistent, LinksLead, Databases, EntryRows, NodeIds
  <2> QED
    BY <2>1
<1>3. e.kind = "directory" /\ ~DirectoryDeleteViolatesForeignKey(d, e.child) => EntriesOf(d, e.child) = {}
  BY <1>2 DEF DirectoryDeleteViolatesForeignKey, EntriesOf
<1>4. ASSUME e.kind = "file" PROVE EntriesOf(d, e.child) = {}
  <2>1. FileExists(d, e.child)
    BY <1>4 DEF Consistent, LinksLead
  <2>2. ~DirectoryExists(d, e.child)
    BY <2>1, SameNodes
  <2> QED
    BY <2>2 DEF EntriesOf, Consistent, LinksLead
<1> QED
  BY <1>1, <1>3, <1>4

\* A DELETE is refused for a reason; else it removes the one link.
LEMMA DeleteExecuteStays ==
    ASSUME IInv, TransactionsIsolated, JInv, NEW h \in Handlers, DeleteExecute(h)
    PROVE  JInv'
<1> USE DEF IInv
<1> DEFINE r == request[h]
           Failing(a) == pc' = [pc EXCEPT ![h] = "failed"] /\ result' = [result EXCEPT ![h] = a]
           Ready(w) == /\ pc' = [pc EXCEPT ![h] = "executed"]
                       /\ result' = [result EXCEPT ![h] = Answer("NoContent")]
                       /\ work' = [work EXCEPT ![h] = w]
           Holding == lock' = [lock EXCEPT ![h] = "reserved"]
<1>1. pc[h] = "selected" /\ UNCHANGED <<db, request, table, possible>>
  BY DEF DeleteExecute
<1>2. PICK e \in EntriesAt(db, r.node, r.name) :
         \/ Failing(Answer("Locked")) /\ UNCHANGED <<lock, work>>
         \/ /\ Holding
            /\ \/ /\ e.kind = "directory" /\ DirectoryDeleteViolatesForeignKey(db, e.child)
                  /\ Failing(Answer("DirectoryNotEmpty")) /\ work' = [work EXCEPT ![h] = db]
               \/ /\ ~(IF e.kind = "directory" THEN DirectoryExists(db, e.child)
                                               ELSE FileExists(db, e.child))
                  /\ Failing(Answer("Panic")) /\ work' = [work EXCEPT ![h] = db]
               \/ /\ e.kind = "directory" => ~DirectoryDeleteViolatesForeignKey(db, e.child)
                  /\ Ready(WithoutNode(db, e.kind, e.child))
  BY DEF DeleteExecute, Fail, Go, Determine, Hold
<1>3. /\ db \in Databases /\ Consistent(db) /\ DirectoriesUnique(db)
      /\ e \in db.entries /\ e.parent = r.node /\ e.name = r.name
  BY DEF TypeOK, TreeConsistent, JInv, EntriesAt
<1>4. e.kind = WantedKind(r.op)
  <2>1. PICK f \in EntriesAt(db, r.node, r.name) : f.kind = WantedKind(r.op)
    BY <1>1 DEF TransactionsIsolated
  <2>2. f = e
    BY <1>3 DEF EntriesAt, Consistent, LinksUnique
  <2> QED
    BY <2>1, <2>2
<1>5. r \in WriteRequests /\ r.op \in DeleteOps
  BY <1>1 DEF RequestsFit, WritePCs
<1>6. IF e.kind = "directory" THEN DirectoryExists(db, e.child) ELSE FileExists(db, e.child)
  BY <1>3, <1>4 DEF Consistent, LinksLead, DirectoryExists, WantedKind
<1>7. CASE Failing(Answer("Locked")) /\ UNCHANGED <<lock, work>>
  <2>1. pc'[h] = "failed" /\ result'[h] = Answer("Locked")
    BY <1>7 DEF TypeOK
  <2>2. Good(h)'
    BY <1>1, <2>1, FailLocked DEF WritePCs
  <2> QED
    BY <1>1, <1>7, <2>2, OneMoves DEF TypeOK
<1>8. CASE /\ e.kind = "directory" /\ DirectoryDeleteViolatesForeignKey(db, e.child) /\ Holding
           /\ Failing(Answer("DirectoryNotEmpty")) /\ work' = [work EXCEPT ![h] = db]
  <2>1. pc'[h] = "failed" /\ result'[h] = Answer("DirectoryNotEmpty") /\ lock'[h] = "reserved"
    BY <1>8 DEF TypeOK
  <2>2. EntriesOf(db, e.child) # {}
    BY <1>3, <1>8, RefusedIfNotEmpty
  <2>3. r.op = "delete_dir"
    BY <1>4, <1>5, <1>8 DEF WantedKind, DeleteOps
  <2>4. /\ e \in T!LinksAt(Tree(db), r.node, r.name)
        /\ T!LinksOf(Tree(db), e.child) # {}
    BY <1>3, <2>2, SameNodes
  <2>5. Answer("DirectoryNotEmpty") \in T!Refusals(Tree(db), r)
    BY <1>8, <2>3, <2>4, SameApi DEF T!Refusals
  <2>6. Good(h)'
    BY <1>1, <2>1, <2>5, FailHolding DEF WritePCs
  <2> QED
    BY <1>1, <1>8, <2>6, OneMoves DEF TypeOK
<1>9. CASE /\ e.kind = "directory" => ~DirectoryDeleteViolatesForeignKey(db, e.child)
           /\ Holding /\ Ready(WithoutNode(db, e.kind, e.child))
  <2> DEFINE new == WithoutNode(db, e.kind, e.child)
  <2>1. /\ pc'[h] = "executed" /\ result'[h] = Answer("NoContent") /\ request'[h] = r
        /\ work'[h] = new
    BY <1>1, <1>9 DEF TypeOK
  <2>2. /\ new.current = db.current
        /\ new.directories = IF e.kind = "directory"
                             THEN {row \in db.directories : row.id # e.child} ELSE db.directories
        /\ new.entries = {f \in db.entries : ~(f.kind = e.kind /\ f.child = e.child)}
    BY DEF WithoutNode, WithoutRow, WithoutEntryOf
  <2>3. new.entries = db.entries \ {e}
    BY <1>3, <2>2 DEF Consistent, LinksUnique
  <2>4. EntriesOf(db, e.child) = {}
    BY <1>3, <1>4, <1>9, RefusedIfNotEmpty DEF WantedKind
  <2>5. /\ new.directories \subseteq db.directories
        /\ \A row \in db.directories \ new.directories : row.id = e.child
    BY <2>2
  <2> HIDE DEF new
  <2>6. PreparedDelete(h)'
    BY <1>1, <1>4, <1>5, <2>1, <2>2, <2>3, <2>4, <2>5 DEF PreparedDelete
  <2>7. DirectoriesUnique(new)
    BY <1>3, <2>5 DEF DirectoriesUnique
  <2>8. Prepared(h)'
    BY <2>1, <2>6, <2>7 DEF Prepared
  <2>9. Placed(h)' /\ Refused(h)' /\ ReadsSoFar(h)'
    BY <1>5, <2>1 DEF Placed, Refused, ReadsSoFar
  <2>10. Good(h)'
    BY <2>8, <2>9 DEF Good
  <2> QED
    BY <1>1, <1>9, <2>10, OneMoves DEF TypeOK
<1> QED
  BY <1>2, <1>6, <1>7, <1>8, <1>9

\* A transaction goes on to its end.
LEMMA CommitStays ==
    ASSUME IInv, JInv, NEW h \in Handlers, CommitBegin(h) \/ CommitBusy(h) \/ Rollback(h)
    PROVE  JInv'
<1> USE DEF IInv
<1>1. CASE CommitBegin(h)
  <2>1. /\ pc[h] = "executed" /\ pc'[h] = "committing"
        /\ UNCHANGED <<db, work, request, result, table, possible>>
    BY <1>1 DEF TypeOK, CommitBegin, Go
  <2>2. Prepared(h)'
    BY <2>1 DEF JInv, Good, Prepared, PreparedCreate, PreparedDelete
  <2>3. Placed(h)' /\ Refused(h)' /\ ReadsSoFar(h)'
    BY <2>1 DEF JInv, Good, Placed, Refused, ReadsSoFar, WritePCs
  <2>4. Good(h)'
    BY <2>2, <2>3 DEF Good
  <2> QED
    BY <1>1, <2>4, OneMoves DEF TypeOK, CommitBegin, Go, Hold
<1>2. CASE CommitBusy(h)
  <2>1. /\ pc[h] = "executed" /\ pc'[h] = "broken" /\ result'[h] = Answer("Locked")
        /\ UNCHANGED <<db, work, request, table, possible>>
    BY <1>2 DEF TypeOK, CommitBusy, Go, Determine, CommitError
  <2>2. Good(h)'
    BY <2>1, FailLocked DEF WritePCs
  <2> QED
    BY <1>2, <2>2, OneMoves DEF TypeOK, CommitBusy, Go, Hold, Determine
<1>3. CASE Rollback(h)
  <2>1. /\ pc[h] \in {"failed", "broken"} /\ pc'[h] = "answered"
        /\ UNCHANGED <<db, request, result, table, possible>>
    BY <1>3 DEF TypeOK, Rollback, Go
  <2>2. result[h] \in Answers
    <3>1. Answer("Locked") \in Answers
      BY AnswersTyped DEF Statuses
    <3>2. Refused(h)
      BY DEF JInv, Good
    <3> QED
      BY <2>1, <3>1, <3>2, RefusalsTyped DEF Refused, TypeOK
  <2>3. request[h].op \notin ReadOps
    BY <2>1, OpsDiffer DEF JInv, Good, Placed
  <2>4. Placed(h)' /\ Prepared(h)' /\ Refused(h)' /\ ReadsSoFar(h)'
    BY <2>1, <2>2, <2>3 DEF Placed, Prepared, Refused, ReadsSoFar, WritePCs
  <2>5. Good(h)'
    BY <2>4 DEF Good
  <2> QED
    BY <1>3, <2>5, OneMoves DEF TypeOK, Rollback, Go, Hold
<1> QED
  BY <1>1, <1>2, <1>3

-----------------------------------------------------------------------------
(* Reading *)

\* While a handler reads, only what it has found is at stake.
LEMMA FindingStays ==
    ASSUME IInv, JInv, NEW h \in Handlers, pc[h] = "reading",
           UNCHANGED <<db, work, pc, request, possible>>,
           \A o \in Handlers \ {h} : /\ result'[o] = result[o] /\ table'[o] = table[o]
                                     /\ lock'[o] = lock[o],
           ReadsSoFar(h)'
    PROVE  JInv'
<1>1. Placed(h)' /\ Prepared(h)' /\ Refused(h)'
  BY DEF JInv, Good, Placed, Prepared, Refused, WritePCs
<1>2. Good(h)'
  BY <1>1 DEF Good
<1> QED
  BY <1>2, OneMoves

\* A SELECT of files tells a file, or that there is none.
LEMMA SelectFileStays ==
    ASSUME IInv, JInv, NEW h \in Handlers, SelectFile(h)
    PROVE  JInv'
<1> USE DEF IInv
<1> DEFINE r == request[h]
           now == T!ReadAnswer(Tree(db), r)
<1>1. /\ pc[h] = "reading" /\ table[h] = "files"
      /\ UNCHANGED <<db, work, pc, request, possible>>
      /\ lock' = [lock EXCEPT ![h] = "shared"]
  BY DEF SelectFile, Selecting, Hold
<1>2. PICK a, t : /\ result' = [result EXCEPT ![h] = a] /\ table' = [table EXCEPT ![h] = t]
                  /\ \/ FileExists(db, r.node) /\ t = "none"
                        /\ a = IF r.op = "dir_info" THEN WrongKind(r.op) ELSE FileInfo
                     \/ ~FileExists(db, r.node) /\ r.op = "dir_info" /\ t = "none" /\ a = Answer("NotFound")
                     \/ ~FileExists(db, r.node) /\ r.op # "dir_info" /\ t = "directories"
  BY DEF SelectFile, Query, Determine
<1>3. result'[h] = a /\ table'[h] = t
  BY <1>2 DEF TypeOK
<1>4. now \in possible[h] /\ (r.op = "dir_info" => ~DirectoryExists(db, r.node))
  BY <1>1 DEF JInv, Good, ReadsSoFar
<1>5. db \in Databases /\ Consistent(db)
  BY DEF TypeOK, TreeConsistent
<1>6. t = "none" => a = now
  <2>1. FileExists(db, r.node) => ~DirectoryExists(db, r.node)
    BY <1>5, SameNodes
  <2>2. ~DirectoryExists(db, r.node) =>
           now = IF FileExists(db, r.node)
                 THEN IF r.op = "dir_info" THEN WrongKind(r.op) ELSE FileInfo
                 ELSE Answer("NotFound")
    BY <1>5, ReadOfOther
  <2> HIDE DEF now
  <2> QED
    BY <1>2, <1>4, <2>1, <2>2
<1>7. ReadsSoFar(h)'
  BY <1>1, <1>2, <1>3, <1>4, <1>6 DEF ReadsSoFar
<1> QED
  BY <1>1, <1>2, <1>7, FindingStays DEF TypeOK

\* A SELECT of directories tells one and its parent, or that there is none.
LEMMA SelectDirectoryStays ==
    ASSUME IInv, JInv, NEW h \in Handlers, SelectDirectory(h)
    PROVE  JInv'
<1> USE DEF IInv
<1> DEFINE r == request[h]
           now == T!ReadAnswer(Tree(db), r)
<1>1. /\ pc[h] = "reading" /\ table[h] = "directories"
      /\ UNCHANGED <<db, work, pc, request, possible>>
      /\ lock' = [lock EXCEPT ![h] = "shared"]
  BY DEF SelectDirectory, Selecting, Hold
<1>2. PICK a, t : /\ result' = [result EXCEPT ![h] = a] /\ table' = [table EXCEPT ![h] = t]
                  /\ \/ DirectoryExists(db, r.node) /\ r.op = "file_info" /\ t = "none" /\ a = WrongKind(r.op)
                     \/ /\ r.op # "file_info" /\ t = "entries"
                        /\ \E row \in {d \in db.directories : d.id = r.node} : a = DirectoryInfo(row.parent, {})
                     \/ ~DirectoryExists(db, r.node) /\ r.op = "dir_info" /\ t = "files"
                     \/ /\ ~DirectoryExists(db, r.node) /\ r.op # "dir_info" /\ t = "none"
                        /\ a = Answer("NotFound")
  BY DEF SelectDirectory, Query, Determine
<1>3. result'[h] = a /\ table'[h] = t
  BY <1>2 DEF TypeOK
<1>4. now \in possible[h] /\ (r.op # "dir_info" => ~FileExists(db, r.node))
  BY <1>1 DEF JInv, Good, ReadsSoFar
<1>5. db \in Databases /\ Consistent(db) /\ DirectoriesUnique(db)
  BY DEF TypeOK, TreeConsistent, JInv
<1>6. t = "none" => a = now
  <2>1. ASSUME DirectoryExists(db, r.node), r.op = "file_info" PROVE now = WrongKind(r.op)
    BY <1>5, <2>1, ReadOfDirectory DEF DirectoryExists
  <2>2. ~DirectoryExists(db, r.node) =>
           now = IF FileExists(db, r.node)
                 THEN IF r.op = "dir_info" THEN WrongKind(r.op) ELSE FileInfo
                 ELSE Answer("NotFound")
    BY <1>5, ReadOfOther
  <2> HIDE DEF now
  <2> QED
    BY <1>2, <1>4, <2>1, <2>2
<1>7. t = "entries" => r.op # "file_info" /\ \E p \in NodeIds : ReadingOf(h, p)'
  <2> SUFFICES ASSUME t = "entries" PROVE r.op # "file_info" /\ \E p \in NodeIds : ReadingOf(h, p)'
    OBVIOUS
  <2>1. PICK row \in db.directories : row.id = r.node /\ a = DirectoryInfo(row.parent, {})
    BY <1>2
  <2>2. row = [id |-> r.node, parent |-> row.parent] /\ row.parent \in NodeIds
    BY <1>5, <2>1 DEF Databases, DirectoryRows
  <2>3. ReadingOf(h, row.parent)'
    BY <1>1, <1>3, <2>1, <2>2 DEF ReadingOf
  <2> QED
    BY <1>2, <2>2, <2>3
<1>8. ReadsSoFar(h)'
  <2> HIDE DEF now
  <2>1. \E p \in NodeIds : t = "entries" => r.op # "file_info" /\ ReadingOf(h, p)'
    BY <1>7 DEF NodeIds
  <2>2. t = "entries" => request'[h].op # "file_info" /\ \E p \in NodeIds : ReadingOf(h, p)'
    BY <1>1, <1>7
  <2>3. T!ReadAnswer(Tree(db'), request'[h]) \in possible'[h]
    BY <1>1, <1>4 DEF now
  <2> QED
    BY <1>1, <1>2, <1>3, <1>4, <1>6, <2>2, <2>3 DEF ReadsSoFar
<1> QED
  BY <1>1, <1>2, <1>8, FindingStays DEF TypeOK

\* A directory that has gone meanwhile was empty at its end.
LEMMA SelectEntriesStays ==
    ASSUME IInv, JInv, NEW h \in Handlers, SelectEntries(h)
    PROVE  JInv'
<1> USE DEF IInv
<1> DEFINE r == request[h]
           a == DirectoryInfo(result[h].node, EntriesOf(db, r.node))
<1>1. /\ pc[h] = "reading" /\ table[h] = "entries"
      /\ UNCHANGED <<db, work, pc, request, possible>>
      /\ lock' = [lock EXCEPT ![h] = "shared"]
      /\ result' = [result EXCEPT ![h] = a] /\ table' = [table EXCEPT ![h] = "none"]
  BY DEF SelectEntries, Selecting, Hold, Query, Determine
<1>2. result'[h] = a /\ table'[h] = "none"
  BY <1>1 DEF TypeOK
<1>3. db \in Databases /\ Consistent(db) /\ DirectoriesUnique(db)
  BY DEF TypeOK, TreeConsistent, JInv
<1>4. T!ReadAnswer(Tree(db), r) \in possible[h] /\ r.op # "file_info"
  BY <1>1 DEF JInv, Good, ReadsSoFar
<1>5. PICK p \in NodeIds : ReadingOf(h, p)
  BY <1>1 DEF JInv, Good, ReadsSoFar
<1>6. a = DirectoryInfo(p, EntriesOf(db, r.node))
  <2>1. result[h].node = p
    BY <1>5 DEF ReadingOf, DirectoryInfo
  <2> QED
    BY <2>1
<1> HIDE DEF a
<1>7. a \in possible[h]
  <2>1. CASE [id |-> r.node, parent |-> p] \in db.directories
    <3> DEFINE row == [id |-> r.node, parent |-> p]
    <3>1. row \in db.directories /\ row.id = r.node /\ row.parent = p
      BY <2>1
    <3> HIDE DEF row
    <3>2. T!ReadAnswer(Tree(db), r) = DirectoryInfo(row.parent, EntriesOf(db, r.node))
      BY <1>3, <1>4, <3>1, ReadOfDirectory
    <3> QED
      BY <1>4, <1>6, <3>1, <3>2
  <2>2. CASE ~DirectoryExists(db, r.node) /\ DirectoryInfo(p, {}) \in possible[h]
    <3>1. EntriesOf(db, r.node) = {}
      BY <1>3, <2>2 DEF EntriesOf, Consistent, LinksLead
    <3> QED
      BY <1>6, <2>2, <3>1
  <2> QED
    BY <1>5, <2>1, <2>2 DEF ReadingOf
<1>8. ReadsSoFar(h)'
  BY <1>1, <1>2, <1>4, <1>7 DEF ReadsSoFar
<1> QED
  BY <1>1, <1>8, FindingStays DEF TypeOK

\* The other steps of a read find nothing new.
LEMMA ReadingStays ==
    ASSUME IInv, JInv, NEW h \in Handlers, SelectBusy(h) \/ SelectEnd(h) \/ ReadEnd(h)
    PROVE  JInv'
<1> USE DEF IInv
<1>1. CASE SelectBusy(h)
  <2>1. /\ pc[h] = "reading" /\ UNCHANGED <<db, work, lock, pc, request, possible>>
        /\ result' = [result EXCEPT ![h] = Answer("Locked")] /\ table' = [table EXCEPT ![h] = "none"]
    BY <1>1 DEF SelectBusy, Query, Determine
  <2>2. result'[h] = Answer("Locked") /\ table'[h] = "none"
    BY <2>1 DEF TypeOK
  <2>3. ReadsSoFar(h)'
    BY <2>1, <2>2 DEF JInv, Good, ReadsSoFar
  <2> QED
    BY <2>1, <2>3, FindingStays DEF TypeOK
<1>2. CASE SelectEnd(h)
  <2>1. /\ pc[h] = "reading" /\ UNCHANGED <<db, work, pc, request, result, table, possible>>
        /\ lock' = [lock EXCEPT ![h] = "none"]
    BY <1>2 DEF SelectEnd, Hold
  <2>2. ReadsSoFar(h)'
    BY <2>1 DEF JInv, Good, ReadsSoFar, ReadingOf
  <2> QED
    BY <2>1, <2>2, FindingStays DEF TypeOK
<1>3. CASE ReadEnd(h)
  <2>1. /\ pc[h] = "reading" /\ table[h] = "none" /\ pc' = [pc EXCEPT ![h] = "answered"]
        /\ UNCHANGED <<db, work, lock, request, result, table, possible>>
    BY <1>3 DEF ReadEnd, Go
  <2>2. pc'[h] = "answered"
    BY <2>1 DEF TypeOK
  <2>3. result[h] \in possible[h] \cup {Answer("Locked")}
    BY <2>1 DEF JInv, Good, ReadsSoFar
  <2>4. result[h] \in Answers
    BY <2>3, AnswersTyped DEF TypeOK, Statuses
  <2>5. Placed(h)' /\ Prepared(h)' /\ Refused(h)' /\ ReadsSoFar(h)'
    BY <2>1, <2>2, <2>3, <2>4 DEF Placed, Prepared, Refused, ReadsSoFar, WritePCs
  <2>6. Good(h)'
    BY <2>5 DEF Good
  <2> QED
    BY <2>1, <2>6, OneMoves DEF TypeOK
<1> QED
  BY <1>1, <1>2, <1>3

\* A handler that has nothing to do, and a server that starts again.
LEMMA EndStays ==
    ASSUME IInv, JInv, (\E h \in Handlers : Respond(h)) \/ Crash
    PROVE  JInv'
<1> USE DEF IInv
<1>1. ASSUME NEW h \in Handlers, Respond(h) PROVE JInv'
  <2>1. /\ pc' = [pc EXCEPT ![h] = "idle"] /\ request' = [request EXCEPT ![h] = NoRequest]
        /\ result' = [result EXCEPT ![h] = NoAnswer] /\ possible' = [possible EXCEPT ![h] = {}]
        /\ UNCHANGED <<db, work, lock, table>>
    BY <1>1 DEF Respond, Go, Determine
  <2>2. pc'[h] = "idle" /\ request'[h] = NoRequest
    BY <2>1 DEF TypeOK
  <2>3. Placed(h)' /\ Prepared(h)' /\ Refused(h)' /\ ReadsSoFar(h)'
    BY <2>2 DEF Placed, Prepared, Refused, ReadsSoFar, WritePCs
  <2>4. Good(h)'
    BY <2>3 DEF Good
  <2> QED
    BY <2>1, <2>4, OneMoves DEF TypeOK
<1>2. ASSUME Crash PROVE JInv'
  <2>1. \A h \in Handlers : pc'[h] = "idle" /\ request'[h] = NoRequest
    BY <1>2 DEF Crash
  <2>2. \A h \in Handlers : Placed(h)' /\ Prepared(h)' /\ Refused(h)' /\ ReadsSoFar(h)'
    BY <2>1 DEF Placed, Prepared, Refused, ReadsSoFar, WritePCs
  <2>3. db' = db
    BY <1>2 DEF Crash
  <2> QED
    BY <2>2, <2>3 DEF JInv, Good
<1> QED
  BY <1>1, <1>2

-----------------------------------------------------------------------------
(* The end of a COMMIT changes the tree for everybody *)

\* What is installed has no old node the database does not have.
LEMMA NothingAppears ==
    ASSUME IInv, JInv, NEW h \in Handlers, pc[h] = "committing", NEW n \in NodeIds, n <= db.current
    PROVE  /\ FileExists(work[h], n) => FileExists(db, n)
           /\ DirectoryExists(work[h], n) => DirectoryExists(db, n)
<1> USE DEF IInv
<1>1. /\ work[h] \in Databases /\ Consistent(work[h]) /\ db \in Databases /\ Consistent(db)
      /\ db.current \in Nat
  BY DEF TypeOK, TreeConsistent, WorkReady, Databases, NodeIds
<1>2. \A e \in work[h].entries : e.child = n => e \in db.entries
  <2>1. Prepared(h)
    BY DEF JInv, Good
  <2>2. CASE PreparedCreate(h)
    <3>1. PICK link : link.child = db.current + 1 /\ work[h].entries = db.entries \cup {link}
      BY <2>2 DEF PreparedCreate
    <3>2. link.child # n
      BY <1>1, <3>1 DEF NodeIds
    <3> QED
      BY <3>1, <3>2
  <2>3. CASE PreparedDelete(h)
    BY <2>3 DEF PreparedDelete
  <2> QED
    BY <2>1, <2>2, <2>3 DEF Prepared
<1>3. ASSUME FileExists(work[h], n) PROVE FileExists(db, n)
  <2>1. PICK e \in work[h].entries : e.kind = "file" /\ e.child = n
    BY <1>1, <1>3 DEF Consistent, NodesNamed, FileExists
  <2> QED
    BY <1>1, <1>2, <2>1 DEF Consistent, LinksLead
<1>4. ASSUME DirectoryExists(work[h], n) PROVE DirectoryExists(db, n)
  <2>1. PICK row \in work[h].directories : row.id = n
    BY <1>4 DEF DirectoryExists
  <2>2. CASE row = [id |-> Root, parent |-> Root]
    BY <1>1, <2>1, <2>2 DEF DirectoryExists, Consistent, NodesNamed
  <2>3. CASE row # [id |-> Root, parent |-> Root]
    <3>1. PICK e \in work[h].entries : e.kind = "directory" /\ e.child = n
      BY <1>1, <2>1, <2>3 DEF Consistent, NodesNamed
    <3>2. [id |-> e.child, parent |-> e.parent] \in db.directories
      BY <1>1, <1>2, <3>1 DEF Consistent, LinksLead
    <3> QED
      BY <3>1, <3>2 DEF DirectoryExists
  <2> QED
    BY <2>2, <2>3
<1> QED
  BY <1>3, <1>4

\* What another handler has read may have changed since, but then an answer it
\* may give was true before.
LEMMA ReaderStays ==
    ASSUME IInv, JInv, NEW h \in Handlers, CommitEnd(h), NEW o \in Handlers, o # h
    PROVE  ReadsSoFar(o)'
<1> USE DEF IInv
<1> DEFINE n == request[o].node
<1>1. /\ pc[h] = "committing" /\ db' = work[h] /\ UNCHANGED <<request, result, table>>
      /\ pc' = [pc EXCEPT ![h] = "answered"]
  BY DEF CommitEnd, Go
<1>2. /\ pc[o] = "reading" =>
            possible'[o] = possible[o] \cup {T!ReadAnswer(Tree(work[h]), request[o])}
      /\ pc[o] # "reading" => possible'[o] = possible[o]
  BY DEF CommitEnd
<1>3. pc'[o] = pc[o]
  BY <1>1 DEF TypeOK
<1>4. ReadsSoFar(o)
  BY DEF JInv, Good
<1>5. possible[o] \subseteq possible'[o]
  BY <1>2
<1>6. /\ db \in Databases /\ Consistent(db) /\ DirectoriesUnique(db)
      /\ work[h] \in Databases /\ Consistent(work[h])
  BY <1>1 DEF TypeOK, TreeConsistent, JInv, WorkReady
<1>7. ASSUME pc[o] = "reading", table[o] = "entries", NEW p \in NodeIds, ReadingOf(o, p)
      PROVE  ReadingOf(o, p)'
  <2>1. result'[o] = DirectoryInfo(p, {})
    BY <1>1, <1>7 DEF ReadingOf
  <2>2. n \in NodeIds /\ n <= db.current
    BY <1>7, OpsDiffer DEF JInv, Good, Placed
  <2>3. CASE ~DirectoryExists(db, n) /\ DirectoryInfo(p, {}) \in possible[o]
    <3>1. ~DirectoryExists(work[h], n)
      BY <1>1, <2>2, <2>3, NothingAppears
    <3> QED
      BY <1>1, <1>5, <2>1, <2>3, <3>1 DEF ReadingOf
  <2>4. CASE [id |-> n, parent |-> p] \in work[h].directories
    BY <1>1, <2>1, <2>4 DEF ReadingOf
  <2>5. CASE [id |-> n, parent |-> p] \in db.directories \ work[h].directories
    <3> DEFINE row == [id |-> n, parent |-> p]
    <3>1. row \in db.directories /\ row \notin work[h].directories /\ row.id = n /\ row.parent = p
      BY <2>5
    <3> HIDE DEF row
    <3>2. ~PreparedCreate(h)
      BY <3>1 DEF PreparedCreate
    <3>3. PreparedDelete(h)
      BY <1>1, <3>2 DEF JInv, Good, Prepared
    <3>4. work[h].directories \subseteq db.directories /\ EntriesOf(db, n) = {}
      BY <3>1, <3>3 DEF PreparedDelete
    <3>5. ~DirectoryExists(work[h], n)
      BY <1>6, <3>1, <3>4 DEF DirectoryExists, DirectoriesUnique
    <3>6. request[o].op # "file_info" /\ T!ReadAnswer(Tree(db), request[o]) \in possible[o]
      BY <1>4, <1>7 DEF ReadsSoFar
    <3>7. T!ReadAnswer(Tree(db), request[o]) = DirectoryInfo(row.parent, EntriesOf(db, n))
      BY <1>6, <3>1, <3>6, ReadOfDirectory
    <3>8. DirectoryInfo(p, {}) \in possible[o]
      BY <3>1, <3>4, <3>6, <3>7
    <3> QED
      BY <1>1, <1>5, <2>1, <3>5, <3>8 DEF ReadingOf
  <2> QED
    BY <1>7, <2>3, <2>4, <2>5 DEF ReadingOf
<1>8. ASSUME pc[o] = "reading"
      PROVE  /\ FileExists(work[h], n) => FileExists(db, n)
             /\ DirectoryExists(work[h], n) => DirectoryExists(db, n)
  <2>1. n \in NodeIds /\ n <= db.current
    BY <1>8, OpsDiffer DEF JInv, Good, Placed
  <2> QED
    BY <1>1, <2>1, NothingAppears
<1>9. ASSUME pc'[o] = "reading"
      PROVE  /\ T!ReadAnswer(Tree(db'), request'[o]) \in possible'[o]
             /\ table'[o] = "directories" /\ request'[o].op # "dir_info" => ~FileExists(db', request'[o].node)
             /\ table'[o] = "files" /\ request'[o].op = "dir_info" => ~DirectoryExists(db', request'[o].node)
             /\ table'[o] = "entries" => request'[o].op # "file_info" /\ \E p \in NodeIds : ReadingOf(o, p)'
  <2>1. T!ReadAnswer(Tree(db'), request'[o]) \in possible'[o]
    BY <1>1, <1>2, <1>3, <1>9
  <2>2. /\ table'[o] = "directories" /\ request'[o].op # "dir_info" => ~FileExists(db', request'[o].node)
        /\ table'[o] = "files" /\ request'[o].op = "dir_info" => ~DirectoryExists(db', request'[o].node)
    BY <1>1, <1>3, <1>4, <1>8, <1>9 DEF ReadsSoFar
  <2>3. table'[o] = "entries" => request'[o].op # "file_info" /\ \E p \in NodeIds : ReadingOf(o, p)'
    BY <1>1, <1>3, <1>4, <1>7, <1>9 DEF ReadsSoFar
  <2> QED
    BY <2>1, <2>2, <2>3
<1>10. \/ pc'[o] = "reading" /\ table'[o] = "none"
       \/ pc'[o] = "answered" /\ request'[o].op \in ReadOps
       => result'[o] \in possible'[o] \cup {Answer("Locked")}
  BY <1>1, <1>3, <1>4, <1>5 DEF ReadsSoFar
<1> QED
  BY <1>9, <1>10 DEF ReadsSoFar

\* Nobody else is in a transaction that has got anywhere.
LEMMA CommitEndStays ==
    ASSUME IInv, JInv, NEW h \in Handlers, CommitEnd(h)
    PROVE  JInv'
<1> USE DEF IInv
<1>1. /\ pc[h] = "committing" /\ db' = work[h] /\ UNCHANGED <<request, result, table>>
      /\ pc' = [pc EXCEPT ![h] = "answered"]
  BY DEF CommitEnd, Go
<1>2. Prepared(h) /\ Placed(h)
  BY DEF JInv, Good
<1>3. DirectoriesUnique(db')
  BY <1>1, <1>2 DEF Prepared
<1>4. Good(h)'
  <2>1. pc'[h] = "answered" /\ request'[h] = request[h] /\ result'[h] = result[h]
    BY <1>1 DEF TypeOK
  <2>2. request[h].op \in WriteOps
    BY <1>1, <1>2, OpsDiffer DEF Placed, WritePCs
  <2>3. result[h] \in Answers
    <3>1. CASE PreparedCreate(h)
      <4>1. db.current + 1 \in Nat /\ WantedKind(request[h].op) \in Kinds
        BY DEF TypeOK, Databases, NodeIds, WantedKind, Kinds
      <4> QED
        BY <3>1, <4>1, AnswersTyped DEF PreparedCreate, Statuses
    <3>2. CASE PreparedDelete(h)
      BY <3>2, AnswersTyped DEF PreparedDelete, Statuses
    <3> QED
      BY <1>1, <1>2, <3>1, <3>2 DEF Prepared
  <2>4. Placed(h)' /\ Prepared(h)' /\ Refused(h)'
    BY <2>1, <2>3 DEF Placed, Prepared, Refused, WritePCs
  <2>5. ReadsSoFar(h)'
    BY <2>1, <2>2, OpsDiffer DEF ReadsSoFar
  <2> QED
    BY <2>4, <2>5 DEF Good
<1>5. ASSUME NEW o \in Handlers, o # h PROVE Good(o)'
  <2>1. pc'[o] = pc[o] /\ request'[o] = request[o] /\ result'[o] = result[o]
    BY <1>1, <1>5 DEF TypeOK
  <2>2. lock[h] = "exclusive" /\ lock[o] = "none"
    BY <1>1, <1>5 DEF LocksFit, LocksExclude
  <2>3. pc[o] \notin {"selected", "executed", "committing"}
    BY <2>2 DEF LocksFit
  <2>4. Good(o)
    BY DEF JInv
  <2>5. Placed(o)'
    <3>1. db.current <= db'.current /\ db.current \in Nat /\ db'.current \in Nat
      BY <1>1 DEF WorkReady, Extends, TypeOK, Databases, NodeIds
    <3>2. pc[o] = "reading" => request[o].node \in Nat /\ request[o].node <= db.current
      BY <2>4, OpsDiffer DEF Good, Placed, NodeIds
    <3>3. pc[o] = "reading" => request[o].node <= db'.current
      BY <3>1, <3>2
    <3> QED
      BY <2>1, <2>4, <3>3 DEF Good, Placed
  <2>6. Prepared(o)'
    BY <2>1, <2>3 DEF Prepared
  <2>7. Refused(o)'
    BY <2>1, <2>2, <2>4 DEF Good, Refused
  <2>8. ReadsSoFar(o)'
    BY <1>5, ReaderStays
  <2> QED
    BY <2>5, <2>6, <2>7, <2>8 DEF Good
<1> QED
  BY <1>3, <1>4, <1>5 DEF JInv

-----------------------------------------------------------------------------

\* At first there is the root and nobody asks.
LEMMA InitReady == Init => JInv
<1> SUFFICES ASSUME Init PROVE JInv
  OBVIOUS
<1>1. DirectoriesUnique(db)
  BY DEF Init, InitialDb, DirectoriesUnique
<1>2. \A h \in Handlers : pc[h] = "idle" /\ request[h] = NoRequest
  BY DEF Init
<1>3. \A h \in Handlers : Placed(h) /\ Prepared(h) /\ Refused(h) /\ ReadsSoFar(h)
  BY <1>2 DEF Placed, Prepared, Refused, ReadsSoFar, WritePCs
<1> QED
  BY <1>1, <1>3 DEF JInv, Good

\* Every step keeps what is ready ready.
LEMMA NextStays == IInv /\ TransactionsIsolated /\ JInv /\ [Next]_vars => JInv'
<1> SUFFICES ASSUME IInv, TransactionsIsolated, JInv, [Next]_vars PROVE JInv'
  OBVIOUS
<1>1. ASSUME NEW h \in Handlers, NEW r \in RequestSet, Known(r) /\ Receive(h, r) PROVE JInv'
  BY <1>1, ReceiveStays
<1>2. ASSUME NEW h \in Handlers, Transaction(h) PROVE JInv'
  BY <1>2, CreateBusyStays, CreateExecuteStays, DeleteSelectStays, DeleteExecuteStays, CommitStays,
     CommitEndStays
  DEF Transaction
<1>3. ASSUME NEW h \in Handlers, Reading(h) PROVE JInv'
  BY <1>3, SelectFileStays, SelectDirectoryStays, SelectEntriesStays, ReadingStays DEF Reading
<1>4. ASSUME (\E h \in Handlers : Respond(h)) \/ Crash PROVE JInv'
  BY <1>4, EndStays
<1>5. CASE UNCHANGED vars
  <2>1. ASSUME NEW h \in Handlers PROVE Good(h)'
    <3>1. Placed(h)' /\ Refused(h)'
      BY <1>5 DEF vars, JInv, Good, Placed, Refused
    <3>2. Prepared(h)'
      BY <1>5 DEF vars, JInv, Good, Prepared, PreparedCreate, PreparedDelete
    <3>3. ReadsSoFar(h)'
      BY <1>5 DEF vars, JInv, Good, ReadsSoFar, ReadingOf
    <3> QED
      BY <3>1, <3>2, <3>3 DEF Good
  <2> QED
    BY <1>5, <2>1 DEF vars, JInv
<1> QED
  BY <1>1, <1>2, <1>3, <1>4, <1>5 DEF Next, Handle

\* What every handler has done is ready to take effect, or has taken it.
THEOREM JInvariance == Spec => []JInv
<1>1. Init => JInv
  BY InitReady
<1>2. IInv /\ TransactionsIsolated /\ JInv /\ [Next]_vars => JInv'
  BY NextStays
<1> QED
  BY <1>1, <1>2, Invariance, TransactionsStayIsolated, PTL DEF Spec

\* An answer put together from several SELECTs was true at one instant.
THEOREM ReadsHappenAtOnce == Spec => []ReadsAreAtomic
<1>1. JInv => ReadsAreAtomic
  BY DEF JInv, Good, ReadsSoFar, ReadsAreAtomic
<1> QED
  BY <1>1, JInvariance, PTL

-----------------------------------------------------------------------------
(* Every step is one of the tree, or none *)

\* A handler that has answered is one whose request the tree has answered, and
\* a handler that is reading one whose read it has not.
LEMMA SamePending ==
    ASSUME IInv, JInv, NEW h \in Handlers
    PROVE  /\ Answered[h] = NoAnswer <=> pc[h] # "answered"
           /\ pc[h] = "reading" <=> T!Pending(h, ReadOps)
           /\ pc[h] \in WritePCs \cup {"failed", "broken"} => T!Pending(h, WriteOps)
<1>1. NoAnswer \notin Answers
  BY DEF NoAnswer, Answers, Statuses
<1>2. Placed(h)
  BY DEF JInv, Good
<1>3. Answered[h] = IF pc[h] = "answered" THEN result[h] ELSE NoAnswer
  BY DEF Answered
<1>4. Answered[h] = NoAnswer <=> pc[h] # "answered"
  BY <1>1, <1>2, <1>3 DEF Placed
<1>5. \A ops : T!Pending(h, ops) <=> request[h].op \in ops /\ pc[h] # "answered"
  BY <1>4, SameApi DEF T!Pending
<1>6. pc[h] = "reading" => request[h].op \in ReadOps
  BY <1>2, OpsDiffer DEF Placed
<1>7. pc[h] \in WritePCs \cup {"failed", "broken"} => request[h].op \in WriteOps /\ request[h].op \notin ReadOps
  BY <1>2, OpsDiffer DEF Placed
<1>8. pc[h] = "idle" => request[h].op \notin ReadOps
  BY <1>2, OpsDiffer DEF Placed
<1>9. pc[h] \in WritePCs \cup {"failed", "broken", "idle", "reading", "answered"}
  BY DEF IInv, TypeOK, PCs, WritePCs
<1> QED
  BY <1>4, <1>5, <1>6, <1>7, <1>8, <1>9 DEF WritePCs

\* The tree does not see what changes neither a table, a request nor an answer.
LEMMA Unseen ==
    ASSUME UNCHANGED <<db, request, possible>>,
           \A o \in Handlers : (pc[o] = "answered") <=> (pc'[o] = "answered"),
           \A o \in Handlers : pc[o] = "answered" => result'[o] = result[o]
    PROVE  UNCHANGED T!vars
<1>1. Answered' = Answered
  BY DEF Answered
<1> QED
  BY <1>1 DEF T!vars, Tree

\* An answer is given.
LEMMA AnswerGiven ==
    ASSUME IInv, NEW h \in Handlers, pc[h] # "answered", pc' = [pc EXCEPT ![h] = "answered"],
           result' = result
    PROVE  Answered' = [Answered EXCEPT ![h] = result[h]]
<1>1. pc'[h] = "answered" /\ \A o \in Handlers \ {h} : pc'[o] = pc[o]
  BY DEF IInv, TypeOK
<1> QED
  BY <1>1 DEF Answered

\* A transaction takes effect when its COMMIT ends.
LEMMA CommitIsOneChange ==
    ASSUME IInv, JInv, NEW h \in Handlers, CommitEnd(h)
    PROVE  T!Create(h) \/ T!Delete(h)
<1> USE DEF IInv
<1> DEFINE r == request[h]
           link == [parent |-> r.node, name |-> r.name, kind |-> WantedKind(r.op), child |-> db.current + 1]
<1>1. /\ pc[h] = "committing" /\ db' = work[h] /\ UNCHANGED <<request, result>>
      /\ pc' = [pc EXCEPT ![h] = "answered"]
      /\ possible' = [o \in Handlers |->
                         IF pc[o] = "reading"
                         THEN possible[o] \cup {T!ReadAnswer(Tree(work[h]), request[o])}
                         ELSE possible[o]]
  BY DEF CommitEnd, Go
<1>2. Answered' = [Answered EXCEPT ![h] = result[h]]
  BY <1>1, AnswerGiven
<1>3. db \in Databases /\ Consistent(db)
  BY DEF TypeOK, TreeConsistent
<1>4. T!Becomes(Tree(work[h]))
  <2>1. Tree(db)' = Tree(work[h])
    BY <1>1 DEF Tree
  <2>2. \A o \in Handlers : pc[o] = "reading" <=> T!Pending(o, T!ReadOps)
    BY SamePending, SameApi
  <2>3. possible' = [o \in Handlers |->
                        IF T!Pending(o, T!ReadOps)
                        THEN possible[o] \cup {T!ReadAnswer(Tree(work[h]), request[o])}
                        ELSE possible[o]]
    BY <1>1, <2>2
  <2> QED
    BY <2>1, <2>3 DEF T!Becomes
<1>5. T!Pending(h, WriteOps)
  BY <1>1, SamePending DEF WritePCs
<1>6. Tree(db) = [last |-> db.current, links |-> db.entries]
      /\ Tree(work[h]) = [last |-> work[h].current, links |-> work[h].entries]
  BY DEF Tree
<1>7. /\ T!IsDirectory(Tree(db), r.node) <=> DirectoryExists(db, r.node)
      /\ T!LinksAt(Tree(db), r.node, r.name) = EntriesAt(db, r.node, r.name)
      /\ \A id : T!LinksOf(Tree(db), id) = EntriesOf(db, id)
  BY <1>3, SameNodes
<1>8. ASSUME PreparedCreate(h) PROVE T!Create(h)
  <2>1. /\ r.op \in CreateOps /\ DirectoryExists(db, r.node) /\ EntriesAt(db, r.node, r.name) = {}
        /\ result[h] = Located("Created", WantedKind(r.op), db.current + 1)
        /\ work[h].current = db.current + 1 /\ work[h].entries = db.entries \cup {link}
    BY <1>8 DEF PreparedCreate
  <2>2. T!Pending(h, T!CreateOps)
    BY <1>5, <2>1, SameApi DEF T!Pending
  <2>3. Tree(work[h]) = [last |-> Tree(db).last + 1, links |-> Tree(db).links \cup {link}]
    BY <1>6, <2>1
  <2>4. T!Becomes([last |-> Tree(db).last + 1, links |-> Tree(db).links \cup {link}])
    BY <1>4, <2>3
  <2>5. Answered' = [Answered EXCEPT ![h] = T!Located("Created", T!WantedKind(r.op), Tree(db).last + 1)]
    <3>1. T!Located("Created", T!WantedKind(r.op), Tree(db).last + 1)
            = Located("Created", WantedKind(r.op), db.current + 1)
      <4>1. Tree(db).last = db.current
        BY <1>6
      <4>2. T!WantedKind(r.op) = WantedKind(r.op)
        BY SameApi
      <4> QED
        BY <4>1, <4>2, SameApi
    <3> QED
      BY <1>2, <2>1, <3>1
  <2>6. link = [parent |-> r.node, name |-> r.name, kind |-> T!WantedKind(r.op), child |-> Tree(db).last + 1]
    BY <1>6, SameApi
  <2> HIDE DEF link
  <2> QED
    BY <1>1, <1>7, <2>1, <2>2, <2>4, <2>5, <2>6 DEF T!Create
<1>9. ASSUME PreparedDelete(h) PROVE T!Delete(h)
  <2>1. PICK e \in EntriesAt(db, r.node, r.name) :
           /\ e.kind = WantedKind(r.op) /\ EntriesOf(db, e.child) = {}
           /\ work[h].current = db.current /\ work[h].entries = db.entries \ {e}
    BY <1>9 DEF PreparedDelete
  <2>2. r.op \in DeleteOps /\ result[h] = Answer("NoContent")
    BY <1>9 DEF PreparedDelete
  <2>3. T!Pending(h, T!DeleteOps)
    BY <1>5, <2>2, SameApi DEF T!Pending
  <2>4. Tree(work[h]) = [Tree(db) EXCEPT !.links = @ \ {e}]
    BY <1>6, <2>1
  <2>5. T!Becomes([Tree(db) EXCEPT !.links = @ \ {e}])
    BY <1>4, <2>4
  <2>6. Answered' = [Answered EXCEPT ![h] = T!Answer("NoContent")]
    BY <1>2, <2>2, SameApi
  <2>7. e.kind = T!WantedKind(r.op) /\ T!LinksOf(Tree(db), e.child) = {}
        /\ e \in T!LinksAt(Tree(db), r.node, r.name)
    BY <1>7, <2>1, SameApi
  <2> QED
    BY <1>1, <2>3, <2>5, <2>6, <2>7 DEF T!Delete
<1> QED
  BY <1>1, <1>8, <1>9 DEF JInv, Good, Prepared

\* A transaction that is rolled back is refused.
LEMMA RollbackIsRefusal ==
    ASSUME IInv, JInv, NEW h \in Handlers, Rollback(h)
    PROVE  T!Refuse(h)
<1>1. /\ pc[h] \in {"failed", "broken"} /\ pc' = [pc EXCEPT ![h] = "answered"]
      /\ UNCHANGED <<db, request, result, possible>>
  BY DEF Rollback, Go
<1>2. Answered' = [Answered EXCEPT ![h] = result[h]]
  BY <1>1, AnswerGiven
<1>3. T!Pending(h, T!WriteOps)
  BY <1>1, SamePending, SameApi
<1>4. result[h] \in T!Refusals(Tree(db), request[h])
  <2>1. Answer("Locked") \in T!Refusals(Tree(db), request[h])
    BY SameApi DEF T!Refusals
  <2> QED
    BY <1>1, <2>1 DEF JInv, Good, Refused
<1>5. Tree(db)' = Tree(db)
  BY <1>1 DEF Tree
<1> QED
  BY <1>1, <1>2, <1>3, <1>4, <1>5 DEF T!Refuse

\* A read ends with an answer that was true.
LEMMA ReadEndIsRead ==
    ASSUME IInv, JInv, NEW h \in Handlers, ReadEnd(h)
    PROVE  T!Read(h)
<1>1. /\ pc[h] = "reading" /\ table[h] = "none" /\ pc' = [pc EXCEPT ![h] = "answered"]
      /\ UNCHANGED <<db, request, result, possible>>
  BY DEF ReadEnd, Go
<1>2. Answered' = [Answered EXCEPT ![h] = result[h]]
  BY <1>1, AnswerGiven
<1>3. T!Pending(h, T!ReadOps)
  BY <1>1, SamePending, SameApi
<1>4. result[h] \in possible[h] \cup {T!Answer("Locked")}
  BY <1>1, SameApi DEF JInv, Good, ReadsSoFar
<1>5. Tree(db)' = Tree(db)
  BY <1>1 DEF Tree
<1> QED
  BY <1>1, <1>2, <1>3, <1>4, <1>5 DEF T!Read

\* A request arrives.
LEMMA ReceiveIsCall ==
    ASSUME IInv, JInv, NEW h \in Handlers, NEW r \in RequestSet, Receive(h, r)
    PROVE  T!Call(h, r)
<1>1. /\ pc[h] = "idle" /\ request' = [request EXCEPT ![h] = r]
      /\ pc' = [pc EXCEPT ![h] = IF r.op \in ReadOps THEN "reading" ELSE "received"]
      /\ possible' = [possible EXCEPT ![h] = IF r.op \in ReadOps THEN {T!ReadAnswer(Tree(db), r)} ELSE {}]
      /\ UNCHANGED <<db, result>>
  BY DEF Receive, Go
<1>2. request[h] = T!NoRequest
  BY <1>1, SameApi DEF JInv, Good, Placed
<1>3. Answered' = Answered
  <2>1. \A o \in Handlers : pc'[o] = "answered" <=> pc[o] = "answered"
    BY <1>1 DEF IInv, TypeOK
  <2> QED
    BY <1>1, <2>1 DEF Answered
<1>4. Tree(db)' = Tree(db)
  BY <1>1 DEF Tree
<1> QED
  BY <1>1, <1>2, <1>3, <1>4, SameApi DEF T!Call

\* The answer is sent, or the server stops.
LEMMA EndIsEnd ==
    ASSUME IInv, JInv
    PROVE  /\ \A h \in Handlers : Respond(h) => T!Return(h)
           /\ Crash => T!Crash
<1>1. ASSUME NEW h \in Handlers, Respond(h) PROVE T!Return(h)
  <2>1. /\ pc[h] = "answered" /\ pc' = [pc EXCEPT ![h] = "idle"]
        /\ request' = [request EXCEPT ![h] = NoRequest]
        /\ result' = [result EXCEPT ![h] = NoAnswer] /\ possible' = [possible EXCEPT ![h] = {}]
        /\ UNCHANGED db
    BY <1>1 DEF Respond, Go, Determine
  <2>2. Answered[h] # T!NoAnswer
    BY <2>1, SamePending, SameApi
  <2>3. Answered' = [Answered EXCEPT ![h] = T!NoAnswer]
    <3>1. pc'[h] = "idle" /\ \A o \in Handlers \ {h} : pc'[o] = pc[o] /\ result'[o] = result[o]
      BY <2>1 DEF IInv, TypeOK
    <3> QED
      BY <3>1, SameApi DEF Answered
  <2>4. Tree(db)' = Tree(db)
    BY <2>1 DEF Tree
  <2> QED
    BY <2>1, <2>2, <2>3, <2>4, SameApi DEF T!Return
<1>2. ASSUME Crash PROVE T!Crash
  <2>1. Answered' = [h \in Handlers |-> T!NoAnswer]
    BY <1>2, SameApi DEF Crash, Answered
  <2>2. Tree(db)' = Tree(db)
    BY <1>2 DEF Crash, Tree
  <2> QED
    BY <1>2, <2>1, <2>2, SameApi DEF Crash, T!Crash
<1> QED
  BY <1>1, <1>2

\* The other steps of a handler show in nothing the tree has.
LEMMA OthersUnseen ==
    ASSUME IInv, NEW h \in Handlers,
           \/ CreateBusy(h) \/ CreateExecute(h) \/ DeleteSelect(h) \/ DeleteExecute(h)
           \/ CommitBegin(h) \/ CommitBusy(h)
           \/ SelectBusy(h) \/ SelectFile(h) \/ SelectDirectory(h) \/ SelectEntries(h) \/ SelectEnd(h)
    PROVE  UNCHANGED T!vars
<1>1. /\ UNCHANGED <<db, request, possible>> /\ pc[h] # "answered"
      /\ pc' = pc \/ \E place \in PCs \ {"answered"} : pc' = [pc EXCEPT ![h] = place]
      /\ result' = result \/ \E a : result' = [result EXCEPT ![h] = a]
  <2>1. CASE CreateBusy(h) \/ DeleteSelect(h) \/ DeleteExecute(h)
    BY <2>1 DEF CreateBusy, DeleteSelect, DeleteExecute, Fail, Go, Determine, PCs
  <2>2. CASE CreateExecute(h)
    BY <2>2 DEF CreateExecute, Fail, Go, Determine, PCs
  <2>3. CASE CommitBegin(h) \/ CommitBusy(h)
    BY <2>3 DEF CommitBegin, CommitBusy, Go, Determine, PCs
  <2>4. CASE SelectBusy(h) \/ SelectFile(h) \/ SelectDirectory(h) \/ SelectEntries(h) \/ SelectEnd(h)
    BY <2>4 DEF SelectBusy, SelectFile, SelectDirectory, SelectEntries, SelectEnd, Selecting, Query,
                Determine
  <2> QED
    BY <2>1, <2>2, <2>3, <2>4
<1>2. \A o \in Handlers : /\ (pc[o] = "answered") <=> (pc'[o] = "answered")
                          /\ pc[o] = "answered" => result'[o] = result[o]
  BY <1>1 DEF IInv, TypeOK
<1> QED
  BY <1>1, <1>2, Unseen

\* A step is one of the tree or leaves it alone.
LEMMA StepIsTree == IInv /\ JInv /\ [Next]_vars => [T!Next]_(T!vars)
<1> SUFFICES ASSUME IInv, JInv, [Next]_vars PROVE [T!Next]_(T!vars)
  OBVIOUS
<1>1. ASSUME NEW h \in Handlers, NEW r \in RequestSet, Receive(h, r) PROVE T!Next
  BY <1>1, ReceiveIsCall DEF T!Next
<1>2. ASSUME NEW h \in Handlers, CommitEnd(h) PROVE T!Next
  BY <1>2, CommitIsOneChange DEF T!Next
<1>3. ASSUME NEW h \in Handlers, Rollback(h) PROVE T!Next
  BY <1>3, RollbackIsRefusal DEF T!Next
<1>4. ASSUME NEW h \in Handlers, ReadEnd(h) PROVE T!Next
  BY <1>4, ReadEndIsRead DEF T!Next
<1>5. ASSUME NEW h \in Handlers, Respond(h) PROVE T!Next
  BY <1>5, EndIsEnd DEF T!Next
<1>6. CASE Crash
  BY <1>6, EndIsEnd DEF T!Next
<1>7. ASSUME NEW h \in Handlers,
             \/ CreateBusy(h) \/ CreateExecute(h) \/ DeleteSelect(h) \/ DeleteExecute(h)
             \/ CommitBegin(h) \/ CommitBusy(h)
             \/ SelectBusy(h) \/ SelectFile(h) \/ SelectDirectory(h) \/ SelectEntries(h) \/ SelectEnd(h)
      PROVE  UNCHANGED T!vars
  BY <1>7, OthersUnseen
<1>8. CASE UNCHANGED vars
  <2>1. Answered' = Answered
    BY <1>8 DEF vars, Answered
  <2> QED
    BY <1>8, <2>1 DEF vars, T!vars, Tree
<1> QED
  BY <1>1, <1>2, <1>3, <1>4, <1>5, <1>6, <1>7, <1>8 DEF Next, Handle, Transaction, Reading

\* To a client, tables, transactions, locks and several connections are one
\* tree on which every request takes effect at one instant.
THEOREM Implementation == Spec => ImplementsNodeTree
<1>1. Init => T!Init
  BY SameApi DEF Init, T!Init, InitialDb, Tree, Answered
<1>2. IInv /\ JInv /\ [Next]_vars => [T!Next]_(T!vars)
  BY StepIsTree
<1> QED
  BY <1>1, <1>2, Invariance, JInvariance, PTL DEF Spec, T!Spec, ImplementsNodeTree

=============================================================================
