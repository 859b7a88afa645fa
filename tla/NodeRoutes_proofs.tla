------------------------- MODULE NodeRoutes_proofs -------------------------
(***************************************************************************)
(* Theorems about NodeRoutes, for every set of handlers, of requests and   *)
(* of names and without a bound on the ids.                                *)
(*                                                                         *)
(* The safety invariants of NodeRoutes are not inductive as they stand.    *)
(* IInv adds what connects them: which lock a handler holds where, that a  *)
(* request is one its handler's code can serve, that a client's ids were   *)
(* given out, and that the copy a transaction is about to install is       *)
(* itself consistent and goes beyond the database only by new ids.         *)
(***************************************************************************)
EXTENDS NodeRoutes, TLAPS

WritePCs == {"received", "selected", "executed", "committing"}

\* The requests are those the code at that place serves.
RequestsFit ==
    \A h \in Handlers :
        /\ pc[h] = "reading" => request[h] \in ReadRequests
        /\ pc[h] \in WritePCs => request[h] \in WriteRequests /\ request[h].node <= db.current
        /\ pc[h] = "selected" => request[h].op \in DeleteOps
        /\ pc[h] = "reading" /\ table[h] = "entries" => result[h] \in Answers

\* SQLite's locks as the handlers take them: one transaction writes at a time,
\* and none is being committed while another connection reads.
LocksExclude ==
    \A h, o \in Handlers : h # o =>
        /\ lock[h] \in {"reserved", "pending", "exclusive"} => lock[o] \in {"none", "shared"}
        /\ lock[h] = "exclusive" => lock[o] = "none"

\* The lock a handler holds, given where it is.
LocksFit ==
    \A h \in Handlers :
        /\ pc[h] \in {"idle", "received", "answered"} => lock[h] = "none"
        /\ pc[h] = "selected" => lock[h] = "shared"
        /\ pc[h] = "executed" => lock[h] = "reserved"
        /\ pc[h] = "committing" => lock[h] = "exclusive"
        /\ pc[h] = "reading" => lock[h] \in {"none", "shared"}
        /\ pc[h] = "failed" => lock[h] \in {"none", "shared", "reserved"}

Nodes(d) == d.files \cup DirectoryIds(d)

\* d grows into e: no old id becomes that of a new node.
Extends(d, e) ==
    /\ d.current <= e.current
    /\ \A id \in Nodes(e) \ Nodes(d) : id > d.current

\* What a transaction that has executed its statements would install.
WorkReady ==
    \A h \in Handlers :
        pc[h] \in {"executed", "committing"} => Consistent(work[h]) /\ Extends(db, work[h])

IInv == TypeOK /\ TreeConsistent /\ LocksExclude /\ LocksFit /\ RequestsFit /\ WorkReady

-----------------------------------------------------------------------------
(* Lemmas about the operators of NodeStore *)

\* While no node has an id above the counter, next_available_id stops at once.
LEMMA NextAvailableIdIsSuccessor ==
    ASSUME NEW d \in Databases, IdsGivenOut(d)
    PROVE  NextAvailableId(d) = d.current + 1
<1>1. \A n \in Nodes(d) : n \in NodeIds /\ n <= d.current
  BY DEF Databases, DirectoryRows, Nodes, DirectoryIds, IdsGivenOut, NodeIds
<1>2. d.current \in Nat
  BY DEF Databases, NodeIds
<1>3. ~FileExists(d, d.current + 1) /\ ~DirectoryExists(d, d.current + 1)
  BY <1>1, <1>2 DEF FileExists, DirectoryExists, Nodes, DirectoryIds, NodeIds
<1>4. FreeIds(d) = {d.current + 1}
  BY <1>1, <1>2, <1>3 DEF FreeIds, Nodes, NodeIds
<1> QED
  BY <1>2, <1>4 DEF NextAvailableId

\* What a successful create installs is consistent and extends the database.
LEMMA CreateKeepsConsistent ==
    ASSUME NEW d \in Databases, Consistent(d),
           NEW kind \in Kinds, NEW parent \in NodeIds, NEW name \in Names,
           NEW id, id = d.current + 1,
           DirectoryExists(d, parent),
           EntriesAt(d, parent, name) = {}
    PROVE  LET entry == [parent |-> parent, name |-> name, kind |-> kind, child |-> id]
               new == WithEntry(WithNode(d, id, kind, parent), entry)
           IN  new \in Databases /\ Consistent(new) /\ Extends(d, new)
<1> DEFINE entry == [parent |-> parent, name |-> name, kind |-> kind, child |-> id]
           new == WithEntry(WithNode(d, id, kind, parent), entry)
           row == [id |-> id, parent |-> parent]
<1>1. /\ d.current \in Nat /\ id \in NodeIds
      /\ d.directories \subseteq DirectoryRows /\ d.files \subseteq NodeIds
      /\ d.entries \subseteq EntryRows
  BY DEF Databases, NodeIds
<1>2. /\ new.current = id
      /\ new.directories = IF kind = "directory" THEN d.directories \cup {row} ELSE d.directories
      /\ new.files = IF kind = "file" THEN d.files \cup {id} ELSE d.files
      /\ new.entries = d.entries \cup {entry}
  BY DEF WithEntry, WithNode
<1>3. new \in Databases
  <2>1. new = [current |-> new.current, directories |-> new.directories,
               files |-> new.files, entries |-> new.entries]
    BY DEF WithEntry, WithNode
  <2>2. /\ new.current \in NodeIds /\ new.directories \subseteq DirectoryRows
        /\ new.files \subseteq NodeIds /\ new.entries \subseteq EntryRows
    BY <1>1, <1>2 DEF DirectoryRows, EntryRows
  <2> HIDE DEF new
  <2> QED
    BY <2>1, <2>2 DEF Databases
<1>4. parent <= d.current /\ parent < id
  BY <1>1 DEF Consistent, IdsGivenOut, DirectoryExists, NodeIds
<1>5. \A e \in d.entries : e.child \in NodeIds /\ e.child <= d.current
  <2> SUFFICES ASSUME NEW e \in d.entries PROVE e.child \in NodeIds /\ e.child <= d.current
    OBVIOUS
  <2>1. e \in EntryRows
    BY <1>1
  <2>2. CASE e.kind = "directory"
    BY <2>1, <2>2, <1>1 DEF Consistent, LinksLead, IdsGivenOut, EntryRows
  <2>3. CASE e.kind = "file"
    BY <2>1, <2>3 DEF Consistent, LinksLead, IdsGivenOut, FileExists, EntryRows
  <2> QED
    BY <2>1, <2>2, <2>3 DEF EntryRows, Kinds
<1>6. IdsGivenOut(new)
  BY <1>1, <1>2 DEF Consistent, IdsGivenOut, DirectoryRows, NodeIds
<1>7. LinksLead(new)
  <2> SUFFICES ASSUME NEW e \in new.entries
               PROVE  /\ DirectoryExists(new, e.parent)
                      /\ e.kind = "directory" =>
                            [id |-> e.child, parent |-> e.parent] \in new.directories
                      /\ e.kind = "file" => FileExists(new, e.child)
                      /\ e.parent < e.child
    BY DEF LinksLead
  <2>1. CASE e \in d.entries
    BY <2>1, <1>2 DEF Consistent, LinksLead, DirectoryExists, FileExists
  <2>2. CASE e = entry
    BY <2>2, <1>2, <1>4 DEF DirectoryExists, FileExists
  <2> QED
    BY <2>1, <2>2, <1>2
<1>8. LinksUnique(new)
  BY <1>1, <1>2, <1>5 DEF Consistent, LinksUnique, EntriesAt, NodeIds
<1>9. NodesNamed(new)
  BY <1>2 DEF Consistent, NodesNamed
<1>10. Extends(d, new)
  BY <1>1, <1>2 DEF Extends, Nodes, DirectoryIds, NodeIds
<1> QED
  BY <1>3, <1>6, <1>7, <1>8, <1>9, <1>10 DEF Consistent

\* So is what a successful delete installs.
LEMMA DeleteKeepsConsistent ==
    ASSUME NEW d \in Databases, Consistent(d),
           NEW e \in d.entries,
           e.kind = "directory" => ~DirectoryDeleteViolatesForeignKey(d, e.child)
    PROVE  LET new == WithoutNode(d, e.kind, e.child)
           IN  new \in Databases /\ Consistent(new) /\ Extends(d, new)
<1> DEFINE new == WithoutNode(d, e.kind, e.child)
<1>1. /\ d.current \in Nat
      /\ d.directories \subseteq DirectoryRows /\ d.files \subseteq NodeIds
      /\ d.entries \subseteq EntryRows
  BY DEF Databases, NodeIds
<1>2. e \in EntryRows /\ e.parent < e.child /\ e.child # Root
  <2>1. e.parent \in NodeIds /\ e.child \in NodeIds /\ e \in EntryRows
    BY <1>1 DEF EntryRows
  <2>2. e.parent < e.child
    BY DEF Consistent, LinksLead
  <2> QED
    BY <2>1, <2>2 DEF NodeIds, Root
<1>3. /\ new.current = d.current
      /\ new.directories = IF e.kind = "directory"
                           THEN {r \in d.directories : r.id # e.child} ELSE d.directories
      /\ new.files = IF e.kind = "file" THEN d.files \ {e.child} ELSE d.files
      /\ new.entries = {f \in d.entries : ~(f.kind = e.kind /\ f.child = e.child)}
  BY DEF WithoutNode, WithoutRow, WithoutEntryOf
<1>4. new \in Databases
  <2>1. new = [current |-> new.current, directories |-> new.directories,
               files |-> new.files, entries |-> new.entries]
    BY DEF WithoutNode, WithoutRow, WithoutEntryOf
  <2>2. /\ new.current \in NodeIds /\ new.directories \subseteq DirectoryRows
        /\ new.files \subseteq NodeIds /\ new.entries \subseteq EntryRows
    BY <1>1, <1>3 DEF Databases
  <2> HIDE DEF new
  <2> QED
    BY <2>1, <2>2 DEF Databases
<1>5. IdsGivenOut(new)
  BY <1>3 DEF Consistent, IdsGivenOut
<1>6. LinksLead(new)
  <2> SUFFICES ASSUME NEW f \in new.entries
               PROVE  /\ DirectoryExists(new, f.parent)
                      /\ f.kind = "directory" =>
                            [id |-> f.child, parent |-> f.parent] \in new.directories
                      /\ f.kind = "file" => FileExists(new, f.child)
                      /\ f.parent < f.child
    BY DEF LinksLead
  <2>1. f \in d.entries /\ ~(f.kind = e.kind /\ f.child = e.child) /\ f \in EntryRows
    BY <1>1, <1>3
  <2>2. e.kind = "directory" => f.parent # e.child
    BY <2>1 DEF DirectoryDeleteViolatesForeignKey
  <2>3. DirectoryExists(new, f.parent)
    BY <1>3, <2>1, <2>2 DEF Consistent, LinksLead, DirectoryExists
  <2>4. f.kind = "directory" => [id |-> f.child, parent |-> f.parent] \in new.directories
    BY <1>3, <2>1 DEF Consistent, LinksLead
  <2>5. f.kind = "file" => FileExists(new, f.child)
    BY <1>3, <2>1 DEF Consistent, LinksLead, FileExists
  <2> QED
    BY <2>1, <2>3, <2>4, <2>5 DEF Consistent, LinksLead
<1>7. LinksUnique(new)
  BY <1>3 DEF Consistent, LinksUnique
<1>8. NodesNamed(new)
  BY <1>2, <1>3 DEF Consistent, NodesNamed
<1>9. Extends(d, new)
  BY <1>1, <1>3 DEF Extends, Nodes, DirectoryIds
<1> QED
  BY <1>4, <1>5, <1>6, <1>7, <1>8, <1>9 DEF Consistent

\* The answer to an atomic read has the type of an answer.
LEMMA ReadAnswerType ==
    ASSUME NEW d \in Databases, NEW r \in ReadRequests
    PROVE  T!ReadAnswer(Tree(d), r) \in Answers
<1>1. d.entries \subseteq EntryRows
  BY DEF Databases
<1>2. T!IsDirectory(Tree(d), r.node) => T!ParentOf(Tree(d), r.node) \in NodeIds
  BY <1>1 DEF T!IsDirectory, T!ParentOf, T!Root, Tree, EntryRows, NodeIds
<1>3. \A parent \in NodeIds : T!DirectoryInfo(parent, T!LinksOf(Tree(d), r.node)) \in Answers
  BY <1>1 DEF T!DirectoryInfo, T!LinksOf, Tree, Answers, EntryRows, Statuses, Kinds, NodeIds
<1>4. T!FileInfo \in Answers /\ T!WrongKind(r.op) \in Answers /\ T!Answer("NotFound") \in Answers
  BY DEF T!FileInfo, T!Located, T!WrongKind, T!Answer, Answers, Statuses, Kinds
<1> QED
  BY <1>2, <1>3, <1>4 DEF T!ReadAnswer

\* The answers the handlers give are answers.
LEMMA AnswersTyped ==
    /\ \A status \in Statuses : Answer(status) \in Answers
    /\ \A status \in Statuses, kind \in Kinds, id \in Nat : Located(status, kind, id) \in Answers
    /\ \A op \in WriteOps \cup ReadOps : WrongKind(op) \in Answers
    /\ FileInfo \in Answers
    /\ \A parent \in Nat, links \in SUBSET EntryRows : DirectoryInfo(parent, links) \in Answers
    /\ NoAnswer \notin Answers
<1>1. \A status \in Statuses : Answer(status) \in Answers
  BY DEF Answer, Answers
<1>2. \A status \in Statuses, kind \in Kinds, id \in Nat : Located(status, kind, id) \in Answers
  BY DEF Located, Answers
<1>3. \A op \in WriteOps \cup ReadOps : WrongKind(op) \in Answers
  BY <1>1 DEF WrongKind, Statuses
<1>4. FileInfo \in Answers
  BY DEF FileInfo, Located, Answers, Statuses, Kinds
<1>5. \A parent \in Nat, links \in SUBSET EntryRows : DirectoryInfo(parent, links) \in Answers
  BY DEF DirectoryInfo, Answers, EntryRows, Statuses, Kinds
<1>6. NoAnswer \notin Answers
  BY DEF NoAnswer, Answers, Statuses
<1> QED
  BY <1>1, <1>2, <1>3, <1>4, <1>5, <1>6

\* A lock taken by SQLite's rules leaves the locks compatible.
LEMMA TakingALock ==
    ASSUME lock \in [Handlers -> Locks], LocksExclude,
           NEW h \in Handlers, NEW l \in Locks,
           lock' = [lock EXCEPT ![h] = l],
           \/ l = "none"
           \/ l = "shared" /\ CanRead(h)
           \/ l = "reserved" /\ CanWrite(h)
           \/ l = "exclusive" /\ CanCommit(h)
           \/ l = "pending" /\ lock[h] = "reserved"
    PROVE  LocksExclude'
BY DEF LocksExclude, CanRead, CanWrite, CanCommit, OthersHold, Locks

-----------------------------------------------------------------------------
(* One lemma for each action *)

\* The initial state satisfies the invariant.
LEMMA InitHolds == Init => IInv
<1> SUFFICES ASSUME Init PROVE IInv
  OBVIOUS
<1>1. TypeOK
  <2>1. InitialDb \in Databases
    BY DEF InitialDb, Databases, DirectoryRows, NodeIds, Root
  <2> QED
    BY <2>1 DEF Init, TypeOK, Locks, PCs, Tables
<1>2. TreeConsistent
  BY DEF Init, TreeConsistent, InitialDb, Consistent, IdsGivenOut, LinksLead, LinksUnique,
         NodesNamed, Root
<1> QED
  BY <1>1, <1>2 DEF Init, IInv, LocksExclude, LocksFit, RequestsFit, WorkReady, WritePCs

\* A request arrives: nothing is read or written.
LEMMA ReceiveKeeps ==
    ASSUME IInv, NEW h \in Handlers, NEW r \in RequestSet, Known(r), Receive(h, r)
    PROVE  IInv'
<1> USE DEF IInv
<1>1. r \in Requests /\ (r.op \in ReadOps => r \in ReadRequests)
                     /\ (r.op \notin ReadOps => r \in WriteRequests)
  BY RequestSetAssumption DEF Requests, WriteRequests, ReadRequests, WriteOps, ReadOps,
                              CreateOps, DeleteOps
<1>2. TypeOK'
  <2>1. r.op \in ReadOps => T!ReadAnswer(Tree(db), r) \in Answers
    BY <1>1, ReadAnswerType DEF TypeOK
  <2> QED
    BY <1>1, <2>1 DEF TypeOK, Receive, Go, PCs, Tables
<1>3. TreeConsistent'
  BY DEF TreeConsistent, Receive
<1>4. LocksExclude' /\ LocksFit'
  BY DEF TypeOK, LocksExclude, LocksFit, Receive, Go
<1>5. RequestsFit'
  BY <1>1 DEF TypeOK, RequestsFit, Receive, Go, Known, WritePCs
<1>6. WorkReady'
  BY DEF TypeOK, WorkReady, Receive, Go
<1> QED
  BY <1>2, <1>3, <1>4, <1>5, <1>6

\* A create that meets a lock has at most taken SHARED.
LEMMA CreateBusyKeeps ==
    ASSUME IInv, NEW h \in Handlers, CreateBusy(h)
    PROVE  IInv'
<1> USE DEF IInv
<1>1. TypeOK'
  BY AnswersTyped DEF TypeOK, CreateBusy, Go, Hold, Fail, Determine, PCs, Locks, Statuses
<1>2. TreeConsistent'
  BY DEF TreeConsistent, CreateBusy
<1>3. LocksExclude'
  BY TakingALock DEF TypeOK, CreateBusy, Hold, Locks
<1>4. LocksFit'
  BY DEF TypeOK, LocksFit, CreateBusy, Go, Hold, Fail
<1>5. RequestsFit'
  BY DEF TypeOK, RequestsFit, CreateBusy, Go, Fail, Determine, WritePCs
<1>6. WorkReady'
  BY DEF TypeOK, WorkReady, CreateBusy, Go, Fail
<1> QED
  BY <1>1, <1>2, <1>3, <1>4, <1>5, <1>6

\* The copy of a create is consistent and one node ahead of the database.
LEMMA CreateExecuteKeeps ==
    ASSUME IInv, NEW h \in Handlers, CreateExecute(h)
    PROVE  IInv'
<1> DEFINE r == request[h]
           kind == WantedKind(r.op)
           id == NextAvailableId(db)
           entry == [parent |-> r.node, name |-> r.name, kind |-> kind, child |-> id]
           node == WithNode(db, id, kind, r.node)
<1> USE DEF IInv
<1>1. /\ db \in Databases /\ Consistent(db) /\ id = db.current + 1 /\ id \in NodeIds
      /\ r \in WriteRequests /\ r.op \in CreateOps /\ kind \in Kinds
      /\ r.node \in NodeIds /\ r.name \in Names /\ r.node <= db.current
  BY NextAvailableIdIsSuccessor
  DEF TypeOK, TreeConsistent, Consistent, Databases, NodeIds, CreateExecute, RequestsFit,
      WritePCs, WriteRequests, WantedKind, Kinds
<1>2. /\ h \in DOMAIN lock /\ CanWrite(h)
      /\ lock' = [lock EXCEPT ![h] = "reserved"]
      /\ UNCHANGED <<db, request, table, possible>>
      /\ pc[h] = "received"
  BY DEF TypeOK, CreateExecute, Hold
\* What each way through the transaction leaves to the handler.
<1>3. \E a \in Answers, w \in Databases, p \in {"failed", "executed"} :
         /\ result' = [result EXCEPT ![h] = a]
         /\ work' = [work EXCEPT ![h] = w]
         /\ pc' = [pc EXCEPT ![h] = p]
         /\ p = "executed" => Consistent(w) /\ Extends(db, w)
  <2>1. node \in Databases /\ [db EXCEPT !.current = id] \in Databases
    <3>1. [db EXCEPT !.current = id] \in Databases
      BY <1>1 DEF Databases
    <3>2. node.current \in NodeIds /\ node.directories \subseteq DirectoryRows
          /\ node.files \subseteq NodeIds /\ node.entries \subseteq EntryRows
      BY <1>1 DEF Databases, WithNode, DirectoryRows
    <3>3. node = [current |-> node.current, directories |-> node.directories,
                  files |-> node.files, entries |-> node.entries]
      BY DEF WithNode
    <3> HIDE DEF node
    <3> QED
      BY <3>1, <3>2, <3>3 DEF Databases
  <2>2. CASE /\ Fail(h, Answer("Internal"))
             /\ work' = [work EXCEPT ![h] = [db EXCEPT !.current = id]]
    BY <2>1, <2>2, AnswersTyped DEF Fail, Go, Determine, Statuses
  <2>3. CASE /\ \E e \in EntriesAt(node, r.node, r.name) :
                    Fail(h, Located("AlreadyExists", e.kind, e.child))
             /\ work' = [work EXCEPT ![h] = node]
    <3> PICK e \in EntriesAt(node, r.node, r.name) :
                Fail(h, Located("AlreadyExists", e.kind, e.child))
      BY <2>3
    <3>1. e \in EntryRows
      BY <2>1 DEF EntriesAt, Databases
    <3>2. Located("AlreadyExists", e.kind, e.child) \in Answers
      BY <3>1, AnswersTyped DEF EntryRows, NodeIds, Statuses
    <3> QED
      BY <2>1, <2>3, <3>2 DEF Fail, Go, Determine
  <2>4. CASE /\ Fail(h, Answer("Internal")) \/ Fail(h, Answer("NotFound"))
             /\ work' = [work EXCEPT ![h] = node]
    BY <2>1, <2>4, AnswersTyped DEF Fail, Go, Determine, Statuses
  <2>5. CASE /\ ~EntryInsertViolatesUnique(node, entry)
             /\ ~EntryInsertViolatesForeignKey(node, entry)
             /\ Go(h, "executed")
             /\ Determine(h, Located("Created", kind, id))
             /\ work' = [work EXCEPT ![h] = WithEntry(node, entry)]
    <3>1. EntriesAt(db, r.node, r.name) = {}
      BY <2>5 DEF EntryInsertViolatesUnique, EntriesAt, WithNode
    <3>2. DirectoryExists(db, r.node)
      <4>1. r.node # id
        BY <1>1 DEF NodeIds, Databases
      <4> QED
        BY <2>5, <4>1 DEF EntryInsertViolatesForeignKey, DirectoryExists, WithNode
    <3>3. /\ WithEntry(node, entry) \in Databases
          /\ Consistent(WithEntry(node, entry))
          /\ Extends(db, WithEntry(node, entry))
      BY <1>1, <3>1, <3>2, CreateKeepsConsistent
    <3>4. Located("Created", kind, id) \in Answers
      BY <1>1, AnswersTyped DEF NodeIds, Statuses
    <3> QED
      BY <2>5, <3>3, <3>4 DEF Go, Determine
  <2> QED
    BY <2>2, <2>3, <2>4, <2>5 DEF CreateExecute
<1>4. PICK a \in Answers, w \in Databases, p \in {"failed", "executed"} :
         /\ result' = [result EXCEPT ![h] = a]
         /\ work' = [work EXCEPT ![h] = w]
         /\ pc' = [pc EXCEPT ![h] = p]
         /\ p = "executed" => Consistent(w) /\ Extends(db, w)
  BY <1>3
<1>5. TypeOK'
  BY <1>2, <1>4 DEF TypeOK, PCs, Locks
<1>6. TreeConsistent'
  BY <1>2 DEF TreeConsistent
<1>7. LocksExclude'
  BY <1>2, TakingALock DEF TypeOK, Locks
<1>8. LocksFit'
  BY <1>2, <1>4 DEF TypeOK, LocksFit
<1>9. RequestsFit'
  BY <1>1, <1>2, <1>4 DEF TypeOK, RequestsFit, WritePCs
<1>10. WorkReady'
  BY <1>2, <1>4 DEF TypeOK, WorkReady
<1> QED
  BY <1>5, <1>6, <1>7, <1>8, <1>9, <1>10

\* What a delete has found cannot change while it holds SHARED.
LEMMA DeleteSelectKeeps ==
    ASSUME IInv, NEW h \in Handlers, DeleteSelect(h)
    PROVE  IInv'
<1> DEFINE r == request[h]
<1> USE DEF IInv
<1>1. /\ UNCHANGED <<db, work, request, table, possible>>
      /\ pc[h] = "received" /\ r.op \in DeleteOps
  BY DEF DeleteSelect
<1>2. PICK a \in Answers \cup {NoAnswer}, l \in {"none", "shared"}, p \in {"failed", "selected"} :
         /\ result' = [result EXCEPT ![h] = a]
         /\ lock' = [lock EXCEPT ![h] = l]
         /\ pc' = [pc EXCEPT ![h] = p]
         /\ l = "shared" => CanRead(h)
         /\ p = "selected" => l = "shared"
  <2>1. \A s \in {"Locked", "NotADirectory", "NotFound"} : Answer(s) \in Answers
    BY AnswersTyped DEF Statuses
  <2>2. WrongKind(r.op) \in Answers
    BY <1>1, AnswersTyped DEF WriteOps
  <2>3. lock[h] = "none" /\ result[h] \in Answers \cup {NoAnswer}
        /\ lock = [lock EXCEPT ![h] = lock[h]] /\ result = [result EXCEPT ![h] = result[h]]
    BY <1>1 DEF TypeOK, LocksFit
  <2> QED
    BY <2>1, <2>2, <2>3 DEF DeleteSelect, HeldFromRead, Fail, Go, Determine, Hold
<1>3. TypeOK'
  BY <1>1, <1>2 DEF TypeOK, PCs, Locks
<1>4. TreeConsistent'
  BY <1>1 DEF TreeConsistent
<1>5. LocksExclude'
  BY <1>2, TakingALock DEF TypeOK, Locks
<1>6. LocksFit'
  BY <1>2 DEF TypeOK, LocksFit
<1>7. RequestsFit'
  BY <1>1, <1>2 DEF TypeOK, RequestsFit, WritePCs
<1>8. WorkReady'
  BY <1>1, <1>2 DEF TypeOK, WorkReady
<1> QED
  BY <1>3, <1>4, <1>5, <1>6, <1>7, <1>8

\* The copy of a delete is consistent and one node behind the database.
LEMMA DeleteExecuteKeeps ==
    ASSUME IInv, NEW h \in Handlers, DeleteExecute(h)
    PROVE  IInv'
<1> DEFINE r == request[h]
<1> USE DEF IInv
<1>1. /\ UNCHANGED <<db, request, table, possible>>
      /\ pc[h] = "selected" /\ db \in Databases /\ Consistent(db)
  BY DEF DeleteExecute, TypeOK, TreeConsistent
<1>2. PICK e \in EntriesAt(db, r.node, r.name) :
          \/ /\ ~CanWrite(h)
             /\ Fail(h, Answer("Locked"))
             /\ UNCHANGED <<lock, work>>
          \/ /\ CanWrite(h)
             /\ Hold(h, "reserved")
             /\ \/ /\ Fail(h, Answer("DirectoryNotEmpty")) \/ Fail(h, Answer("Panic"))
                   /\ work' = [work EXCEPT ![h] = db]
                \/ /\ e.kind = "directory" => ~DirectoryDeleteViolatesForeignKey(db, e.child)
                   /\ Go(h, "executed")
                   /\ Determine(h, Answer("NoContent"))
                   /\ work' = [work EXCEPT ![h] = WithoutNode(db, e.kind, e.child)]
  BY DEF DeleteExecute
<1>3. PICK a \in Answers, w \in Databases, l \in {"shared", "reserved"},
           p \in {"failed", "executed"} :
         /\ result' = [result EXCEPT ![h] = a]
         /\ work' = [work EXCEPT ![h] = w]
         /\ lock' = [lock EXCEPT ![h] = l]
         /\ pc' = [pc EXCEPT ![h] = p]
         /\ l = "shared" => lock' = lock
         /\ l = "reserved" => CanWrite(h)
         /\ p = "executed" => l = "reserved" /\ Consistent(w) /\ Extends(db, w)
  <2>1. \A s \in {"Locked", "DirectoryNotEmpty", "Panic", "NoContent"} : Answer(s) \in Answers
    BY AnswersTyped DEF Statuses
  <2>2. e \in db.entries
    BY <1>1 DEF EntriesAt
  <2>3. CASE ~CanWrite(h) /\ Fail(h, Answer("Locked")) /\ UNCHANGED <<lock, work>>
    <3>1. lock[h] = "shared" /\ lock = [lock EXCEPT ![h] = "shared"]
          /\ work[h] \in Databases /\ work = [work EXCEPT ![h] = work[h]]
      BY <1>1 DEF TypeOK, LocksFit
    <3> QED
      BY <2>1, <2>3, <3>1 DEF Fail, Go, Determine
  <2>4. CASE /\ CanWrite(h) /\ Hold(h, "reserved")
             /\ Fail(h, Answer("DirectoryNotEmpty")) \/ Fail(h, Answer("Panic"))
             /\ work' = [work EXCEPT ![h] = db]
    BY <1>1, <2>1, <2>4 DEF Fail, Go, Determine, Hold
  <2>5. CASE /\ CanWrite(h) /\ Hold(h, "reserved")
             /\ e.kind = "directory" => ~DirectoryDeleteViolatesForeignKey(db, e.child)
             /\ Go(h, "executed")
             /\ Determine(h, Answer("NoContent"))
             /\ work' = [work EXCEPT ![h] = WithoutNode(db, e.kind, e.child)]
    <3>1. /\ WithoutNode(db, e.kind, e.child) \in Databases
          /\ Consistent(WithoutNode(db, e.kind, e.child))
          /\ Extends(db, WithoutNode(db, e.kind, e.child))
      BY <1>1, <2>2, <2>5, DeleteKeepsConsistent
    <3> QED
      BY <2>1, <2>5, <3>1 DEF Go, Determine, Hold
  <2> QED
    BY <1>2, <2>3, <2>4, <2>5
<1>4. TypeOK'
  BY <1>1, <1>3 DEF TypeOK, PCs, Locks
<1>5. TreeConsistent'
  BY <1>1 DEF TreeConsistent
<1>6. LocksExclude'
  <2>1. CASE l = "reserved"
    BY <1>3, <2>1, TakingALock DEF TypeOK, Locks
  <2>2. CASE l = "shared"
    BY <1>3, <2>2 DEF LocksExclude
  <2> QED
    BY <2>1, <2>2
<1>7. LocksFit'
  BY <1>3 DEF TypeOK, LocksFit
<1>8. RequestsFit'
  BY <1>1, <1>3 DEF TypeOK, RequestsFit, WritePCs
<1>9. WorkReady'
  BY <1>1, <1>3 DEF TypeOK, WorkReady
<1> QED
  BY <1>4, <1>5, <1>6, <1>7, <1>8, <1>9

\* EXCLUSIVE is taken when nobody else holds a lock.
LEMMA CommitBeginKeeps ==
    ASSUME IInv, NEW h \in Handlers, CommitBegin(h)
    PROVE  IInv'
<1> USE DEF IInv
<1>1. TypeOK'
  BY DEF TypeOK, CommitBegin, Go, Hold, PCs, Locks
<1>2. TreeConsistent'
  BY DEF TreeConsistent, CommitBegin
<1>3. LocksExclude'
  BY TakingALock DEF TypeOK, CommitBegin, Hold, Locks
<1>4. LocksFit'
  BY DEF TypeOK, LocksFit, CommitBegin, Go, Hold
<1>5. RequestsFit'
  BY DEF TypeOK, RequestsFit, CommitBegin, Go, WritePCs
<1>6. WorkReady'
  BY DEF TypeOK, WorkReady, CommitBegin, Go
<1> QED
  BY <1>1, <1>2, <1>3, <1>4, <1>5, <1>6

\* The only step that changes the database: its EXCLUSIVE lock means that no
\* other handler has a copy that goes back to the old one.
LEMMA CommitEndKeeps ==
    ASSUME IInv, NEW h \in Handlers, CommitEnd(h)
    PROVE  IInv'
<1> USE DEF IInv
<1>1. /\ work[h] \in Databases /\ Consistent(work[h]) /\ Extends(db, work[h])
      /\ db' = work[h] /\ db.current <= db'.current
  BY DEF TypeOK, WorkReady, CommitEnd, Extends
<1>2. \A o \in Handlers \ {h} : pc[o] \notin {"executed", "committing", "selected"}
  BY DEF LocksExclude, LocksFit, CommitEnd
<1>3. TypeOK'
  <2>1. InitialDb \in Databases
    BY DEF InitialDb, Databases, DirectoryRows, NodeIds, Root
  <2>2. \A o \in Handlers : pc[o] = "reading" =>
           T!ReadAnswer(Tree(work[h]), request[o]) \in Answers
    BY <1>1, ReadAnswerType DEF RequestsFit
  <2>3. possible' \in [Handlers -> SUBSET Answers]
    BY <2>2 DEF TypeOK, CommitEnd
  <2> QED
    BY <1>1, <2>1, <2>3 DEF TypeOK, CommitEnd, Go, Hold, PCs, Locks
<1>4. TreeConsistent'
  BY <1>1 DEF TreeConsistent
<1>5. LocksExclude'
  BY TakingALock DEF TypeOK, CommitEnd, Hold, Locks
<1>6. LocksFit'
  BY DEF TypeOK, LocksFit, CommitEnd, Go, Hold
<1>7. RequestsFit'
  <2> SUFFICES ASSUME NEW o \in Handlers
               PROVE  /\ pc'[o] = "reading" => request'[o] \in ReadRequests
                      /\ pc'[o] \in WritePCs =>
                            request'[o] \in WriteRequests /\ request'[o].node <= db'.current
                      /\ pc'[o] = "selected" => request'[o].op \in DeleteOps
                      /\ pc'[o] = "reading" /\ table'[o] = "entries" => result'[o] \in Answers
    BY DEF RequestsFit
  <2>1. CASE o = h
    BY <2>1 DEF TypeOK, CommitEnd, Go, WritePCs
  <2>2. CASE o # h
    <3>1. pc'[o] = pc[o] /\ request'[o] = request[o] /\ table'[o] = table[o]
          /\ result'[o] = result[o]
      BY <2>2 DEF TypeOK, CommitEnd, Go
    <3>2. pc[o] \in WritePCs => request[o].node \in Nat
      BY DEF RequestsFit, WriteRequests, NodeIds
    <3>3. db.current \in Nat /\ db'.current \in Nat
      BY <1>1 DEF TypeOK, Databases, NodeIds
    <3> QED
      BY <1>1, <3>1, <3>2, <3>3 DEF RequestsFit
  <2> QED
    BY <2>1, <2>2
<1>8. WorkReady'
  BY <1>2 DEF TypeOK, WorkReady, CommitEnd, Go
<1> QED
  BY <1>3, <1>4, <1>5, <1>6, <1>7, <1>8

\* A commit that fails keeps the database as it was.
LEMMA CommitBusyKeeps ==
    ASSUME IInv, NEW h \in Handlers, CommitBusy(h)
    PROVE  IInv'
<1> USE DEF IInv
<1>1. TypeOK'
  BY AnswersTyped DEF TypeOK, CommitBusy, CommitError, Go, Hold, Determine, PCs, Locks, Statuses
<1>2. TreeConsistent'
  BY DEF TreeConsistent, CommitBusy
<1>3. LocksExclude'
  BY TakingALock DEF TypeOK, LocksFit, CommitBusy, Hold, Locks
<1>4. LocksFit'
  BY DEF TypeOK, LocksFit, CommitBusy, Go, Hold
<1>5. RequestsFit'
  BY DEF TypeOK, RequestsFit, CommitBusy, Go, Determine, WritePCs
<1>6. WorkReady'
  BY DEF TypeOK, WorkReady, CommitBusy, Go
<1> QED
  BY <1>1, <1>2, <1>3, <1>4, <1>5, <1>6

\* A transaction that is rolled back gives up its copy and its lock.
LEMMA RollbackKeeps ==
    ASSUME IInv, NEW h \in Handlers, Rollback(h)
    PROVE  IInv'
<1> USE DEF IInv, LeftHeld
<1>1. TypeOK'
  <2>1. InitialDb \in Databases
    BY DEF InitialDb, Databases, DirectoryRows, NodeIds, Root
  <2> QED
    BY <2>1 DEF TypeOK, Rollback, Go, Hold, PCs, Locks
<1>2. TreeConsistent'
  BY DEF TreeConsistent, Rollback
<1>3. LocksExclude'
  BY TakingALock DEF TypeOK, Rollback, Hold, Locks
<1>4. LocksFit'
  BY DEF TypeOK, LocksFit, Rollback, Go, Hold
<1>5. RequestsFit'
  BY DEF TypeOK, RequestsFit, Rollback, Go, WritePCs
<1>6. WorkReady'
  BY DEF TypeOK, WorkReady, Rollback, Go
<1> QED
  BY <1>1, <1>2, <1>3, <1>4, <1>5, <1>6

\* Reads change nothing but what their own handler knows.
LEMMA ReadingKeeps ==
    ASSUME IInv, NEW h \in Handlers, Reading(h)
    PROVE  IInv'
<1> USE DEF IInv
<1>1. /\ UNCHANGED <<db, work, request, possible>>
      /\ pc[h] = "reading"
      /\ \E p \in {"reading", "answered"} :
            /\ pc' = [pc EXCEPT ![h] = p]
            /\ p = "answered" => lock' = lock /\ lock[h] = "none"
  <2>1. pc = [pc EXCEPT ![h] = pc[h]]
    BY DEF TypeOK
  <2> QED
    BY <2>1 DEF Reading, SelectBusy, SelectFile, SelectDirectory, SelectEntries, SelectEnd, ReadEnd,
                Selecting, Go, Unlocked
<1>2. \E l \in {"none", "shared"} :
         /\ lock' = [lock EXCEPT ![h] = l]
         /\ l = "shared" => CanRead(h) \/ lock' = lock
  <2>1. lock = [lock EXCEPT ![h] = lock[h]] /\ lock[h] \in {"none", "shared"}
    BY <1>1 DEF TypeOK, LocksFit
  <2>2. CASE lock' = lock
    BY <2>1, <2>2
  <2>3. CASE Hold(h, "none")
    BY <2>3 DEF Hold
  <2>4. CASE Hold(h, "shared") /\ CanRead(h)
    BY <2>4 DEF Hold
  <2> QED
    BY <2>2, <2>3, <2>4
    DEF Reading, SelectBusy, SelectFile, SelectDirectory, SelectEntries, SelectEnd, ReadEnd,
        Selecting
<1>3. \E a \in Answers \cup {NoAnswer}, t \in Tables :
         /\ result' = [result EXCEPT ![h] = a]
         /\ table' = [table EXCEPT ![h] = t]
         /\ t = "entries" => a \in Answers
  <2>1. /\ result[h] \in Answers \cup {NoAnswer} /\ table[h] \in Tables
        /\ result = [result EXCEPT ![h] = result[h]] /\ table = [table EXCEPT ![h] = table[h]]
        /\ table[h] = "entries" => result[h] \in Answers
        /\ request[h] \in ReadRequests /\ request[h].op \in ReadOps
        /\ db.directories \subseteq DirectoryRows /\ db.entries \subseteq EntryRows
    BY <1>1 DEF TypeOK, RequestsFit, ReadRequests, Databases
  <2>2. Answer("Locked") \in Answers /\ Answer("NotFound") \in Answers /\ FileInfo \in Answers
        /\ WrongKind(request[h].op) \in Answers
    BY <2>1, AnswersTyped DEF Statuses
  <2>3. CASE SelectBusy(h)
    BY <2>2, <2>3 DEF SelectBusy, Query, Determine, Tables
  <2>4. CASE SelectFile(h)
    BY <2>1, <2>2, <2>4 DEF SelectFile, Query, Determine, Tables
  <2>5. CASE SelectDirectory(h)
    <3>1. \A row \in db.directories : DirectoryInfo(row.parent, {}) \in Answers
      BY <2>1, AnswersTyped DEF DirectoryRows, NodeIds
    <3> QED
      BY <2>1, <2>2, <2>5, <3>1 DEF SelectDirectory, Query, Determine, Tables
  <2>6. CASE SelectEntries(h)
    <3>1. result[h].node \in Nat
      BY <2>1, <2>6 DEF SelectEntries, Selecting, Answers
    <3>2. EntriesOf(db, request[h].node) \in SUBSET EntryRows
      BY <2>1 DEF EntriesOf
    <3> QED
      BY <2>6, <3>1, <3>2, AnswersTyped DEF SelectEntries, Query, Determine, Tables
  <2>7. CASE SelectEnd(h) \/ ReadEnd(h)
    BY <2>1, <2>7 DEF SelectEnd, ReadEnd
  <2> QED
    BY <2>3, <2>4, <2>5, <2>6, <2>7 DEF Reading
<1>4. PICK p \in {"reading", "answered"} :
            /\ pc' = [pc EXCEPT ![h] = p]
            /\ p = "answered" => lock' = lock /\ lock[h] = "none"
  BY <1>1
<1>5. PICK l \in {"none", "shared"} :
            /\ lock' = [lock EXCEPT ![h] = l]
            /\ l = "shared" => CanRead(h) \/ lock' = lock
  BY <1>2
<1>6. PICK a \in Answers \cup {NoAnswer}, t \in Tables :
         /\ result' = [result EXCEPT ![h] = a]
         /\ table' = [table EXCEPT ![h] = t]
         /\ t = "entries" => a \in Answers
  BY <1>3
<1>7. TypeOK'
  BY <1>1, <1>4, <1>5, <1>6 DEF TypeOK, PCs, Locks
<1>8. TreeConsistent'
  BY <1>1 DEF TreeConsistent
<1>9. LocksExclude'
  <2>1. CASE lock' = lock
    BY <2>1 DEF LocksExclude
  <2>2. CASE lock' # lock
    BY <1>5, <2>2, TakingALock DEF TypeOK, Locks
  <2> QED
    BY <2>1, <2>2
<1>10. LocksFit'
  BY <1>1, <1>4, <1>5 DEF TypeOK, LocksFit
<1>11. RequestsFit'
  BY <1>1, <1>4, <1>6 DEF TypeOK, RequestsFit, WritePCs
<1>12. WorkReady'
  BY <1>1, <1>4 DEF TypeOK, WorkReady
<1> QED
  BY <1>7, <1>8, <1>9, <1>10, <1>11, <1>12

\* An answer that is sent frees the handler.
LEMMA RespondKeeps ==
    ASSUME IInv, NEW h \in Handlers, Respond(h)
    PROVE  IInv'
<1> USE DEF IInv
<1>1. TypeOK'
  BY DEF TypeOK, Respond, Go, Determine, PCs
<1>2. TreeConsistent' /\ LocksExclude'
  BY DEF TreeConsistent, LocksExclude, Respond
<1>3. LocksFit'
  BY DEF TypeOK, LocksFit, Respond, Go
<1>4. RequestsFit'
  BY DEF TypeOK, RequestsFit, Respond, Go, Determine, WritePCs
<1>5. WorkReady'
  BY DEF TypeOK, WorkReady, Respond, Go
<1> QED
  BY <1>1, <1>2, <1>3, <1>4, <1>5

\* A crash leaves the database and nothing else.
LEMMA CrashKeeps == IInv /\ Crash => IInv'
<1> SUFFICES ASSUME IInv, Crash PROVE IInv'
  OBVIOUS
<1> USE DEF IInv
<1>1. TypeOK'
  <2>1. InitialDb \in Databases
    BY DEF InitialDb, Databases, DirectoryRows, NodeIds, Root
  <2> QED
    BY <2>1 DEF TypeOK, Crash, PCs, Locks, Tables
<1>2. TreeConsistent'
  BY DEF TreeConsistent, Crash
<1>3. LocksExclude' /\ LocksFit' /\ RequestsFit' /\ WorkReady'
  BY DEF LocksExclude, LocksFit, RequestsFit, WorkReady, Crash, WritePCs
<1> QED
  BY <1>1, <1>2, <1>3

-----------------------------------------------------------------------------
(* The theorems *)

\* Every step keeps the invariant.
LEMMA NextKeeps == IInv /\ [Next]_vars => IInv'
<1> SUFFICES ASSUME IInv, [Next]_vars PROVE IInv'
  OBVIOUS
<1>1. ASSUME NEW h \in Handlers, NEW r \in RequestSet, Known(r), Receive(h, r)
      PROVE  IInv'
  BY <1>1, ReceiveKeeps
<1>2. ASSUME NEW h \in Handlers, Transaction(h)
      PROVE  IInv'
  BY <1>2, CreateBusyKeeps, CreateExecuteKeeps, DeleteSelectKeeps, DeleteExecuteKeeps,
     CommitBeginKeeps, CommitEndKeeps, CommitBusyKeeps, RollbackKeeps
  DEF Transaction
<1>3. ASSUME NEW h \in Handlers, Reading(h)
      PROVE  IInv'
  BY <1>3, ReadingKeeps
<1>4. ASSUME NEW h \in Handlers, Respond(h)
      PROVE  IInv'
  BY <1>4, RespondKeeps
<1>5. CASE Crash
  BY <1>5, CrashKeeps
<1>6. CASE UNCHANGED vars
  BY <1>6 DEF vars, IInv, TypeOK, TreeConsistent, LocksExclude, LocksFit, RequestsFit, WorkReady
<1> QED
  BY <1>1, <1>2, <1>3, <1>4, <1>5, <1>6 DEF Next, Handle

\* Every copy a transaction works on could be installed at any moment.
THEOREM Invariance == Spec => []IInv
<1>1. Init => IInv
  BY InitHolds
<1>2. IInv /\ [Next]_vars => IInv'
  BY NextKeeps
<1> QED
  BY <1>1, <1>2, PTL DEF Spec

\* Every variable keeps its type.
THEOREM TypeCorrect == Spec => []TypeOK
<1>1. IInv => TypeOK
  BY DEF IInv
<1> QED
  BY <1>1, Invariance, PTL

\* The tables describe one tree hanging from the root at every moment,
\* whatever create and delete requests interleave and wherever a crash falls.
THEOREM TreeStaysConsistent == Spec => []TreeConsistent
<1>1. IInv => TreeConsistent
  BY DEF IInv
<1> QED
  BY <1>1, Invariance, PTL

\* The handlers never hold locks SQLite would not grant together.
THEOREM LocksStayExclusive == Spec => []LocksExclude
<1>1. IInv => LocksExclude
  BY DEF IInv
<1> QED
  BY <1>1, Invariance, PTL

\* No answered request holds a lock, not even one whose COMMIT has failed.
THEOREM LocksAreReleased == Spec => []LocksAreGivenUp
<1>1. IInv => LocksAreGivenUp
  BY DEF IInv, LocksFit, LocksAreGivenUp
<1> QED
  BY <1>1, Invariance, PTL

\* Only CommitEnd changes the database, and what it installs extends it.
LEMMA OnlyCommitEndChangesDb ==
    ASSUME IInv, [Next]_vars
    PROVE  \/ UNCHANGED db
           \/ \E h \in Handlers : CommitEnd(h)
<1>1. ASSUME NEW h \in Handlers, Transaction(h) PROVE CommitEnd(h) \/ UNCHANGED db
  BY <1>1 DEF Transaction, CreateBusy, CreateExecute, DeleteSelect, DeleteExecute, CommitBegin,
              CommitBusy, Rollback
<1>2. ASSUME NEW h \in Handlers, Reading(h) \/ Respond(h) PROVE UNCHANGED db
  BY <1>2 DEF Reading, SelectBusy, SelectFile, SelectDirectory, SelectEntries, Selecting, SelectEnd,
              ReadEnd, Respond
<1>3. \A h \in Handlers, r \in RequestSet : Receive(h, r) => UNCHANGED db
  BY DEF Receive
<1>4. Crash \/ UNCHANGED vars => UNCHANGED db
  BY DEF Crash, vars
<1> QED
  BY <1>1, <1>2, <1>3, <1>4 DEF Next, Handle

\* No id is ever given to a second node, deleted or not the first.
THEOREM IdsStayUnique == Spec => IdsNeverReused
<1>1. IInv /\ [Next]_vars => [IdsGrow]_db
  <2> SUFFICES ASSUME IInv, [Next]_vars, NEW h \in Handlers, CommitEnd(h)
               PROVE  IdsGrow
    BY OnlyCommitEndChangesDb
  <2>1. db' = work[h] /\ Extends(db, work[h])
    BY DEF CommitEnd, IInv, WorkReady
  <2> QED
    BY <2>1 DEF Extends, IdsGrow, Nodes
<1> QED
  BY <1>1, Invariance, PTL DEF Spec, IdsNeverReused

\* The panics delete.rs calls impossible are: what the entry leads to exists.
THEOREM PanicsAreImpossible == Spec => []NoPanic
<1>1. Init => NoPanic
  BY DEF Init, NoPanic, NoAnswer, Answer
<1>2. IInv /\ NoPanic /\ [Next]_vars => NoPanic'
  <2> SUFFICES ASSUME IInv, NoPanic, [Next]_vars PROVE NoPanic'
    OBVIOUS
  <2> USE DEF IInv
  <2>1. ASSUME NEW h \in Handlers, NEW r \in RequestSet, Receive(h, r)
        PROVE  NoPanic'
    BY <2>1 DEF NoPanic, Receive
  <2>2. ASSUME NEW h \in Handlers, NEW a, Determine(h, a), a # Answer("Panic")
        PROVE  NoPanic'
    BY <2>2 DEF TypeOK, NoPanic, Determine
  <2>3. /\ NoAnswer # Answer("Panic") /\ FileInfo # Answer("Panic")
        /\ \A s \in Statuses \ {"Panic"} : Answer(s) # Answer("Panic")
        /\ \A kind, id : \A s \in Statuses \ {"Panic"} : Located(s, kind, id) # Answer("Panic")
        /\ \A op : WrongKind(op) # Answer("Panic")
        /\ \A parent, links : DirectoryInfo(parent, links) # Answer("Panic")
    BY DEF NoAnswer, FileInfo, Answer, Located, WrongKind, DirectoryInfo
  <2>4. ASSUME NEW h \in Handlers, CreateBusy(h) \/ CreateExecute(h) \/ DeleteSelect(h)
        PROVE  NoPanic'
    <3>1. "Locked" \in Statuses /\ "Internal" \in Statuses /\ "AlreadyExists" \in Statuses
          /\ "NotFound" \in Statuses /\ "Created" \in Statuses /\ "NotADirectory" \in Statuses
      BY DEF Statuses
    <3>2. CASE CreateBusy(h)
      BY <3>1, <3>2, <2>2, <2>3 DEF CreateBusy, Fail
    <3>3. CASE CreateExecute(h)
      BY <3>1, <3>3, <2>2, <2>3 DEF CreateExecute, Fail
    <3>4. CASE DeleteSelect(h)
      <4>1. CASE UNCHANGED result
        BY <4>1 DEF NoPanic
      <4> QED
        BY <3>1, <3>4, <4>1, <2>2, <2>3 DEF DeleteSelect, Fail
    <3> QED
      BY <2>4, <3>2, <3>3, <3>4
  <2>5. ASSUME NEW h \in Handlers, DeleteExecute(h)
        PROVE  NoPanic'
    <3> PICK e \in EntriesAt(db, request[h].node, request[h].name) :
           \/ Fail(h, Answer("Locked"))
           \/ Fail(h, Answer("DirectoryNotEmpty"))
           \/ ~(IF e.kind = "directory" THEN DirectoryExists(db, e.child)
                                        ELSE FileExists(db, e.child))
           \/ Determine(h, Answer("NoContent"))
      BY <2>5 DEF DeleteExecute
    <3>1. e \in db.entries /\ e.kind \in Kinds
      BY DEF EntriesAt, TypeOK, Databases, EntryRows
    <3>2. IF e.kind = "directory" THEN DirectoryExists(db, e.child) ELSE FileExists(db, e.child)
      BY <3>1 DEF TreeConsistent, Consistent, LinksLead, DirectoryExists, Kinds
    <3>3. "Locked" \in Statuses /\ "DirectoryNotEmpty" \in Statuses /\ "NoContent" \in Statuses
      BY DEF Statuses
    <3> QED
      BY <3>2, <3>3, <2>2, <2>3 DEF Fail
  <2>6. ASSUME NEW h \in Handlers,
               CommitBegin(h) \/ CommitEnd(h) \/ CommitBusy(h) \/ Rollback(h)
        PROVE  NoPanic'
    <3>1. Answer("Locked") # Answer("Panic")
      BY DEF Answer
    <3> QED
      BY <2>6, <2>2, <3>1 DEF NoPanic, CommitBegin, CommitEnd, CommitBusy, CommitError, Rollback
  <2>7. ASSUME NEW h \in Handlers, Reading(h)
        PROVE  NoPanic'
    <3>1. CASE UNCHANGED result
      BY <3>1 DEF NoPanic
    <3>2. CASE Determine(h, result[h])
      BY <3>2, <2>2 DEF NoPanic
    <3>3. "Locked" \in Statuses /\ "NotFound" \in Statuses
      BY DEF Statuses
    <3> QED
      BY <2>7, <3>1, <3>2, <3>3, <2>2, <2>3
      DEF Reading, SelectBusy, SelectFile, SelectDirectory, SelectEntries, SelectEnd, ReadEnd, Query
  <2>8. ASSUME NEW h \in Handlers, Respond(h)
        PROVE  NoPanic'
    BY <2>8, <2>2, <2>3 DEF Respond
  <2>9. CASE Crash
    BY <2>9, <2>3 DEF Crash, NoPanic
  <2>10. CASE UNCHANGED vars
    BY <2>10 DEF vars, NoPanic
  <2> QED
    BY <2>1, <2>4, <2>5, <2>6, <2>7, <2>8, <2>9, <2>10 DEF Next, Handle, Transaction
<1> QED
  BY <1>1, <1>2, Invariance, PTL DEF Spec

\* Undoing a create on the copy gives back the database it was made from.
LEMMA CreateIsUndone ==
    ASSUME NEW d \in Databases, Consistent(d),
           NEW kind \in Kinds, NEW parent, NEW name, NEW id, id = d.current + 1
    PROVE  LET entry == [parent |-> parent, name |-> name, kind |-> kind, child |-> id]
               new == WithEntry(WithNode(d, id, kind, parent), entry)
           IN  /\ entry \in new.entries \ d.entries
               /\ d = WithoutNode([new EXCEPT !.current = d.current], kind, id)
<1> DEFINE entry == [parent |-> parent, name |-> name, kind |-> kind, child |-> id]
           new == WithEntry(WithNode(d, id, kind, parent), entry)
           old == WithoutNode([new EXCEPT !.current = d.current], kind, id)
<1>1. /\ d.current \in Nat /\ d.directories \subseteq DirectoryRows
      /\ d.files \subseteq NodeIds /\ d.entries \subseteq EntryRows
  BY DEF Databases, NodeIds
<1>2. /\ \A r \in d.directories : r.id # id
      /\ \A f \in d.files : f # id
      /\ \A e \in d.entries : ~(e.kind = kind /\ e.child = id)
  <2>1. (\A r \in d.directories : r.id # id) /\ (\A f \in d.files : f # id)
    BY <1>1 DEF Consistent, IdsGivenOut, DirectoryRows, NodeIds
  <2> QED
    BY <2>1 DEF Consistent, LinksLead, FileExists, Kinds
<1>3. entry \in new.entries \ d.entries
  BY <1>2 DEF WithEntry
<1>4. /\ old.current = d.current
      /\ old.directories = d.directories
      /\ old.files = d.files
      /\ old.entries = d.entries
  <2>1. /\ old.current = d.current
        /\ old.directories = IF kind = "directory" THEN {r \in new.directories : r.id # id}
                                                   ELSE new.directories
        /\ old.files = IF kind = "file" THEN new.files \ {id} ELSE new.files
        /\ old.entries = {e \in new.entries : ~(e.kind = kind /\ e.child = id)}
    BY DEF WithoutNode, WithoutRow, WithoutEntryOf, WithEntry
  <2>2. /\ new.directories = IF kind = "directory"
                             THEN d.directories \cup {[id |-> id, parent |-> parent]}
                             ELSE d.directories
        /\ new.files = IF kind = "file" THEN d.files \cup {id} ELSE d.files
        /\ new.entries = d.entries \cup {entry}
    BY DEF WithEntry, WithNode
  <2>3. entry.kind = kind /\ entry.child = id
    OBVIOUS
  <2> HIDE DEF old, new, entry
  <2>4. old.directories = d.directories
    <3> DEFINE row == [id |-> id, parent |-> parent]
    <3>1. row.id = id
      OBVIOUS
    <3>2. new.directories = IF kind = "directory" THEN d.directories \cup {row}
                                                  ELSE d.directories
      BY <2>2
    <3> HIDE DEF row
    <3> QED
      BY <2>1, <3>1, <3>2, <1>2
  <2>5. old.files = d.files
    BY <2>1, <2>2, <1>2
  <2>6. old.entries = d.entries
    BY <2>1, <2>2, <2>3, <1>2
  <2> QED
    BY <2>1, <2>4, <2>5, <2>6
<1>5. old = [current |-> old.current, directories |-> old.directories,
             files |-> old.files, entries |-> old.entries]
  BY DEF WithoutNode, WithoutEntryOf
<1>6. d = [current |-> d.current, directories |-> d.directories,
           files |-> d.files, entries |-> d.entries]
  BY DEF Databases
<1> HIDE DEF old, new, entry
<1>7. d = old
  BY <1>4, <1>5, <1>6
<1> QED
  BY <1>3, <1>7 DEF old, new, entry

\* What a transaction has read stays true until it ends.
THEOREM TransactionsStayIsolated == Spec => []TransactionsIsolated
<1> DEFINE Isolated(h) ==
               LET r == request[h] IN
               /\ pc[h] = "selected" =>
                     \E e \in EntriesAt(db, r.node, r.name) : e.kind = WantedKind(r.op)
               /\ pc[h] \in {"executed", "committing"} /\ r.op \in CreateOps =>
                     \E e \in work[h].entries \ db.entries :
                        db = WithoutNode([work[h] EXCEPT !.current = db.current], e.kind, e.child)
               /\ pc[h] \in {"executed", "committing"} /\ r.op \in DeleteOps =>
                     \E e \in EntriesAt(db, r.node, r.name) :
                        work[h] = WithoutNode(db, e.kind, e.child)
<1>1. Init => TransactionsIsolated
  BY DEF Init, TransactionsIsolated
<1>2. IInv /\ TransactionsIsolated /\ [Next]_vars => TransactionsIsolated'
  <2> SUFFICES ASSUME IInv, TransactionsIsolated, [Next]_vars, NEW o \in Handlers
               PROVE  Isolated(o)'
    BY DEF TransactionsIsolated
  <2> USE DEF IInv
  <2>1. Isolated(o)
    BY DEF TransactionsIsolated
  \* Neither what the handler has nor the database changes.
  <2>2. CASE UNCHANGED <<db, pc[o], request[o], work[o]>>
    BY <2>1, <2>2
  \* The handler goes where nothing is asked of it.
  <2>3. CASE pc'[o] \notin {"selected", "executed", "committing"}
    BY <2>3
  <2>4. ASSUME NEW h \in Handlers, NEW r \in RequestSet, Receive(h, r)
        PROVE  Isolated(o)'
    BY <2>2, <2>3, <2>4 DEF TypeOK, Receive, Go
  <2>5. ASSUME NEW h \in Handlers, CreateBusy(h)
        PROVE  Isolated(o)'
    BY <2>2, <2>3, <2>5 DEF TypeOK, CreateBusy, Fail, Go
  <2>6. ASSUME NEW h \in Handlers, CreateExecute(h)
        PROVE  Isolated(o)'
    <3>1. CASE o # h
      BY <2>2, <2>6, <3>1 DEF TypeOK, CreateExecute, Fail, Go
    <3>2. CASE o = h /\ pc'[o] # "executed"
      BY <2>3, <2>6, <3>2 DEF TypeOK, CreateExecute, Fail, Go
    <3>3. CASE o = h /\ pc'[o] = "executed"
      <4> DEFINE r == request[h]
                 kind == WantedKind(r.op)
                 id == NextAvailableId(db)
                 entry == [parent |-> r.node, name |-> r.name, kind |-> kind, child |-> id]
                 new == WithEntry(WithNode(db, id, kind, r.node), entry)
      <4>1. work'[h] = new /\ db' = db /\ request' = request /\ r.op \in CreateOps
        BY <2>6, <3>3 DEF TypeOK, CreateExecute, Fail, Go
      <4>2. db \in Databases /\ Consistent(db) /\ kind \in Kinds /\ id = db.current + 1
        BY NextAvailableIdIsSuccessor DEF TypeOK, TreeConsistent, Consistent, WantedKind, Kinds
      <4>3. /\ entry \in new.entries \ db.entries
            /\ db = WithoutNode([new EXCEPT !.current = db.current], kind, id)
        BY <4>2, CreateIsUndone
      <4>4. entry.kind = kind /\ entry.child = id
        OBVIOUS
      <4>5. r.op \notin DeleteOps
        BY <4>1 DEF CreateOps, DeleteOps
      <4> HIDE DEF entry, new, kind, id
      <4> QED
        BY <3>3, <4>1, <4>3, <4>4, <4>5
    <3> QED
      BY <3>1, <3>2, <3>3
  <2>7. ASSUME NEW h \in Handlers, DeleteSelect(h)
        PROVE  Isolated(o)'
    <3>1. CASE o # h
      BY <2>2, <2>7, <3>1 DEF TypeOK, DeleteSelect, Fail, Go
    <3>2. CASE o = h
      BY <2>7, <3>2 DEF TypeOK, DeleteSelect, Fail, Go
    <3> QED
      BY <3>1, <3>2
  <2>8. ASSUME NEW h \in Handlers, DeleteExecute(h)
        PROVE  Isolated(o)'
    <3>1. CASE o # h
      BY <2>2, <2>8, <3>1 DEF TypeOK, DeleteExecute, Fail, Go
    <3>2. CASE o = h
      <4>1. request[h].op \in DeleteOps /\ request[h].op \notin CreateOps
        BY <2>8 DEF RequestsFit, DeleteExecute, CreateOps, DeleteOps
      <4> QED
        BY <2>8, <3>2, <4>1 DEF TypeOK, DeleteExecute, Fail, Go
    <3> QED
      BY <3>1, <3>2
  <2>9. ASSUME NEW h \in Handlers, CommitBegin(h)
        PROVE  Isolated(o)'
    BY <2>1, <2>9 DEF TypeOK, CommitBegin, Go
  <2>10. ASSUME NEW h \in Handlers, CommitEnd(h)
         PROVE  Isolated(o)'
    BY <2>3, <2>10 DEF TypeOK, LocksExclude, LocksFit, CommitEnd, Go
  <2>11. ASSUME NEW h \in Handlers, CommitBusy(h) \/ Rollback(h)
         PROVE  Isolated(o)'
    BY <2>2, <2>3, <2>11 DEF TypeOK, CommitBusy, Rollback, Go
  <2>12. ASSUME NEW h \in Handlers, Reading(h) \/ Respond(h)
         PROVE  Isolated(o)'
    BY <2>2, <2>3, <2>12
    DEF TypeOK, Reading, SelectBusy, SelectFile, SelectDirectory, SelectEntries, Selecting,
        SelectEnd, ReadEnd, Respond, Go
  <2>13. CASE Crash
    BY <2>3, <2>13 DEF Crash
  <2>14. CASE UNCHANGED vars
    BY <2>2, <2>14 DEF vars
  <2> QED
    BY <2>4, <2>5, <2>6, <2>7, <2>8, <2>9, <2>10, <2>11, <2>12, <2>13, <2>14
    DEF Next, Handle, Transaction
<1> QED
  BY <1>1, <1>2, Invariance, PTL DEF Spec

=============================================================================
