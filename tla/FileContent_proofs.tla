------------------------- MODULE FileContent_proofs ------------------------
(***************************************************************************)
(* Theorems about FileContent, for every set of writers, readers, files,   *)
(* bodies and inodes, and for every order in which the blocking pool ends  *)
(* its tasks.                                                              *)
(*                                                                         *)
(* Nothing ever takes a file out of files/, so a hash stays good once its  *)
(* file has been moved there; and a transaction that waits for its move    *)
(* has RESERVED, so the row stays as its UPDATE found it.                  *)
(*                                                                         *)
(* Then come the locks of the files and what a request waits for, and last *)
(* UploadHistory: what is under the hash of a row is whole, but for what   *)
(* an earlier upload, a late rename or a crash has done to it.             *)
(***************************************************************************)
EXTENDS UploadHistory, TLAPS

\* What a writer has, given where it is.
PlacesFit ==
    \A w \in Writers :
        /\ IF InProgress(w) THEN wants[w] \in Ids ELSE wants[w] = None
        /\ pc[w] = "answered" <=> status[w] # "none"

\* A transaction that waits for its move has RESERVED and the row it has found.
RowsStay ==
    \A w \in Writers : pc[w] \in {"moving", "moved"} =>
        /\ reserved = w
        /\ stored[wants[w]] = prev[w]

\* A late rename belongs to a request that is over; the others move the body of
\* the request that waits for them.
RenamesFit ==
    \A i \in DOMAIN tasks : tasks[i].op = "rename" =>
        LET w == tasks[i].by IN
        /\ pc[w] \notin {"locking", "locked", "opening", "streaming"}
        /\ pc[w] = "moving" => tasks[i].to = body[w]

\* What has been moved is there.
MovedIsThere == \A w \in Writers : pc[w] = "moved" => files[body[w]] # None

IInv ==
    /\ TypeOK
    /\ PlacesFit
    /\ RowsStay
    /\ RenamesFit
    /\ MovedIsThere
    /\ DatabaseLockIsReleased
    /\ CommittedHaveContent
    /\ ReadersFindTheFile

-----------------------------------------------------------------------------
(* Tasks of the blocking pool *)

\* The fields of each kind of task.
LEMMA TaskFields ==
    ASSUME NEW t \in Tasks
    PROVE  /\ t.by \in Writers
           /\ t.op \in {"open", "remove", "rename", "write"}
           /\ t.op \in {"open", "remove", "rename"} => t.id \in Ids
           /\ t.op = "rename" => t.to \in Contents
           /\ t.op = "write" => t.inode \in Inodes /\ t.pos \in Nat /\ t.block \in Blocks
<1>1. CASE t \in [op : {"open", "remove"}, by : Writers, id : Ids]
  BY <1>1
<1>2. CASE t \in [op : {"rename"}, by : Writers, id : Ids, to : Contents]
  BY <1>2
<1>3. CASE t \in [op : {"write"}, by : Writers, inode : Inodes, pos : Nat, block : Blocks]
  BY <1>3
<1> QED
  BY <1>1, <1>2, <1>3 DEF Tasks

\* When a task is done the others remain.
LEMMA RestRemains ==
    ASSUME tasks \in Seq(Tasks), NEW i \in DOMAIN tasks
    PROVE  /\ Rest(i) \in Seq(Tasks)
           /\ \A j \in DOMAIN Rest(i) : \E k \in DOMAIN tasks : Rest(i)[j] = tasks[k]
<1>1. Len(tasks) \in Nat /\ Len(tasks) # 0 /\ i \in 1..Len(tasks) /\ DOMAIN tasks = 1..Len(tasks)
  OBVIOUS
<1>2. \A j \in 1..Len(tasks) - 1 : (IF j < i THEN j ELSE j + 1) \in DOMAIN tasks
  BY <1>1
<1>3. Rest(i) \in [1..Len(tasks) - 1 -> Tasks] /\ Len(tasks) - 1 \in Nat
  BY <1>1, <1>2 DEF Rest
<1>4. Rest(i) \in Seq(Tasks)
  BY <1>3
<1>5. \A j \in DOMAIN Rest(i) : \E k \in DOMAIN tasks : Rest(i)[j] = tasks[k]
  BY <1>2 DEF Rest
<1> QED
  BY <1>4, <1>5

\* The end of a request adds no more than a removal.
LEMMA DroppedAdds ==
    ASSUME TypeOK, NEW w \in Writers, wants[w] \in Ids,
           NEW STATE queue, queue \in Seq(Tasks), NEW moved \in BOOLEAN
    PROVE  /\ queue \o Dropped(w, moved) \in Seq(Tasks)
           /\ \A j \in DOMAIN (queue \o Dropped(w, moved)) :
                 \/ \E k \in DOMAIN queue : (queue \o Dropped(w, moved))[j] = queue[k]
                 \/ (queue \o Dropped(w, moved))[j].op = "remove"
<1> DEFINE removal == [op |-> "remove", by |-> w, id |-> wants[w]]
<1>1. removal \in Tasks /\ removal.op = "remove"
  BY DEF Tasks
<1>2. CASE Dropped(w, moved) = <<>>
  BY <1>2
<1>3. CASE Dropped(w, moved) = <<removal>>
  <2> HIDE DEF removal
  <2>1. queue \o <<removal>> \in Seq(Tasks) /\ Len(queue \o <<removal>>) = Len(queue) + 1
    BY <1>1
  <2>2. \A j \in 1..Len(queue) + 1 : (queue \o <<removal>>)[j] = IF j <= Len(queue) THEN queue[j] ELSE removal
    BY <1>1
  <2> QED
    BY <1>1, <1>3, <2>1, <2>2
<1> QED
  BY <1>2, <1>3 DEF Dropped

-----------------------------------------------------------------------------
(* Each action keeps the invariant. *)

\* The initial state satisfies the invariant.
LEMMA InitHolds == Init => IInv
<1> SUFFICES ASSUME Init PROVE IInv
  OBVIOUS
<1> USE ConstantsAssumption DEF Init
<1>1. tasks \in Seq(Tasks) /\ \A i \in Inodes : bytes[i] \in Seq(Blocks)
  OBVIOUS
<1>2. wants = [w \in Writers |-> None] /\ holder = [id \in Ids |-> None]
  BY DEF L!Init
<1>3. TypeOK
  BY <1>1, <1>2 DEF TypeOK, PCs, Statuses, Contents
<1>4. PlacesFit /\ RowsStay /\ MovedIsThere /\ RenamesFit
  BY <1>2 DEF PlacesFit, RowsStay, MovedIsThere, RenamesFit, InProgress
<1>5. DatabaseLockIsReleased /\ CommittedHaveContent /\ ReadersFindTheFile
  BY DEF DatabaseLockIsReleased, CommittedHaveContent, ReadersFindTheFile
<1> QED
  BY <1>3, <1>4, <1>5 DEF IInv

\* The lock of a file is given up.
LEMMA LockLeft ==
    ASSUME TypeOK, NEW w \in Writers, L!Leave(w)
    PROVE  /\ wants' = [wants EXCEPT ![w] = None]
           /\ wants' \in [Writers -> Ids \cup {None}]
           /\ holder' \in [Ids -> Writers \cup {None}]
BY DEF TypeOK, L!Leave

\* The end of a request, with its row replaced or not: what others have moved,
\* seen or reserved stays as it was.
LEMMA LeaveKeeps ==
    ASSUME IInv, NEW w \in Writers, InProgress(w),
           NEW STATE queue, queue \in Seq(Tasks),
           \A j \in DOMAIN queue : \E k \in DOMAIN tasks : queue[j] = tasks[k],
           NEW moved \in BOOLEAN,
           NEW place \in {"idle", "answered"}, NEW s \in Statuses,
           place = "answered" <=> s # "none",
           Go(w, place), status' = [status EXCEPT ![w] = s], Leave(w, queue, moved),
           UNCHANGED disk,
           \/ UNCHANGED stored
           \/ pc[w] = "moved" /\ stored' = [stored EXCEPT ![wants[w]] = body[w]]
    PROVE  IInv'
<1> USE ConstantsAssumption DEF IInv
<1>1. wants[w] \in Ids
  BY DEF PlacesFit
<1>2. /\ pc' = [pc EXCEPT ![w] = place]
      /\ tasks' = queue \o Dropped(w, moved)
      /\ reserved' = IF reserved = w THEN None ELSE reserved
      /\ wants' = [wants EXCEPT ![w] = None]
      /\ prev' = [prev EXCEPT ![w] = Empty]
      /\ body' = [body EXCEPT ![w] = Empty]
      /\ sent' = [sent EXCEPT ![w] = 0]
      /\ handle' = [handle EXCEPT ![w] = None]
      /\ UNCHANGED <<seen, uploads, files, bytes>>
  BY LockLeft DEF Leave, Released, Go, disk
<1>3. TypeOK'
  <2>1. /\ wants' \in [Writers -> Ids \cup {None}]
        /\ holder' \in [Ids -> Writers \cup {None}]
    BY LockLeft DEF Leave
  <2>2. tasks' \in Seq(Tasks)
    BY <1>1, <1>2, DroppedAdds
  <2>3. stored' \in [Ids -> Contents \cup {Gone}]
    BY DEF TypeOK
  <2> QED
    BY <1>2, <2>1, <2>2, <2>3 DEF TypeOK, PCs, Contents
<1>4. PlacesFit'
  BY <1>2 DEF PlacesFit, TypeOK, InProgress
<1>5. reserved = w \/ ~(pc[w] \in {"moving", "moved"})
  BY DEF RowsStay
<1>6. RowsStay'
  <2> SUFFICES ASSUME NEW u \in Writers, pc'[u] \in {"moving", "moved"}
               PROVE  reserved' = u /\ stored'[wants'[u]] = prev'[u]
    BY DEF RowsStay
  <2>1. u # w /\ pc[u] \in {"moving", "moved"}
    BY <1>2 DEF TypeOK
  <2>2. reserved = u /\ stored[wants[u]] = prev[u]
    BY <2>1 DEF RowsStay
  <2>3. stored' = stored
    BY <1>5, <2>1, <2>2
  <2> QED
    BY <1>2, <2>1, <2>2, <2>3 DEF TypeOK
<1>7. DatabaseLockIsReleased'
  BY <1>2 DEF DatabaseLockIsReleased, TypeOK
<1>8. RenamesFit'
  <2> SUFFICES ASSUME NEW j \in DOMAIN tasks', tasks'[j].op = "rename"
               PROVE  /\ pc'[tasks'[j].by] \notin {"locking", "locked", "opening", "streaming"}
                      /\ pc'[tasks'[j].by] = "moving" => tasks'[j].to = body'[tasks'[j].by]
    BY DEF RenamesFit
  <2>. j \in DOMAIN (queue \o Dropped(w, moved)) /\ tasks'[j] = (queue \o Dropped(w, moved))[j]
    BY <1>2
  <2>0. \E k \in DOMAIN queue : tasks'[j] = queue[k]
    BY <1>1, DroppedAdds
  <2>1. PICK k \in DOMAIN tasks : tasks'[j] = tasks[k]
    BY <2>0
  <2>2. tasks[k].by \in Writers
    BY TaskFields DEF TypeOK
  <2> QED
    BY <1>2, <2>1, <2>2 DEF RenamesFit, TypeOK
<1>9. MovedIsThere'
  BY <1>2 DEF MovedIsThere, TypeOK
<1>10. CommittedHaveContent' /\ ReadersFindTheFile'
  BY <1>1, <1>2 DEF CommittedHaveContent, ReadersFindTheFile, MovedIsThere, TypeOK
<1> QED
  BY <1>3, <1>4, <1>6, <1>7, <1>8, <1>9, <1>10

\* A request that is new to a writer has no task in the blocking pool.
LEMMA ReceiveKeeps ==
    ASSUME IInv, NEW w \in Writers, NEW id \in Ids, NEW p \in Contents, NEW b \in Bodies,
           Receive(w, id, p, b)
    PROVE  IInv'
<1> USE ConstantsAssumption DEF IInv
<1>1. /\ pc[w] = "idle" /\ pc' = [pc EXCEPT ![w] = "locking"]
      /\ wants' = [wants EXCEPT ![w] = id]
      /\ prev' = [prev EXCEPT ![w] = p]
      /\ body' = [body EXCEPT ![w] = b]
      /\ UNCHANGED <<stored, reserved, uploads, files, bytes, tasks, holder, sent, handle, status, seen>>
      /\ \A i \in DOMAIN tasks : tasks[i].by # w
  BY DEF Receive, Go, L!Ask, db, disk
<1>2. TypeOK'
  BY <1>1 DEF TypeOK, PCs, Contents
<1>3. PlacesFit' /\ RowsStay' /\ MovedIsThere'
  BY <1>1 DEF PlacesFit, RowsStay, MovedIsThere, TypeOK, InProgress
<1>4. RenamesFit'
  BY <1>1, TaskFields DEF RenamesFit, TypeOK
<1>5. DatabaseLockIsReleased' /\ CommittedHaveContent' /\ ReadersFindTheFile'
  BY <1>1 DEF DatabaseLockIsReleased, CommittedHaveContent, ReadersFindTheFile, TypeOK
<1> QED
  BY <1>2, <1>3, <1>4, <1>5

\* Getting the lock of a file touches nothing else.
LEMMA LockKeeps ==
    ASSUME IInv, NEW w \in Writers, Lock(w)
    PROVE  IInv'
<1> USE ConstantsAssumption DEF IInv
<1>1. /\ pc[w] = "locking" /\ pc' = [pc EXCEPT ![w] = "locked"]
      /\ holder' = [holder EXCEPT ![wants[w]] = w]
      /\ UNCHANGED <<stored, reserved, uploads, files, bytes, tasks, wants, prev, body, sent,
                     handle, status, seen>>
  BY DEF Lock, Go, L!Grant, db, disk, input
<1>2. TypeOK'
  BY <1>1 DEF TypeOK, PCs
<1>3. PlacesFit' /\ RowsStay' /\ MovedIsThere'
  BY <1>1 DEF PlacesFit, RowsStay, MovedIsThere, TypeOK, InProgress
<1>4. RenamesFit'
  BY <1>1, TaskFields DEF RenamesFit, TypeOK
<1>5. DatabaseLockIsReleased' /\ CommittedHaveContent' /\ ReadersFindTheFile'
  BY <1>1 DEF DatabaseLockIsReleased, CommittedHaveContent, ReadersFindTheFile, TypeOK
<1> QED
  BY <1>2, <1>3, <1>4, <1>5

\* A new task is the last.
LEMMA AppendAdds ==
    ASSUME tasks \in Seq(Tasks), NEW STATE t, t \in Tasks
    PROVE  /\ Append(tasks, t) \in Seq(Tasks)
           /\ \A j \in DOMAIN Append(tasks, t) :
                 \/ j \in DOMAIN tasks /\ Append(tasks, t)[j] = tasks[j]
                 \/ Append(tasks, t)[j] = t
OBVIOUS

\* A writer whose body is under way gives the pool a task that is no rename, and
\* goes from one place to another outside of its transaction.
LEMMA SpawnKeeps ==
    ASSUME IInv, NEW w \in Writers, NEW STATE t, t \in Tasks, t.op # "rename",
           tasks' = Append(tasks, t),
           NEW place \in {"opening", "streaming"}, pc[w] \in {"locked", "streaming"},
           place = "streaming" => pc[w] = "streaming",
           Go(w, place), sent' \in [Writers -> Nat],
           UNCHANGED <<db, disk, lockVars, prev, body, handle, status, seen>>
    PROVE  IInv'
<1> USE ConstantsAssumption DEF IInv
<1>1. /\ pc' = [pc EXCEPT ![w] = place]
      /\ UNCHANGED <<stored, reserved, uploads, files, bytes, wants, holder, prev, body, handle,
                     status, seen>>
  BY DEF Go, db, disk, lockVars
<1>2. TypeOK'
  <2>1. tasks' \in Seq(Tasks)
    BY AppendAdds DEF TypeOK
  <2> QED
    BY <1>1, <2>1 DEF TypeOK, PCs
<1>3. PlacesFit' /\ RowsStay' /\ MovedIsThere'
  BY <1>1 DEF PlacesFit, RowsStay, MovedIsThere, TypeOK, InProgress
<1>4. RenamesFit'
  <2> SUFFICES ASSUME NEW j \in DOMAIN tasks', tasks'[j].op = "rename"
               PROVE  /\ pc'[tasks'[j].by] \notin {"locking", "locked", "opening", "streaming"}
                      /\ pc'[tasks'[j].by] = "moving" => tasks'[j].to = body'[tasks'[j].by]
    BY DEF RenamesFit
  <2>1. j \in DOMAIN tasks /\ tasks'[j] = tasks[j]
    BY AppendAdds DEF TypeOK
  <2>2. tasks[j].by \in Writers
    BY <2>1, TaskFields DEF TypeOK
  <2> QED
    BY <1>1, <2>1, <2>2 DEF RenamesFit, TypeOK
<1>5. DatabaseLockIsReleased' /\ CommittedHaveContent' /\ ReadersFindTheFile'
  BY <1>1 DEF DatabaseLockIsReleased, CommittedHaveContent, ReadersFindTheFile, TypeOK
<1> QED
  BY <1>2, <1>3, <1>4, <1>5

\* The upload is opened.
LEMMA CheckKeeps ==
    ASSUME IInv, NEW w \in Writers, Check(w)
    PROVE  IInv'
<1> DEFINE t == [op |-> "open", by |-> w, id |-> wants[w]]
<1>1. wants[w] \in Ids
  BY DEF IInv, PlacesFit, Check, InProgress
<1>2. t \in Tasks /\ t.op # "rename"
  BY <1>1 DEF Tasks
<1>3. tasks' = Append(tasks, t) /\ pc[w] = "locked" /\ Go(w, "opening")
  BY DEF Check
<1>4. sent' \in [Writers -> Nat] /\ UNCHANGED <<db, disk, lockVars, prev, body, handle, status, seen>>
  BY DEF Check, IInv, TypeOK, input
<1> HIDE DEF t
<1> QED
  BY <1>2, <1>3, <1>4, SpawnKeeps

\* The next block is given to the pool as a task.
LEMMA BlockIsTask ==
    ASSUME IInv, NEW w \in Writers, WriteBlock(w)
    PROVE  \E t \in Tasks :
              /\ t.op = "write" /\ t.by = w /\ t.inode = handle[w]
              /\ t.pos = sent[w] + 1 /\ t.block = body[w][sent[w] + 1]
              /\ tasks' = Append(tasks, t)
<1> DEFINE n == sent[w] + 1
           t == [op |-> "write", by |-> w, inode |-> handle[w], pos |-> n, block |-> body[w][n]]
<1>1. pc[w] = "streaming" /\ sent[w] < Len(body[w]) /\ sent[w] \in Nat /\ handle[w] \in Inodes
  BY DEF WriteBlock, IInv, TypeOK
<1>2. body[w] \in Bodies
  BY <1>1 DEF IInv, TypeOK, Contents, Empty
<1>3. n \in DOMAIN body[w]
  BY <1>1, <1>2, ConstantsAssumption
<1>4. body[w][n] \in Blocks /\ n \in Nat
  BY <1>1, <1>2, <1>3 DEF Blocks
<1>5. /\ t \in Tasks /\ t.op = "write" /\ t.by = w /\ t.inode = handle[w]
      /\ t.pos = sent[w] + 1 /\ t.block = body[w][sent[w] + 1]
  BY <1>1, <1>4 DEF Tasks
<1>6. tasks' = Append(tasks, t)
  BY DEF WriteBlock
<1> HIDE DEF t
<1> QED
  BY <1>5, <1>6

\* A block of the body is written.
LEMMA WriteBlockKeeps ==
    ASSUME IInv, NEW w \in Writers, WriteBlock(w)
    PROVE  IInv'
<1>1. PICK t \in Tasks : t.op = "write" /\ tasks' = Append(tasks, t)
  BY BlockIsTask
<1>2. pc[w] = "streaming" /\ sent' \in [Writers -> Nat] /\ Go(w, "streaming")
  BY DEF WriteBlock, IInv, TypeOK, Go
<1>3. UNCHANGED <<db, disk, lockVars, prev, body, handle, status, seen>>
  BY DEF WriteBlock
<1>4. t.op # "rename"
  BY <1>1
<1> QED
  BY <1>1, <1>2, <1>3, <1>4, SpawnKeeps

\* The UPDATE finds no other transaction, and leaves the row to the commit.
LEMMA UpdateKeeps ==
    ASSUME IInv, NEW w \in Writers, Update(w)
    PROVE  IInv'
<1> USE ConstantsAssumption DEF IInv
<1> DEFINE t == [op |-> "rename", by |-> w, id |-> wants[w], to |-> body[w]]
<1>1. /\ pc[w] = "streaming" /\ pc' = [pc EXCEPT ![w] = "moving"]
      /\ reserved = None /\ reserved' = w /\ stored[wants[w]] = prev[w]
      /\ UNCHANGED <<stored, uploads, files, bytes, wants, holder, prev, body, sent, handle,
                     status, seen>>
  BY DEF Update, BodyEnded, Matches, Go, disk, lockVars, input
<1>2. t \in Tasks /\ t.op = "rename" /\ t.by = w /\ t.to = body[w]
  <2>1. wants[w] \in Ids /\ body[w] \in Contents
    BY <1>1 DEF PlacesFit, InProgress, TypeOK
  <2> QED
    BY <2>1 DEF Tasks
<1>3. tasks' = Append(tasks, t)
  BY DEF Update
<1> HIDE DEF t
<1>4. TypeOK'
  <2>1. tasks' \in Seq(Tasks)
    BY <1>2, <1>3, AppendAdds DEF TypeOK
  <2> QED
    BY <1>1, <2>1 DEF TypeOK, PCs
<1>5. RowsStay'
  BY <1>1 DEF RowsStay, TypeOK
<1>6. RenamesFit'
  <2> SUFFICES ASSUME NEW j \in DOMAIN tasks', tasks'[j].op = "rename"
               PROVE  /\ pc'[tasks'[j].by] \notin {"locking", "locked", "opening", "streaming"}
                      /\ pc'[tasks'[j].by] = "moving" => tasks'[j].to = body'[tasks'[j].by]
    BY DEF RenamesFit
  <2>1. CASE tasks'[j] = t
    BY <1>1, <1>2, <2>1 DEF TypeOK
  <2>2. CASE j \in DOMAIN tasks /\ tasks'[j] = tasks[j]
    <3>1. tasks[j].by \in Writers /\ tasks[j].by # w
      BY <1>1, <2>2, TaskFields DEF RenamesFit, TypeOK
    <3> QED
      BY <1>1, <2>2, <3>1 DEF RenamesFit, TypeOK
  <2> QED
    BY <1>2, <1>3, <2>1, <2>2, AppendAdds DEF TypeOK
<1>7. PlacesFit' /\ MovedIsThere'
  BY <1>1 DEF PlacesFit, MovedIsThere, TypeOK, InProgress
<1>8. DatabaseLockIsReleased' /\ CommittedHaveContent' /\ ReadersFindTheFile'
  BY <1>1 DEF DatabaseLockIsReleased, CommittedHaveContent, ReadersFindTheFile, TypeOK
<1> QED
  BY <1>4, <1>5, <1>6, <1>7, <1>8

\* The client has its answer.
LEMMA RespondKeeps ==
    ASSUME IInv, NEW w \in Writers, Respond(w)
    PROVE  IInv'
<1> USE ConstantsAssumption DEF IInv
<1>1. /\ pc[w] = "answered" /\ pc' = [pc EXCEPT ![w] = "idle"]
      /\ status' = [status EXCEPT ![w] = "none"]
      /\ UNCHANGED <<stored, reserved, uploads, files, bytes, tasks, wants, holder, prev, body, sent,
                     handle, seen>>
  BY DEF Respond, Go, db, disk, lockVars, input
<1>2. TypeOK'
  BY <1>1 DEF TypeOK, PCs, Statuses
<1>3. PlacesFit' /\ RowsStay' /\ MovedIsThere'
  BY <1>1 DEF PlacesFit, RowsStay, MovedIsThere, TypeOK, InProgress
<1>4. RenamesFit'
  BY <1>1, TaskFields DEF RenamesFit, TypeOK
<1>5. DatabaseLockIsReleased' /\ CommittedHaveContent' /\ ReadersFindTheFile'
  BY <1>1 DEF DatabaseLockIsReleased, CommittedHaveContent, ReadersFindTheFile, TypeOK
<1> QED
  BY <1>2, <1>3, <1>4, <1>5

\* The requests that end without a task of the blocking pool.
LEMMA RequestEndsKeeps ==
    ASSUME IInv, NEW w \in Writers,
           CheckFails(w) \/ UploadFails(w) \/ UpdateFails(w) \/ Commit(w) \/ CommitFails(w) \/ Cancel(w)
    PROVE  IInv'
<1>1. /\ tasks \in Seq(Tasks)
      /\ \A j \in DOMAIN tasks : \E k \in DOMAIN tasks : tasks[j] = tasks[k]
  BY DEF IInv, TypeOK
<1>2. ASSUME NEW s \in Statuses \ {"none"}, InProgress(w), Refuse(w, s)
      PROVE  IInv'
  BY <1>1, <1>2, LeaveKeeps DEF Refuse, Answer
<1>3. CASE CheckFails(w) \/ UploadFails(w) \/ UpdateFails(w)
  BY <1>2, <1>3 DEF CheckFails, UploadFails, UpdateFails, BodyEnded, InProgress, Statuses
<1>4. CASE Commit(w) \/ CommitFails(w)
  <2>1. PICK s \in {"NoContent", "Locked"} : Answer(w, s, tasks, TRUE)
    BY <1>4 DEF Commit, CommitFails
  <2>2. pc[w] = "moved" /\ UNCHANGED disk
    BY <1>4 DEF Commit, CommitFails
  <2>3. UNCHANGED stored \/ stored' = [stored EXCEPT ![wants[w]] = body[w]]
    BY <1>4 DEF Commit, CommitFails
  <2>4. InProgress(w) /\ s \in Statuses /\ s # "none"
    BY <2>2 DEF InProgress, Statuses
  <2> QED
    BY <1>1, <2>1, <2>2, <2>3, <2>4, LeaveKeeps DEF Answer
<1>5. CASE Cancel(w)
  <2>1. InProgress(w) /\ Go(w, "idle") /\ Leave(w, tasks, FALSE) /\ UNCHANGED <<stored, disk, status>>
    BY <1>5 DEF Cancel, InProgress
  <2>2. status' = [status EXCEPT ![w] = "none"]
    BY <2>1 DEF IInv, TypeOK, PlacesFit, InProgress
  <2>3. "none" \in Statuses
    BY DEF Statuses
  <2> QED
    BY <1>1, <2>1, <2>2, <2>3, LeaveKeeps
<1> QED
  BY <1>3, <1>4, <1>5

\* A task is done: no file goes from files/, and a request that waited for the
\* task goes on.
LEMMA DoneKeeps ==
    ASSUME IInv, NEW i \in DOMAIN tasks, tasks' = Rest(i),
           uploads' \in [Ids -> Inodes \cup {None}],
           files' \in [Contents -> Inodes \cup {None}],
           bytes' \in [Inodes -> Seq(Blocks)],
           handle' \in [Writers -> Inodes \cup {None}],
           pc' \in [Writers -> PCs],
           UNCHANGED <<db, lockVars, input, status, seen>>,
           \A c \in Contents : files[c] # None => files'[c] # None,
           \A u \in Writers : pc[u] \in {"streaming", "moving", "moved"} => handle'[u] = handle[u],
           \A u \in Writers : pc'[u] # pc[u] =>
               \/ pc[u] = "opening" /\ pc'[u] = "streaming" /\ handle'[u] \in Inodes
               \/ pc[u] = "moving" /\ pc'[u] = "moved" /\ files'[body[u]] # None
    PROVE  IInv'
<1> USE ConstantsAssumption DEF IInv
<1>1. UNCHANGED <<stored, reserved, wants, holder, prev, body, sent, status, seen>>
  BY DEF db, lockVars, input
<1>2. TypeOK'
  <2>1. tasks' \in Seq(Tasks)
    BY RestRemains DEF TypeOK
  <2>2. \A w \in Writers : pc'[w] \in {"streaming", "moving", "moved"} => handle'[w] \in Inodes
    BY DEF TypeOK
  <2> QED
    BY <1>1, <2>1, <2>2 DEF TypeOK
<1>3. PlacesFit' /\ RowsStay' /\ DatabaseLockIsReleased'
  BY <1>1 DEF PlacesFit, RowsStay, DatabaseLockIsReleased, TypeOK, InProgress, PCs
<1>4. RenamesFit'
  <2> SUFFICES ASSUME NEW j \in DOMAIN tasks', tasks'[j].op = "rename"
               PROVE  /\ pc'[tasks'[j].by] \notin {"locking", "locked", "opening", "streaming"}
                      /\ pc'[tasks'[j].by] = "moving" => tasks'[j].to = body'[tasks'[j].by]
    BY DEF RenamesFit
  <2>1. PICK k \in DOMAIN tasks : tasks'[j] = tasks[k]
    BY RestRemains DEF TypeOK
  <2>2. tasks[k].by \in Writers
    BY TaskFields DEF TypeOK
  <2> QED
    BY <1>1, <2>1, <2>2 DEF RenamesFit, TypeOK
<1>5. MovedIsThere'
  BY <1>1 DEF MovedIsThere, TypeOK
<1>6. CommittedHaveContent' /\ ReadersFindTheFile'
  BY <1>1 DEF CommittedHaveContent, ReadersFindTheFile, TypeOK
<1> QED
  BY <1>2, <1>3, <1>4, <1>5, <1>6

\* The fields of the task that is done.
LEMMA TaskAt ==
    ASSUME TypeOK, NEW i \in DOMAIN tasks
    PROVE  tasks[i] \in Tasks
BY DEF TypeOK

\* An upload is opened; or nobody waits for that any more, or it cannot be.
LEMMA RunOpenKeeps ==
    ASSUME IInv, NEW i \in DOMAIN tasks, RunOpen(i)
    PROVE  IInv'
<1> DEFINE t == tasks[i]
<1> USE ConstantsAssumption
<1>1. t \in Tasks /\ t.op = "open" /\ t.by \in Writers /\ t.id \in Ids /\ TypeOK
  BY TaskAt, TaskFields DEF RunOpen, IInv
<1>2. Rest(i) \in Seq(Tasks) /\ \A j \in DOMAIN Rest(i) : \E k \in DOMAIN tasks : Rest(i)[j] = tasks[k]
  BY <1>1, RestRemains DEF TypeOK
<1>3. ASSUME NEW inode \in Opened(t.id),
             uploads' = [uploads EXCEPT ![t.id] = inode],
             bytes' = IF uploads[t.id] = None THEN [bytes EXCEPT ![inode] = <<>>] ELSE bytes,
             tasks' = Rest(i),
             \/ Awaited(t, "opening") /\ handle' = [handle EXCEPT ![t.by] = inode] /\ Go(t.by, "streaming")
             \/ ~Awaited(t, "opening") /\ UNCHANGED <<handle, pc>>,
             UNCHANGED <<db, files, lockVars, input, status, seen>>
      PROVE  IInv'
  <2>1. inode \in Inodes
    BY <1>1 DEF Opened, Free, TypeOK
  <2>2. uploads' \in [Ids -> Inodes \cup {None}] /\ bytes' \in [Inodes -> Seq(Blocks)]
    BY <1>1, <1>3, <2>1 DEF TypeOK
  <2>3. files' \in [Contents -> Inodes \cup {None}] /\ UNCHANGED files
    BY <1>1, <1>3 DEF TypeOK
  <2>4. /\ handle' \in [Writers -> Inodes \cup {None}]
        /\ pc' \in [Writers -> PCs]
        /\ \A u \in Writers : pc[u] \in {"streaming", "moving", "moved"} => handle'[u] = handle[u]
        /\ \A u \in Writers : pc'[u] # pc[u] =>
               pc[u] = "opening" /\ pc'[u] = "streaming" /\ handle'[u] \in Inodes
    <3>1. pc \in [Writers -> PCs] /\ handle \in [Writers -> Inodes \cup {None}]
      BY <1>1 DEF TypeOK
    <3>2. CASE UNCHANGED <<handle, pc>>
      BY <3>1, <3>2
    <3>3. CASE /\ pc[t.by] = "opening" /\ handle' = [handle EXCEPT ![t.by] = inode]
               /\ pc' = [pc EXCEPT ![t.by] = "streaming"]
      BY <1>1, <2>1, <3>1, <3>3 DEF PCs
    <3> QED
      BY <1>3, <3>2, <3>3 DEF Awaited, Go
  <2> QED
    BY <1>3, <2>2, <2>3, <2>4, DoneKeeps
<1>4. CASE /\ Awaited(t, "opening") /\ Answer(t.by, "UploadFailed", Rest(i), FALSE)
           /\ UNCHANGED <<stored, disk>>
  BY <1>1, <1>2, <1>4, LeaveKeeps DEF Awaited, Answer, InProgress, Statuses
<1>5. CASE /\ ~Awaited(t, "opening") /\ tasks' = Rest(i)
           /\ UNCHANGED <<reserved, lockVars, pc, input, handle, status, seen, stored, disk>>
  BY <1>1, <1>5, DoneKeeps DEF TypeOK, db, disk
<1> QED
  BY <1>3, <1>4, <1>5 DEF RunOpen

\* What is written is blocks.
LEMMA RunWriteKeeps ==
    ASSUME IInv, NEW i \in DOMAIN tasks, RunWrite(i)
    PROVE  IInv'
<1> DEFINE t == tasks[i]
<1>1. t.op = "write" /\ t.inode \in Inodes /\ t.pos \in Nat /\ t.block \in Blocks /\ TypeOK
  BY TaskAt, TaskFields DEF RunWrite, IInv
<1>2. bytes' \in [Inodes -> Seq(Blocks)]
  <2>1. ASSUME NEW content \in Seq(Blocks) PROVE Written(content, t.pos, t.block) \in Seq(Blocks)
    <3>1. [content EXCEPT ![t.pos] = t.block] \in Seq(Blocks)
      <4>1. content \in [1..Len(content) -> Blocks] /\ Len(content) \in Nat
        OBVIOUS
      <4>2. [content EXCEPT ![t.pos] = t.block] \in [1..Len(content) -> Blocks]
        BY <1>1, <4>1
      <4> QED
        BY <4>1, <4>2
    <3>2. Append(content, t.block) \in Seq(Blocks)
      BY <1>1
    <3> QED
      BY <3>1, <3>2 DEF Written
  <2>2. bytes' = [bytes EXCEPT ![t.inode] = Written(bytes[t.inode], t.pos, t.block)]
    BY DEF RunWrite
  <2> QED
    BY <1>1, <2>1, <2>2 DEF TypeOK
<1> QED
  BY <1>1, <1>2, DoneKeeps DEF RunWrite, TypeOK

\* A rename that is waited for puts its request's body where it belongs.
LEMMA RunRenameKeeps ==
    ASSUME IInv, NEW i \in DOMAIN tasks, RunRename(i)
    PROVE  IInv'
<1> DEFINE t == tasks[i]
<1> USE ConstantsAssumption
<1>1. t.op = "rename" /\ t.by \in Writers /\ t.id \in Ids /\ t.to \in Contents /\ TypeOK
  BY TaskAt, TaskFields DEF RunRename, IInv
<1>2. Rest(i) \in Seq(Tasks) /\ \A j \in DOMAIN Rest(i) : \E k \in DOMAIN tasks : Rest(i)[j] = tasks[k]
  BY <1>1, RestRemains DEF TypeOK
<1>3. CASE /\ ~Missing(t) /\ files' = Renamed(t) /\ uploads' = [uploads EXCEPT ![t.id] = None]
           /\ tasks' = Rest(i)
           /\ \/ Awaited(t, "moving") /\ Go(t.by, "moved")
              \/ ~Awaited(t, "moving") /\ UNCHANGED pc
           /\ UNCHANGED <<db, bytes, lockVars, input, handle, status, seen>>
  <2>1. files' = [files EXCEPT ![t.to] = uploads[t.id]] /\ uploads[t.id] # None
    BY <1>3 DEF Renamed, Missing
  <2>2. /\ uploads' \in [Ids -> Inodes \cup {None}] /\ files' \in [Contents -> Inodes \cup {None}]
        /\ \A c \in Contents : files[c] # None => files'[c] # None
        /\ files'[t.to] # None
    BY <1>1, <1>3, <2>1 DEF TypeOK
  <2>3. pc[t.by] = "moving" => t.to = body[t.by]
    BY <1>1 DEF IInv, RenamesFit
  <2>4. /\ pc' \in [Writers -> PCs]
        /\ \A u \in Writers : pc'[u] # pc[u] =>
               pc[u] = "moving" /\ pc'[u] = "moved" /\ files'[body[u]] # None
    <3> HIDE DEF t
    <3>1. CASE Awaited(t, "moving") /\ Go(t.by, "moved")
      BY <1>1, <2>2, <2>3, <3>1 DEF TypeOK, Awaited, Go, PCs
    <3>2. CASE UNCHANGED pc
      BY <1>1, <3>2 DEF TypeOK
    <3> QED
      BY <1>3, <3>1, <3>2
  <2> QED
    BY <1>1, <1>3, <2>2, <2>4, DoneKeeps DEF TypeOK
<1>4. CASE /\ Awaited(t, "moving") /\ Answer(t.by, "MoveFailed", Rest(i), FALSE)
           /\ UNCHANGED <<stored, disk>>
  BY <1>1, <1>2, <1>4, LeaveKeeps DEF Awaited, Answer, InProgress, Statuses
<1>5. CASE /\ ~Awaited(t, "moving") /\ tasks' = Rest(i)
           /\ UNCHANGED <<reserved, lockVars, pc, input, handle, status, seen, stored, disk>>
  BY <1>1, <1>5, DoneKeeps DEF TypeOK, db, disk
<1> QED
  BY <1>3, <1>4, <1>5 DEF RunRename

\* Removals are from uploads/ only.
LEMMA RunRemoveKeeps ==
    ASSUME IInv, NEW i \in DOMAIN tasks, RunRemove(i)
    PROVE  IInv'
<1>1. TypeOK /\ uploads' \in [Ids -> Inodes \cup {None}]
  BY DEF RunRemove, IInv, TypeOK
<1> QED
  BY <1>1, DoneKeeps DEF RunRemove, TypeOK

\* What a reader looks up has its file.
LEMMA ReadKeeps ==
    ASSUME IInv, NEW r \in Readers, (\E id \in Ids : ReadLookup(r, id)) \/ ReadOpen(r)
    PROVE  IInv'
<1> USE ConstantsAssumption DEF IInv
<1>1. UNCHANGED <<stored, reserved, uploads, files, bytes, tasks, wants, holder, prev, body, sent, pc,
                  handle, status>>
  BY DEF ReadLookup, ReadOpen, db, disk, lockVars, input
<1>2. PICK c : /\ seen' = [seen EXCEPT ![r] = c]
               /\ c = None \/ (c \in Contents /\ files[c] # None)
  BY DEF ReadLookup, ReadOpen, CommittedHaveContent, TypeOK
<1>3. TypeOK'
  BY <1>1, <1>2 DEF TypeOK
<1>4. PlacesFit' /\ RowsStay' /\ MovedIsThere' /\ RenamesFit'
  BY <1>1 DEF PlacesFit, RowsStay, MovedIsThere, RenamesFit, InProgress
<1>5. DatabaseLockIsReleased' /\ CommittedHaveContent'
  BY <1>1 DEF DatabaseLockIsReleased, CommittedHaveContent
<1>6. ReadersFindTheFile'
  BY <1>1, <1>2 DEF ReadersFindTheFile, TypeOK
<1> QED
  BY <1>3, <1>4, <1>5, <1>6

\* A file is not deleted while a transaction has its row.
LEMMA DeleteKeeps ==
    ASSUME IInv, NEW id \in Ids, DeleteFile(id)
    PROVE  IInv'
<1> USE ConstantsAssumption DEF IInv
<1>1. /\ stored' = [stored EXCEPT ![id] = Gone]
      /\ reserved = None
      /\ UNCHANGED <<reserved, uploads, files, bytes, tasks, wants, holder, prev, body, sent, pc,
                     handle, status, seen>>
  BY DEF DeleteFile, disk, lockVars, input
<1>2. TypeOK'
  BY <1>1 DEF TypeOK
<1>3. RowsStay'
  BY <1>1 DEF RowsStay
<1>4. PlacesFit' /\ MovedIsThere' /\ RenamesFit'
  BY <1>1 DEF PlacesFit, MovedIsThere, RenamesFit, InProgress
<1>5. DatabaseLockIsReleased' /\ CommittedHaveContent' /\ ReadersFindTheFile'
  BY <1>1 DEF DatabaseLockIsReleased, CommittedHaveContent, ReadersFindTheFile, TypeOK
<1> QED
  BY <1>2, <1>3, <1>4, <1>5

\* After a crash there are rows and files.
LEMMA CrashKeeps ==
    ASSUME IInv, Crash
    PROVE  IInv'
<1> USE ConstantsAssumption DEF IInv
<1>1. UNCHANGED <<stored, uploads, files, bytes>>
  BY DEF Crash, disk
<1>2. TypeOK'
  BY <1>1 DEF Crash, TypeOK, PCs, Statuses, Contents
<1>3. PlacesFit' /\ RowsStay' /\ MovedIsThere' /\ RenamesFit'
  BY DEF Crash, PlacesFit, RowsStay, MovedIsThere, RenamesFit, InProgress
<1>4. DatabaseLockIsReleased' /\ CommittedHaveContent' /\ ReadersFindTheFile'
  BY <1>1 DEF Crash, DatabaseLockIsReleased, CommittedHaveContent, ReadersFindTheFile
<1> QED
  BY <1>2, <1>3, <1>4

\* Every step keeps the invariant.
LEMMA StepKeeps == IInv /\ [Next]_vars => IInv'
<1> SUFFICES ASSUME IInv, [Next]_vars PROVE IInv'
  OBVIOUS
<1>1. ASSUME NEW w \in Writers, NEW id \in Ids, NEW p \in Contents, NEW b \in Bodies, Receive(w, id, p, b)
      PROVE  IInv'
  BY <1>1, ReceiveKeeps
<1>2. ASSUME NEW w \in Writers, Lock(w) \/ Work(w) \/ UploadFails(w) \/ Cancel(w)
      PROVE  IInv'
  BY <1>2, LockKeeps, CheckKeeps, WriteBlockKeeps, UpdateKeeps, RespondKeeps, RequestEndsKeeps DEF Work
<1>3. ASSUME NEW i \in DOMAIN tasks, Run(i)
      PROVE  IInv'
  BY <1>3, RunOpenKeeps, RunWriteKeeps, RunRenameKeeps, RunRemoveKeeps DEF Run
<1>4. ASSUME NEW r \in Readers, (\E id \in Ids : ReadLookup(r, id)) \/ ReadOpen(r)
      PROVE  IInv'
  BY <1>4, ReadKeeps
<1>5. ASSUME NEW id \in Ids, DeleteFile(id)
      PROVE  IInv'
  BY <1>5, DeleteKeeps
<1>6. CASE Crash
  BY <1>6, CrashKeeps
<1>7. CASE UNCHANGED vars
  BY <1>7 DEF IInv, TypeOK, PlacesFit, RowsStay, RenamesFit, MovedIsThere, DatabaseLockIsReleased,
              CommittedHaveContent, ReadersFindTheFile, InProgress, vars, db, disk, lockVars, input
<1> QED
  BY <1>1, <1>2, <1>3, <1>4, <1>5, <1>6, <1>7 DEF Next, Serve

\* The inductive invariant.
THEOREM Invariance == Spec => []IInv
BY InitHolds, StepKeeps, PTL DEF Spec

\* Every variable keeps its type, and an upload under way has its file open.
THEOREM TypeCorrect == Spec => []TypeOK
<1>1. IInv => TypeOK
  BY DEF IInv
<1> QED
  BY <1>1, Invariance, PTL

\* A row never names a hash whose file is not there (files.rs:95-97).
THEOREM CommittedContentIsThere == Spec => []CommittedHaveContent
<1>1. IInv => CommittedHaveContent
  BY DEF IInv
<1> QED
  BY <1>1, Invariance, PTL

\* A reader finds the file of the hash it has looked up (files.rs:38, 53).
THEOREM ReadersAreServed == Spec => []ReadersFindTheFile
<1>1. IInv => ReadersFindTheFile
  BY DEF IInv
<1> QED
  BY <1>1, Invariance, PTL

\* RESERVED belongs to a request that waits for its move (files.rs:96).
THEOREM DatabaseLockIsNotLeaked == Spec => []DatabaseLockIsReleased
<1>1. IInv => DatabaseLockIsReleased
  BY DEF IInv
<1> QED
  BY <1>1, Invariance, PTL

-----------------------------------------------------------------------------
(* The steps of a request are one step of the abstract store, or none. *)

\* The requests and answers of the abstract store.
Asked == [w \in Writers |-> IF InProgress(w)
                            THEN [id |-> wants[w], prev |-> prev[w], body |-> body[w]]
                            ELSE None]
Answered == [w \in Writers |-> Plain(status[w])]
AskedWithout(w) == [Asked EXCEPT ![w] = None]
AnsweredWith(w, s) == [Answered EXCEPT ![w] = Plain(s)]

\* A request is no None.
LEMMA AskedIsSome ==
    ASSUME IInv, NEW w \in Writers
    PROVE  /\ InProgress(w) => /\ Asked[w] = [id |-> wants[w], prev |-> prev[w], body |-> body[w]]
                               /\ Asked[w] # None
                               /\ wants[w] \in Ids
                               /\ Answered[w] = "none"
           /\ ~InProgress(w) => Asked[w] = None
<1>1. InProgress(w) => [id |-> wants[w], prev |-> prev[w], body |-> body[w]]
                       \in [id : Ids, prev : Contents, body : Contents]
  BY DEF IInv, TypeOK, PlacesFit
<1>2. InProgress(w) => status[w] = "none"
  BY DEF IInv, PlacesFit, InProgress
<1> QED
  BY <1>1, <1>2, ConstantsAssumption DEF Asked, Answered, Plain, IInv, PlacesFit

\* The store starts with empty files and no requests.
LEMMA InitImplements == Init => Store!Init
BY ConstantsAssumption DEF Init, Store!Init, InProgress, Plain, Contents

\* Steps of a request on its way are not seen.
LEMMA QuietImplements ==
    ASSUME UNCHANGED <<stored, wants, prev, body, status>>,
           \A w \in Writers : InProgress(w)' = InProgress(w)
    PROVE  UNCHANGED Store!vars
<1>1. UNCHANGED Asked
  BY DEF Asked
<1>2. UNCHANGED Answered
  BY DEF Answered, Plain
<1> QED
  BY <1>1, <1>2 DEF Store!vars, Asked, Answered

\* A request arrives.
LEMMA ReceiveImplements ==
    ASSUME IInv, NEW w \in Writers, NEW id \in Ids, NEW p \in Contents, NEW b \in Bodies,
           Receive(w, id, p, b)
    PROVE  Store!Next
<1> DEFINE req == [id |-> id, prev |-> p, body |-> b]
<1>1. /\ pc[w] = "idle" /\ pc' = [pc EXCEPT ![w] = "locking"]
      /\ wants' = [wants EXCEPT ![w] = id]
      /\ prev' = [prev EXCEPT ![w] = p]
      /\ body' = [body EXCEPT ![w] = b]
      /\ UNCHANGED <<stored, status>>
  BY DEF Receive, Go, L!Ask, db
<1>2. /\ pc \in [Writers -> PCs] /\ wants \in [Writers -> Ids \cup {None}]
      /\ prev \in [Writers -> Contents] /\ body \in [Writers -> Contents]
      /\ status[w] = "none"
  BY <1>1 DEF IInv, TypeOK, PlacesFit
<1>3. Asked' = [Asked EXCEPT ![w] = req]
  BY <1>1, <1>2 DEF Asked, InProgress
<1>4. UNCHANGED Answered
  BY <1>1 DEF Answered, Plain
<1>5. Asked[w] = None /\ Answered[w] = "none"
  BY <1>1, <1>2 DEF Asked, InProgress, Answered, Plain
<1>6. req \in Store!Requests
  BY DEF Store!Requests, Contents
<1>7. Store!Call(w, req)
  BY <1>1, <1>3, <1>4, <1>5 DEF Store!Call, Asked, Answered
<1> HIDE DEF req
<1> QED
  BY <1>6, <1>7 DEF Store!Next

\* A request ends.
LEMMA LeaveImplements ==
    ASSUME IInv, NEW w \in Writers, InProgress(w),
           NEW STATE queue, NEW moved \in BOOLEAN,
           NEW place \in {"idle", "answered"}, NEW s \in Statuses,
           Go(w, place), status' = [status EXCEPT ![w] = s], Leave(w, queue, moved)
    PROVE  Asked' = AskedWithout(w) /\ Answered' = AnsweredWith(w, s)
<1>1. /\ pc' = [pc EXCEPT ![w] = place]
      /\ wants' = [wants EXCEPT ![w] = None]
      /\ prev' = [prev EXCEPT ![w] = Empty]
      /\ body' = [body EXCEPT ![w] = Empty]
  BY DEF Go, Leave, L!Leave
<1>2. /\ pc \in [Writers -> PCs] /\ wants \in [Writers -> Ids \cup {None}]
      /\ prev \in [Writers -> Contents] /\ body \in [Writers -> Contents]
      /\ status \in [Writers -> Statuses]
  BY DEF IInv, TypeOK
<1>3. Asked' = [Asked EXCEPT ![w] = None]
  BY <1>1, <1>2 DEF Asked, InProgress
<1>4. Answered' = [Answered EXCEPT ![w] = Plain(s)]
  BY <1>2 DEF Answered, Plain
<1> QED
  BY <1>3, <1>4 DEF AskedWithout, AnsweredWith

\* A request that is refused has its reason, and nothing is replaced.
LEMMA RefuseImplements ==
    ASSUME IInv, NEW w \in Writers, InProgress(w),
           NEW STATE queue, NEW moved \in BOOLEAN, NEW s \in Statuses \ {"none", "NoContent"},
           Answer(w, s, queue, moved), UNCHANGED stored,
           s = "NotFound" => stored[wants[w]] = Gone,
           s = "Modified" => stored[wants[w]] # prev[w]
    PROVE  Store!Next
<1>1. Asked' = AskedWithout(w) /\ Answered' = AnsweredWith(w, s)
  <2>1. Go(w, "answered") /\ status' = [status EXCEPT ![w] = s] /\ Leave(w, queue, moved)
    BY DEF Answer
  <2>2. "answered" \in {"idle", "answered"} /\ s \in Statuses
    OBVIOUS
  <2> QED
    BY <2>1, <2>2, LeaveImplements
<1>2. Plain(s) \in Store!Refusals
  BY DEF Plain, Statuses, Store!Refusals
<1>3. Asked[w] # None /\ Asked[w].id = wants[w] /\ Asked[w].prev = prev[w]
  <2>1. Asked[w] # None /\ Asked[w] = [id |-> wants[w], prev |-> prev[w], body |-> body[w]]
    BY AskedIsSome
  <2> QED
    BY <2>1
<1>4. /\ Plain(s) = "NotFound" => stored[Asked[w].id] = Gone
      /\ Plain(s) = "Modified" => stored[Asked[w].id] # Asked[w].prev
  BY <1>3 DEF Plain, Statuses
<1>5. Store!Answer(w, Plain(s))
  BY <1>1, <1>3 DEF Store!Answer, Asked, Answered, AskedWithout, AnsweredWith
<1>6. Store!Refuse(w, Plain(s))
  BY <1>4, <1>5 DEF Store!Refuse, Asked
<1> QED
  BY <1>2, <1>6 DEF Store!Next

\* The commit replaces the version the request names; one that fails does not.
LEMMA CommitImplements ==
    ASSUME IInv, NEW w \in Writers, Commit(w)
    PROVE  Store!Next
<1>1. pc[w] = "moved" /\ InProgress(w) /\ stored[wants[w]] = prev[w]
  BY DEF Commit, InProgress, IInv, RowsStay
<1>2. Asked' = AskedWithout(w) /\ Answered' = AnsweredWith(w, "NoContent")
  <2>1. /\ Go(w, "answered") /\ status' = [status EXCEPT ![w] = "NoContent"]
        /\ Leave(w, tasks, TRUE)
    BY DEF Commit, Answer
  <2>2. "answered" \in {"idle", "answered"} /\ "NoContent" \in Statuses
    BY DEF Statuses
  <2> QED
    BY <1>1, <2>1, <2>2, LeaveImplements
<1>3. /\ Asked[w] # None
      /\ Asked[w] = [id |-> wants[w], prev |-> prev[w], body |-> body[w]]
  BY <1>1, AskedIsSome
<1>4. Asked[w].id = wants[w] /\ Asked[w].prev = prev[w] /\ Asked[w].body = body[w]
  BY <1>3
<1>5. stored' = [stored EXCEPT ![wants[w]] = body[w]]
  BY DEF Commit
<1>6. Plain("NoContent") = "NoContent"
  BY DEF Plain
<1>7. Store!Answer(w, "NoContent")
  BY <1>2, <1>3, <1>6 DEF Store!Answer, Asked, Answered, AskedWithout, AnsweredWith
<1>8. Store!Current(w)
  BY <1>1, <1>4 DEF Store!Current, Asked
<1>9. stored' = [stored EXCEPT ![Asked[w].id] = Asked[w].body]
  BY <1>4, <1>5
<1>10. Store!Apply(w)
  BY <1>7, <1>8, <1>9 DEF Store!Apply, Asked
<1> QED
  BY <1>10 DEF Store!Next

\* Other ways for a request to end.
LEMMA RequestEndsImplements ==
    ASSUME IInv, NEW w \in Writers, CheckFails(w) \/ UploadFails(w) \/ UpdateFails(w) \/ CommitFails(w)
    PROVE  Store!Next
<1>1. InProgress(w)
  BY DEF CheckFails, UploadFails, UpdateFails, CommitFails, BodyEnded, InProgress
<1>2. ASSUME NEW s \in {"Locked", "NotFound", "Modified", "UploadFailed"}, Refuse(w, s),
             s = "NotFound" => stored[wants[w]] = Gone,
             s = "Modified" => stored[wants[w]] # prev[w]
      PROVE  Store!Next
  <2>1. s \in Statuses \ {"none", "NoContent"} /\ Answer(w, s, tasks, FALSE) /\ UNCHANGED stored
    BY <1>2 DEF Statuses, Refuse
  <2> QED
    BY <1>1, <1>2, <2>1, RefuseImplements
<1>3. CASE CheckFails(w)
  BY <1>2, <1>3 DEF CheckFails
<1>4. CASE UploadFails(w)
  BY <1>2, <1>4 DEF UploadFails
<1>5. CASE UpdateFails(w)
  BY <1>2, <1>5 DEF UpdateFails, Matches
<1>6. CASE CommitFails(w)
  <2>1. "Locked" \in Statuses \ {"none", "NoContent"} /\ Answer(w, "Locked", tasks, TRUE) /\ UNCHANGED stored
    BY <1>6 DEF CommitFails, Statuses
  <2> QED
    BY <1>1, <2>1, RefuseImplements
<1> QED
  BY <1>3, <1>4, <1>5, <1>6

\* The client takes its answer, or goes away without one.
LEMMA ClientImplements ==
    ASSUME IInv, NEW w \in Writers, Respond(w) \/ Cancel(w)
    PROVE  Store!Next
<1>1. CASE Respond(w)
  <2>1. /\ pc[w] = "answered" /\ pc' = [pc EXCEPT ![w] = "idle"]
        /\ status' = [status EXCEPT ![w] = "none"]
        /\ UNCHANGED <<stored, wants, prev, body>>
    BY <1>1 DEF Respond, Go, db, lockVars, input
  <2>2. pc \in [Writers -> PCs] /\ status \in [Writers -> Statuses] /\ status[w] # "none"
    BY <2>1 DEF IInv, TypeOK, PlacesFit
  <2>3. UNCHANGED Asked
    BY <2>1, <2>2 DEF Asked, InProgress
  <2>4. Answered' = [Answered EXCEPT ![w] = "none"] /\ Answered[w] # "none"
    BY <2>1, <2>2 DEF Answered, Plain
  <2>5. Store!Return(w)
    BY <2>1, <2>3, <2>4 DEF Store!Return, Asked, Answered
  <2> QED
    BY <2>5 DEF Store!Next
<1>2. CASE Cancel(w)
  <2>1. InProgress(w) /\ Go(w, "idle") /\ Leave(w, tasks, FALSE) /\ UNCHANGED <<stored, status>>
    BY <1>2 DEF Cancel, InProgress
  <2>2. status' = [status EXCEPT ![w] = "none"] /\ "none" \in Statuses /\ "idle" \in {"idle", "answered"}
    BY <2>1 DEF IInv, TypeOK, PlacesFit, InProgress, Statuses
  <2>3. Asked' = AskedWithout(w)
    BY <2>1, <2>2, LeaveImplements
  <2>4. Asked[w] # None
    BY <2>1, AskedIsSome
  <2>5. UNCHANGED Answered
    BY <2>1 DEF Answered, Plain
  <2>6. Store!Drop(w)
    BY <2>1, <2>3, <2>4, <2>5 DEF Store!Drop, Asked, Answered, AskedWithout
  <2> QED
    BY <2>6 DEF Store!Next
<1> QED
  BY <1>1, <1>2

\* The blocking pool is not seen, unless a request ends with its task.
LEMMA RunImplements ==
    ASSUME IInv, NEW i \in DOMAIN tasks, Run(i)
    PROVE  Store!Next \/ UNCHANGED Store!vars
<1> DEFINE t == tasks[i]
<1>1. t.by \in Writers /\ pc \in [Writers -> PCs]
  BY TaskAt, TaskFields DEF IInv, TypeOK
<1>2. ASSUME UNCHANGED <<db, lockVars, input, status>>,
             \/ Awaited(t, "opening") /\ Go(t.by, "streaming")
             \/ Awaited(t, "moving") /\ Go(t.by, "moved")
             \/ UNCHANGED pc
      PROVE  UNCHANGED Store!vars
  <2>1. UNCHANGED <<stored, wants, prev, body, status>>
    BY <1>2 DEF db, lockVars, input
  <2>2. \A w \in Writers : InProgress(w)' = InProgress(w)
    BY <1>1, <1>2 DEF Awaited, Go, InProgress, PCs
  <2> QED
    BY <2>1, <2>2, QuietImplements
<1>3. ASSUME NEW s \in {"UploadFailed", "MoveFailed"}, Answer(t.by, s, Rest(i), FALSE), UNCHANGED stored,
             Awaited(t, "opening") \/ Awaited(t, "moving")
      PROVE  Store!Next
  <2>1. InProgress(t.by) /\ s \in Statuses \ {"none", "NoContent"} /\ s # "NotFound" /\ s # "Modified"
    BY <1>3 DEF Awaited, InProgress, Statuses
  <2> QED
    BY <1>1, <1>3, <2>1, RefuseImplements
<1>4. CASE RunOpen(i)
  <2>1. \/ /\ UNCHANGED <<db, lockVars, input, status>>
           /\ (Awaited(t, "opening") /\ Go(t.by, "streaming")) \/ UNCHANGED pc
        \/ Awaited(t, "opening") /\ Answer(t.by, "UploadFailed", Rest(i), FALSE) /\ UNCHANGED stored
    BY <1>4 DEF RunOpen, db
  <2> QED
    BY <1>2, <1>3, <2>1
<1>5. CASE RunRename(i)
  <2>1. \/ /\ UNCHANGED <<db, lockVars, input, status>>
           /\ (Awaited(t, "moving") /\ Go(t.by, "moved")) \/ UNCHANGED pc
        \/ Awaited(t, "moving") /\ Answer(t.by, "MoveFailed", Rest(i), FALSE) /\ UNCHANGED stored
    BY <1>5 DEF RunRename, db
  <2> QED
    BY <1>2, <1>3, <2>1
<1>6. CASE RunWrite(i) \/ RunRemove(i)
  BY <1>2, <1>6 DEF RunWrite, RunRemove
<1> QED
  BY <1>4, <1>5, <1>6 DEF Run

\* Every step is one of the store, or none.
LEMMA StepImplements ==
    ASSUME IInv, [Next]_vars
    PROVE  [Store!Next]_(Store!vars)
<1>1. ASSUME NEW w \in Writers, NEW id \in Ids, NEW p \in Contents, NEW b \in Bodies, Receive(w, id, p, b)
      PROVE  Store!Next
  BY <1>1, ReceiveImplements
<1>2. ASSUME NEW w \in Writers, Work(w) \/ UploadFails(w) \/ Cancel(w) \/ Lock(w)
      PROVE  Store!Next \/ UNCHANGED Store!vars
  <2>1. CASE Lock(w) \/ Check(w) \/ WriteBlock(w) \/ Update(w)
    <3>1. UNCHANGED <<stored, wants, prev, body, status>>
      BY <2>1 DEF Lock, Check, WriteBlock, Update, L!Grant, db, lockVars, input
    <3>2. \A u \in Writers : InProgress(u)' = InProgress(u)
      BY <2>1 DEF Lock, Check, WriteBlock, Update, BodyEnded, Go, InProgress, IInv, TypeOK
    <3> QED
      BY <3>1, <3>2, QuietImplements
  <2>2. CASE CheckFails(w) \/ UploadFails(w) \/ UpdateFails(w) \/ CommitFails(w)
    BY <2>2, RequestEndsImplements
  <2>3. CASE Commit(w)
    BY <2>3, CommitImplements
  <2>4. CASE Respond(w) \/ Cancel(w)
    BY <2>4, ClientImplements
  <2> QED
    BY <1>2, <2>1, <2>2, <2>3, <2>4 DEF Work
<1>3. ASSUME NEW i \in DOMAIN tasks, Run(i)
      PROVE  Store!Next \/ UNCHANGED Store!vars
  BY <1>3, RunImplements
<1>4. ASSUME NEW r \in Readers, (\E id \in Ids : ReadLookup(r, id)) \/ ReadOpen(r)
      PROVE  UNCHANGED Store!vars
  <2>1. UNCHANGED <<stored, wants, prev, body, status, pc>>
    BY <1>4 DEF ReadLookup, ReadOpen, db, lockVars, input
  <2> QED
    BY <2>1, QuietImplements DEF InProgress
<1>5. ASSUME NEW id \in Ids, DeleteFile(id)
      PROVE  Store!Next
  <2>1. UNCHANGED Asked
    BY <1>5 DEF DeleteFile, Asked, InProgress, lockVars, input
  <2>2. UNCHANGED Answered
    BY <1>5 DEF DeleteFile, Answered, Plain
  <2>3. Store!Delete(id)
    BY <1>5, <2>1, <2>2 DEF DeleteFile, Store!Delete, Asked, Answered
  <2> QED
    BY <2>3 DEF Store!Next
<1>6. CASE Crash
  <2>1. Asked' = [w \in Writers |-> None]
    BY <1>6 DEF Crash, Asked, InProgress
  <2>2. Answered' = [w \in Writers |-> "none"]
    BY <1>6 DEF Crash, Answered, Plain
  <2>3. Store!Crash
    BY <1>6, <2>1, <2>2 DEF Crash, Store!Crash, Asked, Answered
  <2> QED
    BY <2>3 DEF Store!Next
<1>7. CASE UNCHANGED vars
  <2>1. UNCHANGED <<stored, wants, prev, body, status, pc>>
    BY <1>7 DEF vars, db, lockVars, input
  <2> QED
    BY <2>1, QuietImplements DEF InProgress
<1> QED
  BY <1>1, <1>2, <1>3, <1>4, <1>5, <1>6, <1>7 DEF Next, Serve

\* Writing files implements the store that is compared and swapped: a write
\* replaces the version its If-Match header names, in one step, or nothing.
THEOREM Implementation == Spec => ImplementsContentStore
<1>1. Init => Store!Init
  BY InitImplements
<1>2. IInv /\ [Next]_vars => [Store!Next]_(Store!vars)
  BY StepImplements
<1> QED
  BY <1>1, <1>2, Invariance, PTL DEF Spec, ImplementsContentStore, Store!Spec

-----------------------------------------------------------------------------
(* Lemmas about tasks that come and go *)

\* The fields of the tasks that are pending.
LEMMA PendingFields ==
    ASSUME TypeOK
    PROVE  \A k \in DOMAIN tasks :
              /\ tasks[k].by \in Writers
              /\ tasks[k].op \in {"open", "remove", "rename", "write"}
              /\ tasks[k].op \in {"open", "remove", "rename"} => tasks[k].id \in Ids
              /\ tasks[k].op = "rename" => tasks[k].to \in Contents
              /\ tasks[k].op = "write" =>
                    tasks[k].inode \in Inodes /\ tasks[k].pos \in Nat /\ tasks[k].block \in Blocks
BY TaskAt, TaskFields

\* A new task is the last, and the others keep their places.
LEMMA Appended ==
    ASSUME TypeOK, NEW STATE t, t \in Tasks, tasks' = Append(tasks, t)
    PROVE  /\ Len(tasks) \in Nat /\ DOMAIN tasks = 1..Len(tasks)
           /\ DOMAIN tasks' = 1..Len(tasks) + 1
           /\ \A j \in 1..Len(tasks) : tasks'[j] = tasks[j]
           /\ tasks'[Len(tasks) + 1] = t
BY DEF TypeOK

-----------------------------------------------------------------------------
(* The locks of the files *)

\* The places of a request that has the lock of its file.
HasLock(w) == pc[w] \in {"locked", "opening", "streaming", "moving", "moved"}
HoldersFit == \A w \in Writers : HasLock(w) => holder[wants[w]] = w

\* A lock is held by a request that is at work on its file.
HoldersAtWork == \A id \in Ids, w \in Writers : holder[id] = w => HasLock(w) /\ wants[w] = id

LocksFit == HoldersFit /\ HoldersAtWork

\* One request at a time is at work on uploads/<id> (files.rs:69); what one that
\* has gone has left to the pool may still be done beside it.
OneUploadForEachFile ==
    \A v, w \in Writers : HasLock(v) /\ HasLock(w) /\ wants[v] = wants[w] => v = w

\* A request holds its lock until it leaves.
LEMMA HoldersStay ==
    ASSUME IInv, LocksFit, [Next]_vars
    PROVE  LocksFit' /\ ([L!Next]_(L!vars) \/ L!Init')
<1> USE DEF IInv
<1>1. ASSUME NEW w \in Writers, NEW id \in Ids, NEW p \in Contents, NEW b \in Bodies, Receive(w, id, p, b)
      PROVE  LocksFit' /\ L!Next
  <2>1. L!Ask(w, id) /\ pc' = [pc EXCEPT ![w] = "locking"]
    BY <1>1 DEF Receive, Go
  <2>2. HoldersFit'
    BY <2>1 DEF LocksFit, HoldersFit, HasLock, L!Ask, TypeOK, Receive
  <2>3. HoldersAtWork'
    BY <1>1, <2>1 DEF LocksFit, HoldersAtWork, HasLock, L!Ask, TypeOK, Receive
  <2> QED
    BY <2>1, <2>2, <2>3 DEF L!Next, LocksFit
<1>2. ASSUME NEW w \in Writers, Lock(w)
      PROVE  LocksFit' /\ L!Next
  <2>1. L!Grant(w) /\ pc' = [pc EXCEPT ![w] = "locked"] /\ wants[w] \in Ids /\ holder[wants[w]] = None
    BY <1>2 DEF Lock, Go, PlacesFit, InProgress, L!Grant
  <2>2. HoldersFit'
    <3> SUFFICES ASSUME NEW u \in Writers, HasLock(u)' PROVE holder'[wants'[u]] = u
      BY DEF HoldersFit
    <3>1. CASE u = w
      BY <2>1, <3>1 DEF L!Grant, TypeOK
    <3>2. CASE u # w
      BY <2>1, <3>2, ConstantsAssumption DEF L!Grant, LocksFit, HoldersFit, HasLock, TypeOK
    <3> QED
      BY <3>1, <3>2
  <2>3. HoldersAtWork'
    <3> SUFFICES ASSUME NEW i \in Ids, NEW u \in Writers, holder'[i] = u
                 PROVE  HasLock(u)' /\ wants'[u] = i
      BY DEF HoldersAtWork
    <3>1. wants' = wants /\ holder' = [holder EXCEPT ![wants[w]] = w]
      BY <2>1 DEF L!Grant
    <3>2. CASE i = wants[w]
      BY <2>1, <3>1, <3>2 DEF HasLock, TypeOK
    <3>3. CASE i # wants[w]
      BY <1>2, <2>1, <3>1, <3>3 DEF LocksFit, HoldersAtWork, HasLock, TypeOK, Lock
    <3> QED
      BY <3>2, <3>3
  <2> QED
    BY <2>1, <2>2, <2>3 DEF L!Next, LocksFit
<1>3. ASSUME NEW w \in Writers, L!Leave(w), pc' = [pc EXCEPT ![w] = "idle"] \/ pc' = [pc EXCEPT ![w] = "answered"]
      PROVE  LocksFit' /\ L!Next
  <2>1. HoldersFit'
    <3> SUFFICES ASSUME NEW u \in Writers, HasLock(u)' PROVE holder'[wants'[u]] = u
      BY DEF HoldersFit
    <3>1. u # w /\ pc'[u] = pc[u]
      BY <1>3 DEF HasLock, TypeOK
    <3>2. HasLock(u) /\ wants'[u] = wants[u] /\ wants[u] \in Ids
      BY <1>3, <3>1 DEF HasLock, L!Leave, TypeOK, PlacesFit, InProgress
    <3>3. holder[wants[u]] = u
      BY <3>2 DEF LocksFit, HoldersFit
    <3> QED
      BY <1>3, <3>1, <3>2, <3>3 DEF L!Leave, TypeOK
  <2>2. HoldersAtWork'
    <3> SUFFICES ASSUME NEW i \in Ids, NEW u \in Writers, holder'[i] = u
                 PROVE  HasLock(u)' /\ wants'[u] = i
      BY DEF HoldersAtWork
    <3>1. /\ wants[w] # None /\ wants' = [wants EXCEPT ![w] = None]
          /\ holder' = [holder EXCEPT ![wants[w]] = IF holder[wants[w]] = w THEN None ELSE holder[wants[w]]]
      BY <1>3 DEF L!Leave
    <3>2. holder[i] = u
      BY <3>1, ConstantsAssumption DEF TypeOK
    <3>3. HasLock(u) /\ wants[u] = i
      BY <3>2 DEF LocksFit, HoldersAtWork
    <3>4. u # w
      BY <3>1, <3>2, <3>3, ConstantsAssumption DEF TypeOK
    <3> QED
      BY <1>3, <3>1, <3>2, <3>3, <3>4 DEF HasLock, TypeOK
  <2> QED
    BY <1>3, <2>1, <2>2 DEF L!Next, LocksFit
<1>4. ASSUME UNCHANGED lockVars, \A w \in Writers : HasLock(w)' = HasLock(w)
      PROVE  LocksFit' /\ UNCHANGED L!vars
  <2>1. UNCHANGED <<wants, holder>>
    BY <1>4 DEF lockVars
  <2>2. HoldersFit'
    BY <1>4, <2>1 DEF LocksFit, HoldersFit
  <2>3. HoldersAtWork'
    <3> SUFFICES ASSUME NEW i \in Ids, NEW u \in Writers, holder'[i] = u
                 PROVE  HasLock(u)' /\ wants'[u] = i
      BY DEF HoldersAtWork
    <3>1. HasLock(u) /\ wants[u] = i
      BY <2>1 DEF LocksFit, HoldersAtWork
    <3> QED
      BY <1>4, <2>1, <3>1
  <2> QED
    BY <2>1, <2>2, <2>3 DEF LocksFit, L!vars
<1>5. ASSUME NEW w \in Writers, Work(w) \/ UploadFails(w) \/ Cancel(w)
      PROVE  LocksFit' /\ [L!Next]_(L!vars)
  <2>1. CASE Check(w) \/ WriteBlock(w) \/ Update(w) \/ Respond(w)
    <3>1. UNCHANGED lockVars
      BY <2>1 DEF Check, WriteBlock, Update, Respond
    <3>2. \A u \in Writers : HasLock(u)' = HasLock(u)
      BY <2>1 DEF Check, WriteBlock, Update, Respond, BodyEnded, HasLock, Go, TypeOK
    <3> QED
      BY <3>1, <3>2, <1>4
  <2>2. CASE CheckFails(w) \/ UploadFails(w) \/ UpdateFails(w) \/ Commit(w) \/ CommitFails(w) \/ Cancel(w)
    <3>1. L!Leave(w) /\ (Go(w, "idle") \/ Go(w, "answered"))
      BY <2>2 DEF CheckFails, UploadFails, UpdateFails, Commit, CommitFails, Cancel, Refuse, Answer, Leave
    <3> QED
      BY <3>1, <1>3 DEF Go
  <2> QED
    BY <1>5, <2>1, <2>2 DEF Work
<1>6. ASSUME NEW i \in DOMAIN tasks, Run(i)
      PROVE  LocksFit' /\ [L!Next]_(L!vars)
  <2>1. tasks[i].by \in Writers
    BY TaskAt, TaskFields
  <2>2. CASE UNCHANGED <<lockVars, pc>>
    BY <2>2, <1>4 DEF HasLock
  <2>3. CASE /\ UNCHANGED lockVars
             /\ \/ Awaited(tasks[i], "opening") /\ Go(tasks[i].by, "streaming")
                \/ Awaited(tasks[i], "moving") /\ Go(tasks[i].by, "moved")
    <3>1. \A u \in Writers : HasLock(u)' = HasLock(u)
      BY <2>1, <2>3 DEF Awaited, Go, HasLock, TypeOK
    <3> QED
      BY <2>3, <3>1, <1>4
  <2>4. CASE L!Leave(tasks[i].by) /\ Go(tasks[i].by, "answered")
    BY <2>1, <2>4, <1>3 DEF Go
  <2> QED
    BY <1>6, <2>2, <2>3, <2>4 DEF Run, RunOpen, RunWrite, RunRename, RunRemove, Answer, Leave, lockVars
<1>7. ASSUME \/ \E r \in Readers : (\E id \in Ids : ReadLookup(r, id)) \/ ReadOpen(r)
             \/ \E id \in Ids : DeleteFile(id)
             \/ UNCHANGED vars
      PROVE  LocksFit' /\ UNCHANGED L!vars
  <2>1. UNCHANGED <<lockVars, pc>>
    BY <1>7 DEF ReadLookup, ReadOpen, DeleteFile, vars
  <2> QED
    BY <2>1, <1>4 DEF HasLock
<1>8. ASSUME Crash
      PROVE  LocksFit' /\ L!Init'
  BY <1>8, ConstantsAssumption DEF Crash, LocksFit, HoldersFit, HoldersAtWork, HasLock, L!Init
<1> QED
  BY <1>1, <1>2, <1>5, <1>6, <1>7, <1>8 DEF Next, Serve

\* At first all locks are free.
LEMMA LocksFree == Init => LocksFit
BY ConstantsAssumption DEF Init, LocksFit, HoldersFit, HoldersAtWork, HasLock, L!Init

\* Requests use the locks as FileWriteLock promises them to work (files.rs:69),
\* cancelled or not, until a crash makes a new FileWriteLock; so one at a time
\* is past the lock of a file.
THEOREM LocksAreUsed ==
    Spec => /\ L!Init /\ [][L!Next \/ L!Init']_(L!vars)
            /\ []OneUploadForEachFile
<1>1. Init => L!Init /\ LocksFit
  BY LocksFree DEF Init
<1>2. IInv /\ LocksFit /\ [Next]_vars => LocksFit' /\ [L!Next \/ L!Init']_(L!vars)
  BY HoldersStay
<1>3. LocksFit => OneUploadForEachFile
  BY DEF LocksFit, HoldersFit, OneUploadForEachFile
<1> QED
  BY <1>1, <1>2, <1>3, Invariance, PTL DEF Spec

-----------------------------------------------------------------------------
(* What a request waits for is on its way.                                 *)

InPool(w, op) == \E i \in DOMAIN tasks : tasks[i].op = op /\ tasks[i].by = w
AwaitedInPool ==
    \A w \in Writers : /\ pc[w] = "opening" => InPool(w, "open")
                       /\ pc[w] = "moving" => InPool(w, "rename")

\* Nobody waits in vain: for a lock that was left locked, or for a task that the
\* blocking pool does not have (files.rs:69, 77, 96).
NobodyWaitsInVain == AwaitedInPool /\ HoldersAtWork

\* A new task leaves the others where they are.
LEMMA AppendKeepsInPool ==
    ASSUME TypeOK, NEW STATE t, t \in Tasks, tasks' = Append(tasks, t)
    PROVE  /\ \A w \in Writers, op \in {"open", "rename"} : InPool(w, op) => InPool(w, op)'
           /\ \A w \in Writers, op \in {"open", "rename"} : t.by = w /\ t.op = op => InPool(w, op)'
<1>1. /\ DOMAIN tasks = 1..Len(tasks) /\ DOMAIN tasks' = 1..Len(tasks) + 1 /\ Len(tasks) \in Nat
      /\ \A j \in 1..Len(tasks) : tasks'[j] = tasks[j]
      /\ tasks'[Len(tasks) + 1] = t
  BY Appended
<1> QED
  BY <1>1 DEF InPool

\* The removal at the end of a request leaves them, too.
LEMMA DroppedKeepsInPool ==
    ASSUME TypeOK, NEW w \in Writers, wants[w] \in Ids,
           NEW STATE queue, queue \in Seq(Tasks), NEW moved \in BOOLEAN,
           tasks' = queue \o Dropped(w, moved)
    PROVE  \A j \in DOMAIN queue : \E k \in DOMAIN tasks' : tasks'[k] = queue[j]
<1> DEFINE removal == [op |-> "remove", by |-> w, id |-> wants[w]]
<1>1. CASE Dropped(w, moved) = <<>>
  BY <1>1
<1>2. CASE Dropped(w, moved) = <<removal>>
  <2>1. removal \in Tasks
    BY DEF Tasks
  <2> HIDE DEF removal
  <2>2. DOMAIN queue = 1..Len(queue) /\ DOMAIN tasks' = 1..Len(queue) + 1 /\ Len(queue) \in Nat
    BY <1>2, <2>1
  <2>3. \A j \in 1..Len(queue) : tasks'[j] = queue[j]
    BY <1>2, <2>1
  <2> QED
    BY <2>2, <2>3
<1> QED
  BY <1>1, <1>2 DEF Dropped

\* All tasks but the one that is done are still there.
LEMMA RestKeeps ==
    ASSUME TypeOK, NEW i \in DOMAIN tasks
    PROVE  \A j \in DOMAIN tasks \ {i} : \E k \in DOMAIN Rest(i) : Rest(i)[k] = tasks[j]
<1>1. Len(tasks) \in Nat /\ i \in 1..Len(tasks) /\ DOMAIN tasks = 1..Len(tasks)
  BY DEF TypeOK
<1>2. DOMAIN Rest(i) = 1..Len(tasks) - 1
  BY DEF Rest
<1> SUFFICES ASSUME NEW j \in DOMAIN tasks \ {i}
             PROVE  \E k \in DOMAIN Rest(i) : Rest(i)[k] = tasks[j]
  OBVIOUS
<1>3. CASE j < i
  <2>1. j \in 1..Len(tasks) - 1 /\ Rest(i)[j] = tasks[j]
    BY <1>1, <1>3 DEF Rest
  <2> QED
    BY <1>2, <2>1
<1>4. CASE j > i
  <2>1. j - 1 \in 1..Len(tasks) - 1 /\ ~(j - 1 < i) /\ j - 1 + 1 = j
    BY <1>1, <1>4
  <2>2. Rest(i)[j - 1] = tasks[j]
    BY <2>1 DEF Rest
  <2> QED
    BY <1>2, <2>1, <2>2
<1> QED
  BY <1>1, <1>3, <1>4

\* A request that ends waits for nothing, and takes nobody's task away.
LEMMA LeaveKeepsAwaited ==
    ASSUME IInv, AwaitedInPool, NEW w \in Writers, InProgress(w),
           NEW STATE queue, queue \in Seq(Tasks), NEW moved \in BOOLEAN,
           \A j \in DOMAIN tasks : tasks[j].by = w \/ \E k \in DOMAIN queue : queue[k] = tasks[j],
           Go(w, "idle") \/ Go(w, "answered"), Leave(w, queue, moved)
    PROVE  AwaitedInPool'
<1>1. TypeOK /\ wants[w] \in Ids
  BY DEF IInv, PlacesFit
<1>2. tasks' = queue \o Dropped(w, moved)
  BY DEF Leave
<1>3. \A j \in DOMAIN queue : \E k \in DOMAIN tasks' : tasks'[k] = queue[j]
  BY <1>1, <1>2, DroppedKeepsInPool
<1>4. \A u \in Writers \ {w}, op \in {"open", "rename"} : InPool(u, op) => InPool(u, op)'
  BY <1>3 DEF InPool
<1>5. /\ pc'[w] \notin {"opening", "moving"}
      /\ \A u \in Writers \ {w} : pc'[u] = pc[u]
  BY <1>1 DEF Go, TypeOK
<1> QED
  BY <1>4, <1>5 DEF AwaitedInPool

\* A task that is done was awaited by the request that goes on, or by nobody.
LEMMA DoneKeepsAwaited ==
    ASSUME IInv, AwaitedInPool, NEW i \in DOMAIN tasks, tasks' = Rest(i),
           \A u \in Writers : pc'[u] \in {"opening", "moving"} => pc'[u] = pc[u],
           tasks[i].op = "open" => pc'[tasks[i].by] # "opening",
           tasks[i].op = "rename" => pc'[tasks[i].by] # "moving"
    PROVE  AwaitedInPool'
<1>1. \A j \in DOMAIN tasks \ {i} : \E k \in DOMAIN tasks' : tasks'[k] = tasks[j]
  BY RestKeeps DEF IInv
<1>2. ASSUME NEW u \in Writers, NEW op \in {"open", "rename"}, InPool(u, op),
             ~(tasks[i].op = op /\ tasks[i].by = u)
      PROVE  InPool(u, op)'
  BY <1>1, <1>2 DEF InPool
<1> QED
  BY <1>2 DEF AwaitedInPool

\* Whatever happens, what is awaited is in the pool.
LEMMA AwaitedStays ==
    ASSUME IInv, AwaitedInPool, [Next]_vars
    PROVE  AwaitedInPool'
<1>0. TypeOK
  BY DEF IInv
<1>1. ASSUME UNCHANGED tasks, \A u \in Writers : pc'[u] \in {"opening", "moving"} => pc'[u] = pc[u]
      PROVE  AwaitedInPool'
  BY <1>1 DEF AwaitedInPool, InPool
<1>2. ASSUME NEW w \in Writers, NEW id \in Ids, NEW p \in Contents, NEW b \in Bodies, Receive(w, id, p, b)
      PROVE  AwaitedInPool'
  BY <1>0, <1>1, <1>2 DEF Receive, Go, TypeOK
<1>3. ASSUME NEW w \in Writers, Lock(w) \/ Respond(w)
      PROVE  AwaitedInPool'
  BY <1>0, <1>1, <1>3 DEF Lock, Respond, Go, TypeOK
<1>4. ASSUME NEW w \in Writers, Check(w) \/ WriteBlock(w) \/ Update(w)
      PROVE  AwaitedInPool'
  <2>1. wants[w] \in Ids /\ handle[w] \in Inodes \cup {None} /\ body[w] \in Contents
    BY <1>4 DEF Check, WriteBlock, Update, BodyEnded, IInv, TypeOK, PlacesFit, InProgress
  <2>2. CASE Check(w)
    <3> DEFINE t == [op |-> "open", by |-> w, id |-> wants[w]]
    <3>1. t \in Tasks /\ t.by = w /\ t.op = "open"
      BY <2>1 DEF Tasks
    <3>2. tasks' = Append(tasks, t) /\ pc' = [pc EXCEPT ![w] = "opening"]
      BY <2>2 DEF Check, Go
    <3> HIDE DEF t
    <3> QED
      BY <1>0, <3>1, <3>2, AppendKeepsInPool DEF AwaitedInPool, TypeOK
  <2>3. CASE Update(w)
    <3> DEFINE t == [op |-> "rename", by |-> w, id |-> wants[w], to |-> body[w]]
    <3>1. t \in Tasks /\ t.by = w /\ t.op = "rename"
      BY <2>1 DEF Tasks
    <3>2. tasks' = Append(tasks, t) /\ pc' = [pc EXCEPT ![w] = "moving"]
      BY <2>3 DEF Update, Go
    <3> HIDE DEF t
    <3> QED
      BY <1>0, <3>1, <3>2, AppendKeepsInPool DEF AwaitedInPool, TypeOK
  <2>4. CASE WriteBlock(w)
    <3>1. pc' = pc /\ \E t \in Tasks : tasks' = Append(tasks, t)
      BY <2>4, BlockIsTask DEF WriteBlock
    <3>2. \A u \in Writers, op \in {"open", "rename"} : InPool(u, op) => InPool(u, op)'
      BY <1>0, <3>1, AppendKeepsInPool
    <3> QED
      BY <3>1, <3>2 DEF AwaitedInPool
  <2> QED
    BY <1>4, <2>2, <2>3, <2>4
<1>5. ASSUME NEW w \in Writers,
             CheckFails(w) \/ UploadFails(w) \/ UpdateFails(w) \/ Commit(w) \/ CommitFails(w) \/ Cancel(w)
      PROVE  AwaitedInPool'
  <2>1. InProgress(w) /\ tasks \in Seq(Tasks) /\ \A j \in DOMAIN tasks : \E k \in DOMAIN tasks : tasks[k] = tasks[j]
    BY <1>0, <1>5 DEF CheckFails, UploadFails, UpdateFails, Commit, CommitFails, Cancel, BodyEnded,
                      InProgress, TypeOK
  <2>2. \E moved \in BOOLEAN : Leave(w, tasks, moved)
    BY <1>5 DEF CheckFails, UploadFails, UpdateFails, Commit, CommitFails, Cancel, Refuse, Answer
  <2>3. Go(w, "idle") \/ Go(w, "answered")
    BY <1>5 DEF CheckFails, UploadFails, UpdateFails, Commit, CommitFails, Cancel, Refuse, Answer
  <2> QED
    BY <2>1, <2>2, <2>3, LeaveKeepsAwaited
<1>6. ASSUME NEW i \in DOMAIN tasks, Run(i)
      PROVE  AwaitedInPool'
  <2> DEFINE t == tasks[i]
  <2>1. t.by \in Writers
    BY <1>0, PendingFields
  <2>2. ASSUME tasks' = Rest(i), UNCHANGED pc,
               t.op = "open" => pc[t.by] # "opening", t.op = "rename" => pc[t.by] # "moving"
        PROVE  AwaitedInPool'
    BY <2>2, DoneKeepsAwaited
  <2>3. ASSUME tasks' = Rest(i),
               \/ t.op = "open" /\ pc' = [pc EXCEPT ![t.by] = "streaming"]
               \/ t.op = "rename" /\ pc' = [pc EXCEPT ![t.by] = "moved"]
        PROVE  AwaitedInPool'
    <3>1. \A u \in Writers : pc'[u] \in {"opening", "moving"} => pc'[u] = pc[u]
      BY <1>0, <2>1, <2>3 DEF TypeOK
    <3>2. pc'[t.by] \in {"streaming", "moved"}
      BY <1>0, <2>1, <2>3 DEF TypeOK
    <3> QED
      BY <2>3, <3>1, <3>2, DoneKeepsAwaited
  <2>4. ASSUME NEW s, Answer(t.by, s, Rest(i), FALSE), InProgress(t.by)
        PROVE  AwaitedInPool'
    <3>1. Rest(i) \in Seq(Tasks)
      BY <1>0, RestRemains DEF TypeOK
    <3>2. \A j \in DOMAIN tasks : tasks[j].by = t.by \/ \E k \in DOMAIN Rest(i) : Rest(i)[k] = tasks[j]
      BY <1>0, RestKeeps
    <3>3. Go(t.by, "answered") /\ Leave(t.by, Rest(i), FALSE)
      BY <2>4 DEF Answer
    <3> HIDE DEF t
    <3> QED
      BY <2>1, <2>4, <3>1, <3>2, <3>3, LeaveKeepsAwaited
  <2>5. CASE RunOpen(i)
    BY <2>2, <2>3, <2>4, <2>5 DEF RunOpen, Awaited, Go, InProgress
  <2>6. CASE RunRename(i)
    BY <2>2, <2>3, <2>4, <2>6 DEF RunRename, Awaited, Go, InProgress
  <2>7. CASE RunWrite(i) \/ RunRemove(i)
    BY <2>2, <2>7 DEF RunWrite, RunRemove
  <2> QED
    BY <1>6, <2>5, <2>6, <2>7 DEF Run
<1>7. ASSUME \/ \E r \in Readers : (\E id \in Ids : ReadLookup(r, id)) \/ ReadOpen(r)
             \/ \E id \in Ids : DeleteFile(id)
             \/ UNCHANGED vars
      PROVE  AwaitedInPool'
  <2>1. UNCHANGED <<tasks, pc>>
    BY <1>7 DEF ReadLookup, ReadOpen, DeleteFile, vars
  <2> QED
    BY <2>1, <1>1
<1>8. ASSUME Crash
      PROVE  AwaitedInPool'
  BY <1>8 DEF Crash, AwaitedInPool
<1> QED
  BY <1>2, <1>3, <1>4, <1>5, <1>6, <1>7, <1>8 DEF Next, Serve, Work

\* What every request to write waits for is under way; with the fairness of the
\* pool and of the locks it is what WritesAreAnswered needs.
THEOREM WaitingEnds == Spec => []NobodyWaitsInVain
<1>1. Init => LocksFit /\ AwaitedInPool
  BY LocksFree DEF Init, AwaitedInPool
<1>2. IInv /\ LocksFit /\ AwaitedInPool /\ [Next]_vars => LocksFit' /\ AwaitedInPool'
  BY HoldersStay, AwaitedStays
<1>3. LocksFit /\ AwaitedInPool => NobodyWaitsInVain
  BY DEF LocksFit, NobodyWaitsInVain
<1> QED
  BY <1>1, <1>2, <1>3, Invariance, PTL DEF Spec

-----------------------------------------------------------------------------
(* UploadHistory.  An inode whose history is good holds, or will hold when *)
(* the one block that may be on its way is written, what its name says: in *)
(* files/ the content, in uploads/ what its owner has sent.                *)

Writes(t, inode) == t.op = "write" /\ t.inode = inode

\* What is in an inode will be content when the queue is done.
WillBe(content, inode, old, queue) ==
    /\ \A j, k \in DOMAIN queue : Writes(queue[j], inode) /\ Writes(queue[k], inode) => j = k
    /\ \A j \in DOMAIN queue :
          Writes(queue[j], inode) => Written(old, queue[j].pos, queue[j].block) = content
    /\ (\A j \in DOMAIN queue : ~Writes(queue[j], inode)) => old = content

WillHold(inode, content) == WillBe(content, inode, bytes[inode], tasks)

PastFits == owner \in [Ids -> Writers \cup {None}] /\ spoilt \subseteq Inodes

\* No inode has two names.
NamesFit ==
    /\ \A id1, id2 \in Ids : uploads[id1] # None /\ uploads[id1] = uploads[id2] => id1 = id2
    /\ \A c1, c2 \in Contents : files[c1] # None /\ files[c1] = files[c2] => c1 = c2
    /\ \A id \in Ids, c \in Contents : uploads[id] # None => files[c] # uploads[id]

\* A request has a file that is its own once its upload is open, and the tasks
\* that it waits for are about its path.
RequestsFit ==
    /\ \A w \in Writers :
          pc[w] \notin {"streaming", "moving", "moved"} => handle[w] = None /\ sent[w] = 0
    /\ \A v, w \in Writers : handle[v] # None /\ handle[v] = handle[w] => v = w
    /\ \A k \in DOMAIN tasks :
          LET t == tasks[k] IN
          /\ pc[t.by] \notin {"locking", "locked"}
          /\ t.op = "open" /\ pc[t.by] = "opening" => t.id = wants[t.by]
          /\ t.op = "rename" /\ pc[t.by] = "moving" => t.id = wants[t.by]

\* The owner of an upload is at work on it, or has its removal before it.
AtWork(w, id) == pc[w] \in {"streaming", "moving"} /\ wants[w] = id /\ handle[w] = uploads[id]
WillRemove(w, id) ==
    /\ pc[w] \in {"idle", "answered"}
    /\ \E k \in DOMAIN tasks : tasks[k].op = "remove" /\ tasks[k].by = w /\ tasks[k].id = id
OwnersFit ==
    \A id \in Ids :
        /\ uploads[id] = None => owner[id] = None
        /\ \A w \in Writers :
              /\ owner[id] = w => AtWork(w, id) \/ WillRemove(w, id)
              /\ handle[w] # None /\ handle[w] = uploads[id] => wants[w] = id /\ owner[id] = w

\* What is in files/, what is about to be moved there, and what is being sent.
FilesFit ==
    \A c \in Contents, i \in Inodes \ spoilt : files[c] = i =>
        /\ WillHold(i, c)
        /\ \A w \in Writers : handle[w] = i => pc[w] # "streaming"
MovesFit ==
    \A k \in DOMAIN tasks, i \in Inodes \ spoilt :
        LET t == tasks[k]
        IN  t.op = "rename" /\ owner[t.id] = t.by /\ uploads[t.id] = i => WillHold(i, t.to)
StreamsFit ==
    \A w \in Writers : pc[w] = "streaming" =>
        /\ sent[w] <= Len(body[w])
        /\ \A i \in Inodes \ spoilt : handle[w] = i /\ uploads[wants[w]] = i =>
              /\ WillHold(i, SubSeq(body[w], 1, sent[w]))
              /\ \A k \in DOMAIN tasks : Writes(tasks[k], i) => tasks[k].by = w

ContentFits == FilesFit /\ MovesFit /\ StreamsFit

HInv == PastFits /\ NamesFit /\ RequestsFit /\ OwnersFit /\ ContentFits

\* A task at the end that is no block for an inode changes nothing in it.
LEMMA WillBeAppended ==
    ASSUME NEW STATE queue, queue \in Seq(Tasks), NEW STATE t, t \in Tasks,
           NEW inode, NEW content, NEW STATE old, WillBe(content, inode, old, queue),
           ~Writes(t, inode)
    PROVE  WillBe(content, inode, old, Append(queue, t))
<1>1. /\ DOMAIN queue = 1..Len(queue) /\ DOMAIN Append(queue, t) = 1..Len(queue) + 1
      /\ Len(queue) \in Nat
      /\ \A j \in 1..Len(queue) : Append(queue, t)[j] = queue[j]
      /\ Append(queue, t)[Len(queue) + 1] = t
  OBVIOUS
<1>2. \A j \in DOMAIN Append(queue, t) :
          Writes(Append(queue, t)[j], inode) => j \in DOMAIN queue /\ Append(queue, t)[j] = queue[j]
  BY <1>1
<1>3. \A j \in DOMAIN queue : j \in DOMAIN Append(queue, t) /\ Append(queue, t)[j] = queue[j]
  BY <1>1
<1> QED
  BY <1>2, <1>3 DEF WillBe

\* Nor does the removal that a request leaves.
LEMMA WillBeDropped ==
    ASSUME NEW STATE queue, queue \in Seq(Tasks), NEW w \in Writers, wants[w] \in Ids,
           NEW moved \in BOOLEAN,
           NEW inode, NEW content, NEW STATE old, WillBe(content, inode, old, queue)
    PROVE  WillBe(content, inode, old, queue \o Dropped(w, moved))
<1> DEFINE removal == [op |-> "remove", by |-> w, id |-> wants[w]]
<1>1. removal \in Tasks /\ ~Writes(removal, inode)
  BY DEF Tasks, Writes
<1>2. CASE Dropped(w, moved) = <<>>
  <2>1. queue \o Dropped(w, moved) = queue
    BY <1>2
  <2> QED
    BY <2>1
<1>3. CASE Dropped(w, moved) = <<removal>>
  <2> HIDE DEF removal
  <2>1. queue \o Dropped(w, moved) = Append(queue, removal)
    BY <1>1, <1>3
  <2> QED
    BY <1>1, <2>1, WillBeAppended
<1> QED
  BY <1>2, <1>3 DEF Dropped

\* When one task is done, each of the others has one place.
LEMMA RestPlaces ==
    ASSUME tasks \in Seq(Tasks), NEW i \in DOMAIN tasks
    PROVE  \A j \in DOMAIN Rest(i) :
              LET k == IF j < i THEN j ELSE j + 1
              IN  k \in DOMAIN tasks /\ k # i /\ Rest(i)[j] = tasks[k]
<1>1. Len(tasks) \in Nat /\ i \in 1..Len(tasks) /\ DOMAIN tasks = 1..Len(tasks)
  OBVIOUS
<1>2. DOMAIN Rest(i) = 1..Len(tasks) - 1
  BY DEF Rest
<1> QED
  BY <1>1, <1>2 DEF Rest

\* A task that is done was the block for an inode, or changes nothing in it.
LEMMA WillBeDone ==
    ASSUME TypeOK, NEW i \in DOMAIN tasks,
           NEW inode, NEW content, NEW STATE old, WillBe(content, inode, old, tasks)
    PROVE  /\ ~Writes(tasks[i], inode) => WillBe(content, inode, old, Rest(i))
           /\ Writes(tasks[i], inode) =>
                 WillBe(content, inode, Written(old, tasks[i].pos, tasks[i].block), Rest(i))
<1> DEFINE at(j) == IF j < i THEN j ELSE j + 1
<1>1. /\ \A j \in DOMAIN Rest(i) : at(j) \in DOMAIN tasks /\ at(j) # i /\ Rest(i)[j] = tasks[at(j)]
      /\ \A j, k \in DOMAIN Rest(i) : at(j) = at(k) => j = k
  <2>1. i \in Nat /\ \A j \in DOMAIN Rest(i) : j \in Nat
    BY DEF TypeOK, Rest
  <2> QED
    BY <2>1, RestPlaces DEF TypeOK
<1>2. \A j \in DOMAIN tasks \ {i} : \E k \in DOMAIN Rest(i) : Rest(i)[k] = tasks[j]
  BY RestKeeps
<1> HIDE DEF at
<1>3. ASSUME ~Writes(tasks[i], inode)
      PROVE  WillBe(content, inode, old, Rest(i))
  BY <1>1, <1>2, <1>3 DEF WillBe
<1>4. ASSUME Writes(tasks[i], inode)
      PROVE  WillBe(content, inode, Written(old, tasks[i].pos, tasks[i].block), Rest(i))
  <2>1. \A j \in DOMAIN Rest(i) : ~Writes(Rest(i)[j], inode)
    BY <1>1, <1>4 DEF WillBe
  <2>2. Written(old, tasks[i].pos, tasks[i].block) = content
    BY <1>4 DEF WillBe
  <2> QED
    BY <2>1, <2>2 DEF WillBe
<1> QED
  BY <1>3, <1>4

\* At first there is nothing in any file.
LEMMA HInitHolds == HInit => HInv
BY ConstantsAssumption DEF HInit, Init, HInv, PastFits, NamesFit, RequestsFit, OwnersFit, ContentFits,
                           FilesFit, MovesFit, StreamsFit

\* Contents are sequences of blocks.
LEMMA ContentsAreBlocks == Contents \subseteq Seq(Blocks)
<1>1. Empty \in Seq(Blocks)
  BY DEF Empty
<1> QED
  BY <1>1, ConstantsAssumption DEF Contents

\* A request goes on as it was.
Same(u) ==
    /\ pc'[u] = pc[u] /\ wants'[u] = wants[u] /\ body'[u] = body[u]
    /\ sent'[u] = sent[u] /\ handle'[u] = handle[u]

\* Where no block is given or written, content stays as it was or will be; what a
\* new rename is about to move has to be whole.
LEMMA ContentStays ==
    ASSUME IInv, HInv, UNCHANGED <<uploads, files, past>>,
           \A i \in Inodes, c \in Seq(Blocks) : WillHold(i, c) => WillBe(c, i, bytes'[i], tasks'),
           \A k \in DOMAIN tasks' : tasks'[k].op \in {"rename", "write"} =>
              \/ \E j \in DOMAIN tasks : tasks'[k] = tasks[j]
              \/ /\ tasks'[k].op = "rename" /\ tasks'[k].to \in Contents
                 /\ \A i \in Inodes \ spoilt :
                       owner[tasks'[k].id] = tasks'[k].by /\ uploads[tasks'[k].id] = i =>
                          WillBe(tasks'[k].to, i, bytes[i], tasks),
           \A u \in Writers : pc'[u] = "streaming" => Same(u)
    PROVE  ContentFits'
<1> USE DEF HInv, ContentFits
<1>1. UNCHANGED <<uploads, files, owner, spoilt>>
  BY DEF past
<1>2. Contents \subseteq Seq(Blocks)
  BY ContentsAreBlocks
<1>3. FilesFit'
  BY <1>1, <1>2 DEF FilesFit, Same, WillHold
<1>4. MovesFit'
  <2> SUFFICES ASSUME NEW k \in DOMAIN tasks', NEW i \in Inodes \ spoilt,
                      tasks'[k].op = "rename", owner[tasks'[k].id] = tasks'[k].by,
                      uploads[tasks'[k].id] = i
               PROVE  WillBe(tasks'[k].to, i, bytes'[i], tasks')
    BY <1>1 DEF MovesFit, WillHold
  <2>1. WillBe(tasks'[k].to, i, bytes[i], tasks) /\ tasks'[k].to \in Contents
    BY PendingFields DEF MovesFit, IInv, WillHold
  <2> QED
    BY <1>2, <2>1 DEF WillHold
<1>5. StreamsFit'
  <2> SUFFICES ASSUME NEW w \in Writers, pc'[w] = "streaming"
               PROVE  /\ sent'[w] <= Len(body'[w])
                      /\ \A i \in Inodes \ spoilt : handle'[w] = i /\ uploads[wants'[w]] = i =>
                            /\ WillBe(SubSeq(body'[w], 1, sent'[w]), i, bytes'[i], tasks')
                            /\ \A k \in DOMAIN tasks' : Writes(tasks'[k], i) => tasks'[k].by = w
    BY <1>1 DEF StreamsFit, WillHold
  <2>1. Same(w) /\ pc[w] = "streaming" /\ body[w] \in Seq(Blocks) /\ sent[w] \in Nat /\ sent[w] <= Len(body[w])
    BY <1>2 DEF Same, StreamsFit, IInv, TypeOK
  <2>2. SubSeq(body[w], 1, sent[w]) \in Seq(Blocks)
    BY <2>1
  <2>3. ASSUME NEW i \in Inodes \ spoilt, handle[w] = i, uploads[wants[w]] = i
        PROVE  /\ WillBe(SubSeq(body[w], 1, sent[w]), i, bytes'[i], tasks')
               /\ \A k \in DOMAIN tasks' : Writes(tasks'[k], i) => tasks'[k].by = w
    <3>1. WillHold(i, SubSeq(body[w], 1, sent[w])) /\ \A k \in DOMAIN tasks : Writes(tasks[k], i) => tasks[k].by = w
      BY <2>1, <2>3 DEF StreamsFit
    <3>2. \A k \in DOMAIN tasks' : Writes(tasks'[k], i) => \E j \in DOMAIN tasks : tasks'[k] = tasks[j]
      BY DEF Writes
    <3> QED
      BY <2>2, <3>1, <3>2
  <2> QED
    BY <2>1, <2>3 DEF Same
<1> QED
  BY <1>3, <1>4, <1>5

\* A step of requests that have no upload, before and after it, with no task.
LEMMA QuietFits ==
    ASSUME IInv, HInv, UNCHANGED <<disk, tasks, past, handle, sent>>,
           \A u \in Writers :
              \/ Same(u)
              \/ /\ pc[u] \notin {"streaming", "moving", "moved"}
                 /\ \/ pc'[u] \in {"idle", "answered"}
                    \/ pc'[u] \in {"locking", "locked"} /\ \A k \in DOMAIN tasks : tasks[k].by # u
    PROVE  HInv'
<1> USE DEF HInv
<1>1. UNCHANGED <<uploads, files, bytes, owner, spoilt, tasks, handle, sent>>
  BY DEF disk, past
<1>2. PastFits' /\ NamesFit'
  BY <1>1 DEF PastFits, NamesFit
<1>3. \A k \in DOMAIN tasks : tasks[k].by \in Writers
  BY PendingFields DEF IInv
<1>4. RequestsFit'
  BY <1>1, <1>3 DEF RequestsFit, Same
<1>5. OwnersFit'
  <2>1. ASSUME NEW id \in Ids, NEW w \in Writers, owner[id] = w
        PROVE  AtWork(w, id)' \/ WillRemove(w, id)'
    BY <1>1, <2>1 DEF OwnersFit, AtWork, WillRemove, Same
  <2>2. ASSUME NEW id \in Ids, NEW w \in Writers, handle[w] # None, handle[w] = uploads[id]
        PROVE  wants'[w] = id /\ owner[id] = w
    BY <2>2 DEF OwnersFit, RequestsFit, Same
  <2> QED
    BY <1>1, <2>1, <2>2 DEF OwnersFit
<1>6. ContentFits'
  BY <1>1, ContentStays DEF WillHold, Same, past
<1> QED
  BY <1>2, <1>4, <1>5, <1>6

\* The end of a request: what it leaves of an upload is its own until it is removed.
LEMMA LeaveFits ==
    ASSUME IInv, HInv, NEW w \in Writers, InProgress(w),
           NEW STATE queue, NEW moved \in BOOLEAN, moved => pc[w] = "moved",
           \/ queue = tasks
           \/ \E i \in DOMAIN tasks : /\ tasks[i].op \in {"open", "rename"} /\ tasks[i].by = w
                                      /\ queue = Rest(i),
           Go(w, "idle") \/ Go(w, "answered"), Leave(w, queue, moved),
           UNCHANGED <<disk, past>>
    PROVE  HInv'
<1> USE DEF HInv
<1>1. TypeOK /\ wants[w] \in Ids
  BY DEF IInv, PlacesFit
<1>2. UNCHANGED <<uploads, files, bytes, owner, spoilt>>
  BY DEF disk, past
<1>3. /\ tasks' = queue \o Dropped(w, moved)
      /\ pc' \in [Writers -> PCs] /\ pc'[w] \in {"idle", "answered"}
      /\ handle'[w] = None /\ sent'[w] = 0
      /\ \A u \in Writers \ {w} : Same(u)
  <2>1. wants' = [wants EXCEPT ![w] = None]
    BY <1>1, LockLeft DEF Leave
  <2> QED
    BY <1>1, <2>1 DEF Leave, Go, TypeOK, Same, PCs
<1>4. /\ queue \in Seq(Tasks)
      /\ \A j \in DOMAIN queue : \E k \in DOMAIN tasks : queue[j] = tasks[k]
      /\ \A j \in DOMAIN tasks : tasks[j].op = "remove" => \E k \in DOMAIN queue : queue[k] = tasks[j]
  <2>1. tasks \in Seq(Tasks)
    BY <1>1 DEF TypeOK
  <2>2. CASE queue = tasks
    BY <2>1, <2>2
  <2>3. ASSUME NEW i \in DOMAIN tasks, tasks[i].op \in {"open", "rename"}, queue = Rest(i)
        PROVE  /\ queue \in Seq(Tasks)
               /\ \A j \in DOMAIN queue : \E k \in DOMAIN tasks : queue[j] = tasks[k]
               /\ \A j \in DOMAIN tasks : tasks[j].op = "remove" => \E k \in DOMAIN queue : queue[k] = tasks[j]
    <3>1. \A j \in DOMAIN tasks \ {i} : \E k \in DOMAIN Rest(i) : Rest(i)[k] = tasks[j]
      BY <1>1, RestKeeps
    <3>2. Rest(i) \in Seq(Tasks) /\ \A j \in DOMAIN Rest(i) : \E k \in DOMAIN tasks : Rest(i)[j] = tasks[k]
      BY <2>1, RestRemains
    <3> QED
      BY <2>3, <3>1, <3>2
  <2> QED
    BY <2>2, <2>3
<1>5. ASSUME NEW i \in Inodes, NEW c \in Seq(Blocks), WillHold(i, c)
      PROVE  WillBe(c, i, bytes'[i], tasks')
  <2>1. WillBe(c, i, bytes[i], queue)
    BY <1>1, <1>5, WillBeDone DEF WillHold, Writes
  <2> QED
    BY <1>1, <1>2, <1>3, <1>4, <2>1, WillBeDropped
<1>6. \A k \in DOMAIN tasks' :
          \/ \E j \in DOMAIN tasks : tasks'[k] = tasks[j]
          \/ tasks'[k].op = "remove" /\ tasks'[k].by = w
  <2>1. \A k \in DOMAIN tasks' :
            \/ \E j \in DOMAIN queue : tasks'[k] = queue[j]
            \/ tasks'[k] = [op |-> "remove", by |-> w, id |-> wants[w]]
    <3>1. CASE Dropped(w, moved) = <<>>
      BY <1>3, <1>4, <3>1
    <3>2. CASE Dropped(w, moved) = <<[op |-> "remove", by |-> w, id |-> wants[w]]>>
      <4> DEFINE removal == [op |-> "remove", by |-> w, id |-> wants[w]]
      <4>1. removal \in Tasks
        BY <1>1 DEF Tasks
      <4> HIDE DEF removal
      <4> QED
        BY <1>3, <1>4, <3>2, <4>1 DEF removal
    <3> QED
      BY <3>1, <3>2 DEF Dropped
  <2> QED
    BY <1>4, <2>1
<1>7. \A j \in DOMAIN queue : \E k \in DOMAIN tasks' : tasks'[k] = queue[j]
  <2>1. queue \in Seq(Tasks) /\ tasks' = queue \o Dropped(w, moved)
    BY <1>3, <1>4
  <2> QED
    BY <1>1, <2>1, DroppedKeepsInPool
<1>8. RequestsFit'
  <2>1. ASSUME NEW k \in DOMAIN tasks'
        PROVE  /\ pc'[tasks'[k].by] \notin {"locking", "locked"}
               /\ tasks'[k].op = "open" /\ pc'[tasks'[k].by] = "opening" => tasks'[k].id = wants'[tasks'[k].by]
               /\ tasks'[k].op = "rename" /\ pc'[tasks'[k].by] = "moving" => tasks'[k].id = wants'[tasks'[k].by]
    <3>1. CASE tasks'[k].op = "remove" /\ tasks'[k].by = w
      BY <1>3, <3>1
    <3>2. ASSUME NEW j \in DOMAIN tasks, tasks'[k] = tasks[j]
          PROVE  /\ pc'[tasks[j].by] \notin {"locking", "locked"}
                 /\ tasks[j].op = "open" /\ pc'[tasks[j].by] = "opening" => tasks[j].id = wants'[tasks[j].by]
                 /\ tasks[j].op = "rename" /\ pc'[tasks[j].by] = "moving" => tasks[j].id = wants'[tasks[j].by]
      <4>1. tasks[j].by \in Writers
        BY <1>1, PendingFields
      <4>2. CASE tasks[j].by = w
        BY <1>3, <4>2
      <4>3. CASE tasks[j].by # w
        BY <1>3, <4>1, <4>3 DEF RequestsFit, Same
      <4> QED
        BY <4>2, <4>3
    <3> QED
      BY <1>6, <3>1, <3>2
  <2>2. \A v, u \in Writers : handle'[v] # None /\ handle'[v] = handle'[u] => v = u
    BY <1>3 DEF RequestsFit, Same
  <2>3. \A u \in Writers :
            pc'[u] \notin {"streaming", "moving", "moved"} => handle'[u] = None /\ sent'[u] = 0
    BY <1>3 DEF RequestsFit, Same
  <2> QED
    BY <2>1, <2>2, <2>3 DEF RequestsFit
<1>9. OwnersFit'
  <2>1. ASSUME NEW id \in Ids, NEW u \in Writers \ {w}, owner[id] = u
        PROVE  AtWork(u, id)' \/ WillRemove(u, id)'
    <3>1. CASE AtWork(u, id)
      BY <1>2, <1>3, <3>1 DEF AtWork, Same
    <3>2. CASE WillRemove(u, id)
      <4>1. PICK j \in DOMAIN tasks : tasks[j].op = "remove" /\ tasks[j].by = u /\ tasks[j].id = id
        BY <3>2 DEF WillRemove
      <4>2. PICK n \in DOMAIN queue : queue[n] = tasks[j]
        BY <1>4, <4>1
      <4>3. PICK k \in DOMAIN tasks' : tasks'[k] = queue[n]
        BY <1>7
      <4>4. pc'[u] \in {"idle", "answered"}
        BY <1>3, <3>2 DEF WillRemove, Same
      <4> QED
        BY <4>1, <4>2, <4>3, <4>4 DEF WillRemove
    <3> QED
      BY <2>1, <3>1, <3>2 DEF OwnersFit
  <2>2. ASSUME NEW id \in Ids, owner[id] = w
        PROVE  WillRemove(w, id)'
    <3> DEFINE removal == [op |-> "remove", by |-> w, id |-> id]
    <3>1. pc[w] \in {"streaming", "moving"} /\ wants[w] = id
      BY <2>2 DEF OwnersFit, AtWork, WillRemove, InProgress
    <3>2. handle[w] # None /\ ~moved
      BY <1>1, <3>1, ConstantsAssumption DEF TypeOK
    <3>3. tasks' = queue \o <<removal>> /\ removal \in Tasks
      BY <1>3, <3>1, <3>2 DEF Dropped, Tasks
    <3>4. removal.op = "remove" /\ removal.by = w /\ removal.id = id
      OBVIOUS
    <3> HIDE DEF removal
    <3>5. Len(queue) + 1 \in DOMAIN tasks' /\ tasks'[Len(queue) + 1] = removal
      BY <1>4, <3>3
    <3> QED
      BY <1>3, <3>4, <3>5 DEF WillRemove
  <2>3. ASSUME NEW id \in Ids, NEW u \in Writers, handle'[u] # None, handle'[u] = uploads[id]
        PROVE  wants'[u] = id /\ owner[id] = u
    BY <1>3, <2>3 DEF OwnersFit, Same
  <2> QED
    BY <1>2, <2>1, <2>2, <2>3 DEF OwnersFit
<1>10. ContentFits'
  <2>1. \A u \in Writers : pc'[u] = "streaming" => Same(u)
    BY <1>3
  <2>2. \A k \in DOMAIN tasks' : tasks'[k].op \in {"rename", "write"} => \E j \in DOMAIN tasks : tasks'[k] = tasks[j]
    BY <1>6
  <2> QED
    BY <1>5, <2>1, <2>2, ContentStays DEF disk
<1> QED
  BY <1>2, <1>8, <1>9, <1>10 DEF PastFits, NamesFit

\* A request with its lock gives the pool a task for its own path or file.
LEMMA SpawnFits ==
    ASSUME IInv, HInv, NEW w \in Writers, NEW STATE t, t \in Tasks, t.by = w,
           tasks' = Append(tasks, t), NEW place,
           \/ pc[w] = "locked" /\ place = "opening" /\ t.op = "open" /\ t.id = wants[w]
           \/ pc[w] = "streaming" /\ place = "moving" /\ t.op = "rename" /\ t.id = wants[w]
           \/ pc[w] = "streaming" /\ place = "streaming" /\ t.op = "write",
           Go(w, place), sent' \in [Writers -> Nat],
           \A u \in Writers : u # w \/ place # "streaming" => sent'[u] = sent[u],
           UNCHANGED <<disk, past, lockVars, body, handle>>
    PROVE  /\ PastFits' /\ NamesFit' /\ RequestsFit' /\ OwnersFit'
           /\ \A u \in Writers \ {w} : Same(u)
<1> USE DEF HInv
<1>1. UNCHANGED <<uploads, files, bytes, owner, spoilt, wants, handle, body>>
  BY DEF disk, past, lockVars
<1>2. TypeOK /\ pc' = [pc EXCEPT ![w] = place] /\ pc \in [Writers -> PCs]
  BY DEF IInv, TypeOK, Go
<1>3. PastFits' /\ NamesFit'
  BY <1>1 DEF PastFits, NamesFit
<1>4. /\ \A k \in DOMAIN tasks' : tasks'[k] = t \/ \E j \in DOMAIN tasks : tasks'[k] = tasks[j]
      /\ \A j \in DOMAIN tasks : j \in DOMAIN tasks' /\ tasks'[j] = tasks[j]
  BY <1>2, Appended
<1>5. RequestsFit'
  <2>1. ASSUME NEW k \in DOMAIN tasks'
        PROVE  /\ pc'[tasks'[k].by] \notin {"locking", "locked"}
               /\ tasks'[k].op = "open" /\ pc'[tasks'[k].by] = "opening" => tasks'[k].id = wants[tasks'[k].by]
               /\ tasks'[k].op = "rename" /\ pc'[tasks'[k].by] = "moving" => tasks'[k].id = wants[tasks'[k].by]
    <3>1. CASE tasks'[k] = t
      BY <1>2, <3>1
    <3>2. ASSUME NEW j \in DOMAIN tasks, tasks'[k] = tasks[j]
          PROVE  /\ pc'[tasks[j].by] \notin {"locking", "locked"}
                 /\ tasks[j].op = "open" /\ pc'[tasks[j].by] = "opening" => tasks[j].id = wants[tasks[j].by]
                 /\ tasks[j].op = "rename" /\ pc'[tasks[j].by] = "moving" => tasks[j].id = wants[tasks[j].by]
      <4>1. tasks[j].by \in Writers /\ pc[tasks[j].by] \notin {"locking", "locked"}
        BY <1>2, PendingFields DEF RequestsFit
      <4>2. tasks[j].by = w => pc[w] = "streaming" /\ tasks[j].op # "rename"
        BY <4>1 DEF IInv, RenamesFit
      <4> QED
        BY <1>2, <4>1, <4>2 DEF RequestsFit
    <3> QED
      BY <1>4, <3>1, <3>2
  <2>2. \A u \in Writers :
            pc'[u] \notin {"streaming", "moving", "moved"} => handle[u] = None /\ sent'[u] = 0
    BY <1>2 DEF RequestsFit
  <2> QED
    BY <1>1, <2>1, <2>2 DEF RequestsFit
<1>6. OwnersFit'
  <2>1. ASSUME NEW id \in Ids, NEW u \in Writers, AtWork(u, id)
        PROVE  AtWork(u, id)'
    BY <1>1, <1>2, <2>1 DEF AtWork
  <2>2. ASSUME NEW id \in Ids, NEW u \in Writers, WillRemove(u, id)
        PROVE  WillRemove(u, id)'
    BY <1>2, <1>4, <2>2 DEF WillRemove
  <2> QED
    BY <1>1, <2>1, <2>2 DEF OwnersFit
<1>7. \A u \in Writers \ {w} : Same(u)
  BY <1>1, <1>2 DEF Same
<1> QED
  BY <1>3, <1>5, <1>6, <1>7

\* An upload that begins has nothing in the pool but its opening.
LEMMA CheckFits ==
    ASSUME IInv, HInv, NEW w \in Writers, Check(w), UNCHANGED past
    PROVE  HInv'
<1> DEFINE t == [op |-> "open", by |-> w, id |-> wants[w]]
<1>1. TypeOK /\ wants[w] \in Ids
  BY DEF IInv, PlacesFit, Check, InProgress
<1>2. t \in Tasks /\ t.by = w /\ t.op = "open" /\ t.id = wants[w]
  BY <1>1 DEF Tasks
<1>3. /\ tasks' = Append(tasks, t) /\ pc[w] = "locked" /\ Go(w, "opening")
      /\ UNCHANGED <<disk, past, lockVars, body, handle, sent, bytes>>
  BY DEF Check, input, disk
<1> HIDE DEF t
<1>4. sent' \in [Writers -> Nat] /\ pc'[w] = "opening"
  BY <1>1, <1>3 DEF TypeOK, Go
<1>5. /\ PastFits' /\ NamesFit' /\ RequestsFit' /\ OwnersFit'
      /\ \A u \in Writers \ {w} : Same(u)
  BY <1>2, <1>3, <1>4, SpawnFits
<1>6. \A i \in Inodes, c \in Seq(Blocks) : WillHold(i, c) => WillBe(c, i, bytes'[i], tasks')
  BY <1>1, <1>2, <1>3, WillBeAppended DEF WillHold, Writes, TypeOK
<1>7. \A k \in DOMAIN tasks' : tasks'[k].op \in {"rename", "write"} => \E j \in DOMAIN tasks : tasks'[k] = tasks[j]
  BY <1>1, <1>2, <1>3, Appended
<1>8. ContentFits'
  BY <1>3, <1>4, <1>5, <1>6, <1>7, ContentStays DEF disk
<1> QED
  BY <1>5, <1>8 DEF HInv

\* What is to be moved is whole: the body has ended.
LEMMA UpdateFits ==
    ASSUME IInv, HInv, NEW w \in Writers, Update(w), UNCHANGED past
    PROVE  HInv'
<1> DEFINE t == [op |-> "rename", by |-> w, id |-> wants[w], to |-> body[w]]
<1>1. TypeOK /\ wants[w] \in Ids /\ body[w] \in Contents /\ body[w] \in Seq(Blocks)
  BY ContentsAreBlocks DEF IInv, TypeOK, PlacesFit, Update, BodyEnded, InProgress
<1>2. t \in Tasks /\ t.by = w /\ t.op = "rename" /\ t.id = wants[w] /\ t.to = body[w]
  BY <1>1 DEF Tasks
<1>3. /\ tasks' = Append(tasks, t) /\ pc[w] = "streaming" /\ sent[w] = Len(body[w]) /\ Go(w, "moving")
      /\ UNCHANGED <<disk, past, lockVars, body, handle, sent, bytes>>
  BY DEF Update, BodyEnded, input, disk
<1> HIDE DEF t
<1>4. sent' \in [Writers -> Nat] /\ pc'[w] = "moving"
  BY <1>1, <1>3 DEF TypeOK, Go
<1>5. /\ PastFits' /\ NamesFit' /\ RequestsFit' /\ OwnersFit'
      /\ \A u \in Writers \ {w} : Same(u)
  BY <1>2, <1>3, <1>4, SpawnFits
<1>6. \A i \in Inodes, c \in Seq(Blocks) : WillHold(i, c) => WillBe(c, i, bytes'[i], tasks')
  BY <1>1, <1>2, <1>3, WillBeAppended DEF WillHold, Writes, TypeOK
<1>7. ASSUME NEW i \in Inodes \ spoilt, owner[wants[w]] = w, uploads[wants[w]] = i
      PROVE  WillBe(body[w], i, bytes[i], tasks)
  <2>1. handle[w] = i
    BY <1>1, <1>3, <1>7 DEF HInv, OwnersFit, AtWork, WillRemove
  <2>2. SubSeq(body[w], 1, sent[w]) = body[w]
    BY <1>1, <1>3
  <2>3. WillHold(i, SubSeq(body[w], 1, sent[w]))
    BY <1>3, <1>7, <2>1 DEF HInv, ContentFits, StreamsFit
  <2> QED
    BY <2>2, <2>3 DEF WillHold
<1>8. \A k \in DOMAIN tasks' : tasks'[k] = t \/ \E j \in DOMAIN tasks : tasks'[k] = tasks[j]
  BY <1>1, <1>2, <1>3, Appended
<1>9. \A k \in DOMAIN tasks' : tasks'[k].op \in {"rename", "write"} =>
              \/ \E j \in DOMAIN tasks : tasks'[k] = tasks[j]
              \/ /\ tasks'[k].op = "rename" /\ tasks'[k].to \in Contents
                 /\ \A i \in Inodes \ spoilt :
                       owner[tasks'[k].id] = tasks'[k].by /\ uploads[tasks'[k].id] = i =>
                          WillBe(tasks'[k].to, i, bytes[i], tasks)
  BY <1>1, <1>2, <1>7, <1>8
<1>10. ContentFits'
  BY <1>3, <1>4, <1>5, <1>6, <1>9, ContentStays DEF disk
<1> QED
  BY <1>5, <1>10 DEF HInv

\* What has been written of a body, and the next block after it.
LEMMA NextBlock ==
    ASSUME NEW S, NEW b \in Seq(S), NEW m \in Nat, m < Len(b)
    PROVE  Written(SubSeq(b, 1, m), m + 1, b[m + 1]) = SubSeq(b, 1, m + 1)
<1>1. Len(SubSeq(b, 1, m)) = m
  OBVIOUS
<1>2. Append(SubSeq(b, 1, m), b[m + 1]) = SubSeq(b, 1, m + 1)
  OBVIOUS
<1> QED
  BY <1>1, <1>2 DEF Written

\* The first block for an inode that has none on its way.
LEMMA WillBeWritten ==
    ASSUME NEW STATE queue, queue \in Seq(Tasks), NEW STATE t, t \in Tasks,
           NEW inode, NEW STATE old, \A j \in DOMAIN queue : ~Writes(queue[j], inode), Writes(t, inode)
    PROVE  WillBe(Written(old, t.pos, t.block), inode, old, Append(queue, t))
<1>1. /\ DOMAIN queue = 1..Len(queue) /\ DOMAIN Append(queue, t) = 1..Len(queue) + 1
      /\ Len(queue) \in Nat
      /\ \A j \in 1..Len(queue) : Append(queue, t)[j] = queue[j]
      /\ Append(queue, t)[Len(queue) + 1] = t
  OBVIOUS
<1>2. \A j \in DOMAIN Append(queue, t) : Writes(Append(queue, t)[j], inode) => j = Len(queue) + 1
  BY <1>1
<1>3. Len(queue) + 1 \in DOMAIN Append(queue, t)
  BY <1>1
<1> QED
  BY <1>1, <1>2, <1>3 DEF WillBe

\* A block is given to the pool when the one before it has been written.
LEMMA WriteBlockFits ==
    ASSUME IInv, HInv, NEW w \in Writers, WriteBlock(w), UNCHANGED past
    PROVE  HInv'
<1> USE DEF HInv, ContentFits
<1>1. PICK t \in Tasks : /\ t.op = "write" /\ t.by = w /\ t.inode = handle[w]
                         /\ t.pos = sent[w] + 1 /\ t.block = body[w][sent[w] + 1]
                         /\ tasks' = Append(tasks, t)
  BY BlockIsTask
<1>2. /\ TypeOK /\ tasks \in Seq(Tasks) /\ handle[w] \in Inodes /\ wants[w] \in Ids
      /\ body[w] \in Seq(Blocks) /\ sent[w] \in Nat
  BY ContentsAreBlocks DEF IInv, TypeOK, PlacesFit, InProgress, WriteBlock
<1>3. /\ pc[w] = "streaming" /\ sent[w] < Len(body[w])
      /\ sent' = [sent EXCEPT ![w] = sent[w] + 1]
      /\ UNCHANGED <<uploads, files, bytes, owner, spoilt, wants, body, handle, pc>>
      /\ \A k \in DOMAIN tasks : ~(tasks[k].op = "write" /\ tasks[k].by = w)
  BY DEF WriteBlock, Pending, disk, past, lockVars
<1>4. PastFits' /\ NamesFit' /\ RequestsFit' /\ OwnersFit' /\ \A u \in Writers \ {w} : Same(u)
  <2>1. Go(w, "streaming") /\ sent' \in [Writers -> Nat]
    BY <1>2, <1>3 DEF Go, TypeOK
  <2>2. UNCHANGED <<disk, past, lockVars, body, handle>> /\ \A u \in Writers \ {w} : sent'[u] = sent[u]
    BY <1>2, <1>3 DEF WriteBlock, TypeOK
  <2> QED
    BY <1>1, <1>3, <2>1, <2>2, SpawnFits
<1>5. ASSUME NEW i \in Inodes, i # handle[w], NEW c, WillHold(i, c)
      PROVE  WillBe(c, i, bytes[i], tasks')
  BY <1>1, <1>2, <1>5, WillBeAppended DEF WillHold, Writes
<1>6. /\ \A k \in DOMAIN tasks' : tasks'[k] = t \/ \E j \in DOMAIN tasks : tasks'[k] = tasks[j]
      /\ \A k \in DOMAIN tasks : tasks[k].by \in Writers /\ (tasks[k].op = "rename" => tasks[k].id \in Ids)
  BY <1>1, <1>2, Appended, PendingFields
<1>7. FilesFit'
  BY <1>3, <1>5 DEF FilesFit, WillHold
<1>8. MovesFit'
  <2> SUFFICES ASSUME NEW k \in DOMAIN tasks', NEW i \in Inodes \ spoilt,
                      tasks'[k].op = "rename", owner[tasks'[k].id] = tasks'[k].by,
                      uploads[tasks'[k].id] = i
               PROVE  WillBe(tasks'[k].to, i, bytes[i], tasks')
    BY <1>3 DEF MovesFit, WillHold
  <2>1. PICK j \in DOMAIN tasks : tasks'[k] = tasks[j]
    BY <1>1, <1>6
  <2>2. WillHold(i, tasks[j].to)
    BY <2>1 DEF MovesFit
  <2>3. handle[w] # i
    <3>1. SUFFICES ASSUME handle[w] = i PROVE FALSE
      OBVIOUS
    <3>2. tasks[j].by = w
      BY <1>2, <1>6, <2>1, <3>1, ConstantsAssumption DEF OwnersFit
    <3> QED
      BY <1>3, <2>1, <3>2 DEF IInv, RenamesFit
  <2> QED
    BY <1>5, <2>1, <2>2, <2>3
<1>9. StreamsFit'
  <2> SUFFICES ASSUME NEW u \in Writers, pc[u] = "streaming"
               PROVE  /\ sent'[u] <= Len(body[u])
                      /\ \A i \in Inodes \ spoilt : handle[u] = i /\ uploads[wants[u]] = i =>
                            /\ WillBe(SubSeq(body[u], 1, sent'[u]), i, bytes[i], tasks')
                            /\ \A k \in DOMAIN tasks' : Writes(tasks'[k], i) => tasks'[k].by = u
    BY <1>3 DEF StreamsFit, WillHold
  <2>1. CASE u # w
    <3>1. sent'[u] = sent[u] /\ sent[u] <= Len(body[u])
      BY <1>2, <1>3, <2>1 DEF StreamsFit, TypeOK
    <3>2. ASSUME NEW i \in Inodes \ spoilt, handle[u] = i, uploads[wants[u]] = i
          PROVE  /\ WillBe(SubSeq(body[u], 1, sent[u]), i, bytes[i], tasks')
                 /\ \A k \in DOMAIN tasks' : Writes(tasks'[k], i) => tasks'[k].by = u
      <4>1. handle[w] # i
        BY <1>2, <2>1, <3>2, ConstantsAssumption DEF RequestsFit
      <4>2. WillHold(i, SubSeq(body[u], 1, sent[u])) /\ \A k \in DOMAIN tasks : Writes(tasks[k], i) => tasks[k].by = u
        BY <3>2 DEF StreamsFit
      <4> QED
        BY <1>1, <1>5, <1>6, <4>1, <4>2 DEF Writes
    <3> QED
      BY <3>1, <3>2
  <2>2. CASE u = w
    <3>1. sent'[w] = sent[w] + 1 /\ sent[w] + 1 <= Len(body[w])
      BY <1>2, <1>3 DEF TypeOK
    <3>2. ASSUME NEW i \in Inodes \ spoilt, handle[w] = i, uploads[wants[w]] = i
          PROVE  /\ WillBe(SubSeq(body[w], 1, sent[w] + 1), i, bytes[i], tasks')
                 /\ \A k \in DOMAIN tasks' : Writes(tasks'[k], i) => tasks'[k].by = w
      <4>1. WillHold(i, SubSeq(body[w], 1, sent[w])) /\ \A k \in DOMAIN tasks : Writes(tasks[k], i) => tasks[k].by = w
        BY <1>3, <3>2 DEF StreamsFit
      <4>2. \A k \in DOMAIN tasks : ~Writes(tasks[k], i)
        BY <1>3, <4>1 DEF Writes
      <4>3. bytes[i] = SubSeq(body[w], 1, sent[w])
        BY <4>1, <4>2 DEF WillHold, WillBe
      <4>4. Written(bytes[i], t.pos, t.block) = SubSeq(body[w], 1, sent[w] + 1)
        BY <1>1, <1>2, <1>3, <4>3, NextBlock
      <4>5. WillBe(Written(bytes[i], t.pos, t.block), i, bytes[i], tasks')
        BY <1>1, <1>2, <3>2, <4>2, WillBeWritten DEF Writes
      <4> QED
        BY <1>1, <1>6, <4>1, <4>4, <4>5
    <3> QED
      BY <2>2, <3>1, <3>2
  <2> QED
    BY <2>1, <2>2
<1> QED
  BY <1>4, <1>7, <1>8, <1>9

\* A task is done, and neither a path nor a request has changed.
LEMMA DoneFits ==
    ASSUME IInv, HInv, NEW n \in DOMAIN tasks, tasks[n].op # "remove", tasks' = Rest(n),
           UNCHANGED <<uploads, files, past, lockVars, input, handle, pc>>,
           \A i \in Inodes, c \in Seq(Blocks) : WillHold(i, c) => WillBe(c, i, bytes'[i], tasks')
    PROVE  HInv'
<1> USE DEF HInv
<1>1. UNCHANGED <<owner, spoilt, wants, body, sent>> /\ TypeOK
  BY DEF past, lockVars, input, IInv
<1>2. /\ \A k \in DOMAIN tasks' : \E j \in DOMAIN tasks : tasks'[k] = tasks[j]
      /\ \A j \in DOMAIN tasks \ {n} : \E k \in DOMAIN tasks' : tasks'[k] = tasks[j]
  BY <1>1, RestRemains, RestKeeps DEF TypeOK
<1>3. PastFits' /\ NamesFit'
  BY <1>1 DEF PastFits, NamesFit
<1>4. RequestsFit'
  BY <1>1, <1>2 DEF RequestsFit
<1>5. OwnersFit'
  <2>1. \A id \in Ids, w \in Writers : AtWork(w, id) => AtWork(w, id)'
    BY <1>1 DEF AtWork
  <2>2. \A id \in Ids, w \in Writers : WillRemove(w, id) => WillRemove(w, id)'
    BY <1>2 DEF WillRemove
  <2> QED
    BY <1>1, <2>1, <2>2 DEF OwnersFit
<1>6. ContentFits'
  BY <1>1, <1>2, ContentStays DEF Same
<1> QED
  BY <1>3, <1>4, <1>5, <1>6

\* A block arrives, whoever's upload the inode is by now.
LEMMA RunWriteFits ==
    ASSUME IInv, HInv, NEW n \in DOMAIN tasks, RunWrite(n), UNCHANGED past
    PROVE  HInv'
<1> DEFINE t == tasks[n]
<1>1. TypeOK /\ t.op = "write" /\ t.inode \in Inodes
  BY PendingFields DEF RunWrite, IInv
<1>2. /\ tasks' = Rest(n) /\ bytes' = [bytes EXCEPT ![t.inode] = Written(bytes[t.inode], t.pos, t.block)]
      /\ UNCHANGED <<uploads, files, past, lockVars, input, handle, pc>>
  BY DEF RunWrite
<1>3. ASSUME NEW i \in Inodes, NEW c \in Seq(Blocks), WillHold(i, c)
      PROVE  WillBe(c, i, bytes'[i], tasks')
  <2>1. CASE t.inode = i
    <3>1. bytes'[i] = Written(bytes[i], t.pos, t.block) /\ Writes(t, i)
      BY <1>1, <1>2, <2>1 DEF TypeOK, Writes
    <3> QED
      BY <1>1, <1>2, <1>3, <3>1, WillBeDone DEF WillHold
  <2>2. CASE t.inode # i
    <3>1. bytes'[i] = bytes[i] /\ ~Writes(t, i)
      BY <1>1, <1>2, <2>2 DEF TypeOK, Writes
    <3> QED
      BY <1>1, <1>2, <1>3, <3>1, WillBeDone DEF WillHold
  <2> QED
    BY <2>1, <2>2
<1> QED
  BY <1>1, <1>2, <1>3, DoneFits

\* A task fails that nobody waits for.
LEMMA FailsUnseen ==
    ASSUME IInv, HInv, NEW n \in DOMAIN tasks, tasks[n].op \in {"open", "rename"}, tasks' = Rest(n),
           UNCHANGED <<disk, past, lockVars, input, handle, pc>>
    PROVE  HInv'
<1>1. TypeOK /\ UNCHANGED <<uploads, files, bytes>>
  BY DEF IInv, disk
<1>2. \A i \in Inodes, c \in Seq(Blocks) : WillHold(i, c) => WillBe(c, i, bytes'[i], tasks')
  BY <1>1, WillBeDone DEF WillHold, Writes
<1> QED
  BY <1>1, <1>2, DoneFits

\* After a crash nothing is on its way, and what was not written is known.
LEMMA CrashFits ==
    ASSUME IInv, HInv, Crashes
    PROVE  HInv'
<1> USE DEF HInv
<1>1. /\ tasks' = <<>> /\ UNCHANGED <<uploads, files, bytes>>
      /\ pc' = [w \in Writers |-> "idle"]
      /\ handle' = [w \in Writers |-> None] /\ sent' = [w \in Writers |-> 0]
      /\ owner' = [id \in Ids |-> None]
      /\ spoilt' = spoilt \cup {inode \in Inodes : Linked(inode) /\ BlockToCome(inode)}
  BY DEF Crashes, Crash, disk
<1>2. PastFits' /\ NamesFit' /\ RequestsFit' /\ OwnersFit'
  BY <1>1, ConstantsAssumption DEF PastFits, NamesFit, RequestsFit, OwnersFit
<1>3. FilesFit'
  <2> SUFFICES ASSUME NEW c \in Contents, NEW i \in Inodes \ spoilt', files[c] = i
               PROVE  WillBe(c, i, bytes[i], tasks')
    BY <1>1 DEF FilesFit, WillHold
  <2>1. i \notin spoilt /\ ~BlockToCome(i)
    BY <1>1 DEF Linked
  <2>2. \A k \in DOMAIN tasks : ~Writes(tasks[k], i)
    BY <2>1 DEF BlockToCome, Pending, Writes
  <2>3. bytes[i] = c
    BY <2>1, <2>2 DEF ContentFits, FilesFit, WillHold, WillBe
  <2> QED
    BY <1>1, <2>3 DEF WillBe
<1>4. MovesFit' /\ StreamsFit'
  BY <1>1 DEF MovesFit, StreamsFit
<1> QED
  BY <1>2, <1>3, <1>4 DEF ContentFits

\* The upload at a path is taken away, by a removal or a rename: the others stay
\* what they were.
LEMMA PathTakenFits ==
    ASSUME IInv, HInv, NEW n \in DOMAIN tasks, tasks[n].op \in {"remove", "rename"},
           tasks' = Rest(n),
           uploads' = [uploads EXCEPT ![tasks[n].id] = None],
           owner' = [owner EXCEPT ![tasks[n].id] = None],
           spoilt' \subseteq Inodes,
           \A id \in Ids \ {tasks[n].id}, i \in Inodes \ spoilt' : uploads[id] = i => i \notin spoilt,
           \/ UNCHANGED pc
           \/ /\ tasks[n].op = "rename" /\ pc[tasks[n].by] = "moving"
              /\ pc' = [pc EXCEPT ![tasks[n].by] = "moved"],
           UNCHANGED <<bytes, lockVars, input, handle>>
    PROVE  /\ PastFits' /\ RequestsFit' /\ OwnersFit' /\ MovesFit' /\ StreamsFit'
           /\ \A u \in Writers : pc'[u] = "streaming" => pc[u] = "streaming"
           /\ \A i \in Inodes, c \in Seq(Blocks) : WillHold(i, c) => WillBe(c, i, bytes'[i], tasks')
<1> DEFINE t == tasks[n]
<1> USE DEF HInv, ContentFits
<1>1. /\ UNCHANGED <<bytes, wants, body, sent, handle>> /\ TypeOK
      /\ t.by \in Writers /\ t.id \in Ids /\ t.op \in {"remove", "rename"}
      /\ owner \in [Ids -> Writers \cup {None}] /\ None \notin Writers \cup Inodes
      /\ uploads \in [Ids -> Inodes \cup {None}] /\ pc \in [Writers -> PCs]
  BY PendingFields, ConstantsAssumption DEF lockVars, input, IInv, TypeOK, PastFits
<1>2. /\ \A k \in DOMAIN tasks' : \E j \in DOMAIN tasks : tasks'[k] = tasks[j]
      /\ \A j \in DOMAIN tasks \ {n} : \E k \in DOMAIN tasks' : tasks'[k] = tasks[j]
  <2>1. tasks \in Seq(Tasks)
    BY <1>1 DEF TypeOK
  <2>2. \A k \in DOMAIN Rest(n) : \E j \in DOMAIN tasks : Rest(n)[k] = tasks[j]
    BY <2>1, RestRemains
  <2>3. \A j \in DOMAIN tasks \ {n} : \E k \in DOMAIN Rest(n) : Rest(n)[k] = tasks[j]
    BY <1>1, RestKeeps
  <2> QED
    BY <2>2, <2>3
<1>3. \A i \in Inodes, c \in Seq(Blocks) : WillHold(i, c) => WillBe(c, i, bytes'[i], tasks')
  BY <1>1, WillBeDone DEF WillHold, Writes
<1>4. /\ \A u \in Writers : pc'[u] # pc[u] => u = t.by /\ pc[u] = "moving" /\ pc'[u] = "moved" /\ t.op = "rename"
      /\ \A u \in Writers : pc'[u] = "streaming" => pc[u] = "streaming"
  BY <1>1
<1>5. PastFits'
  BY <1>1 DEF PastFits
<1>6. RequestsFit'
  <2>1. ASSUME NEW k \in DOMAIN tasks'
        PROVE  /\ pc'[tasks'[k].by] \notin {"locking", "locked"}
               /\ tasks'[k].op = "open" /\ pc'[tasks'[k].by] = "opening" => tasks'[k].id = wants[tasks'[k].by]
               /\ tasks'[k].op = "rename" /\ pc'[tasks'[k].by] = "moving" => tasks'[k].id = wants[tasks'[k].by]
    <3>1. PICK j \in DOMAIN tasks : tasks'[k] = tasks[j]
      BY <1>2
    <3>2. tasks[j].by \in Writers
      BY <1>1, PendingFields
    <3> HIDE DEF t
    <3> QED
      BY <1>4, <3>1, <3>2 DEF RequestsFit
  <2> QED
    BY <1>1, <1>4, <2>1 DEF RequestsFit
<1>7. OwnersFit'
  <2>1. ASSUME NEW id \in Ids, uploads'[id] = None
        PROVE  owner'[id] = None
    BY <1>1, <2>1 DEF OwnersFit
  <2>2. ASSUME NEW id \in Ids, NEW w \in Writers, owner'[id] = w
        PROVE  AtWork(w, id)' \/ WillRemove(w, id)'
    <3>1. id # t.id /\ owner[id] = w /\ uploads'[id] = uploads[id]
      BY <1>1, <2>2
    <3>2. CASE AtWork(w, id)
      <4>1. pc'[w] = pc[w]
        BY <1>1, <1>4, <3>1, <3>2 DEF AtWork, RequestsFit
      <4> QED
        BY <1>1, <3>1, <3>2, <4>1 DEF AtWork
    <3>3. CASE WillRemove(w, id)
      <4>1. PICK j \in DOMAIN tasks : tasks[j].op = "remove" /\ tasks[j].by = w /\ tasks[j].id = id
        BY <3>3 DEF WillRemove
      <4>2. PICK k \in DOMAIN tasks' : tasks'[k] = tasks[j]
        BY <1>2, <3>1, <4>1
      <4>3. pc'[w] \in {"idle", "answered"}
        BY <1>4, <3>3 DEF WillRemove
      <4> QED
        BY <4>1, <4>2, <4>3 DEF WillRemove
    <3> QED
      BY <3>1, <3>2, <3>3 DEF OwnersFit
  <2>3. ASSUME NEW id \in Ids, NEW w \in Writers, handle'[w] # None, handle'[w] = uploads'[id]
        PROVE  wants'[w] = id /\ owner'[id] = w
    BY <1>1, <2>3 DEF OwnersFit
  <2> QED
    BY <2>1, <2>2, <2>3 DEF OwnersFit
<1>8. MovesFit'
  <2> SUFFICES ASSUME NEW k \in DOMAIN tasks', NEW i \in Inodes \ spoilt',
                      tasks'[k].op = "rename", owner'[tasks'[k].id] = tasks'[k].by,
                      uploads'[tasks'[k].id] = i
               PROVE  WillBe(tasks'[k].to, i, bytes'[i], tasks')
    BY DEF MovesFit, WillHold
  <2>1. PICK j \in DOMAIN tasks : tasks'[k] = tasks[j]
    BY <1>2
  <2>2. tasks[j].by \in Writers /\ tasks[j].id \in Ids /\ tasks[j].to \in Seq(Blocks)
    BY <1>1, <2>1, PendingFields, ContentsAreBlocks
  <2>3. tasks[j].id # t.id
    BY <1>1, <2>1, <2>2
  <2>4. uploads[tasks[j].id] = i /\ owner[tasks[j].id] = tasks[j].by
    BY <1>1, <2>1, <2>2, <2>3
  <2>5. WillHold(i, tasks[j].to)
    BY <2>1, <2>2, <2>3, <2>4 DEF MovesFit
  <2> QED
    BY <1>3, <2>1, <2>2, <2>5
<1>9. StreamsFit'
  <2> SUFFICES ASSUME NEW w \in Writers, pc'[w] = "streaming"
               PROVE  /\ sent[w] <= Len(body[w])
                      /\ \A i \in Inodes \ spoilt' : handle[w] = i /\ uploads'[wants[w]] = i =>
                            /\ WillBe(SubSeq(body[w], 1, sent[w]), i, bytes'[i], tasks')
                            /\ \A k \in DOMAIN tasks' : Writes(tasks'[k], i) => tasks'[k].by = w
    BY <1>1 DEF StreamsFit, WillHold
  <2>1. /\ pc[w] = "streaming" /\ body[w] \in Seq(Blocks) /\ sent[w] \in Nat /\ sent[w] <= Len(body[w])
        /\ wants[w] \in Ids
    BY <1>1, <1>4, ContentsAreBlocks DEF StreamsFit, TypeOK, IInv, PlacesFit, InProgress
  <2>2. SubSeq(body[w], 1, sent[w]) \in Seq(Blocks)
    BY <2>1
  <2>3. ASSUME NEW i \in Inodes \ spoilt', handle[w] = i, uploads'[wants[w]] = i
        PROVE  /\ WillBe(SubSeq(body[w], 1, sent[w]), i, bytes'[i], tasks')
               /\ \A k \in DOMAIN tasks' : Writes(tasks'[k], i) => tasks'[k].by = w
    <3>1. wants[w] # t.id /\ uploads[wants[w]] = i
      BY <1>1, <2>1, <2>3
    <3>2. WillHold(i, SubSeq(body[w], 1, sent[w])) /\ \A k \in DOMAIN tasks : Writes(tasks[k], i) => tasks[k].by = w
      BY <2>1, <2>3, <3>1 DEF StreamsFit
    <3>3. WillBe(SubSeq(body[w], 1, sent[w]), i, bytes'[i], tasks')
      BY <1>3, <2>2, <3>2
    <3>4. ASSUME NEW k \in DOMAIN tasks', Writes(tasks'[k], i)
          PROVE  tasks'[k].by = w
      <4>1. PICK j \in DOMAIN tasks : tasks'[k] = tasks[j]
        BY <1>2
      <4>2. Writes(tasks[j], i)
        BY <3>4, <4>1
      <4> QED
        BY <3>2, <4>1, <4>2
    <3> QED
      BY <3>3, <3>4
  <2> QED
    BY <2>1, <2>3
<1> QED
  BY <1>3, <1>4, <1>5, <1>6, <1>7, <1>8, <1>9

\* A removal comes, of its own upload or of a later one.
LEMMA RemovesFits ==
    ASSUME IInv, HInv, NEW n \in DOMAIN tasks, Removes(n)
    PROVE  HInv'
<1> DEFINE t == tasks[n]
<1> USE DEF HInv, ContentFits
<1>1. /\ t.op = "remove" /\ tasks' = Rest(n) /\ uploads' = [uploads EXCEPT ![t.id] = None]
      /\ owner' = [owner EXCEPT ![t.id] = None] /\ spoilt' = spoilt \ {uploads[t.id]}
      /\ UNCHANGED <<files, bytes, lockVars, pc, input, handle>>
  BY DEF Removes, RunRemove
<1>2. /\ t.id \in Ids /\ uploads \in [Ids -> Inodes \cup {None}] /\ None \notin Inodes /\ spoilt \subseteq Inodes
  BY <1>1, PendingFields, ConstantsAssumption DEF IInv, TypeOK, PastFits
<1>3. \A id \in Ids \ {t.id}, i \in Inodes \ spoilt' : uploads[id] = i => i \notin spoilt
  BY <1>1, <1>2 DEF NamesFit
<1>4. /\ PastFits' /\ RequestsFit' /\ OwnersFit' /\ MovesFit' /\ StreamsFit'
      /\ \A i \in Inodes, c \in Seq(Blocks) : WillHold(i, c) => WillBe(c, i, bytes'[i], tasks')
  BY <1>1, <1>2, <1>3, PathTakenFits
<1>5. NamesFit'
  BY <1>1, <1>2 DEF NamesFit
<1>6. FilesFit'
  <2> SUFFICES ASSUME NEW c \in Contents, NEW i \in Inodes \ spoilt', files[c] = i
               PROVE  /\ WillBe(c, i, bytes'[i], tasks')
                      /\ \A w \in Writers : handle[w] = i => pc[w] # "streaming"
    BY <1>1 DEF FilesFit, WillHold
  <2>1. i \notin spoilt /\ c \in Seq(Blocks)
    BY <1>1, <1>2, ContentsAreBlocks DEF NamesFit
  <2> QED
    BY <1>4, <2>1 DEF FilesFit
<1> QED
  BY <1>4, <1>5, <1>6

\* A rename comes: what it moves is whole if it is its own request's upload.
LEMMA MovedFits ==
    ASSUME IInv, HInv, NEW n \in DOMAIN tasks, Renames(n), uploads[tasks[n].id] # None
    PROVE  HInv'
<1> DEFINE t == tasks[n]
<1> USE DEF HInv, ContentFits
<1>1. /\ t.op = "rename" /\ tasks' = Rest(n) /\ uploads' = [uploads EXCEPT ![t.id] = None]
      /\ files' = [files EXCEPT ![t.to] = uploads[t.id]]
      /\ owner' = [owner EXCEPT ![t.id] = None]
      /\ spoilt' = (spoilt \ {files[t.to]}) \cup (IF owner[t.id] = t.by THEN {} ELSE {uploads[t.id]})
      /\ UNCHANGED <<bytes, lockVars, input, handle>>
      /\ \/ UNCHANGED pc
         \/ pc[t.by] = "moving" /\ pc' = [pc EXCEPT ![t.by] = "moved"]
  BY DEF Renames, RunRename, Missing, Renamed, Awaited, Go
<1>2. /\ t.id \in Ids /\ t.to \in Contents /\ t.by \in Writers /\ uploads[t.id] \in Inodes
      /\ uploads \in [Ids -> Inodes \cup {None}] /\ files \in [Contents -> Inodes \cup {None}]
      /\ None \notin Inodes /\ spoilt \subseteq Inodes
  BY <1>1, PendingFields, ConstantsAssumption DEF IInv, TypeOK, PastFits
<1>3. \A id \in Ids \ {t.id}, i \in Inodes \ spoilt' : uploads[id] = i => i \notin spoilt
  BY <1>1, <1>2 DEF NamesFit
<1>4. /\ PastFits' /\ RequestsFit' /\ OwnersFit' /\ MovesFit' /\ StreamsFit'
      /\ \A u \in Writers : pc'[u] = "streaming" => pc[u] = "streaming"
      /\ \A i \in Inodes, c \in Seq(Blocks) : WillHold(i, c) => WillBe(c, i, bytes'[i], tasks')
  <2>1. spoilt' \subseteq Inodes
    BY <1>1, <1>2
  <2> HIDE DEF HInv, ContentFits
  <2> QED
    BY <1>1, <1>3, <2>1, PathTakenFits
<1>5. NamesFit'
  BY <1>1, <1>2 DEF NamesFit
<1>6. FilesFit'
  <2> SUFFICES ASSUME NEW c \in Contents, NEW i \in Inodes \ spoilt', files'[c] = i
               PROVE  /\ WillBe(c, i, bytes'[i], tasks')
                      /\ \A w \in Writers : handle[w] = i => pc'[w] # "streaming"
    BY <1>1 DEF FilesFit, WillHold
  <2>1. c \in Seq(Blocks)
    BY ContentsAreBlocks
  <2>2. CASE c = t.to
    <3>1. uploads[t.id] = i /\ owner[t.id] = t.by /\ i \notin spoilt
      BY <1>1, <1>2, <2>2 DEF NamesFit
    <3>2. WillHold(i, c)
      BY <1>1, <2>2, <3>1 DEF MovesFit
    <3>3. \A w \in Writers : handle[w] = i => pc[w] # "streaming"
      BY <1>1, <1>2, <3>1 DEF OwnersFit, IInv, RenamesFit
    <3> QED
      BY <1>4, <2>1, <3>2, <3>3
  <2>3. CASE c # t.to
    <3>1. files[c] = i /\ i \notin spoilt
      BY <1>1, <1>2, <2>3 DEF NamesFit
    <3> QED
      BY <1>4, <2>1, <3>1 DEF FilesFit
  <2> QED
    BY <2>2, <2>3
<1> QED
  BY <1>4, <1>5, <1>6

\* An upload is opened, and becomes its request's if that still waits for it.
LEMMA OpenedFits ==
    ASSUME IInv, HInv, LocksFit, NEW n \in DOMAIN tasks, tasks[n].op = "open",
           NEW inode \in Opened(tasks[n].id),
           uploads' = [uploads EXCEPT ![tasks[n].id] = inode],
           bytes' = IF uploads[tasks[n].id] = None THEN [bytes EXCEPT ![inode] = <<>>] ELSE bytes,
           tasks' = Rest(n),
           UNCHANGED <<files, lockVars, input>>,
           \/ /\ pc[tasks[n].by] = "opening"
              /\ pc' = [pc EXCEPT ![tasks[n].by] = "streaming"]
              /\ handle' = [handle EXCEPT ![tasks[n].by] = inode]
              /\ owner' = [owner EXCEPT ![tasks[n].id] = tasks[n].by]
              /\ spoilt' = IF LeftBehind(uploads[tasks[n].id]) THEN spoilt \cup {uploads[tasks[n].id]}
                                                               ELSE spoilt
           \/ UNCHANGED <<pc, handle, past>>
    PROVE  HInv'
<1> DEFINE t == tasks[n]
           w == tasks[n].by
           new == uploads[tasks[n].id] = None
           awaited == pc'[tasks[n].by] # pc[tasks[n].by]
<1> USE DEF HInv, ContentFits
<1>1. /\ w \in Writers /\ t.id \in Ids /\ TypeOK
      /\ None \notin Writers \cup Inodes
      /\ uploads \in [Ids -> Inodes \cup {None}] /\ pc \in [Writers -> PCs]
      /\ handle \in [Writers -> Inodes \cup {None}]
      /\ owner \in [Ids -> Writers \cup {None}] /\ spoilt \subseteq Inodes
      /\ bytes \in [Inodes -> Seq(Blocks)]
      /\ UNCHANGED <<files, wants, body, sent>>
  BY PendingFields, ConstantsAssumption DEF IInv, TypeOK, PastFits, lockVars, input
<1>2. /\ new => inode \in Free
      /\ ~new => inode = uploads[t.id]
      /\ inode \in Inodes
  BY <1>1 DEF Opened, Free
<1>3. \/ /\ awaited /\ pc[w] = "opening" /\ pc' = [pc EXCEPT ![w] = "streaming"]
         /\ handle' = [handle EXCEPT ![w] = inode] /\ owner' = [owner EXCEPT ![t.id] = w]
         /\ spoilt' = IF LeftBehind(uploads[t.id]) THEN spoilt \cup {uploads[t.id]} ELSE spoilt
      \/ ~awaited /\ UNCHANGED <<pc, handle, owner, spoilt>>
  BY <1>1 DEF past
<1>4. awaited => wants[w] = t.id /\ handle[w] = None /\ sent[w] = 0
  BY <1>1, <1>3 DEF RequestsFit
<1>5. /\ \A id \in Ids \ {t.id} : uploads[id] # inode
      /\ \A c \in Contents : files[c] # inode
  BY <1>1, <1>2 DEF NamesFit, Free
<1>6. awaited \/ new => \A u \in Writers : handle[u] # inode
  <2>1. CASE new
    BY <1>2, <2>1 DEF Free
  <2>2. ASSUME awaited, ~new, NEW u \in Writers, handle[u] = inode
        PROVE  FALSE
    <3>1. wants[u] = t.id /\ pc[u] \in {"streaming", "moving", "moved"}
      BY <1>1, <1>2, <2>2 DEF OwnersFit, RequestsFit
    <3>2. HasLock(u) /\ HasLock(w) /\ wants[w] = t.id
      BY <1>3, <1>4, <2>2, <3>1 DEF HasLock
    <3>3. u = w
      BY <1>1, <3>1, <3>2 DEF LocksFit, HoldersFit
    <3> QED
      BY <1>1, <1>2, <1>4, <2>2, <3>3
  <2> QED
    BY <2>1, <2>2
<1>7. /\ \A k \in DOMAIN tasks' : \E j \in DOMAIN tasks : tasks'[k] = tasks[j]
      /\ \A j \in DOMAIN tasks \ {n} : \E k \in DOMAIN tasks' : tasks'[k] = tasks[j]
  <2>1. tasks \in Seq(Tasks)
    BY <1>1 DEF TypeOK
  <2>2. \A k \in DOMAIN Rest(n) : \E j \in DOMAIN tasks : Rest(n)[k] = tasks[j]
    BY <2>1, RestRemains
  <2>3. \A j \in DOMAIN tasks \ {n} : \E k \in DOMAIN Rest(n) : Rest(n)[k] = tasks[j]
    BY <1>1, RestKeeps
  <2> QED
    BY <2>2, <2>3
<1>8. ASSUME NEW i \in Inodes, i # inode \/ ~new, NEW c, WillHold(i, c)
      PROVE  WillBe(c, i, bytes'[i], tasks')
  <2>1. bytes'[i] = bytes[i]
    BY <1>1, <1>8
  <2> QED
    BY <1>1, <1>8, <2>1, WillBeDone DEF WillHold, Writes
<1>9. /\ uploads'[t.id] = inode /\ \A id \in Ids \ {t.id} : uploads'[id] = uploads[id]
      /\ \A u \in Writers : (awaited /\ u = w) \/ (pc'[u] = pc[u] /\ handle'[u] = handle[u])
      /\ awaited => pc'[w] = "streaming" /\ handle'[w] = inode /\ owner'[t.id] = w
      /\ \A id \in Ids : id # t.id \/ ~awaited => owner'[id] = owner[id]
      /\ spoilt \subseteq spoilt'
  BY <1>1, <1>3
<1>10. PastFits' /\ NamesFit'
  <2>1. PastFits'
    BY <1>1, <1>2, <1>3 DEF PastFits, LeftBehind
  <2>2. NamesFit'
    BY <1>1, <1>2, <1>5, <1>9 DEF NamesFit
  <2> QED
    BY <2>1, <2>2
<1> HIDE DEF t, w, new, awaited
<1>11. RequestsFit'
  <2>1. ASSUME NEW k \in DOMAIN tasks'
        PROVE  /\ pc'[tasks'[k].by] \notin {"locking", "locked"}
               /\ tasks'[k].op = "open" /\ pc'[tasks'[k].by] = "opening" => tasks'[k].id = wants[tasks'[k].by]
               /\ tasks'[k].op = "rename" /\ pc'[tasks'[k].by] = "moving" => tasks'[k].id = wants[tasks'[k].by]
    <3>1. PICK j \in DOMAIN tasks : tasks'[k] = tasks[j]
      BY <1>7
    <3>2. tasks[j].by \in Writers
      BY <1>1, PendingFields
    <3> QED
      BY <1>9, <3>1, <3>2 DEF RequestsFit
  <2>2. \A v, u \in Writers : handle'[v] # None /\ handle'[v] = handle'[u] => v = u
    BY <1>6, <1>9 DEF RequestsFit
  <2>3. \A u \in Writers :
            pc'[u] \notin {"streaming", "moving", "moved"} => handle'[u] = None /\ sent[u] = 0
    BY <1>9 DEF RequestsFit
  <2> QED
    BY <1>1, <2>1, <2>2, <2>3 DEF RequestsFit
<1>12. OwnersFit'
  <2>1. ASSUME NEW id \in Ids, uploads'[id] = None
        PROVE  owner'[id] = None
    BY <1>1, <1>2, <1>9, <2>1 DEF OwnersFit
  <2>2. ASSUME NEW id \in Ids, NEW u \in Writers, owner'[id] = u
        PROVE  AtWork(u, id)' \/ WillRemove(u, id)'
    <3>1. CASE awaited /\ id = t.id
      BY <1>1, <1>4, <1>9, <2>2, <3>1 DEF AtWork
    <3>2. CASE ~(awaited /\ id = t.id)
      <4>1. owner[id] = u /\ uploads[id] # None
        BY <1>1, <1>9, <2>2, <3>2 DEF OwnersFit
      <4>2. uploads'[id] = uploads[id]
        BY <1>2, <1>9, <4>1 DEF new, t
      <4>3. CASE AtWork(u, id)
        <5>1. pc'[u] = pc[u] /\ handle'[u] = handle[u]
          BY <1>3, <1>9, <4>3 DEF AtWork
        <5> QED
          BY <1>1, <4>2, <4>3, <5>1 DEF AtWork
      <4>4. CASE WillRemove(u, id)
        <5>1. PICK j \in DOMAIN tasks : tasks[j].op = "remove" /\ tasks[j].by = u /\ tasks[j].id = id
          BY <4>4 DEF WillRemove
        <5>2. PICK k \in DOMAIN tasks' : tasks'[k] = tasks[j]
          BY <1>7, <5>1
        <5>3. pc'[u] = pc[u]
          BY <1>3, <1>9, <4>4 DEF WillRemove
        <5> QED
          BY <4>4, <5>1, <5>2, <5>3 DEF WillRemove
      <4> QED
        BY <4>1, <4>3, <4>4 DEF OwnersFit
    <3> QED
      BY <3>1, <3>2
  <2>3. ASSUME NEW id \in Ids, NEW u \in Writers, handle'[u] # None, handle'[u] = uploads'[id]
        PROVE  wants'[u] = id /\ owner'[id] = u
    <3>1. CASE awaited /\ u = w
      <4>1. id = t.id
        BY <1>5, <1>9, <2>3, <3>1
      <4> QED
        BY <1>1, <1>4, <1>9, <3>1, <4>1
    <3>2. CASE ~(awaited /\ u = w)
      <4>1. handle[u] # None /\ handle[u] = uploads'[id]
        BY <1>9, <2>3, <3>2
      <4>2. id = t.id => ~awaited /\ ~new
        BY <1>6, <1>9, <4>1
      <4>3. uploads'[id] = uploads[id] /\ owner'[id] = owner[id]
        BY <1>2, <1>9, <4>2
      <4> QED
        BY <1>1, <4>1, <4>3 DEF OwnersFit
    <3> QED
      BY <3>1, <3>2
  <2> QED
    BY <2>1, <2>2, <2>3 DEF OwnersFit
<1>13. FilesFit'
  <2> SUFFICES ASSUME NEW c \in Contents, NEW i \in Inodes \ spoilt', files[c] = i
               PROVE  /\ WillBe(c, i, bytes'[i], tasks')
                      /\ \A u \in Writers : handle'[u] = i => pc'[u] # "streaming"
    BY <1>1 DEF FilesFit, WillHold
  <2>1. i # inode /\ i \notin spoilt
    BY <1>5, <1>9
  <2>2. WillHold(i, c) /\ \A u \in Writers : handle[u] = i => pc[u] # "streaming"
    BY <2>1 DEF FilesFit
  <2> QED
    BY <1>8, <1>9, <2>1, <2>2
<1>14. MovesFit'
  <2> SUFFICES ASSUME NEW k \in DOMAIN tasks', NEW i \in Inodes \ spoilt',
                      tasks'[k].op = "rename", owner'[tasks'[k].id] = tasks'[k].by,
                      uploads'[tasks'[k].id] = i
               PROVE  WillBe(tasks'[k].to, i, bytes'[i], tasks')
    BY DEF MovesFit, WillHold
  <2>1. PICK j \in DOMAIN tasks : tasks'[k] = tasks[j]
    BY <1>7
  <2>2. tasks[j].op = "rename" /\ tasks[j].by \in Writers /\ tasks[j].id \in Ids
    BY <1>1, <2>1, PendingFields
  <2>3. ~(awaited /\ tasks[j].id = t.id)
    <3>1. awaited => tasks[j].by # w
      BY <1>3, <2>2 DEF IInv, RenamesFit
    <3> QED
      BY <1>9, <2>1, <3>1
  <2>4. owner[tasks[j].id] = tasks[j].by /\ uploads[tasks[j].id] # None
    BY <1>1, <1>9, <2>1, <2>2, <2>3 DEF OwnersFit
  <2>5. uploads[tasks[j].id] = i /\ (i # inode \/ ~new)
    BY <1>2, <1>5, <1>9, <2>1, <2>2, <2>4 DEF new, t
  <2>6. WillHold(i, tasks[j].to)
    BY <1>9, <2>2, <2>4, <2>5 DEF MovesFit
  <2> QED
    BY <1>8, <2>1, <2>5, <2>6
<1>15. StreamsFit'
  <2> SUFFICES ASSUME NEW u \in Writers, pc'[u] = "streaming"
               PROVE  /\ sent[u] <= Len(body[u])
                      /\ \A i \in Inodes \ spoilt' : handle'[u] = i /\ uploads'[wants[u]] = i =>
                            /\ WillBe(SubSeq(body[u], 1, sent[u]), i, bytes'[i], tasks')
                            /\ \A k \in DOMAIN tasks' : Writes(tasks'[k], i) => tasks'[k].by = u
    BY <1>1 DEF StreamsFit, WillHold
  <2>1. body[u] \in Seq(Blocks) /\ sent[u] \in Nat
    BY <1>1, ContentsAreBlocks DEF TypeOK
  <2>2. CASE awaited /\ u = w
    <3>1. sent[u] <= Len(body[u]) /\ SubSeq(body[u], 1, sent[u]) = <<>>
      BY <1>4, <2>1, <2>2
    <3>2. ASSUME inode \notin spoilt'
          PROVE  bytes'[inode] = <<>> /\ \A k \in DOMAIN tasks : ~Writes(tasks[k], inode)
      <4>1. CASE new
        BY <1>1, <1>2, <4>1 DEF Free, Pending, Writes, new, t
      <4>2. CASE ~new
        <5>1. inode = uploads[t.id] /\ ~LeftBehind(inode) /\ inode # None
          BY <1>1, <1>2, <1>3, <2>2, <3>2, <4>2
        <5>2. bytes[inode] = <<>> /\ ~BlockToCome(inode)
          BY <1>6, <2>2, <5>1 DEF LeftBehind
        <5> QED
          BY <4>2, <5>2 DEF BlockToCome, Pending, Writes, new
      <4> QED
        BY <4>1, <4>2
    <3>3. ASSUME NEW i \in Inodes \ spoilt', handle'[u] = i
          PROVE  /\ WillBe(<<>>, i, bytes'[i], tasks')
                 /\ \A k \in DOMAIN tasks' : Writes(tasks'[k], i) => tasks'[k].by = u
      <4>1. i = inode /\ bytes'[i] = <<>> /\ \A k \in DOMAIN tasks : ~Writes(tasks[k], i)
        BY <1>9, <2>2, <3>2, <3>3
      <4>2. \A k \in DOMAIN tasks' : ~Writes(tasks'[k], i)
        BY <1>7, <4>1
      <4> QED
        BY <4>1, <4>2 DEF WillBe
    <3> QED
      BY <3>1, <3>3
  <2>3. CASE ~(awaited /\ u = w)
    <3>1. pc[u] = "streaming" /\ handle'[u] = handle[u] /\ sent[u] <= Len(body[u])
      BY <1>9, <2>3 DEF StreamsFit
    <3>2. wants[u] \in Ids
      BY <3>1 DEF IInv, PlacesFit, InProgress
    <3>3. ASSUME NEW i \in Inodes \ spoilt', handle[u] = i, uploads'[wants[u]] = i
          PROVE  /\ WillBe(SubSeq(body[u], 1, sent[u]), i, bytes'[i], tasks')
                 /\ \A k \in DOMAIN tasks' : Writes(tasks'[k], i) => tasks'[k].by = u
      <4>1. i # inode \/ ~new
        BY <1>6, <3>3
      <4>2. uploads[wants[u]] = i
        BY <1>2, <1>9, <3>2, <3>3, <4>1
      <4>3. WillHold(i, SubSeq(body[u], 1, sent[u])) /\ \A k \in DOMAIN tasks : Writes(tasks[k], i) => tasks[k].by = u
        BY <1>9, <3>1, <3>3, <4>2 DEF StreamsFit
      <4>4. ASSUME NEW k \in DOMAIN tasks', Writes(tasks'[k], i)
            PROVE  tasks'[k].by = u
        <5>1. PICK j \in DOMAIN tasks : tasks'[k] = tasks[j]
          BY <1>7
        <5>2. Writes(tasks[j], i)
          BY <4>4, <5>1
        <5> QED
          BY <4>3, <5>1, <5>2
      <4> QED
        BY <1>8, <4>1, <4>3, <4>4
    <3> QED
      BY <3>1, <3>3
  <2> QED
    BY <2>2, <2>3
<1> QED
  BY <1>10, <1>11, <1>12, <1>13, <1>14, <1>15

\* The opening of an upload, done or not.
LEMMA OpensFits ==
    ASSUME IInv, HInv, LocksFit, NEW n \in DOMAIN tasks, Opens(n)
    PROVE  HInv'
<1> DEFINE t == tasks[n]
<1>1. /\ t.op = "open" /\ t.by \in Writers /\ t.id \in Ids /\ TypeOK
      /\ None \notin Inodes /\ uploads \in [Ids -> Inodes \cup {None}]
  BY PendingFields, ConstantsAssumption DEF Opens, RunOpen, IInv, TypeOK
<1>2. ASSUME NEW inode \in Opened(t.id),
             uploads' = [uploads EXCEPT ![t.id] = inode],
             bytes' = IF uploads[t.id] = None THEN [bytes EXCEPT ![inode] = <<>>] ELSE bytes,
             tasks' = Rest(n),
             \/ Awaited(t, "opening") /\ handle' = [handle EXCEPT ![t.by] = inode] /\ Go(t.by, "streaming")
             \/ ~Awaited(t, "opening") /\ UNCHANGED <<handle, pc>>,
             UNCHANGED <<db, files, lockVars, input, status, seen>>
      PROVE  HInv'
  <2>1. inode \in Inodes /\ uploads'[t.id] # None
    BY <1>1, <1>2 DEF Opened, Free
  <2>2. \/ /\ pc[t.by] = "opening" /\ pc' = [pc EXCEPT ![t.by] = "streaming"]
           /\ handle' = [handle EXCEPT ![t.by] = inode]
           /\ owner' = [owner EXCEPT ![t.id] = t.by]
           /\ spoilt' = IF LeftBehind(uploads[t.id]) THEN spoilt \cup {uploads[t.id]} ELSE spoilt
        \/ UNCHANGED <<pc, handle, past>>
    BY <1>2, <2>1 DEF Opens, Awaited, Go, past
  <2> QED
    BY <1>1, <1>2, <2>2, OpenedFits
<1>3. ASSUME Opened(t.id) = {}, UNCHANGED <<stored, disk>>
      PROVE  UNCHANGED past
  <2>1. uploads[t.id] = None /\ uploads' = uploads
    BY <1>3 DEF Opened, disk
  <2> QED
    BY <1>1, <2>1 DEF Opens, LeftBehind, past
<1>4. CASE /\ Opened(t.id) = {} /\ Awaited(t, "opening")
           /\ Answer(t.by, "UploadFailed", Rest(n), FALSE) /\ UNCHANGED <<stored, disk>>
  <2>1. UNCHANGED <<disk, past>> /\ InProgress(t.by) /\ Leave(t.by, Rest(n), FALSE) /\ Go(t.by, "answered")
    BY <1>3, <1>4 DEF Awaited, InProgress, Answer
  <2> QED
    BY <1>1, <2>1, LeaveFits
<1>5. CASE /\ Opened(t.id) = {} /\ ~Awaited(t, "opening") /\ tasks' = Rest(n)
           /\ UNCHANGED <<reserved, lockVars, pc, input, handle, status, seen, stored, disk>>
  <2>1. UNCHANGED <<disk, past, lockVars, input, handle, pc>>
    BY <1>3, <1>5
  <2> QED
    BY <1>1, <1>5, <2>1, FailsUnseen
<1>6. RunOpen(n)
  BY DEF Opens
<1> QED
  BY <1>2, <1>4, <1>5, <1>6 DEF RunOpen

\* A rename, with something to move or without.
LEMMA RenamesFits ==
    ASSUME IInv, HInv, NEW n \in DOMAIN tasks, Renames(n)
    PROVE  HInv'
<1> DEFINE t == tasks[n]
<1>1. /\ t.op = "rename" /\ t.by \in Writers /\ t.id \in Ids /\ TypeOK
  BY PendingFields DEF Renames, RunRename, IInv
<1>2. CASE uploads[t.id] # None
  BY <1>2, MovedFits
<1>3. CASE uploads[t.id] = None
  <2>1. UNCHANGED past
    <3>1. owner[t.id] = None
      BY <1>1, <1>3 DEF HInv, OwnersFit
    <3>2. owner \in [Ids -> Writers \cup {None}] /\ owner' = [owner EXCEPT ![t.id] = None] /\ spoilt' = spoilt
      BY <1>3 DEF Renames, HInv, PastFits
    <3>3. owner' = owner
      BY <1>1, <3>1, <3>2
    <3> QED
      BY <3>2, <3>3 DEF past
  <2>2. CASE Awaited(t, "moving") /\ Answer(t.by, "MoveFailed", Rest(n), FALSE) /\ UNCHANGED <<stored, disk>>
    <3>1. UNCHANGED <<disk, past>> /\ InProgress(t.by) /\ Leave(t.by, Rest(n), FALSE) /\ Go(t.by, "answered")
      BY <2>1, <2>2 DEF Awaited, InProgress, Answer
    <3> QED
      BY <1>1, <3>1, LeaveFits
  <2>3. CASE /\ ~Awaited(t, "moving") /\ tasks' = Rest(n)
             /\ UNCHANGED <<reserved, lockVars, pc, input, handle, status, seen, stored, disk>>
    BY <1>1, <2>1, <2>3, FailsUnseen
  <2> QED
    BY <1>3, <2>2, <2>3 DEF Renames, RunRename, Missing
<1> QED
  BY <1>2, <1>3

\* The steps of the server but for the blocking pool.
LEMMA ServeFits ==
    ASSUME IInv, HInv, Serve, UNCHANGED past
    PROVE  HInv'
<1>0. TypeOK
  BY DEF IInv
<1>1. ASSUME NEW w \in Writers, NEW id \in Ids, NEW p \in Contents, NEW b \in Bodies, Receive(w, id, p, b)
      PROVE  HInv'
  <2>1. UNCHANGED <<disk, tasks, handle, sent>> /\ pc[w] = "idle" /\ \A k \in DOMAIN tasks : tasks[k].by # w
    BY <1>1 DEF Receive
  <2>2. pc'[w] = "locking" /\ \A u \in Writers \ {w} : Same(u)
    BY <1>0, <1>1 DEF Receive, Go, L!Ask, TypeOK, Same
  <2> QED
    BY <2>1, <2>2, QuietFits
<1>2. ASSUME NEW w \in Writers, Lock(w)
      PROVE  HInv'
  <2>1. UNCHANGED <<disk, tasks, handle, sent, wants, body>> /\ pc[w] = "locking"
    BY <1>2 DEF Lock, L!Grant, input
  <2>2. pc'[w] = "locked" /\ \A u \in Writers \ {w} : Same(u)
    BY <1>0, <1>2, <2>1 DEF Lock, Go, TypeOK, Same
  <2>3. \A k \in DOMAIN tasks : tasks[k].by # w
    BY <2>1 DEF HInv, RequestsFit
  <2> QED
    BY <2>1, <2>2, <2>3, QuietFits
<1>3. ASSUME NEW w \in Writers, Respond(w)
      PROVE  HInv'
  <2>1. UNCHANGED <<disk, tasks, handle, sent, wants, body>> /\ pc[w] = "answered"
    BY <1>3 DEF Respond, input, lockVars
  <2>2. pc'[w] = "idle" /\ \A u \in Writers \ {w} : Same(u)
    BY <1>0, <1>3, <2>1 DEF Respond, Go, TypeOK, Same
  <2> QED
    BY <2>1, <2>2, QuietFits
<1>4. ASSUME NEW w \in Writers,
             CheckFails(w) \/ UploadFails(w) \/ UpdateFails(w) \/ Commit(w) \/ CommitFails(w) \/ Cancel(w)
      PROVE  HInv'
  <2>1. /\ InProgress(w) /\ UNCHANGED disk /\ (Go(w, "idle") \/ Go(w, "answered"))
        /\ \E moved \in BOOLEAN : Leave(w, tasks, moved) /\ (moved => pc[w] = "moved")
    BY <1>4 DEF CheckFails, UploadFails, UpdateFails, Commit, CommitFails, Cancel, Refuse, Answer,
                BodyEnded, InProgress
  <2> QED
    BY <2>1, LeaveFits
<1>5. ASSUME NEW w \in Writers, Check(w) \/ WriteBlock(w) \/ Update(w)
      PROVE  HInv'
  BY <1>5, CheckFits, WriteBlockFits, UpdateFits
<1>6. ASSUME \/ \E r \in Readers : (\E id \in Ids : ReadLookup(r, id)) \/ ReadOpen(r)
             \/ \E id \in Ids : DeleteFile(id)
      PROVE  HInv'
  <2>1. UNCHANGED <<disk, tasks, handle, sent, pc, wants, body>>
    BY <1>6 DEF ReadLookup, ReadOpen, DeleteFile, input, lockVars
  <2> QED
    BY <2>1, QuietFits DEF Same
<1> QED
  BY <1>1, <1>2, <1>3, <1>4, <1>5, <1>6 DEF Serve, Work

\* Every step keeps the good histories good.
LEMMA HistoryStays == IInv /\ LocksFit /\ HInv /\ [HNext]_hvars => HInv'
<1> SUFFICES ASSUME IInv, LocksFit, HInv, [HNext]_hvars PROVE HInv'
  OBVIOUS
<1>1. CASE (Serve \/ \E n \in DOMAIN tasks : RunWrite(n)) /\ UNCHANGED past
  BY <1>1, ServeFits, RunWriteFits
<1>2. CASE \E n \in DOMAIN tasks : Opens(n) \/ Renames(n) \/ Removes(n)
  BY <1>2, OpensFits, RenamesFits, RemovesFits
<1>3. CASE Crashes
  BY <1>3, CrashFits
<1>4. CASE UNCHANGED hvars
  <2>1. UNCHANGED <<disk, tasks, past, handle, sent, pc, wants, body>>
    BY <1>4 DEF hvars, vars, input, lockVars
  <2> QED
    BY <2>1, QuietFits DEF Same
<1> QED
  BY <1>1, <1>2, <1>3, <1>4 DEF HNext

\* The history adds nothing to what the server does.
LEMMA HistoryIsSpec == HSpec => Spec
<1>1. HInit => Init
  BY DEF HInit
<1>2. [HNext]_hvars => [Next]_vars
  BY DEF HNext, Opens, Renames, Removes, Crashes, hvars, Next, Run
<1> QED
  BY <1>1, <1>2, PTL DEF HSpec, Spec

\* The inductive invariant of the history.
THEOREM HistoryInvariance == HSpec => [](IInv /\ LocksFit /\ HInv)
<1>1. HInit => LocksFit
  BY LocksFree DEF HInit
<1>2. [HNext]_hvars => [Next]_vars
  BY DEF HNext, Opens, Renames, Removes, Crashes, hvars, Next, Run
<1>3. IInv /\ LocksFit /\ [Next]_vars => LocksFit'
  BY HoldersStay
<1>4. HSpec => []IInv
  BY HistoryIsSpec, Invariance, PTL
<1> QED
  BY <1>1, <1>2, <1>3, <1>4, HInitHolds, HistoryStays, PTL DEF HSpec

\* What a row names is what a reader gets once its last block is written, unless
\* the file was spoilt by an earlier upload, a late rename or a crash.
THEOREM ContentStaysWhole == HSpec => []ContentIsWhole
<1>1. IInv /\ HInv => ContentIsWhole
  <2> SUFFICES ASSUME IInv, HInv, NEW id \in Ids, stored[id] \notin {Empty, Gone}, files[stored[id]] \notin spoilt
               PROVE  \/ bytes[files[stored[id]]] = stored[id]
                      \/ \E j \in DOMAIN tasks :
                            /\ tasks[j].op = "write" /\ tasks[j].inode = files[stored[id]]
                            /\ Written(bytes[files[stored[id]]], tasks[j].pos, tasks[j].block) = stored[id]
    BY DEF ContentIsWhole
  <2>1. stored[id] \in Contents /\ files[stored[id]] \in Inodes
    BY DEF IInv, TypeOK, CommittedHaveContent
  <2>2. WillHold(files[stored[id]], stored[id])
    BY <2>1 DEF HInv, ContentFits, FilesFit
  <2> QED
    BY <2>2 DEF WillHold, WillBe, Writes
<1> QED
  BY <1>1, HistoryInvariance, PTL

=============================================================================
