------------------------ MODULE FileWriteLock_proofs -----------------------
(***************************************************************************)
(* Theorems about FileWriteLock, for every set of tasks, files and         *)
(* mutexes.                                                                *)
(*                                                                         *)
(* Mutual exclusion rests on the map always leading to the one mutex of a  *)
(* file that anybody has a reference to (OneMutex): a task that finds no   *)
(* live entry and makes a mutex is the first to have one for its file.     *)
(* That nobody waits in vain rests on it too: a mutex that is locked is    *)
(* locked by a task of the same file.                                      *)
(***************************************************************************)
EXTENDS FileWriteLock, FiniteSetTheorems, TLAPS

\* What a task has, given where it is.
PlacesFit ==
    \A t \in Tasks :
        /\ IF pc[t] = "idle" THEN file[t] = None ELSE file[t] \in Ids
        /\ pc[t] \in {"lock", "locked", "unlocked"} <=> arc[t] # None
        /\ pc[t] \in {"retain", "upgrade"} <=> writer = t

\* Whoever has a reference to a mutex finds it in the map under its file.
OneMutex == \A t \in Tasks : arc[t] # None => map[file[t]] = arc[t]

\* A task that has locked its mutex is the mutex's owner.
OwnerFits == \A t \in Tasks : pc[t] = "locked" => owner[arc[t]] = t

IInv == TypeOK /\ PlacesFit /\ OneMutex /\ OwnerFits

-----------------------------------------------------------------------------

\* The initial state satisfies the invariant.
LEMMA InitHolds == Init => IInv
BY NoneAssumption
DEF Init, IInv, TypeOK, PlacesFit, OneMutex, OwnerFits, PCs

\* A new caller has no mutex yet.
LEMMA CallKeeps ==
    ASSUME IInv, NEW t \in Tasks, NEW id \in Ids, Call(t, id)
    PROVE  IInv'
BY NoneAssumption DEF IInv, TypeOK, PlacesFit, OneMutex, OwnerFits, Call, Go, PCs

\* What lookup upgrades is the mutex the map has for the file.
LEMMA LookupKeeps ==
    ASSUME IInv, NEW t \in Tasks, Lookup(t)
    PROVE  IInv'
<1> USE NoneAssumption DEF IInv
<1>1. CASE Alive(map[file[t]]) /\ arc' = [arc EXCEPT ![t] = map[file[t]]] /\ Go(t, "lock")
  BY <1>1 DEF TypeOK, PlacesFit, OneMutex, OwnerFits, Lookup, Alive, Go, PCs
<1>2. CASE Go(t, "insert") /\ UNCHANGED arc
  BY <1>2 DEF TypeOK, PlacesFit, OneMutex, OwnerFits, Lookup, Go, PCs
<1> QED
  BY <1>1, <1>2 DEF Lookup

\* Only one task writes to the map.
LEMMA LockMapKeeps ==
    ASSUME IInv, NEW t \in Tasks, LockMap(t)
    PROVE  IInv'
BY NoneAssumption DEF IInv, TypeOK, PlacesFit, OneMutex, OwnerFits, LockMap, Go, PCs

\* A task that meets the poison has no mutex.
LEMMA PoisonedKeeps ==
    ASSUME IInv, NEW t \in Tasks, Poisoned(t)
    PROVE  IInv'
BY NoneAssumption DEF IInv, TypeOK, PlacesFit, OneMutex, OwnerFits, Poisoned, Go, PCs

\* The entries of living mutexes are kept.
LEMMA RetainKeeps ==
    ASSUME IInv, NEW t \in Tasks, Retain(t)
    PROVE  IInv'
<1> USE NoneAssumption DEF IInv
<1>1. TypeOK' /\ PlacesFit' /\ OwnerFits'
  BY DEF TypeOK, PlacesFit, OwnerFits, Retain, Retained, Go, PCs
<1>2. OneMutex'
  <2> SUFFICES ASSUME NEW u \in Tasks, arc[u] # None PROVE map'[file[u]] = arc[u]
    BY DEF OneMutex, Retain
  <2>1. file[u] \in Ids /\ map[file[u]] = arc[u]
    BY DEF TypeOK, PlacesFit, OneMutex
  <2>2. Alive(map[file[u]])
    BY <2>1 DEF Alive
  <2> QED
    BY <2>1, <2>2 DEF Retain, Retained
<1> QED
  BY <1>1, <1>2

\* What the entry leads to is the mutex of the file.
LEMMA UpgradeKeeps ==
    ASSUME IInv, NEW t \in Tasks, Upgrade(t)
    PROVE  IInv'
BY NoneAssumption DEF IInv, TypeOK, PlacesFit, OneMutex, OwnerFits, Upgrade, Alive, Go, PCs

\* A file without an entry has no mutex anybody could have locked.
LEMMA InsertKeeps ==
    ASSUME IInv, NEW t \in Tasks, Insert(t)
    PROVE  IInv'
<1> USE NoneAssumption DEF IInv
<1>1. PICK m \in Mutexes : /\ Unused(m)
                           /\ map' = [map EXCEPT ![file[t]] = m]
                           /\ arc' = [arc EXCEPT ![t] = m]
                           /\ owner' = [owner EXCEPT ![m] = None]
  BY DEF Insert
<1>2. /\ pc[t] = "upgrade" /\ pc' = [pc EXCEPT ![t] = "lock"]
      /\ writer' = None /\ UNCHANGED <<poisoned, file>>
      /\ file[t] \in Ids /\ map[file[t]] = None
      /\ m # None /\ \A u \in Tasks : arc[u] # m
  BY <1>1 DEF PlacesFit, Insert, HasEntry, Go, Unused, Alive
<1>3. TypeOK'
  BY <1>1, <1>2 DEF TypeOK, PCs
<1>4. PlacesFit'
  BY <1>1, <1>2 DEF TypeOK, PlacesFit
<1>5. OneMutex'
  BY <1>1, <1>2 DEF TypeOK, OneMutex, PlacesFit
<1>6. OwnerFits'
  BY <1>1, <1>2 DEF TypeOK, OwnerFits, PlacesFit
<1> QED
  BY <1>3, <1>4, <1>5, <1>6

\* The panic gives the map back and takes no mutex along.
LEMMA ExpectFailsKeeps ==
    ASSUME IInv, NEW t \in Tasks, ExpectFails(t)
    PROVE  IInv'
BY NoneAssumption DEF IInv, TypeOK, PlacesFit, OneMutex, OwnerFits, ExpectFails, Go, PCs

\* The mutex locked has no other owner.
LEMMA LockKeeps ==
    ASSUME IInv, NEW t \in Tasks, Lock(t)
    PROVE  IInv'
<1> USE NoneAssumption DEF IInv
<1>1. arc[t] \in Mutexes /\ owner[arc[t]] = None
  BY DEF TypeOK, PlacesFit, Lock, IsFree
<1>2. TypeOK' /\ PlacesFit' /\ OneMutex'
  BY <1>1 DEF TypeOK, PlacesFit, OneMutex, Lock, Go, PCs
<1>3. OwnerFits'
  BY <1>1 DEF TypeOK, OwnerFits, Lock, Go
<1> QED
  BY <1>2, <1>3

\* Another holder would have the same mutex, and it has an owner.
LEMMA UnlockKeeps ==
    ASSUME IInv, NEW t \in Tasks, Unlock(t)
    PROVE  IInv'
<1> USE NoneAssumption DEF IInv
<1>1. arc[t] \in Mutexes /\ owner[arc[t]] = t
  BY DEF TypeOK, PlacesFit, OwnerFits, Unlock
<1>2. TypeOK' /\ PlacesFit' /\ OneMutex'
  BY <1>1 DEF TypeOK, PlacesFit, OneMutex, Unlock, Go, PCs
<1>3. OwnerFits'
  BY <1>1 DEF TypeOK, OwnerFits, Unlock, Go
<1> QED
  BY <1>2, <1>3

\* Whoever leaves takes nothing from the others.
LEMMA LeaveKeeps ==
    ASSUME IInv, NEW t \in Tasks, DropArc(t) \/ Cancel(t) \/ CatchPanic(t)
    PROVE  IInv'
<1> USE NoneAssumption DEF IInv
<1>1. CASE DropArc(t)
  BY <1>1 DEF TypeOK, PlacesFit, OneMutex, OwnerFits, DropArc, Go, PCs
<1>2. CASE Cancel(t)
  BY <1>2 DEF TypeOK, PlacesFit, OneMutex, OwnerFits, Cancel, Go, PCs
<1>3. CASE CatchPanic(t)
  BY <1>3 DEF TypeOK, PlacesFit, OneMutex, OwnerFits, CatchPanic, Go, PCs
<1> QED
  BY <1>1, <1>2, <1>3

-----------------------------------------------------------------------------

\* The map leads to the one mutex of each file, whatever the tasks do.
THEOREM Invariance == Spec => []IInv
<1>1. Init => IInv
  BY InitHolds
<1>2. IInv /\ [Next]_vars => IInv'
  <2> SUFFICES ASSUME IInv, [Next]_vars PROVE IInv'
    OBVIOUS
  <2>1. CASE Next
    BY <2>1, CallKeeps, LookupKeeps, LockMapKeeps, PoisonedKeeps, RetainKeeps, UpgradeKeeps,
       InsertKeeps, ExpectFailsKeeps, LockKeeps, UnlockKeeps, LeaveKeeps
    DEF Next, Proceed
  <2>2. CASE UNCHANGED vars
    BY <2>2 DEF vars, IInv, TypeOK, PlacesFit, OneMutex, OwnerFits
  <2> QED
    BY <2>1, <2>2
<1> QED
  BY <1>1, <1>2, PTL DEF Spec

\* Every variable keeps its type.
THEOREM TypeCorrect == Spec => []TypeOK
<1>1. IInv => TypeOK
  BY DEF IInv
<1> QED
  BY <1>1, Invariance, PTL

\* Two holders of one file have its one mutex, which has one owner.
LEMMA IInvExcludes == IInv => MutualExclusion
<1> SUFFICES ASSUME IInv,
                    NEW t \in Tasks, NEW u \in Tasks,
                    pc[t] = "locked", pc[u] = "locked", file[t] = file[u]
             PROVE  t = u
  BY DEF MutualExclusion
<1>1. arc[t] # None /\ arc[u] # None
  BY DEF IInv, PlacesFit
<1>2. arc[t] = arc[u]
  BY <1>1 DEF IInv, OneMutex
<1> QED
  BY <1>2 DEF IInv, OwnerFits

\* No two requests ever hold the lock of one file, whenever mutexes die and are
\* made again.
THEOREM MutualExclusionHolds == Spec => []MutualExclusion
<1> QED
  BY IInvExcludes, Invariance, PTL

-----------------------------------------------------------------------------
(* The map stays small                                                     *)

Entries == {id \in Ids : map[id] # None}

\* No mutex is in the map twice: only an unused one is inserted.
Distinct == \A i, j \in Ids : map[i] # None /\ map[i] = map[j] => i = j

\* The task that has retained the living entries has none of their mutexes, so
\* there is room for its own.  The other tasks cannot add to the map before it.
Small ==
    /\ IsFiniteSet(Entries)
    /\ Cardinality(Entries) <= Cardinality(Tasks)
    /\ \A t \in Tasks : pc[t] = "upgrade" => Cardinality(Entries) < Cardinality(Tasks)

SmallInv == Distinct /\ Small

\* The map is empty at first.
LEMMA InitSmall == Init => SmallInv
<1> SUFFICES ASSUME Init PROVE SmallInv
  OBVIOUS
<1>1. Entries = {}
  BY DEF Init, Entries
<1>2. Cardinality(Tasks) \in Nat
  BY TasksAssumption, FS_CardinalityType
<1>3. IsFiniteSet({}) /\ Cardinality({}) = 0
  BY FS_EmptySet
<1> QED
  BY <1>1, <1>2, <1>3 DEF Init, SmallInv, Distinct, Small

\* Most steps change neither the map nor who is about to insert.
LEMMA OthersKeepSmall ==
    ASSUME SmallInv, map' = map,
           \A t \in Tasks : pc'[t] = "upgrade" => pc[t] = "upgrade"
    PROVE  SmallInv'
<1>1. Entries' = Entries
  BY DEF Entries
<1> QED
  BY <1>1 DEF SmallInv, Distinct, Small

\* Every entry retained belongs to a task of its own, and none to the task that
\* retains.
LEMMA RetainMakesRoom ==
    ASSUME IInv, SmallInv, NEW t \in Tasks, Retain(t)
    PROVE  SmallInv'
<1>1. map' = [id \in Ids |-> Retained(map[id])] /\ pc' = [pc EXCEPT ![t] = "upgrade"] /\ arc[t] = None
  BY DEF IInv, PlacesFit, Retain, Go
<1>2. Entries' = {id \in Ids : Alive(map[id])}
  BY <1>1 DEF Entries, Retained, Alive
<1>3. Distinct'
  BY <1>1 DEF SmallInv, Distinct, Retained
<1> DEFINE Keeper == [id \in Entries' |-> CHOOSE u \in Tasks : arc[u] = map[id]]
<1>4. ASSUME NEW id \in Entries' PROVE Keeper[id] \in Tasks \ {t} /\ arc[Keeper[id]] = map[id]
  <2>1. \E u \in Tasks : arc[u] = map[id]
    BY <1>2 DEF Alive
  <2>2. Keeper[id] \in Tasks /\ arc[Keeper[id]] = map[id]
    BY <2>1
  <2>3. map[id] # None
    BY <1>2 DEF Alive
  <2> QED
    BY <1>1, <2>2, <2>3
<1>5. Keeper \in [Entries' -> Tasks \ {t}]
  BY <1>4
<1>6. \A i, j \in Entries' : Keeper[i] = Keeper[j] => i = j
  <2> SUFFICES ASSUME NEW i \in Entries', NEW j \in Entries', Keeper[i] = Keeper[j] PROVE i = j
    OBVIOUS
  <2>1. map[i] = map[j]
    BY <1>4
  <2>2. i \in Ids /\ j \in Ids /\ map[i] # None
    BY <1>2 DEF Alive
  <2> QED
    BY <2>1, <2>2 DEF SmallInv, Distinct
<1>7. Keeper \in Injection(Entries', Tasks \ {t})
  <2> HIDE DEF Keeper
  <2> QED
    BY <1>5, <1>6 DEF Injection, IsInjective
<1>8. /\ IsFiniteSet(Tasks \ {t})
      /\ Cardinality(Tasks) \in Nat
      /\ Cardinality(Tasks \ {t}) = Cardinality(Tasks) - 1
  BY TasksAssumption, FS_RemoveElement, FS_CardinalityType
<1>9. IsFiniteSet(Entries') /\ Cardinality(Entries') <= Cardinality(Tasks \ {t})
  <2> HIDE DEF Keeper
  <2> QED
    BY <1>7, <1>8, FS_Injection
<1>10. Cardinality(Entries') \in Nat
  BY <1>9, FS_CardinalityType
<1>11. Small'
  BY <1>8, <1>9, <1>10 DEF Small
<1> QED
  BY <1>3, <1>11 DEF SmallInv

\* One entry more, for which there was room; nobody else is about to insert.
LEMMA InsertKeepsSmall ==
    ASSUME IInv, SmallInv, NEW t \in Tasks, Insert(t)
    PROVE  SmallInv'
<1>1. PICK m \in Mutexes : Unused(m) /\ map' = [map EXCEPT ![file[t]] = m]
  BY DEF Insert
<1>2. /\ pc[t] = "upgrade" /\ pc' = [pc EXCEPT ![t] = "lock"]
      /\ file[t] \in Ids /\ map \in [Ids -> Mutexes \cup {None}] /\ m # None
      /\ \A u \in Tasks : pc'[u] # "upgrade"
  BY NoneAssumption DEF IInv, TypeOK, PlacesFit, Insert, Go
<1>3. Entries' = Entries \cup {file[t]}
  BY <1>1, <1>2 DEF Entries
<1>4. Distinct'
  BY <1>1, <1>2 DEF SmallInv, Distinct, Unused
<1>5. IsFiniteSet(Entries) /\ Cardinality(Entries) < Cardinality(Tasks)
  BY <1>2 DEF SmallInv, Small
<1>6. /\ IsFiniteSet(Entries')
      /\ Cardinality(Entries') \in {Cardinality(Entries), Cardinality(Entries) + 1}
  BY <1>3, <1>5, FS_AddElement
<1>7. Cardinality(Entries) \in Nat /\ Cardinality(Tasks) \in Nat
  BY <1>5, TasksAssumption, FS_CardinalityType
<1>8. Small'
  BY <1>2, <1>5, <1>6, <1>7 DEF Small
<1> QED
  BY <1>4, <1>8 DEF SmallInv

\* Every step keeps the map small.
LEMMA StepKeepsSmall == IInv /\ SmallInv /\ [Next]_vars => SmallInv'
<1> SUFFICES ASSUME IInv, SmallInv, [Next]_vars PROVE SmallInv'
  OBVIOUS
<1>1. ASSUME NEW t \in Tasks, NEW id \in Ids, Call(t, id) PROVE SmallInv'
  BY <1>1, OthersKeepSmall DEF IInv, TypeOK, Call, Go
<1>2. ASSUME NEW t \in Tasks,
             \/ Lookup(t) \/ LockMap(t) \/ Poisoned(t) \/ Upgrade(t) \/ ExpectFails(t)
             \/ Lock(t) \/ Unlock(t) \/ DropArc(t) \/ Cancel(t) \/ CatchPanic(t)
      PROVE  SmallInv'
  BY <1>2, OthersKeepSmall
  DEF IInv, TypeOK, Lookup, LockMap, Poisoned, Upgrade, ExpectFails, Lock, Unlock, DropArc,
      Cancel, CatchPanic, Go
<1>3. CASE UNCHANGED vars
  BY <1>3, OthersKeepSmall DEF vars
<1> QED
  BY <1>1, <1>2, <1>3, RetainMakesRoom, InsertKeepsSmall DEF Next, Proceed

\* However many files are written in the life of the server, the map never has
\* more entries than there are requests at once (write_lock.rs:25).
THEOREM MapIsBounded == Spec => []MapStaysSmall
<1>1. SmallInv => MapStaysSmall
  BY DEF SmallInv, Small, Entries, MapStaysSmall
<1> QED
  BY <1>1, InitSmall, StepKeepsSmall, Invariance, PTL DEF Spec

-----------------------------------------------------------------------------
(* FileWriteLock implements PerFileMutex *)

Wants == [t \in Tasks |-> IF pc[t] = "unlocked" THEN None ELSE file[t]]
Holder == [id \in Ids |-> HolderOf(id)]

\* The holder of a file is the one task that has locked it.
HoldersUnique ==
    \A id \in Ids :
        /\ HolderOf(id) \in Tasks \cup {None}
        /\ \A t \in Tasks : HolderOf(id) = t <=> pc[t] = "locked" /\ file[t] = id

\* HolderOf, a CHOOSE, is the task that has the lock.
LEMMA HolderIsUnique == IInv => HoldersUnique
<1> SUFFICES ASSUME IInv, NEW id \in Ids
             PROVE  /\ HolderOf(id) \in Tasks \cup {None}
                    /\ \A t \in Tasks : HolderOf(id) = t <=> pc[t] = "locked" /\ file[t] = id
  BY DEF HoldersUnique
<1>1. \A t, u \in Holders(id) : t = u
  BY IInvExcludes DEF MutualExclusion, Holders
<1>2. CASE Holders(id) = {}
  BY <1>2, NoneAssumption DEF HolderOf, Holders
<1>3. CASE Holders(id) # {}
  <2>1. HolderOf(id) \in Holders(id)
    BY <1>3 DEF HolderOf
  <2> QED
    BY <1>1, <2>1 DEF Holders
<1> QED
  BY <1>2, <1>3

\* A step that neither locks nor unlocks leaves the holders as they are.
LEMMA HoldersStay ==
    ASSUME IInv, IInv',
           \A t \in Tasks, id \in Ids :
              (pc[t] = "locked" /\ file[t] = id) <=> (pc'[t] = "locked" /\ file'[t] = id)
    PROVE  Holder' = Holder
<1>1. ASSUME NEW id \in Ids PROVE HolderOf(id)' = HolderOf(id)
  <2>1. Holders(id)' = Holders(id)
    BY DEF Holders
  <2> QED
    BY <2>1 DEF HolderOf
<1> QED
  BY <1>1 DEF Holder

\* Every step is one of the per-file lock, or none.
LEMMA StepIsAbstract ==
    ASSUME IInv, IInv', HoldersUnique, HoldersUnique', [Next]_vars
    PROVE  [A!Next]_(A!vars)
<1> USE NoneAssumption
<1> DEFINE AbstractStep == A!Next \/ (Wants' = Wants /\ Holder' = Holder)
<1>1. AbstractStep => [A!Next]_(A!vars)
  BY DEF A!vars, Wants, Holder
<1>2. TypeOK /\ PlacesFit /\ TypeOK' /\ PlacesFit'
  BY DEF IInv
<1>3. ASSUME NEW t \in Tasks, NEW id \in Ids, Call(t, id)
      PROVE  AbstractStep
  <2>1. Wants[t] = None /\ Wants' = [Wants EXCEPT ![t] = id]
    BY <1>2, <1>3 DEF TypeOK, PlacesFit, Wants, Call, Go
  <2>2. Holder' = Holder
    BY <1>2, <1>3, HoldersStay DEF TypeOK, Call, Go
  <2>3. A!Ask(t, id)
    BY <2>1, <2>2 DEF A!Ask, Wants, Holder
  <2> QED
    BY <2>3 DEF A!Next
\* The steps inside get_mutex.
<1>4. ASSUME NEW t \in Tasks,
             \/ Lookup(t) \/ LockMap(t) \/ Poisoned(t) \/ Retain(t)
             \/ Upgrade(t) \/ Insert(t) \/ ExpectFails(t) \/ DropArc(t)
      PROVE  AbstractStep
  <2>1. \A u \in Tasks \ {t} : pc'[u] = pc[u] /\ file'[u] = file[u]
    BY <1>2, <1>4 DEF TypeOK, Lookup, LockMap, Poisoned, Retain, Upgrade, Insert, ExpectFails,
                      DropArc, Go
  <2>2. /\ pc[t] # "locked" /\ pc'[t] # "locked"
        /\ \/ pc[t] # "unlocked" /\ pc'[t] # "unlocked" /\ file'[t] = file[t]
           \/ pc[t] = "unlocked" /\ pc'[t] = "idle" /\ file'[t] = None
    BY <1>2, <1>4 DEF TypeOK, Lookup, LockMap, Poisoned, Retain, Upgrade, Insert, ExpectFails,
                      DropArc, Go
  <2>3. Wants' = Wants
    BY <2>1, <2>2 DEF Wants
  <2>4. Holder' = Holder
    BY <2>1, <2>2, HoldersStay
  <2> QED
    BY <2>3, <2>4
<1>5. ASSUME NEW t \in Tasks, Lock(t)
      PROVE  AbstractStep
  <2>1. /\ file[t] \in Ids /\ arc[t] \in Mutexes /\ owner[arc[t]] = None
        /\ pc' = [pc EXCEPT ![t] = "locked"] /\ file' = file /\ pc[t] = "lock"
    BY <1>2, <1>5 DEF TypeOK, PlacesFit, Lock, IsFree, Go
  <2>2. Wants[t] = file[t] /\ Wants' = Wants
    BY <1>2, <2>1 DEF TypeOK, Wants
  <2>3. \A u \in Tasks : ~(pc[u] = "locked" /\ file[u] = file[t])
    BY <2>1 DEF IInv, PlacesFit, OneMutex, OwnerFits
  <2>4. Holder[file[t]] = None
    BY <2>1, <2>3 DEF Holder, HoldersUnique
  <2>5. ASSUME NEW id \in Ids PROVE Holder'[id] = IF id = file[t] THEN t ELSE Holder[id]
    <3>1. CASE id = file[t]
      <4>1. pc'[t] = "locked" /\ file'[t] = id
        BY <1>2, <2>1, <3>1 DEF TypeOK
      <4>2. HolderOf(id)' = t
        BY <4>1 DEF HoldersUnique
      <4> QED
        BY <3>1, <4>2 DEF Holder
    <3>2. CASE id # file[t]
      <4>1. Holders(id)' = Holders(id)
        BY <1>2, <2>1, <3>2 DEF TypeOK, Holders
      <4> QED
        BY <3>2, <4>1 DEF HolderOf, Holder
    <3> QED
      BY <3>1, <3>2
  <2>6. Holder' = [Holder EXCEPT ![file[t]] = t]
    BY <2>1, <2>5 DEF Holder
  <2>7. A!Grant(t)
    BY <2>1, <2>2, <2>4, <2>6 DEF A!Grant, Wants, Holder
  <2> QED
    BY <2>7 DEF A!Next
<1>6. ASSUME NEW t \in Tasks, Unlock(t) \/ Cancel(t) \/ CatchPanic(t)
      PROVE  AbstractStep
  <2>1. /\ file[t] \in Ids /\ pc[t] # "unlocked" /\ pc'[t] # "locked"
        /\ pc'[t] = "unlocked" \/ file'[t] = None
        /\ \A u \in Tasks \ {t} : pc'[u] = pc[u] /\ file'[u] = file[u]
    BY <1>2, <1>6 DEF TypeOK, PlacesFit, Unlock, Cancel, CatchPanic, Go
  <2>2. Wants[t] = file[t] /\ Wants' = [Wants EXCEPT ![t] = None]
    BY <2>1 DEF Wants
  <2>3. ASSUME NEW id \in Ids
        PROVE  Holder'[id] = IF id = file[t] /\ Holder[id] = t THEN None ELSE Holder[id]
    <3>1. /\ Holder[id] \in Tasks \cup {None} /\ Holder'[id] \in Tasks \cup {None}
          /\ \A u \in Tasks : Holder[id] = u <=> pc[u] = "locked" /\ file[u] = id
          /\ \A u \in Tasks : Holder'[id] = u <=> pc'[u] = "locked" /\ file'[u] = id
      BY DEF Holder, HoldersUnique
    <3> QED
      BY <2>1, <3>1
  <2>4. Holder' = [Holder EXCEPT ![Wants[t]] = IF @ = t THEN None ELSE @]
    BY <2>1, <2>2, <2>3 DEF Holder
  <2>5. A!Leave(t)
    BY <2>1, <2>2, <2>4 DEF A!Leave, Wants, Holder
  <2> QED
    BY <2>5 DEF A!Next
<1>7. ASSUME UNCHANGED vars
      PROVE  AbstractStep
  <2>1. Holder' = Holder
    BY <1>7, HoldersStay DEF vars
  <2> QED
    BY <1>7, <2>1 DEF vars, Wants
<1> HIDE DEF AbstractStep
<1>8. AbstractStep
  BY <1>3, <1>4, <1>5, <1>6, <1>7 DEF Next, Proceed
<1> QED
  BY <1>1, <1>8

\* The map of weak references, with its races, is nothing but a lock for each
\* file.
THEOREM Implementation == Spec => ImplementsPerFileMutex
<1>1. Init => A!Init
  BY DEF Init, A!Init, HolderOf, Holders
<1>2. IInv => HoldersUnique
  BY HolderIsUnique
<1>3. IInv /\ IInv' /\ HoldersUnique /\ HoldersUnique' /\ [Next]_vars => [A!Next]_(A!vars)
  BY StepIsAbstract
<1> QED
  BY <1>1, <1>2, <1>3, Invariance, PTL DEF Spec, A!Spec, ImplementsPerFileMutex

-----------------------------------------------------------------------------
(* What the tasks wait for                                                 *)

\* A mutex is locked only by a task that is at work on a file of its own.
OwnersHaveLocked ==
    \A m \in Mutexes : owner[m] # None => pc[owner[m]] = "locked" /\ arc[owner[m]] = m

\* A task that waits for the map waits for one that is changing it, and a task
\* that waits for the mutex of a file waits for the one that is writing it.
NobodyWaitsInVain ==
    \A t \in Tasks :
        /\ pc[t] \in {"lookup", "insert"} /\ writer # None =>
              writer \in Tasks \ {t} /\ pc[writer] \in {"retain", "upgrade"}
        /\ pc[t] = "lock" /\ ~IsFree(arc[t]) =>
              owner[arc[t]] \in Tasks \ {t} /\ pc[owner[arc[t]]] = "locked"
              /\ file[owner[arc[t]]] = file[t]

\* No mutex is locked at first.
LEMMA InitOwners == Init => OwnersHaveLocked
BY DEF Init, OwnersHaveLocked

\* Steps that leave the owners alone move nobody away from a locked mutex.
LEMMA OthersKeepOwners ==
    ASSUME IInv, OwnersHaveLocked, owner' = owner,
           \A t \in Tasks : pc[t] = "locked" => pc'[t] = "locked" /\ arc'[t] = arc[t]
    PROVE  OwnersHaveLocked'
BY DEF OwnersHaveLocked, IInv, TypeOK

\* Every step keeps the owners at work.
LEMMA StepKeepsOwners == IInv /\ OwnersHaveLocked /\ [Next]_vars => OwnersHaveLocked'
<1> SUFFICES ASSUME IInv, OwnersHaveLocked, [Next]_vars PROVE OwnersHaveLocked'
  OBVIOUS
<1>1. ASSUME NEW t \in Tasks, NEW id \in Ids, Call(t, id) PROVE OwnersHaveLocked'
  BY <1>1, OthersKeepOwners DEF IInv, TypeOK, Call, Go
<1>2. ASSUME NEW t \in Tasks,
             \/ Lookup(t) \/ LockMap(t) \/ Poisoned(t) \/ Retain(t) \/ Upgrade(t)
             \/ ExpectFails(t) \/ DropArc(t) \/ Cancel(t) \/ CatchPanic(t)
      PROVE  OwnersHaveLocked'
  BY <1>2, OthersKeepOwners
  DEF IInv, TypeOK, Lookup, LockMap, Poisoned, Retain, Upgrade, ExpectFails, DropArc, Cancel,
      CatchPanic, Go
<1>3. ASSUME NEW t \in Tasks, Insert(t) PROVE OwnersHaveLocked'
  <2>1. PICK m \in Mutexes : owner' = [owner EXCEPT ![m] = None] /\ arc' = [arc EXCEPT ![t] = m]
    BY <1>3 DEF Insert
  <2>2. pc[t] = "upgrade" /\ pc' = [pc EXCEPT ![t] = "lock"]
    BY <1>3 DEF Insert, Go
  <2> QED
    BY <2>1, <2>2 DEF OwnersHaveLocked, IInv, TypeOK
<1>4. ASSUME NEW t \in Tasks, Lock(t) PROVE OwnersHaveLocked'
  BY <1>4 DEF OwnersHaveLocked, IInv, TypeOK, Lock, IsFree, Go
<1>5. ASSUME NEW t \in Tasks, Unlock(t) PROVE OwnersHaveLocked'
  BY <1>5 DEF OwnersHaveLocked, IInv, TypeOK, Unlock, Go
<1>6. CASE UNCHANGED vars
  BY <1>6, OthersKeepOwners DEF vars
<1> QED
  BY <1>1, <1>2, <1>3, <1>4, <1>5, <1>6 DEF Next, Proceed

\* Whatever a task of lock() waits for is in the hands of another task that is at
\* work and will give it up: no guard of the map and no mutex is left behind by a
\* panic, a cancelled request or a mutex that died (write_lock.rs:20-47).
THEOREM WaitingEnds == Spec => []NobodyWaitsInVain
<1>1. IInv /\ SmallInv /\ OwnersHaveLocked => NobodyWaitsInVain
  <2> SUFFICES ASSUME IInv, SmallInv, OwnersHaveLocked, NEW t \in Tasks
               PROVE  /\ pc[t] \in {"lookup", "insert"} /\ writer # None =>
                            writer \in Tasks \ {t} /\ pc[writer] \in {"retain", "upgrade"}
                      /\ pc[t] = "lock" /\ ~IsFree(arc[t]) =>
                            owner[arc[t]] \in Tasks \ {t} /\ pc[owner[arc[t]]] = "locked"
                            /\ file[owner[arc[t]]] = file[t]
    BY DEF NobodyWaitsInVain
  <2>1. ASSUME pc[t] \in {"lookup", "insert"}, writer # None
        PROVE  writer \in Tasks \ {t} /\ pc[writer] \in {"retain", "upgrade"}
    BY <2>1 DEF IInv, TypeOK, PlacesFit
  <2>2. ASSUME pc[t] = "lock", ~IsFree(arc[t])
        PROVE  owner[arc[t]] \in Tasks \ {t} /\ pc[owner[arc[t]]] = "locked"
               /\ file[owner[arc[t]]] = file[t]
    <3>1. arc[t] \in Mutexes /\ owner[arc[t]] \in Tasks
      BY <2>2 DEF IInv, TypeOK, IsFree
    <3> DEFINE u == owner[arc[t]]
    <3>2. pc[u] = "locked" /\ arc[u] = arc[t] /\ u # t
      BY <2>2, <3>1 DEF OwnersHaveLocked, IsFree
    <3>3. map[file[u]] = map[file[t]] /\ map[file[u]] # None /\ file[u] \in Ids /\ file[t] \in Ids
      BY <2>2, <3>1, <3>2, NoneAssumption DEF IInv, OneMutex, PlacesFit
    <3> QED
      BY <3>1, <3>2, <3>3 DEF SmallInv, Distinct
  <2> QED
    BY <2>1, <2>2
<1> QED
  BY <1>1, InitOwners, StepKeepsOwners, InitSmall, StepKeepsSmall, Invariance, PTL DEF Spec

=============================================================================
