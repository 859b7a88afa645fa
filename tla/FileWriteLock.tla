--------------------------- MODULE FileWriteLock ---------------------------
(***************************************************************************)
(* server/src/routes/files/write_lock.rs: a lock for each file that is     *)
(* being written.  A map under an RwLock leads from a file to a tokio      *)
(* mutex by a weak reference; the tasks that wait for or hold the lock     *)
(* keep the mutex alive (Arc).  A task gives up its reference whenever it  *)
(* is done, without the RwLock, so a mutex can die between any two steps   *)
(* of another task.                                                        *)
(***************************************************************************)
EXTENDS Naturals, FiniteSets

CONSTANTS
    Tasks,      \* the requests to write a file
    Ids,        \* the files they name
    Mutexes,    \* places in memory for a mutex
    None        \* no task, file or mutex

ASSUME NoneAssumption == None \notin Tasks \cup Ids \cup Mutexes
ASSUME TasksAssumption == IsFiniteSet(Tasks)

VARIABLES
    map,        \* locked_ids: the mutex each file's entry refers to weakly, None without entry
    writer,     \* the task that has the RwLock for writing; reading is a single step here
    poisoned,   \* whether a task panicked with the RwLock for writing
    pc,         \* where each task is
    file,       \* the file it wants to write
    arc,        \* the mutex it has a strong reference to
    owner       \* the task each mutex is locked by

vars == <<map, writer, poisoned, pc, file, arc, owner>>

PCs == {"idle", "lookup", "insert", "retain", "upgrade", "lock", "locked", "unlocked", "panicked"}

Init ==
    /\ map = [id \in Ids |-> None]
    /\ writer = None
    /\ poisoned = FALSE
    /\ pc = [t \in Tasks |-> "idle"]
    /\ file = [t \in Tasks |-> None]
    /\ arc = [t \in Tasks |-> None]
    /\ owner = [m \in Mutexes |-> None]

Go(t, place) == pc' = [pc EXCEPT ![t] = place]

\* strong_count() > 0.  The memory of a dead mutex stays while the map refers to it.
\* Mutant of Alive: upgrade() is not looked at.
AliveUnchecked(m) == TRUE
Alive(m) == m # None /\ \E t \in Tasks : arc[t] = m
Unused(m) == ~Alive(m) /\ \A id \in Ids : map[id] # m

-----------------------------------------------------------------------------
(* get_mutex *)

\* lock(id) is called.
Call(t, id) ==
    /\ pc[t] = "idle"
    /\ file' = [file EXCEPT ![t] = id]
    /\ Go(t, "lookup")
    /\ UNCHANGED <<map, writer, poisoned, arc, owner>>

\* read(), get() and upgrade().  Nothing else happens to the map meanwhile, and
\* the upgrade succeeds or fails in one atomic operation.
Lookup(t) ==
    /\ pc[t] = "lookup" /\ writer = None /\ ~poisoned
    /\ \/ /\ Alive(map[file[t]])
          /\ arc' = [arc EXCEPT ![t] = map[file[t]]]
          /\ Go(t, "lock")
       \/ /\ ~Alive(map[file[t]])
          /\ Go(t, "insert")
          /\ UNCHANGED arc
    /\ UNCHANGED <<map, writer, poisoned, file, owner>>

\* write()
LockMap(t) ==
    /\ pc[t] = "insert" /\ writer = None /\ ~poisoned
    /\ writer' = t
    /\ Go(t, "retain")
    /\ UNCHANGED <<map, poisoned, file, arc, owner>>

\* read() or write() of a poisoned RwLock: expect("poison").
Poisoned(t) ==
    /\ pc[t] \in {"lookup", "insert"} /\ writer = None /\ poisoned
    /\ Go(t, "panicked")
    /\ UNCHANGED <<map, writer, poisoned, file, arc, owner>>

\* Mutant of Retained: the entries of dead mutexes stay in the map.
RetainedAll(entry) == entry
Retained(entry) == IF Alive(entry) THEN entry ELSE None

Retain(t) ==
    /\ pc[t] = "retain"
    /\ map' = [id \in Ids |-> Retained(map[id])]
    /\ Go(t, "upgrade")
    /\ UNCHANGED <<writer, poisoned, file, arc, owner>>

\* Mutant of HasEntry: the entry is replaced whether there is one or not.
HasNoEntry(id) == FALSE
HasEntry(id) == map[id] # None

\* entry().and_modify().or_insert_with().expect(): the entry retained above is
\* upgraded, or a new mutex is entered.
Upgrade(t) ==
    /\ pc[t] = "upgrade" /\ HasEntry(file[t]) /\ Alive(map[file[t]])
    /\ arc' = [arc EXCEPT ![t] = map[file[t]]]
    /\ writer' = None
    /\ Go(t, "lock")
    /\ UNCHANGED <<map, poisoned, file, owner>>

Insert(t) ==
    /\ pc[t] = "upgrade" /\ ~HasEntry(file[t])
    /\ \E m \in {n \in Mutexes : Unused(n)} :
          /\ map' = [map EXCEPT ![file[t]] = m]
          /\ arc' = [arc EXCEPT ![t] = m]
          /\ owner' = [owner EXCEPT ![m] = None]
    /\ writer' = None
    /\ Go(t, "lock")
    /\ UNCHANGED <<poisoned, file>>

\* The mutex has died since Retain: expect() panics and the write guard, dropped
\* by the panic, poisons the RwLock.
ExpectFails(t) ==
    /\ pc[t] = "upgrade" /\ HasEntry(file[t]) /\ ~Alive(map[file[t]])
    /\ writer' = None
    /\ poisoned' = TRUE
    /\ Go(t, "panicked")
    /\ UNCHANGED <<map, file, arc, owner>>

-----------------------------------------------------------------------------
(* The tokio mutex and its guard *)

IsFree(m) == owner[m] = None

\* lock_owned().await
Lock(t) ==
    /\ pc[t] = "lock" /\ IsFree(arc[t])
    /\ owner' = [owner EXCEPT ![arc[t]] = t]
    /\ Go(t, "locked")
    /\ UNCHANGED <<map, writer, poisoned, file, arc>>

\* Mutant of Unlock: the mutex stays locked.
UnlockNothing(t) ==
    /\ pc[t] = "locked"
    /\ Go(t, "unlocked")
    /\ UNCHANGED <<map, writer, poisoned, file, arc, owner>>

\* The guard is dropped (the request is done or cancelled) ...
Unlock(t) ==
    /\ pc[t] = "locked"
    /\ owner' = [owner EXCEPT ![arc[t]] = None]
    /\ Go(t, "unlocked")
    /\ UNCHANGED <<map, writer, poisoned, file, arc>>

\* ... and with it the reference to the mutex.
DropArc(t) ==
    /\ pc[t] = "unlocked"
    /\ arc' = [arc EXCEPT ![t] = None]
    /\ file' = [file EXCEPT ![t] = None]
    /\ Go(t, "idle")
    /\ UNCHANGED <<map, writer, poisoned, owner>>

\* The client goes away while its request waits for the mutex: the future and
\* its reference are dropped.
Cancel(t) ==
    /\ pc[t] = "lock"
    /\ Go(t, "unlocked")
    /\ UNCHANGED <<map, writer, poisoned, file, arc, owner>>

\* handle_panic answers for a handler that panicked.
CatchPanic(t) ==
    /\ pc[t] = "panicked"
    /\ file' = [file EXCEPT ![t] = None]
    /\ Go(t, "idle")
    /\ UNCHANGED <<map, writer, poisoned, arc, owner>>

-----------------------------------------------------------------------------

\* The steps that need nobody: the thread just goes on.
Proceed(t) == \/ Lookup(t) \/ LockMap(t) \/ Poisoned(t)
              \/ Retain(t) \/ Upgrade(t) \/ Insert(t) \/ ExpectFails(t)
              \/ Unlock(t) \/ DropArc(t) \/ CatchPanic(t)

Next == \E t \in Tasks : \/ \E id \in Ids : Call(t, id)
                         \/ Proceed(t) \/ Lock(t) \/ Cancel(t)

Spec == Init /\ [][Next]_vars

\* Threads run; a writer ends its request; the RwLock does not pass over a
\* thread for ever, and the queue of a tokio mutex is first in, first out.
Fairness == \A t \in Tasks : SF_vars(Proceed(t)) /\ SF_vars(Lock(t))
LiveSpec == Spec /\ Fairness

-----------------------------------------------------------------------------
(* Properties *)

\* The type of every variable; a task that comes from get_mutex has a mutex.
TypeOK ==
    /\ map \in [Ids -> Mutexes \cup {None}]
    /\ writer \in Tasks \cup {None}
    /\ poisoned \in BOOLEAN
    /\ pc \in [Tasks -> PCs]
    /\ file \in [Tasks -> Ids \cup {None}]
    /\ arc \in [Tasks -> Mutexes \cup {None}]
    /\ owner \in [Mutexes -> Tasks \cup {None}]
    /\ \A t \in Tasks : pc[t] \in {"lock", "locked"} => arc[t] \in Mutexes

\* Two requests never have the lock of the same file, even when its mutex has
\* died and been made again in between (write_lock.rs:40-47).
MutualExclusion ==
    \A t, u \in Tasks : pc[t] = "locked" /\ pc[u] = "locked" /\ file[t] = file[u] => t = u

\* The map does not grow with the files ever written: it never has more entries
\* than there are requests at once, because dead entries are dropped before one
\* is added (write_lock.rs:25).
MapStaysSmall == Cardinality({id \in Ids : map[id] # None}) <= Cardinality(Tasks)

\* Seen from outside it is a lock for each file (write_lock.rs:40-47).
Holders(id) == {t \in Tasks : pc[t] = "locked" /\ file[t] = id}
HolderOf(id) == IF Holders(id) = {} THEN None ELSE CHOOSE t \in Holders(id) : TRUE
A == INSTANCE PerFileMutex WITH
        wants  <- [t \in Tasks |-> IF pc[t] = "unlocked" THEN None ELSE file[t]],
        holder <- [id \in Ids |-> HolderOf(id)]
ImplementsPerFileMutex == A!Spec

\* A request that asks for the lock gets it, unless its client leaves or the
\* lock is poisoned; nobody waits for ever for the map or a mutex.
LockIsGranted ==
    \A t \in Tasks : pc[t] = "lookup" ~> pc[t] \in {"locked", "unlocked", "panicked"}

\* "was set either by upgrading a Weak which had a strong_count higher than 1, or
\* by creating a new Arc" (write_lock.rs:37): the expect never fails.  It does:
\* the last strong reference can go between retain and upgrade.
ExpectNeverFails == ~poisoned

=============================================================================
