---------------------------- MODULE PerFileMutex ---------------------------
(***************************************************************************)
(* What FileWriteLock promises its callers: a lock for each file, held by  *)
(* one task at a time.  How a file comes to have a lock does not appear.   *)
(***************************************************************************)
CONSTANTS
    Tasks,      \* the requests to write a file
    Ids,        \* the files
    None        \* no task, no file

VARIABLES
    wants,      \* the file each task asks for or has locked, or None
    holder      \* the task that has each file locked, or None

vars == <<wants, holder>>

Init ==
    /\ wants = [t \in Tasks |-> None]
    /\ holder = [id \in Ids |-> None]

Ask(t, id) ==
    /\ wants[t] = None
    /\ wants' = [wants EXCEPT ![t] = id]
    /\ UNCHANGED holder

Grant(t) ==
    /\ wants[t] # None
    /\ holder[wants[t]] = None
    /\ holder' = [holder EXCEPT ![wants[t]] = t]
    /\ UNCHANGED wants

\* Mutant of Leave: the lock is kept.
LeaveLocked(t) ==
    /\ wants[t] # None
    /\ wants' = [wants EXCEPT ![t] = None]
    /\ UNCHANGED holder

\* The task releases the lock, or goes without ever having had it (its client
\* has gone, or it has panicked).
Leave(t) ==
    /\ wants[t] # None
    /\ wants' = [wants EXCEPT ![t] = None]
    /\ holder' = [holder EXCEPT ![wants[t]] = IF @ = t THEN None ELSE @]

Next == \E t \in Tasks : (\E id \in Ids : Ask(t, id)) \/ Grant(t) \/ Leave(t)

Spec == Init /\ [][Next]_vars

=============================================================================
