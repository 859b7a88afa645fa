--------------------------- MODULE MCFileWriteLock -------------------------
(***************************************************************************)
(* FileWriteLock for TLC.  As many mutexes as tasks are enough: those that *)
(* live are held by different tasks.  One more leaves room for the map to  *)
(* grow beyond the tasks, if it would.                                     *)
(***************************************************************************)
EXTENDS FileWriteLock

=============================================================================
