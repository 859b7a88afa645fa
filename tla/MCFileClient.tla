---------------------------- MODULE MCFileClient ---------------------------
(***************************************************************************)
(* FileClient for TLC: two tasks of one client and one of another.         *)
(***************************************************************************)
EXTENDS FileClient, TLC

CONSTANTS c1, c2, t1, t2, t3

TwoOfOne == t1 :> c1 @@ t2 :> c1 @@ t3 :> c2
SymmetricTasks == Permutations({t1, t2}) \cup Permutations(Contents \ {Empty})

=============================================================================
