---------------------------- MODULE MCNodeRoutes ---------------------------
(***************************************************************************)
(* NodeRoutes for TLC: the requests of each run are all those of some      *)
(* operations, on all ids up to MaxId and all names.                       *)
(***************************************************************************)
EXTENDS NodeRoutes, TLC

Writes == [op : WriteOps, node : 1..MaxId, name : Names]
Reads == [op : ReadOps, node : 1..MaxId]
AllRequests == Writes \cup Reads

\* Handlers are interchangeable, and so are names.
Symmetry == Permutations(Handlers) \cup Permutations(Names)

=============================================================================
