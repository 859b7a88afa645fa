-------------------------- MODULE MCLocalFileCache -------------------------
(***************************************************************************)
(* LocalFileCache for TLC: all operations on all ids up to MaxId and all   *)
(* names, by the tasks of one client.                                      *)
(***************************************************************************)
EXTENDS LocalFileCache, TLC

\* To the cache readdir is a lookup and a getattr of the directory.
Unlisted == [op : {"lookup"} \cup FuseWrites, node : 1..MaxId, name : Names]
            \cup [op : {"getattr"}, node : 1..MaxId]
AllOperations == Unlisted \cup [op : {"readdir"}, node : 1..MaxId]

OneClient == [t \in Tasks |-> CHOOSE c \in Clients : TRUE]

SymmetricNames == Permutations(Names)
Symmetric == Permutations(Names) \cup Permutations(Tasks)

=============================================================================
