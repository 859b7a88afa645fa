--------------------------- MODULE MCFileContent ---------------------------
(***************************************************************************)
(* Instances of FileContent.  A short body and a longer one, so that the   *)
(* longer can be left under the shorter, and a write be under way while    *)
(* the next block arrives.                                                 *)
(***************************************************************************)
EXTENDS UploadHistory, TLC

ShortAndLong == {<<"x">>, <<"y", "z">>}
Short == {<<"x">>}

Symmetric == Permutations(Writers) \cup Permutations(Ids) \cup Permutations(Inodes)

=============================================================================
