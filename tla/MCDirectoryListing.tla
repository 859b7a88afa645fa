------------------------- MODULE MCDirectoryListing ------------------------
(***************************************************************************)
(* DirectoryListing for TLC.                                               *)
(***************************************************************************)
EXTENDS DirectoryListing

=============================================================================
