----------------------------- MODULE ErrorCodes ----------------------------
(***************************************************************************)
(* How an error of the server reaches the program that made the call: the  *)
(* response it becomes (server/src/error.rs), what the client makes of the *)
(* response (decode_errors and the From of each operation in               *)
(* client/src/remote_data_service/error.rs) and the number the kernel gets *)
(* (filesystem.rs, filesystem/reply.rs).                                   *)
(*                                                                         *)
(* Errors have the names of server/src/error.rs and NodeApi on all levels. *)
(***************************************************************************)

\* The texts in the bodies of a 409 are told apart by the name of the error.
IntoResponse(error) ==
    LET conflict == {"NotAFile", "NotADirectory", "AlreadyExists", "DirectoryNotEmpty"} IN
    CASE error = "NotFound" -> [status |-> 404, body |-> "none"]
      [] error \in conflict -> [status |-> 409, body |-> error]
      [] OTHER -> [status |-> 500, body |-> "none"]

\* Mutant of Conflicts: the client does not know one of the texts.
ConflictsOfFiles == {"NotAFile", "AlreadyExists", "DirectoryNotEmpty"}
Conflicts == {"NotAFile", "NotADirectory", "AlreadyExists", "DirectoryNotEmpty"}

decode_errors(response) ==
    CASE response.status = 500 -> "ServerError"
      [] response.status = 404 -> "NotFound"
      [] response.status = 409 /\ response.body \in Conflicts -> response.body
      [] OTHER -> "ProtocolMismatch"

\* What the error type of each request can say; all else is a mismatch.
Expressible ==
    [FetchNode       |-> {"NotFound"},
     FetchDirectory  |-> {"NotFound", "NotADirectory"},
     CreateNode      |-> {"NotFound", "NotADirectory", "AlreadyExists"},
     DeleteDirectory |-> {"NotFound", "NotADirectory", "DirectoryNotEmpty"},
     DeleteFile      |-> {"NotFound", "NotADirectory", "NotAFile"}]

NetworkFailures == {"Timeout", "NetworkFailure"}

From(error, type) ==
    IF error \in NetworkFailures \cup {"ServerError"} \cup Expressible[type] THEN error ELSE "ProtocolMismatch"

Errno ==
    [Timeout           |-> "ETIMEDOUT",
     NetworkFailure    |-> "ENOLINK",
     ServerError       |-> "EIO",
     ProtocolMismatch  |-> "EIO",
     NotFound          |-> "ENOENT",
     NotADirectory     |-> "ENOTDIR",
     NotAFile          |-> "EISDIR",
     AlreadyExists     |-> "EEXIST",
     DirectoryNotEmpty |-> "ENOTEMPTY"]

Errnos == {Errno[error] : error \in DOMAIN Errno}

=============================================================================
