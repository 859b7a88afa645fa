---------------------------- MODULE ContentStore ---------------------------
(***************************************************************************)
(* What the server promises about the content of files: a write replaces   *)
(* the version its If-Match header names, in one step, or nothing.  How a  *)
(* body gets to its place on disk does not appear.                         *)
(***************************************************************************)
CONSTANTS
    Writers,    \* the requests to write
    Ids,        \* the files
    Contents,   \* the contents a file may have, each for its hash
    None,       \* no request
    Gone        \* the content of a deleted file

VARIABLES
    content,    \* the content of each file
    request,    \* the request of each writer, or None
    answer      \* what it has been answered, or "none"

vars == <<content, request, answer>>

Requests == [id : Ids, prev : Contents, body : Contents]
Refusals == {"NotFound", "Modified", "Internal"}

Init ==
    /\ content \in [Ids -> Contents \cup {Gone}]
    /\ request = [w \in Writers |-> None]
    /\ answer = [w \in Writers |-> "none"]

Call(w, req) ==
    /\ request[w] = None
    /\ answer[w] = "none"
    /\ request' = [request EXCEPT ![w] = req]
    /\ UNCHANGED <<content, answer>>

Answer(w, a) ==
    /\ request[w] # None
    /\ request' = [request EXCEPT ![w] = None]
    /\ answer' = [answer EXCEPT ![w] = a]

\* Mutant of Current: any version will do.
AnyVersion(w) == content[request[w].id] # Gone
Current(w) == content[request[w].id] = request[w].prev

Apply(w) ==
    /\ Answer(w, "NoContent")
    /\ Current(w)
    /\ content' = [content EXCEPT ![request[w].id] = request[w].body]

\* An internal error may occur at any time; the others have their reason.
Refuse(w, a) ==
    /\ Answer(w, a)
    /\ a = "NotFound" => content[request[w].id] = Gone
    /\ a = "Modified" => content[request[w].id] # request[w].prev
    /\ UNCHANGED content

Return(w) ==
    /\ answer[w] # "none"
    /\ answer' = [answer EXCEPT ![w] = "none"]
    /\ UNCHANGED <<content, request>>

\* The client goes away.
Drop(w) ==
    /\ request[w] # None
    /\ request' = [request EXCEPT ![w] = None]
    /\ UNCHANGED <<content, answer>>

Delete(id) ==
    /\ content[id] # Gone
    /\ content' = [content EXCEPT ![id] = Gone]
    /\ UNCHANGED <<request, answer>>

Crash ==
    /\ request' = [w \in Writers |-> None]
    /\ answer' = [w \in Writers |-> "none"]
    /\ UNCHANGED content

Next ==
    \/ \E w \in Writers : \/ \E req \in Requests : Call(w, req)
                          \/ Apply(w) \/ (\E a \in Refusals : Refuse(w, a))
                          \/ Return(w) \/ Drop(w)
    \/ \E id \in Ids : Delete(id)
    \/ Crash

Spec == Init /\ [][Next]_vars

=============================================================================
