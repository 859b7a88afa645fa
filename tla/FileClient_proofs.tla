-------------------------- MODULE FileClient_proofs ------------------------
(***************************************************************************)
(* Theorems about FileClient, for any number of clients, tasks, files and  *)
(* contents.                                                               *)
(*                                                                         *)
(* That no write is blind rests on the cache holding nothing a client was  *)
(* not told, and on a request naming what was cached (TrueInv).  That the  *)
(* cache of an undisturbed client is current is an induction over what     *)
(* such a client has under way (Calm): one operation at a time on the      *)
(* file, a request that will be accepted, an answer that is still true.    *)
(***************************************************************************)
EXTENDS FileClient, TLAPS

\* Where a task is with which operation, request and answer.
Placed(t) ==
    /\ pc[t] = "idle" <=> operation[t] = NoOperation
    /\ fetched[t] # None => pc[t] = "fetching"
    /\ pc[t] \in {"asked", "fetching"} => request[t] = None /\ answer[t] = "none"
    /\ pc[t] = "writing" /\ request[t] # None => request[t].id = File(t)
    /\ answer[t] # "none" => request[t] = None
PlacedInv == \A t \in Tasks : Placed(t)

\* What is on its way was true, and what is cached or named was told.
TrueInv ==
    /\ \A id \in Ids : content[id] \in was[id] \cup {Gone}
    /\ \A t \in Tasks : fetched[t] \in Contents => fetched[t] \in was[File(t)]
    /\ CachedWasTrue
    /\ \A c \in Clients, id \in Ids : cache[c][id] # None => cache[c][id] \in told[c][id]
    /\ \A t \in Tasks : request[t] # None => request[t].prev \in told[Client[t]][request[t].id]

\* What a client has under way with a file while nothing disturbs it.
On(t, c, id) == Client[t] = c /\ operation[t] # NoOperation /\ File(t) = id
Alone(c, id) == \A t, u \in Tasks : On(t, c, id) /\ On(u, c, id) => t = u
RequestsCurrent(c, id) ==
    \A t \in Tasks : Client[t] = c /\ request[t] # None /\ request[t].id = id =>
                        pc[t] = "writing" /\ request[t].prev = content[id]
NotModified(c, id) == \A t \in Tasks : On(t, c, id) => answer[t] # "Modified"
FetchedCurrent(c, id) ==
    \A t \in Tasks : On(t, c, id) /\ fetched[t] \in Contents => fetched[t] = content[id]
CacheCurrent(c, id) ==
    \/ cache[c][id] \in {None, content[id]}
    \/ \E t \in Tasks : On(t, c, id) /\ pc[t] = "writing" /\ answer[t] = "NoContent"
Calm(c, id) == Alone(c, id) /\ RequestsCurrent(c, id) /\ NotModified(c, id)
               /\ FetchedCurrent(c, id) /\ CacheCurrent(c, id)
CalmInv == \A c \in Clients : \A id \in Ids : id \notin disturbed[c] => Calm(c, id)

-----------------------------------------------------------------------------
(* Types *)

\* Operations and what they name.
LEMMA OperationsAre ==
    /\ NoOperation \notin Operations
    /\ \A o \in Operations : o.id \in Ids
    /\ \A o \in Operations : o.op = "write" => o.data \in Contents
BY DEF NoOperation, Operations

\* The steps of a task that work on its own file know which it is.
LEMMA FileKnown ==
    ASSUME TypeOK, PlacedInv, NEW t \in Tasks, pc[t] # "idle"
    PROVE  operation[t] \in Operations /\ File(t) \in Ids /\ Client[t] \in Clients
BY OperationsAre, ClientAssumption DEF TypeOK, PlacedInv, Placed, File

\* One entry of a cache, or of what a client was told, is changed.
LEMMA TwiceExcept ==
    ASSUME NEW Values, NEW f \in [Clients -> [Ids -> Values]],
           NEW c \in Clients, NEW id \in Ids, NEW x \in Values
    PROVE  /\ [f EXCEPT ![c][id] = x] \in [Clients -> [Ids -> Values]]
           /\ \A d \in Clients, i \in Ids :
                 [f EXCEPT ![c][id] = x][d][i] = IF d = c /\ i = id THEN x ELSE f[d][i]
OBVIOUS

\* At first every client has the file it has created.
LEMMA InitTyped == Init => TypeOK /\ PlacedInv /\ TrueInv /\ CalmInv
<1> SUFFICES ASSUME Init PROVE TypeOK /\ PlacedInv /\ TrueInv /\ CalmInv
  OBVIOUS
<1>1. cache \in [Clients -> [Ids -> Contents \cup {None}]] /\ None \notin Contents /\ Empty \in Contents
  BY ClientAssumption DEF Init
<1>2. \A c \in Clients, id \in Ids : cache[c][id] \in {None, Empty}
  BY DEF Init
<1>3. TypeOK
  <2>1. told \in [Clients -> [Ids -> SUBSET Contents]]
    BY <1>1, <1>2 DEF Init
  <2> QED
    BY <1>1, <2>1 DEF Init, TypeOK, PCs
<1>4. PlacedInv
  BY DEF Init, PlacedInv, Placed
<1>5. TrueInv
  <2>1. \A c \in Clients, id \in Ids : told[c][id] = {cache[c][id]} \ {None}
    BY DEF Init
  <2> QED
    BY <1>1, <1>2, <2>1 DEF Init, TrueInv, CachedWasTrue
<1>6. ASSUME NEW c \in Clients, NEW id \in Ids PROVE Calm(c, id)
  BY <1>2 DEF Init, Calm, Alone, RequestsCurrent, NotModified, FetchedCurrent, CacheCurrent, On
<1> QED
  BY <1>3, <1>4, <1>5, <1>6 DEF CalmInv

\* Every step keeps the types.
LEMMA StepTyped == TypeOK /\ PlacedInv /\ [Next]_vars => TypeOK'
<1> SUFFICES ASSUME TypeOK, PlacedInv, [Next]_vars PROVE TypeOK'
  OBVIOUS
<1> USE ClientAssumption
<1>1. ASSUME NEW t \in Tasks, NEW o \in Operations, Begin(t, o) PROVE TypeOK'
  <2>1. disturbed' \in [Clients -> SUBSET Ids]
    BY <1>1, OperationsAre DEF TypeOK, Begin
  <2> QED
    BY <1>1, <2>1 DEF TypeOK, Begin, Go, PCs, server
<1>2. ASSUME NEW t \in Tasks, NodeCached(t) \/ WritePanics(t) \/ FetchFails(t) PROVE TypeOK'
  BY <1>2 DEF TypeOK, NodeCached, WritePanics, FetchFails, Reply, Go, PCs, server, history
<1>3. ASSUME NEW t \in Tasks, Fetch(t) PROVE TypeOK'
  BY <1>3 DEF TypeOK, Fetch, Go, PCs, server, history
<1>4. ASSUME NEW t \in Tasks, ServeFetch(t) PROVE TypeOK'
  <2>1. File(t) \in Ids
    BY <1>4, FileKnown DEF ServeFetch
  <2> QED
    BY <1>4, <2>1 DEF TypeOK, ServeFetch, server, history
<1>5. ASSUME NEW t \in Tasks, FetchArrives(t) PROVE TypeOK'
  <2>1. fetched[t] \in Contents /\ fetched[t] # None
    BY <1>5 DEF FetchArrives, Arrived
  <2>2. File(t) \in Ids /\ Client[t] \in Clients
    BY <2>1, FileKnown DEF PlacedInv, Placed
  <2>3. cache' \in [Clients -> [Ids -> Contents \cup {None}]]
    BY <1>5, <2>1, <2>2, TwiceExcept DEF TypeOK, FetchArrives, PutHash
  <2>4. told' \in [Clients -> [Ids -> SUBSET Contents]]
    BY <1>5, <2>1, <2>2 DEF TypeOK, FetchArrives
  <2>5. disturbed' \in [Clients -> SUBSET Ids]
    BY <1>5 DEF TypeOK, FetchArrives
  <2> QED
    BY <1>5, <2>3, <2>4, <2>5 DEF TypeOK, FetchArrives, Reply, Go, PCs, server
<1>6. ASSUME NEW t \in Tasks, SendWrite(t) PROVE TypeOK'
  <2> DEFINE new == [id |-> File(t), prev |-> Cached(t), body |-> operation[t].data]
  <2>1. operation[t] \in Operations /\ File(t) \in Ids /\ Client[t] \in Clients
    BY <1>6, FileKnown DEF SendWrite
  <2>2. Cached(t) \in Contents
    BY <1>6, <2>1 DEF TypeOK, SendWrite, Cached
  <2>3. new \in S!Requests
    BY <1>6, <2>1, <2>2, OperationsAre DEF SendWrite, S!Requests
  <2> QED
    BY <1>6, <2>3 DEF TypeOK, SendWrite, CachedWhenSent, Go, PCs, history, S!Call
<1>7. ASSUME NEW t \in Tasks, WriteArrives(t) PROVE TypeOK'
  <2>1. File(t) \in Ids /\ Client[t] \in Clients
    BY <1>7, FileKnown DEF WriteArrives
  <2>2. cache' \in [Clients -> [Ids -> Contents \cup {None}]]
    BY <1>7, <2>1, TwiceExcept DEF TypeOK, WriteArrives, CachedWhenWritten, PutHash
  <2> QED
    BY <1>7, <2>2 DEF TypeOK, WriteArrives, Reply, Go, PCs, history, S!Return
<1>8. ASSUME NEW t \in Tasks, WriteFails(t) \/ AnswerLost(t) PROVE TypeOK'
  BY <1>8 DEF TypeOK, WriteFails, AnswerLost, Reply, Go, PCs, history, task, S!Return
<1>9. ASSUME NEW t \in Tasks, ConnectionLost(t) PROVE TypeOK'
  <2>1. File(t) \in Ids
    BY <1>9, FileKnown DEF ConnectionLost
  <2> QED
    BY <1>9, <2>1 DEF TypeOK, ConnectionLost, Disturb, Reply, Go, PCs, server
<1>10. ASSUME NEW t \in Tasks, Apply(t) PROVE TypeOK'
  <2>1. request[t] \in S!Requests
    BY <1>10 DEF TypeOK, Apply, S!Apply, S!Answer
  <2>2. request[t].id \in Ids /\ request[t].body \in Contents
    BY <2>1 DEF S!Requests
  <2>3. was' \in [Ids -> SUBSET Contents] /\ content' \in [Ids -> Contents \cup {Gone}]
        /\ disturbed' \in [Clients -> SUBSET Ids]
    BY <1>10, <2>2 DEF TypeOK, Apply, Disturbed, S!Apply
  <2> QED
    BY <1>10, <2>3 DEF TypeOK, Apply, task, S!Apply, S!Answer
<1>11. ASSUME NEW t \in Tasks, Refuse(t) PROVE TypeOK'
  <2>1. UNCHANGED <<content, was, cache, pc, operation, fetched, told, disturbed>>
    BY <1>11 DEF Refuse, task, history, S!Refuse, S!Drop
  <2>2. /\ request' = [request EXCEPT ![t] = None]
        /\ answer' = answer \/ \E a \in S!Refusals : answer' = [answer EXCEPT ![t] = a]
    BY <1>11 DEF Refuse, S!Refuse, S!Answer, S!Drop
  <2>3. request' \in [Tasks -> S!Requests \cup {None}]
    BY <2>2 DEF TypeOK
  <2>4. answer' \in [Tasks -> {"none", "NoContent"} \cup S!Refusals]
    BY <2>2 DEF TypeOK
  <2> QED
    BY <2>1, <2>3, <2>4 DEF TypeOK
<1>12. ASSUME NEW id \in Ids, Delete(id) PROVE TypeOK'
  BY <1>12 DEF TypeOK, Delete, Disturbed, task, S!Delete
<1>13. CASE UNCHANGED vars
  BY <1>13 DEF TypeOK, vars, server, task, history
<1> QED
  BY <1>1, <1>2, <1>3, <1>4, <1>5, <1>6, <1>7, <1>8, <1>9, <1>10, <1>11, <1>12, <1>13 DEF Next, Work

\* Every step keeps tasks where they belong.
LEMMA StepPlaced == TypeOK /\ PlacedInv /\ [Next]_vars => PlacedInv'
<1> SUFFICES ASSUME TypeOK, PlacedInv, [Next]_vars, NEW u \in Tasks PROVE Placed(u)'
  BY DEF PlacedInv
<1>0. Placed(u)
  BY DEF PlacedInv
<1>1. ASSUME NEW t \in Tasks, NEW o \in Operations, Begin(t, o) PROVE Placed(u)'
  BY <1>0, <1>1, OperationsAre DEF TypeOK, Placed, File, Begin, Go, server
<1>2. ASSUME NEW t \in Tasks, NodeCached(t) \/ WritePanics(t) \/ FetchFails(t) PROVE Placed(u)'
  BY <1>0, <1>2 DEF TypeOK, Placed, File, NodeCached, WritePanics, FetchFails, Reply, Go, server
<1>3. ASSUME NEW t \in Tasks, Fetch(t) \/ ServeFetch(t) PROVE Placed(u)'
  BY <1>0, <1>3 DEF TypeOK, Placed, File, Fetch, ServeFetch, Go, server
<1>4. ASSUME NEW t \in Tasks, FetchArrives(t) PROVE Placed(u)'
  BY <1>0, <1>4 DEF TypeOK, Placed, File, FetchArrives, Reply, Go, server
<1>5. ASSUME NEW t \in Tasks, SendWrite(t) PROVE Placed(u)'
  BY <1>0, <1>5 DEF TypeOK, Placed, File, SendWrite, Go, S!Call
<1>6. ASSUME NEW t \in Tasks, WriteArrives(t) \/ WriteFails(t) \/ AnswerLost(t) PROVE Placed(u)'
  BY <1>0, <1>6 DEF TypeOK, Placed, File, WriteArrives, WriteFails, AnswerLost, Reply, Go, task, S!Return
<1>7. ASSUME NEW t \in Tasks, ConnectionLost(t) PROVE Placed(u)'
  BY <1>0, <1>7 DEF TypeOK, Placed, File, ConnectionLost, Reply, Go, server
<1>8. ASSUME NEW t \in Tasks, Apply(t) \/ Refuse(t) PROVE Placed(u)'
  BY <1>0, <1>8 DEF TypeOK, Placed, File, Apply, Refuse, task, S!Apply, S!Refuse, S!Answer, S!Drop
<1>9. ASSUME NEW id \in Ids, Delete(id) PROVE Placed(u)'
  BY <1>0, <1>9 DEF TypeOK, Placed, File, Delete, task, S!Delete
<1>10. CASE UNCHANGED vars
  BY <1>0, <1>10 DEF Placed, File, vars, server, task
<1> QED
  BY <1>1, <1>2, <1>3, <1>4, <1>5, <1>6, <1>7, <1>8, <1>9, <1>10 DEF Next, Work

-----------------------------------------------------------------------------
(* What is cached was true, and was told *)

\* A step that changes neither contents nor caches, and sends nothing new.
LEMMA TrueUnchanged ==
    ASSUME TrueInv, UNCHANGED <<content, was, cache, told>>,
           \A t \in Tasks : fetched'[t] \in Contents => fetched'[t] = fetched[t] /\ File(t)' = File(t),
           \A t \in Tasks : request'[t] # None => request'[t] = request[t]
    PROVE  TrueInv'
BY DEF TrueInv, CachedWasTrue

\* Every step keeps what is on its way true, and what is cached told.
LEMMA StepTrue == TypeOK /\ PlacedInv /\ TrueInv /\ [Next]_vars => TrueInv'
<1> SUFFICES ASSUME TypeOK, PlacedInv, TrueInv, [Next]_vars PROVE TrueInv'
  OBVIOUS
<1> USE ClientAssumption
<1>0. \A t \in Tasks : fetched[t] \in Contents => pc[t] = "fetching"
  BY DEF PlacedInv, Placed
<1>1. ASSUME NEW t \in Tasks, NEW o \in Operations, Begin(t, o) PROVE TrueInv'
  <2>1. /\ UNCHANGED <<content, was, cache, told, fetched, request>>
        /\ pc[t] = "idle" /\ operation' = [operation EXCEPT ![t] = o]
    BY <1>1 DEF Begin, server
  <2>2. \A u \in Tasks : fetched[u] \in Contents => File(u)' = File(u)
    BY <1>0, <2>1 DEF File, TypeOK
  <2> QED
    BY <2>1, <2>2, TrueUnchanged
<1>2. ASSUME NEW t \in Tasks, NodeCached(t) \/ WritePanics(t) PROVE TrueInv'
  <2>1. /\ UNCHANGED <<content, was, cache, told, fetched, request>>
        /\ pc[t] = "asked" /\ operation' = [operation EXCEPT ![t] = NoOperation]
    BY <1>2 DEF NodeCached, WritePanics, Reply, server, history
  <2>2. \A u \in Tasks : fetched[u] \in Contents => File(u)' = File(u)
    BY <1>0, <2>1 DEF File, TypeOK
  <2> QED
    BY <2>1, <2>2, TrueUnchanged
<1>3. ASSUME NEW t \in Tasks, FetchFails(t) PROVE TrueInv'
  <2>1. /\ UNCHANGED <<content, was, cache, told, request>>
        /\ operation' = [operation EXCEPT ![t] = NoOperation] /\ fetched' = [fetched EXCEPT ![t] = None]
    BY <1>3 DEF FetchFails, Reply, server, history
  <2>2. \A u \in Tasks : fetched'[u] \in Contents => fetched'[u] = fetched[u] /\ File(u)' = File(u)
    BY <2>1 DEF File, TypeOK
  <2> QED
    BY <2>1, <2>2, TrueUnchanged
<1>4. ASSUME NEW t \in Tasks, Fetch(t) PROVE TrueInv'
  <2>1. UNCHANGED <<content, was, cache, told, fetched, request, operation>>
    BY <1>4 DEF Fetch, server, history
  <2> QED
    BY <2>1, TrueUnchanged DEF File
<1>5. ASSUME NEW t \in Tasks, ServeFetch(t) PROVE TrueInv'
  <2>1. PICK a \in {content[File(t)], "error"} : fetched' = [fetched EXCEPT ![t] = a]
    BY <1>5 DEF ServeFetch
  <2>2. UNCHANGED <<content, was, cache, told, request, operation>> /\ File(t) \in Ids
    BY <1>5, FileKnown DEF ServeFetch, server, history
  <2>3. a \in Contents => a \in was[File(t)]
    BY <2>2 DEF TrueInv
  <2>4. \A u \in Tasks : File(u)' = File(u)
    BY <2>2 DEF File
  <2>5. \A u \in Tasks : fetched'[u] \in Contents => fetched'[u] \in was'[File(u)']
    BY <2>1, <2>2, <2>3, <2>4 DEF TrueInv, TypeOK
  <2> QED
    BY <2>2, <2>5 DEF TrueInv, CachedWasTrue
<1>6. ASSUME NEW t \in Tasks, FetchArrives(t) PROVE TrueInv'
  <2>1. /\ fetched[t] \in Contents /\ fetched[t] # None
        /\ cache' = [cache EXCEPT ![Client[t]][File(t)] = fetched[t]]
        /\ told' = [told EXCEPT ![Client[t]][File(t)] = @ \cup {fetched[t]}]
        /\ fetched' = [fetched EXCEPT ![t] = None] /\ operation' = [operation EXCEPT ![t] = NoOperation]
        /\ UNCHANGED <<content, was, request>>
    BY <1>6 DEF FetchArrives, Arrived, PutHash, Reply, server
  <2>2. File(t) \in Ids /\ Client[t] \in Clients
    BY <1>0, <2>1, FileKnown
  <2>3. \A c \in Clients, id \in Ids :
           cache'[c][id] = IF c = Client[t] /\ id = File(t) THEN fetched[t] ELSE cache[c][id]
    BY <2>1, <2>2, TwiceExcept DEF TypeOK
  <2>4. \A c \in Clients, id \in Ids :
           told'[c][id] = IF c = Client[t] /\ id = File(t) THEN told[c][id] \cup {fetched[t]} ELSE told[c][id]
    BY <2>1, <2>2 DEF TypeOK
  <2>5. fetched[t] \in was[File(t)]
    BY <2>1 DEF TrueInv
  <2>6. \A u \in Tasks : fetched'[u] \in Contents => fetched'[u] \in was'[File(u)']
    BY <2>1 DEF TrueInv, TypeOK, File
  <2>7. CachedWasTrue'
    BY <2>1, <2>3, <2>5 DEF TrueInv, CachedWasTrue
  <2>8. \A c \in Clients, id \in Ids : cache'[c][id] # None => cache'[c][id] \in told'[c][id]
    <3> SUFFICES ASSUME NEW c \in Clients, NEW id \in Ids, cache'[c][id] # None
                 PROVE  cache'[c][id] \in told'[c][id]
      OBVIOUS
    <3>1. CASE c = Client[t] /\ id = File(t)
      BY <2>3, <2>4, <3>1
    <3>2. CASE ~(c = Client[t] /\ id = File(t))
      <4>1. cache'[c][id] = cache[c][id] /\ told'[c][id] = told[c][id]
        BY <2>3, <2>4, <3>2
      <4> QED
        BY <4>1 DEF TrueInv
    <3> QED
      BY <3>1, <3>2
  <2>9. ASSUME NEW u \in Tasks, request'[u] # None
        PROVE  request'[u].prev \in told'[Client[u]][request'[u].id]
    <3>1. request[u] \in S!Requests /\ request'[u] = request[u]
      BY <2>1, <2>9 DEF TypeOK
    <3>2. request[u].id \in Ids
      BY <3>1 DEF S!Requests
    <3>3. Client[u] \in Clients
      OBVIOUS
    <3>4. request[u].prev \in told[Client[u]][request[u].id]
      BY <2>9, <3>1 DEF TrueInv
    <3>5. told[Client[u]][request[u].id] \subseteq told'[Client[u]][request[u].id]
      BY <2>4, <3>2, <3>3
    <3> QED
      BY <3>1, <3>4, <3>5
  <2> QED
    BY <2>1, <2>6, <2>7, <2>8, <2>9 DEF TrueInv
<1>7. ASSUME NEW t \in Tasks, SendWrite(t) PROVE TrueInv'
  <2>1. /\ request' = [request EXCEPT ![t] = [id |-> File(t), prev |-> Cached(t), body |-> operation[t].data]]
        /\ Cached(t) # None /\ UNCHANGED <<content, was, cache, told, fetched, operation>>
    BY <1>7 DEF SendWrite, CachedWhenSent, history, S!Call
  <2>2. File(t) \in Ids /\ Client[t] \in Clients
    BY <1>7, FileKnown DEF SendWrite
  <2>3. Cached(t) \in told[Client[t]][File(t)]
    BY <2>1, <2>2 DEF TrueInv, Cached
  <2>4. \A u \in Tasks : request'[u] # None => request'[u].prev \in told[Client[u]][request'[u].id]
    BY <2>1, <2>3 DEF TrueInv, TypeOK
  <2> QED
    BY <2>1, <2>4 DEF TrueInv, CachedWasTrue, File
<1>8. ASSUME NEW t \in Tasks, WriteArrives(t) PROVE TrueInv'
  <2>1. /\ cache' = [cache EXCEPT ![Client[t]][File(t)] = None] /\ pc[t] = "writing"
        /\ operation' = [operation EXCEPT ![t] = NoOperation]
        /\ UNCHANGED <<content, was, request, told, fetched>>
    BY <1>8 DEF WriteArrives, CachedWhenWritten, PutHash, Reply, history, S!Return
  <2>2. File(t) \in Ids /\ Client[t] \in Clients
    BY <2>1, FileKnown
  <2>3. \A c \in Clients, id \in Ids : cache'[c][id] \in {None, cache[c][id]}
    BY <2>1, <2>2, TwiceExcept DEF TypeOK
  <2>4. \A u \in Tasks : fetched[u] \in Contents => File(u)' = File(u)
    BY <1>0, <2>1 DEF File, TypeOK
  <2> QED
    BY <2>1, <2>3, <2>4 DEF TrueInv, CachedWasTrue
<1>9. ASSUME NEW t \in Tasks, WriteFails(t) \/ ConnectionLost(t) PROVE TrueInv'
  <2>1. /\ UNCHANGED <<content, was, cache, told, fetched, request>>
        /\ pc[t] = "writing" /\ operation' = [operation EXCEPT ![t] = NoOperation]
    BY <1>9 DEF WriteFails, ConnectionLost, Reply, server, history, S!Return
  <2>2. \A u \in Tasks : fetched[u] \in Contents => File(u)' = File(u)
    BY <1>0, <2>1 DEF File, TypeOK
  <2> QED
    BY <2>1, <2>2, TrueUnchanged
<1>10. ASSUME NEW t \in Tasks, AnswerLost(t) \/ Refuse(t) PROVE TrueInv'
  <2>1. /\ UNCHANGED <<content, was, cache, told, fetched, operation>>
        /\ request' = request \/ request' = [request EXCEPT ![t] = None]
    BY <1>10 DEF AnswerLost, Refuse, task, history, S!Return, S!Refuse, S!Answer, S!Drop
  <2> QED
    BY <2>1, TrueUnchanged DEF File, TypeOK
<1>11. ASSUME NEW t \in Tasks, Apply(t) PROVE TrueInv'
  <2>1. /\ content' = [content EXCEPT ![request[t].id] = request[t].body]
        /\ was' = [was EXCEPT ![request[t].id] = @ \cup {request[t].body}]
        /\ request' = [request EXCEPT ![t] = None]
        /\ UNCHANGED <<cache, fetched, operation, told>>
    BY <1>11 DEF Apply, task, S!Apply, S!Answer
  <2>2. \A id \in Ids : was[id] \subseteq was'[id] /\ content'[id] \in was'[id] \cup {Gone}
    BY <2>1 DEF TrueInv, TypeOK
  <2>3. \A u \in Tasks : File(u)' = File(u)
    BY <2>1 DEF File
  <2>4. \A u \in Tasks : fetched'[u] \in Contents => fetched'[u] \in was'[File(u)']
    <3> SUFFICES ASSUME NEW u \in Tasks, fetched[u] \in Contents PROVE fetched[u] \in was'[File(u)]
      BY <2>1, <2>3
    <3>1. File(u) \in Ids
      BY <1>0, FileKnown
    <3> QED
      BY <2>2, <3>1 DEF TrueInv
  <2> QED
    BY <2>1, <2>2, <2>4 DEF TrueInv, CachedWasTrue, TypeOK
<1>12. ASSUME NEW id \in Ids, Delete(id) PROVE TrueInv'
  <2>1. /\ content' = [content EXCEPT ![id] = Gone]
        /\ UNCHANGED <<was, fetched, operation, request, told>>
    BY <1>12 DEF Delete, task, S!Delete
  <2>2. \A c \in Clients, i \in Ids : cache'[c][i] \in {None, cache[c][i]}
    BY <1>12 DEF Delete, TypeOK
  <2>3. \A u \in Tasks : File(u)' = File(u)
    BY <2>1 DEF File
  <2> QED
    BY <2>1, <2>2, <2>3 DEF TrueInv, CachedWasTrue, TypeOK
<1>13. CASE UNCHANGED vars
  BY <1>13, TrueUnchanged DEF vars, server, task, history, File
<1> QED
  BY <1>1, <1>2, <1>3, <1>4, <1>5, <1>6, <1>7, <1>8, <1>9, <1>10, <1>11, <1>12, <1>13 DEF Next, Work

-----------------------------------------------------------------------------
(* The cache of a client that nothing disturbs is current *)

\* What a step must leave alone for a file to stay calm.
LEMMA CalmFrame ==
    ASSUME NEW c \in Clients, NEW id \in Ids, Calm(c, id),
           content'[id] = content[id], cache'[c][id] \in {None, cache[c][id]},
           \A u \in Tasks : Client[u] = c =>
              /\ On(u, c, id)' => /\ On(u, c, id)
                                  /\ answer'[u] = answer[u] \/ answer'[u] # "Modified"
                                  /\ fetched'[u] \in Contents => fetched'[u] = fetched[u]
              /\ request'[u] # None /\ request'[u].id = id => request'[u] = request[u] /\ pc'[u] = pc[u]
              /\ On(u, c, id) /\ pc[u] = "writing" /\ answer[u] = "NoContent" =>
                    On(u, c, id)' /\ pc'[u] = "writing" /\ answer'[u] = "NoContent"
    PROVE  Calm(c, id)'
<1>1. Alone(c, id)'
  BY DEF Calm, Alone, On
<1>2. RequestsCurrent(c, id)'
  BY DEF Calm, RequestsCurrent
<1>3. NotModified(c, id)'
  BY DEF Calm, NotModified, On
<1>4. FetchedCurrent(c, id)'
  BY DEF Calm, FetchedCurrent, On
<1>5. CacheCurrent(c, id)'
  BY DEF Calm, CacheCurrent, On
<1> QED
  BY <1>1, <1>2, <1>3, <1>4, <1>5 DEF Calm

\* A new operation is the only one on its file, or disturbs it.
LEMMA BeginCalm ==
    ASSUME TypeOK, PlacedInv, CalmInv, NEW t \in Tasks, NEW o \in Operations, Begin(t, o)
    PROVE  CalmInv'
<1> SUFFICES ASSUME NEW c \in Clients, NEW id \in Ids, id \notin disturbed'[c] PROVE Calm(c, id)'
  BY DEF CalmInv
<1>1. /\ pc[t] = "idle" /\ request[t] = None /\ answer[t] = "none"
      /\ operation' = [operation EXCEPT ![t] = o] /\ pc' = [pc EXCEPT ![t] = "asked"]
      /\ UNCHANGED <<content, request, answer, cache, fetched>>
      /\ disturbed' = IF \E u \in Tasks \ {t} : Client[u] = Client[t] /\ operation[u] # NoOperation
                      THEN [disturbed EXCEPT ![Client[t]] = @ \cup {o.id}] ELSE disturbed
  BY DEF Begin, Go, server
<1>2. id \notin disturbed[c]
  BY <1>1 DEF TypeOK
<1>3. Calm(c, id)
  BY <1>2 DEF CalmInv
<1>4. ~On(t, c, id) /\ fetched[t] = None /\ operation'[t] = o /\ pc'[t] = "asked"
  BY <1>1 DEF PlacedInv, Placed, On, TypeOK
<1>5. \A u \in Tasks \ {t} : operation'[u] = operation[u] /\ pc'[u] = pc[u] /\ (On(u, c, id)' <=> On(u, c, id))
  BY <1>1 DEF TypeOK, On, File
<1>6. CASE Client[t] = c /\ o.id = id
  <2>1. \A u \in Tasks \ {t} : ~On(u, c, id)
    BY <1>1, <1>6 DEF On, TypeOK
  <2>2. \A u \in Tasks \ {t} : ~On(u, c, id)'
    BY <1>5, <2>1
  <2>3. Alone(c, id)'
    BY <2>2 DEF Alone
  <2>4. RequestsCurrent(c, id)'
    BY <1>1, <1>3, <1>5 DEF Calm, RequestsCurrent
  <2>5. NotModified(c, id)'
    BY <1>1, <2>2 DEF NotModified
  <2>6. FetchedCurrent(c, id)'
    BY <1>1, <1>4, <2>2, ClientAssumption DEF FetchedCurrent
  <2>7. CacheCurrent(c, id)'
    BY <1>1, <1>3, <1>4, <2>1 DEF Calm, CacheCurrent
  <2> QED
    BY <2>3, <2>4, <2>5, <2>6, <2>7 DEF Calm
<1>7. CASE ~(Client[t] = c /\ o.id = id)
  <2>1. ~On(t, c, id)'
    BY <1>4, <1>7 DEF On, File
  <2> QED
    BY <1>1, <1>3, <1>4, <1>5, <2>1, CalmFrame
<1> QED
  BY <1>6, <1>7

\* An operation that ends without a word changes nothing for its file.
LEMMA EndCalm ==
    ASSUME TypeOK, PlacedInv, CalmInv, NEW t \in Tasks,
           NodeCached(t) \/ WritePanics(t) \/ FetchFails(t) \/ WriteFails(t) \/ ConnectionLost(t)
    PROVE  CalmInv'
<1> SUFFICES ASSUME NEW c \in Clients, NEW id \in Ids, id \notin disturbed'[c] PROVE Calm(c, id)'
  BY DEF CalmInv
<1>1. /\ operation' = [operation EXCEPT ![t] = NoOperation] /\ pc' = [pc EXCEPT ![t] = "idle"]
      /\ UNCHANGED <<content, request, cache>>
      /\ fetched' = fetched \/ fetched' = [fetched EXCEPT ![t] = None]
      /\ pc[t] \in {"asked", "fetching"} \/ pc[t] = "writing"
  BY DEF NodeCached, WritePanics, FetchFails, WriteFails, ConnectionLost, Reply, Go, server, S!Return
<1>2. /\ answer' = answer \/ (answer' = [answer EXCEPT ![t] = "none"] /\ answer[t] \in S!Refusals)
      /\ disturbed' = disturbed \/ disturbed' = [disturbed EXCEPT ![Client[t]] = @ \cup {File(t)}]
  BY DEF NodeCached, WritePanics, FetchFails, WriteFails, ConnectionLost, server, history, Disturb, S!Return
<1>3. id \notin disturbed[c]
  BY <1>2 DEF TypeOK
<1>4. Calm(c, id)
  BY <1>3 DEF CalmInv
<1>5. operation'[t] = NoOperation /\ pc'[t] = "idle" /\ ~On(t, c, id)'
  BY <1>1 DEF TypeOK, On
<1>6. \A u \in Tasks \ {t} : /\ operation'[u] = operation[u] /\ pc'[u] = pc[u]
                             /\ answer'[u] = answer[u] /\ fetched'[u] = fetched[u]
                             /\ (On(u, c, id)' <=> On(u, c, id))
  BY <1>1, <1>2 DEF TypeOK, On, File
<1>7. Client[t] = c /\ request[t] # None => request[t].id # id
  <2> SUFFICES ASSUME Client[t] = c, request[t] # None, request[t].id = id PROVE FALSE
    OBVIOUS
  <2>1. pc[t] = "writing" /\ File(t) = id /\ answer[t] = "none"
    BY <1>1 DEF PlacedInv, Placed
  <2>2. ConnectionLost(t)
    BY <2>1 DEF NodeCached, WritePanics, FetchFails, WriteFails, S!Refusals
  <2>3. id \in disturbed'[c]
    BY <2>1, <2>2 DEF ConnectionLost, Disturb, TypeOK
  <2> QED
    BY <2>3
<1>8. ASSUME On(t, c, id), pc[t] = "writing", answer[t] = "NoContent" PROVE FALSE
  <2>1. ConnectionLost(t)
    BY <1>8 DEF NodeCached, WritePanics, FetchFails, WriteFails, S!Refusals
  <2>2. id \in disturbed'[c]
    BY <1>8, <2>1 DEF ConnectionLost, Disturb, On, TypeOK
  <2> QED
    BY <2>2
<1> QED
  BY <1>1, <1>4, <1>5, <1>6, <1>7, <1>8, CalmFrame

\* The answer to a GET is true when it is given.
LEMMA ServeFetchCalm ==
    ASSUME TypeOK, PlacedInv, CalmInv, NEW t \in Tasks, ServeFetch(t) \/ Fetch(t)
    PROVE  CalmInv'
<1> SUFFICES ASSUME NEW c \in Clients, NEW id \in Ids, id \notin disturbed'[c] PROVE Calm(c, id)'
  BY DEF CalmInv
<1>1. /\ UNCHANGED <<content, request, answer, cache, operation, disturbed>> /\ pc[t] # "writing"
      /\ pc' = pc \/ pc' = [pc EXCEPT ![t] = "fetching"]
      /\ fetched' = fetched \/ (\E a \in {content[File(t)], "error"} : fetched' = [fetched EXCEPT ![t] = a])
  BY DEF ServeFetch, Fetch, Go, server, history
<1>2. Calm(c, id)
  BY <1>1 DEF CalmInv
<1>3. \A u \in Tasks : On(u, c, id)' <=> On(u, c, id)
  BY <1>1 DEF On, File
<1>4. \A u \in Tasks : request[u] # None => pc'[u] = pc[u]
  BY <1>1 DEF PlacedInv, Placed, TypeOK, ServeFetch, Fetch
<1>5. Alone(c, id)' /\ NotModified(c, id)' /\ RequestsCurrent(c, id)'
  <2>1. Alone(c, id)' /\ NotModified(c, id)'
    BY <1>1, <1>2, <1>3 DEF Calm, Alone, NotModified
  <2>2. RequestsCurrent(c, id)'
    BY <1>1, <1>2, <1>4 DEF Calm, RequestsCurrent
  <2> QED
    BY <2>1, <2>2
<1>6. FetchedCurrent(c, id)'
  <2> SUFFICES ASSUME NEW u \in Tasks, On(u, c, id), fetched'[u] \in Contents
               PROVE  fetched'[u] = content[id]
    BY <1>1, <1>3 DEF FetchedCurrent
  <2>1. CASE fetched'[u] = fetched[u]
    BY <1>2, <2>1 DEF Calm, FetchedCurrent
  <2>2. CASE fetched'[u] # fetched[u]
    <3>1. PICK a \in {content[File(t)], "error"} : fetched' = [fetched EXCEPT ![t] = a]
      BY <1>1, <2>2
    <3>2. u = t /\ fetched'[u] = a
      BY <2>2, <3>1 DEF TypeOK
    <3> QED
      BY <3>1, <3>2, ClientAssumption DEF On
  <2> QED
    BY <2>1, <2>2
<1>7. CacheCurrent(c, id)'
  <2>1. \A u \in Tasks : pc[u] = "writing" => pc'[u] = "writing"
    BY <1>1 DEF TypeOK
  <2> QED
    BY <1>1, <1>2, <1>3, <2>1 DEF Calm, CacheCurrent
<1> QED
  BY <1>5, <1>6, <1>7 DEF Calm

\* What has been read is cached; if nobody else of the client is at the file
\* and it is as was read, the cache is right again.
LEMMA FetchArrivesCalm ==
    ASSUME TypeOK, PlacedInv, CalmInv, NEW t \in Tasks, FetchArrives(t)
    PROVE  CalmInv'
<1> SUFFICES ASSUME NEW c \in Clients, NEW id \in Ids, id \notin disturbed'[c] PROVE Calm(c, id)'
  BY DEF CalmInv
<1>1. /\ fetched[t] \in Contents /\ fetched[t] # None
      /\ cache' = [cache EXCEPT ![Client[t]][File(t)] = fetched[t]]
      /\ fetched' = [fetched EXCEPT ![t] = None]
      /\ operation' = [operation EXCEPT ![t] = NoOperation] /\ pc' = [pc EXCEPT ![t] = "idle"]
      /\ UNCHANGED <<content, request, answer>>
      /\ disturbed' = IF Settled(t) THEN [disturbed EXCEPT ![Client[t]] = @ \ {File(t)}] ELSE disturbed
  BY ClientAssumption DEF FetchArrives, Arrived, PutHash, Reply, Go, server
<1>2. pc[t] = "fetching" /\ request[t] = None /\ answer[t] = "none"
  BY <1>1 DEF PlacedInv, Placed
<1>3. File(t) \in Ids /\ Client[t] \in Clients
  BY <1>2, FileKnown
<1>4. cache'[c][id] = IF c = Client[t] /\ id = File(t) THEN fetched[t] ELSE cache[c][id]
  BY <1>1, <1>3, TwiceExcept DEF TypeOK
<1>5. operation'[t] = NoOperation /\ pc'[t] = "idle" /\ ~On(t, c, id)'
  BY <1>1 DEF TypeOK, On
<1>6. \A u \in Tasks \ {t} : /\ operation'[u] = operation[u] /\ pc'[u] = pc[u] /\ fetched'[u] = fetched[u]
                             /\ (On(u, c, id)' <=> On(u, c, id))
  BY <1>1 DEF TypeOK, On, File
<1>7. CASE ~(c = Client[t] /\ id = File(t))
  <2>1. id \notin disturbed[c]
    BY <1>1, <1>3, <1>7 DEF TypeOK
  <2>2. Calm(c, id)
    BY <2>1 DEF CalmInv
  <2> QED
    BY <1>1, <1>2, <1>4, <1>5, <1>6, <1>7, <2>2, CalmFrame
<1>8. CASE c = Client[t] /\ id = File(t)
  <2>1. /\ \A u \in Tasks \ {t} : ~On(u, c, id)
        /\ \A u \in Tasks \ {t} : Client[u] = c => request[u] = None \/ request[u].id # id
        /\ fetched[t] = content[id]
    <3>1. CASE Settled(t)
      <4>1. Others(t) = {}
        BY <3>1 DEF Settled
      <4> QED
        BY <1>8, <3>1, <4>1 DEF Settled, Others, On
    <3>2. CASE ~Settled(t)
      <4>1. Calm(c, id)
        BY <1>1, <3>2 DEF CalmInv
      <4>2. On(t, c, id)
        BY <1>2, <1>8 DEF On, PlacedInv, Placed
      <4>3. \A u \in Tasks \ {t} : ~On(u, c, id)
        BY <4>1, <4>2 DEF Calm, Alone
      <4>4. fetched[t] = content[id]
        BY <1>1, <4>1, <4>2 DEF Calm, FetchedCurrent
      <4>5. ASSUME NEW u \in Tasks \ {t}, Client[u] = c, request[u] # None, request[u].id = id PROVE FALSE
        <5>1. pc[u] = "writing" /\ File(u) = id
          BY <4>1, <4>5 DEF Calm, RequestsCurrent, PlacedInv, Placed
        <5>2. On(u, c, id)
          BY <4>5, <5>1 DEF On, PlacedInv, Placed
        <5> QED
          BY <4>3, <5>2
      <4> QED
        BY <4>3, <4>4, <4>5
    <3> QED
      BY <3>1, <3>2
  <2>2. \A u \in Tasks : ~On(u, c, id)'
    BY <1>5, <1>6, <2>1
  <2>3. Alone(c, id)' /\ NotModified(c, id)' /\ FetchedCurrent(c, id)'
    BY <2>2 DEF Alone, NotModified, FetchedCurrent
  <2>4. RequestsCurrent(c, id)'
    BY <1>1, <1>2, <2>1 DEF RequestsCurrent
  <2>5. CacheCurrent(c, id)'
    BY <1>1, <1>4, <1>8, <2>1 DEF CacheCurrent
  <2> QED
    BY <2>3, <2>4, <2>5 DEF Calm
<1> QED
  BY <1>7, <1>8

\* A request names the version that is there.
LEMMA SendWriteCalm ==
    ASSUME TypeOK, PlacedInv, CalmInv, NEW t \in Tasks, SendWrite(t)
    PROVE  CalmInv'
<1> SUFFICES ASSUME NEW c \in Clients, NEW id \in Ids, id \notin disturbed'[c] PROVE Calm(c, id)'
  BY DEF CalmInv
<1> DEFINE new == [id |-> File(t), prev |-> Cached(t), body |-> operation[t].data]
<1>1. /\ pc[t] = "asked" /\ Cached(t) # None
      /\ request' = [request EXCEPT ![t] = new] /\ pc' = [pc EXCEPT ![t] = "writing"]
      /\ UNCHANGED <<content, answer, cache, fetched, operation, disturbed>>
  BY DEF SendWrite, CachedWhenSent, Go, history, S!Call
<1>2. new.id = File(t) /\ new.prev = Cached(t)
  OBVIOUS
<1> HIDE DEF new
<1>3. Calm(c, id)
  BY <1>1 DEF CalmInv
<1>4. \A u \in Tasks : On(u, c, id)' <=> On(u, c, id)
  BY <1>1 DEF On, File
<1>5. /\ pc'[t] = "writing" /\ request'[t] = new
      /\ \A u \in Tasks \ {t} : pc'[u] = pc[u] /\ request'[u] = request[u]
  BY <1>1 DEF TypeOK
<1>6. Alone(c, id)' /\ NotModified(c, id)' /\ FetchedCurrent(c, id)'
  BY <1>1, <1>3, <1>4 DEF Calm, Alone, NotModified, FetchedCurrent
<1>7. CacheCurrent(c, id)'
  <2>1. \A u \in Tasks : pc[u] = "writing" => pc'[u] = "writing"
    BY <1>5
  <2> QED
    BY <1>1, <1>3, <1>4, <2>1 DEF Calm, CacheCurrent
<1>8. Client[t] = c /\ File(t) = id => Cached(t) = content[id]
  <2> SUFFICES ASSUME Client[t] = c, File(t) = id PROVE Cached(t) = content[id]
    OBVIOUS
  <2>1. On(t, c, id)
    BY <1>1 DEF On, PlacedInv, Placed
  <2>2. ~\E u \in Tasks : On(u, c, id) /\ pc[u] = "writing" /\ answer[u] = "NoContent"
    BY <1>1, <1>3, <2>1 DEF Calm, Alone
  <2> QED
    BY <1>1, <1>3, <2>2 DEF Calm, CacheCurrent, Cached
<1>9. RequestsCurrent(c, id)'
  BY <1>1, <1>2, <1>3, <1>5, <1>8 DEF Calm, RequestsCurrent
<1> QED
  BY <1>6, <1>7, <1>9 DEF Calm

\* A write that has succeeded leaves no hash in the cache.
LEMMA WriteArrivesCalm ==
    ASSUME TypeOK, PlacedInv, CalmInv, NEW t \in Tasks, WriteArrives(t)
    PROVE  CalmInv'
<1> SUFFICES ASSUME NEW c \in Clients, NEW id \in Ids, id \notin disturbed'[c] PROVE Calm(c, id)'
  BY DEF CalmInv
<1>1. /\ pc[t] = "writing" /\ answer[t] = "NoContent" /\ answer' = [answer EXCEPT ![t] = "none"]
      /\ cache' = [cache EXCEPT ![Client[t]][File(t)] = None]
      /\ operation' = [operation EXCEPT ![t] = NoOperation] /\ pc' = [pc EXCEPT ![t] = "idle"]
      /\ UNCHANGED <<content, request, fetched, disturbed>>
  BY DEF WriteArrives, CachedWhenWritten, PutHash, Reply, Go, history, S!Return
<1>2. request[t] = None
  BY <1>1 DEF PlacedInv, Placed
<1>3. File(t) \in Ids /\ Client[t] \in Clients
  BY <1>1, FileKnown
<1>4. cache'[c][id] = IF c = Client[t] /\ id = File(t) THEN None ELSE cache[c][id]
  BY <1>1, <1>3, TwiceExcept DEF TypeOK
<1>5. Calm(c, id)
  BY <1>1 DEF CalmInv
<1>6. ~On(t, c, id)'
  BY <1>1 DEF TypeOK, On
<1>7. \A u \in Tasks \ {t} : /\ pc'[u] = pc[u] /\ answer'[u] = answer[u]
                             /\ (On(u, c, id)' <=> On(u, c, id))
  BY <1>1 DEF TypeOK, On, File
<1>8. Alone(c, id)' /\ NotModified(c, id)' /\ FetchedCurrent(c, id)'
  BY <1>1, <1>5, <1>6, <1>7 DEF Calm, Alone, NotModified, FetchedCurrent
<1>9. RequestsCurrent(c, id)'
  BY <1>1, <1>2, <1>5, <1>7 DEF Calm, RequestsCurrent
<1>10. CacheCurrent(c, id)'
  <2>1. CASE c = Client[t] /\ id = File(t)
    BY <1>4, <2>1 DEF CacheCurrent
  <2>2. CASE ~(c = Client[t] /\ id = File(t))
    <3>1. ~On(t, c, id)
      BY <2>2 DEF On
    <3> QED
      BY <1>1, <1>4, <1>5, <1>7, <2>2, <3>1 DEF Calm, CacheCurrent
  <2> QED
    BY <2>1, <2>2
<1> QED
  BY <1>8, <1>9, <1>10 DEF Calm

\* A write that is applied is the only thing its undisturbed client does.
LEMMA ApplyCalm ==
    ASSUME TypeOK, PlacedInv, CalmInv, NEW t \in Tasks, Apply(t)
    PROVE  CalmInv'
<1> SUFFICES ASSUME NEW c \in Clients, NEW id \in Ids, id \notin disturbed'[c] PROVE Calm(c, id)'
  BY DEF CalmInv
<1> DEFINE r == request[t]
<1>1. /\ r # None /\ r.id \in Ids /\ answer[t] = "none"
      /\ request' = [request EXCEPT ![t] = None] /\ answer' = [answer EXCEPT ![t] = "NoContent"]
      /\ content' = [content EXCEPT ![r.id] = r.body]
      /\ UNCHANGED <<cache, pc, operation, fetched>>
  BY DEF Apply, task, S!Apply, S!Answer, TypeOK, S!Requests, PlacedInv, Placed
<1>2. /\ disturbed[c] \subseteq disturbed'[c]
      /\ id = r.id => pc[t] = "writing" /\ c = Client[t]
  BY DEF Apply, Disturbed
<1>3. Calm(c, id)
  BY <1>2 DEF CalmInv
<1>4. \A u \in Tasks : On(u, c, id)' <=> On(u, c, id)
  BY <1>1 DEF On, File
<1>5. pc[t] \in {"idle", "writing"} /\ (pc[t] = "writing" => File(t) = r.id)
      /\ (pc[t] = "idle" <=> operation[t] = NoOperation)
  BY <1>1 DEF PlacedInv, Placed, TypeOK, PCs
<1>6. /\ request'[t] = None /\ answer'[t] = "NoContent"
      /\ \A u \in Tasks \ {t} : request'[u] = request[u] /\ answer'[u] = answer[u]
  BY <1>1 DEF TypeOK
<1>7. CASE id # r.id
  <2>1. ~On(t, c, id)
    BY <1>5, <1>7 DEF On
  <2>2. content'[id] = content[id]
    BY <1>1, <1>7 DEF TypeOK
  <2> QED
    BY <1>1, <1>3, <1>4, <1>6, <2>1, <2>2, CalmFrame
<1>8. CASE id = r.id
  <2>1. On(t, c, id)
    BY <1>2, <1>5, <1>8 DEF On
  <2>2. \A u \in Tasks \ {t} : ~On(u, c, id)
    BY <1>3, <2>1 DEF Calm, Alone
  <2>3. Alone(c, id)'
    BY <1>3, <1>4 DEF Calm, Alone
  <2>4. RequestsCurrent(c, id)'
    <3> SUFFICES ASSUME NEW u \in Tasks \ {t}, Client[u] = c, request[u] # None, request[u].id = id
                 PROVE  FALSE
      BY <1>6 DEF RequestsCurrent
    <3>1. pc[u] = "writing" /\ File(u) = id
      BY <1>3 DEF Calm, RequestsCurrent, PlacedInv, Placed
    <3>2. On(u, c, id)
      BY <3>1 DEF On, PlacedInv, Placed
    <3> QED
      BY <2>2, <3>2
  <2>5. NotModified(c, id)'
    BY <1>4, <1>6, <2>2 DEF NotModified
  <2>6. FetchedCurrent(c, id)'
    <3>1. fetched[t] \notin Contents
      BY <1>2, <1>8, ClientAssumption DEF PlacedInv, Placed
    <3> QED
      BY <1>1, <1>4, <2>2, <3>1 DEF FetchedCurrent
  <2>7. CacheCurrent(c, id)'
    BY <1>1, <1>2, <1>4, <1>6, <1>8, <2>1 DEF CacheCurrent
  <2> QED
    BY <2>3, <2>4, <2>5, <2>6, <2>7 DEF Calm
<1> QED
  BY <1>7, <1>8

\* A request that names the version that is there is not refused for another.
LEMMA RefuseCalm ==
    ASSUME TypeOK, PlacedInv, CalmInv, NEW t \in Tasks, Refuse(t) \/ AnswerLost(t)
    PROVE  CalmInv'
<1> SUFFICES ASSUME NEW c \in Clients, NEW id \in Ids, id \notin disturbed'[c] PROVE Calm(c, id)'
  BY DEF CalmInv
<1>1. UNCHANGED <<content, cache, pc, operation, fetched, disturbed>>
  BY DEF Refuse, AnswerLost, task, history, S!Refuse, S!Drop, S!Return
<1>2. Calm(c, id)
  BY <1>1 DEF CalmInv
<1>3. \A u \in Tasks : On(u, c, id)' <=> On(u, c, id)
  BY <1>1 DEF On, File
<1>4. request' = request \/ request' = [request EXCEPT ![t] = None]
  BY DEF Refuse, AnswerLost, S!Refuse, S!Answer, S!Drop, S!Return
<1>5. \/ answer' = answer
      \/ answer' = [answer EXCEPT ![t] = "none"] /\ pc[t] # "writing"
      \/ \E a \in S!Refusals : /\ answer' = [answer EXCEPT ![t] = a] /\ request[t] # None
                               /\ a = "Modified" => content[request[t].id] # request[t].prev
  BY DEF Refuse, AnswerLost, S!Refuse, S!Answer, S!Drop, S!Return
<1>6. \A u \in Tasks : request'[u] # None => request'[u] = request[u]
  BY <1>4 DEF TypeOK
<1>7. ASSUME NEW u \in Tasks, On(u, c, id), pc[u] = "writing", answer[u] = "NoContent"
      PROVE  answer'[u] = "NoContent"
  <2>1. request[u] = None
    BY <1>7 DEF PlacedInv, Placed
  <2> QED
    BY <1>5, <1>7, <2>1 DEF TypeOK
<1>8. ASSUME NEW u \in Tasks, On(u, c, id), answer'[u] = "Modified"
      PROVE  answer'[u] = answer[u]
  <2> SUFFICES ASSUME answer'[u] # answer[u] PROVE FALSE
    OBVIOUS
  <2>1. u = t /\ request[t] # None /\ content[request[t].id] # request[t].prev
    BY <1>5, <1>8 DEF TypeOK
  <2>2. pc[t] = "writing" /\ request[t].id = id
    BY <1>8, <2>1 DEF On, PlacedInv, Placed, TypeOK, PCs
  <2> QED
    BY <1>2, <1>8, <2>1, <2>2 DEF Calm, RequestsCurrent, On
<1> QED
  BY <1>1, <1>2, <1>3, <1>6, <1>7, <1>8, CalmFrame

\* A deletion disturbs everybody.
LEMMA DeleteCalm ==
    ASSUME TypeOK, PlacedInv, CalmInv, NEW gone \in Ids, Delete(gone)
    PROVE  CalmInv'
<1> SUFFICES ASSUME NEW c \in Clients, NEW id \in Ids, id \notin disturbed'[c] PROVE Calm(c, id)'
  BY DEF CalmInv
<1>1. /\ content' = [content EXCEPT ![gone] = Gone]
      /\ UNCHANGED <<request, answer, pc, operation, fetched>>
      /\ id \notin disturbed[c] /\ id # gone
  BY DEF Delete, Disturbed, task, S!Delete
<1>2. Calm(c, id)
  BY <1>1 DEF CalmInv
<1>3. \A u \in Tasks : On(u, c, id)' <=> On(u, c, id)
  BY <1>1 DEF On, File
<1>4. content'[id] = content[id] /\ cache'[c][id] \in {None, cache[c][id]}
  BY <1>1 DEF Delete, TypeOK
<1> QED
  BY <1>1, <1>2, <1>3, <1>4, CalmFrame

\* Every step keeps what is undisturbed calm.
LEMMA StepCalm == TypeOK /\ PlacedInv /\ CalmInv /\ [Next]_vars => CalmInv'
<1> SUFFICES ASSUME TypeOK, PlacedInv, CalmInv, [Next]_vars PROVE CalmInv'
  OBVIOUS
<1>1. CASE UNCHANGED vars
  <2> SUFFICES ASSUME NEW c \in Clients, NEW id \in Ids, id \notin disturbed'[c] PROVE Calm(c, id)'
    BY DEF CalmInv
  <2>1. Calm(c, id) /\ UNCHANGED <<content, cache, request, answer, pc, operation, fetched>>
    BY <1>1 DEF CalmInv, vars, server, task, history
  <2>2. \A u \in Tasks : On(u, c, id)' <=> On(u, c, id)
    BY <2>1 DEF On, File
  <2> QED
    BY <2>1, <2>2, CalmFrame
<1>2. ASSUME NEW t \in Tasks, \/ \E o \in Operations : Begin(t, o)
                              \/ Work(t) \/ ConnectionLost(t) \/ AnswerLost(t)
                              \/ ServeFetch(t) \/ Apply(t) \/ Refuse(t)
      PROVE  CalmInv'
  BY <1>2, BeginCalm, EndCalm, ServeFetchCalm, FetchArrivesCalm, SendWriteCalm, WriteArrivesCalm,
     ApplyCalm, RefuseCalm
  DEF Work
<1>3. ASSUME NEW id \in Ids, Delete(id) PROVE CalmInv'
  BY <1>3, DeleteCalm
<1> QED
  BY <1>1, <1>2, <1>3 DEF Next

-----------------------------------------------------------------------------

IInv == TypeOK /\ PlacedInv /\ TrueInv /\ CalmInv

\* The inductive invariant.
THEOREM Invariance == Spec => []IInv
<1>1. Init => IInv
  BY InitTyped DEF IInv
<1>2. IInv /\ [Next]_vars => IInv'
  BY StepTyped, StepPlaced, StepTrue, StepCalm DEF IInv
<1> QED
  BY <1>1, <1>2, PTL DEF Spec

\* Every variable keeps its type.
THEOREM TypeCorrect == Spec => []TypeOK
<1>1. IInv => TypeOK
  BY DEF IInv
<1> QED
  BY <1>1, Invariance, PTL

\* A cached hash was the file's once, however late answers come.
THEOREM CachedHashesWereTrue == Spec => []CachedWasTrue
<1>1. IInv => CachedWasTrue
  BY DEF IInv, TrueInv
<1> QED
  BY <1>1, Invariance, PTL

\* No write replaces a version its client was not told of
\* (local_file_cache.rs:58-71), whatever is lost, late or given up.
THEOREM NoUpdateIsLost == Spec => WritesAreNotBlind
<1> DEFINE Seen == \A id \in Ids : content'[id] \notin {content[id], Gone} =>
                      \E t \in Tasks : request[t] # None /\ request'[t] = None
                                       /\ request[t].id = id /\ content[id] \in told[Client[t]][id]
<1>1. IInv /\ [Next]_vars => [Seen]_content
  <2> SUFFICES ASSUME IInv, Next, content' # content PROVE Seen
    BY DEF vars, server
  <2> USE DEF IInv
  <2>1. ASSUME NEW t \in Tasks, Apply(t) PROVE Seen
    <3>1. /\ request[t] # None /\ content[request[t].id] = request[t].prev
          /\ request' = [request EXCEPT ![t] = None]
          /\ content' = [content EXCEPT ![request[t].id] = request[t].body]
      BY <2>1 DEF Apply, S!Apply, S!Answer, S!Current
    <3>2. request[t].prev \in told[Client[t]][request[t].id]
      BY <3>1 DEF TrueInv
    <3>3. request'[t] = None
      BY <3>1 DEF TypeOK
    <3>4. \A id \in Ids : content'[id] # content[id] => id = request[t].id
      BY <3>1 DEF TypeOK
    <3> QED
      BY <3>1, <3>2, <3>3, <3>4
  <2>2. ASSUME NEW gone \in Ids, Delete(gone) PROVE Seen
    <3>1. \A id \in Ids : content'[id] \in {content[id], Gone}
      BY <2>2 DEF Delete, S!Delete, TypeOK
    <3> QED
      BY <3>1
  <2>3. (\E t \in Tasks : Apply(t)) \/ (\E gone \in Ids : Delete(gone))
    BY DEF Next, Work, Begin, NodeCached, Fetch, FetchArrives, FetchFails, WritePanics, SendWrite,
           WriteArrives, WriteFails, ConnectionLost, AnswerLost, ServeFetch, Refuse, server,
           S!Call, S!Return, S!Refuse, S!Drop
  <2> QED
    BY <2>1, <2>2, <2>3
<1> QED
  BY <1>1, Invariance, PTL DEF Spec, WritesAreNotBlind

\* A client nothing disturbs has the right hash in its cache, its writes never
\* meet "Modified", and reading a file ends a disturbance.
THEOREM CachesAreCurrent == Spec => []CacheIsCurrent
<1>1. IInv => CacheIsCurrent
  <2> SUFFICES ASSUME IInv, NEW c \in Clients, NEW id \in Ids \ disturbed[c]
               PROVE  LET busy == {t \in Tasks : Client[t] = c /\ operation[t] # NoOperation} IN
                      /\ \A t \in busy : File(t) = id => answer[t] # "Modified"
                      /\ busy = {} => cache[c][id] \in {None, content[id]}
    BY DEF CacheIsCurrent
  <2>1. Calm(c, id)
    BY DEF IInv, CalmInv
  <2> QED
    BY <2>1 DEF Calm, NotModified, CacheCurrent, On
<1> QED
  BY <1>1, Invariance, PTL

-----------------------------------------------------------------------------
(* The server                                                              *)

\* Every step of a client is one that ContentStore has, or none.
LEMMA StepUsesServer ==
    ASSUME TypeOK, [Next]_vars
    PROVE  [S!Next]_(S!vars)
<1>1. ASSUME NEW t \in Tasks, SendWrite(t)
      PROVE  S!Next
  <2> DEFINE req == [id |-> File(t), prev |-> Cached(t), body |-> operation[t].data]
  <2>1. /\ operation[t] \in Operations /\ operation[t].op = "write"
        /\ S!Call(t, req) /\ Cached(t) # None
    BY <1>1 DEF SendWrite, TypeOK, NoOperation
  <2>2. operation[t].id \in Ids /\ operation[t].data \in Contents
    BY <2>1 DEF Operations
  <2>3. cache[Client[t]][operation[t].id] \in Contents
    BY <2>1, <2>2, ClientAssumption DEF TypeOK, Cached, File
  <2>4. req \in S!Requests
    BY <2>2, <2>3 DEF S!Requests, Cached, File
  <2> QED
    BY <2>1, <2>4 DEF S!Next
<1>2. ASSUME NEW t \in Tasks, WriteArrives(t) \/ WriteFails(t) \/ AnswerLost(t)
      PROVE  S!Next
  BY <1>2 DEF WriteArrives, WriteFails, AnswerLost, S!Next
<1>3. ASSUME NEW t \in Tasks, Apply(t) \/ Refuse(t)
      PROVE  S!Next
  BY <1>3 DEF Apply, Refuse, S!Next
<1>4. ASSUME NEW id \in Ids, Delete(id)
      PROVE  S!Next
  BY <1>4 DEF Delete, S!Next
<1>5. ASSUME NEW t \in Tasks,
             \/ \E o \in Operations : Begin(t, o)
             \/ NodeCached(t) \/ Fetch(t) \/ FetchArrives(t) \/ FetchFails(t) \/ WritePanics(t)
             \/ ConnectionLost(t) \/ ServeFetch(t)
      PROVE  UNCHANGED S!vars
  BY <1>5 DEF Begin, NodeCached, Fetch, FetchArrives, FetchFails, WritePanics, ConnectionLost,
              ServeFetch, server, S!vars
<1>6. UNCHANGED vars => UNCHANGED S!vars
  BY DEF vars, server, S!vars
<1> QED
  BY <1>1, <1>2, <1>3, <1>4, <1>5, <1>6 DEF Next, Work

\* Clients keep to what ContentStore, and so FileContent, promises: they send
\* only requests it knows (local_file_cache.rs:58-71), one for each task, take
\* each answer once, and rely on no step it does not have.
THEOREM ServerIsUsed == Spec => S!Spec
<1>1. Init => S!Init
  BY ClientAssumption DEF Init, S!Init
<1>2. TypeOK /\ [Next]_vars => [S!Next]_(S!vars)
  BY StepUsesServer
<1> QED
  BY <1>1, <1>2, TypeCorrect, PTL DEF Spec, S!Spec

=============================================================================
