----------------------- MODULE LocalFileCache_proofs -----------------------
(***************************************************************************)
(* Theorems about LocalFileCache, for all clients, tasks, names and        *)
(* operations, with a network and a server that fail.                      *)
(*                                                                         *)
(* What a client holds in its cache was true once.  The answers under way  *)
(* have to be followed for that: each is true of the node that was asked   *)
(* for, a created node has a link from where it was to be created, and a   *)
(* task still knows what it has asked for when the answer arrives.         *)
(*                                                                         *)
(* A client that is alone, does one thing at a time and is not disturbed   *)
(* has in its cache what the server has, and replies with the errors POSIX *)
(* names.  There the tree and the cache are followed together: while the   *)
(* answer to a write is under way, the cache is what that answer will make *)
(* of it.                                                                  *)
(***************************************************************************)
EXTENDS LocalFileCache, TLAPS

\* WasTrue of a set of links.
TrueIn(links, id, info) ==
    /\ info.kind = "file" => \E e \in links : e.kind = "file" /\ e.child = id
    /\ info.kind = "directory" =>
          \/ id = Root /\ info.node = Root
          \/ \E e \in links : e.kind = "directory" /\ e.child = id /\ e.parent = info.node
    /\ \A l \in info.children : \E e \in links : e.parent = id /\ e.name = l.name /\ e.child = l.child

Entry(id, info, links) == info \in Infos /\ TrueIn(links, id, info)

\* A good answer to a read may go into the cache.
GoodRead(r, a, links) == a.status = "Ok" => Entry(r.node, a, links)

\* A create is answered with the node its link leads to.
GoodWrite(r, a, links) ==
    r.op \in CreateOps =>
        /\ a.status # "NoContent"
        /\ a.status = "Created" =>
              [parent |-> r.node, name |-> r.name, kind |-> WantedKind(r.op), child |-> a.node] \in links

\* The server and the history of its links.
ServerFits ==
    /\ tree \in [last : Nat, links : SUBSET EntryRows]
    /\ tree.last >= Root
    /\ tree.links \subseteq ever
    /\ ever \subseteq EntryRows
    /\ request \in [Tasks -> Requests \cup {NoRequest}]
    /\ answer \in [Tasks -> Answers \cup {NoAnswer}]
    /\ possible \in [Tasks -> SUBSET Answers]

AnswersFit ==
    \A t \in Tasks :
        /\ request[t].op \in ReadOps =>
              \A a \in possible[t] \cup {answer[t]} : GoodRead(request[t], a, ever)
        /\ GoodWrite(request[t], answer[t], ever)

\* What a task has asked for is what it is waiting for.
WriteOf(o) == [op |-> RouteOf(o.op), node |-> o.node, name |-> o.name]
Asked(t) ==
    CASE pc[t] = "directory sent" -> [op |-> "dir_info", node |-> node[t]]
      [] pc[t] = "node sent" -> [op |-> "node_info", node |-> node[t]]
      [] pc[t] = "write sent" -> WriteOf(operation[t])
      [] OTHER -> NoRequest

Fit(t) ==
    /\ request[t] \in {NoRequest, Asked(t)}
    /\ request[t] = NoRequest => answer[t] = NoAnswer
    /\ pc[t] # "idle" => node[t] \in NodeIds /\ operation[t] \in FuseOperations
    /\ pc[t] \in {"directory", "directory sent"} => operation[t].op \in {"lookup", "readdir"}
    /\ pc[t] \in {"write", "write sent"} => operation[t].op \in FuseWrites
TasksFit == \A t \in Tasks : Fit(t)

CacheFits(c, links) == \A id \in DOMAIN c : id \in NodeIds /\ Entry(id, c[id], links)
CachesFit ==
    /\ cache = [c \in Clients |-> cache[c]]
    /\ \A c \in Clients : CacheFits(cache[c], ever)

ServerInv == ServerFits /\ AnswersFit
IInv == TypeOK /\ ServerInv /\ TasksFit /\ CachesFit

-----------------------------------------------------------------------------
(* Lemmas about what is true                                               *)

\* What was true stays true of more links.
LEMMA MoreIsTrue ==
    ASSUME NEW links, NEW more, links \subseteq more, NEW id, NEW info, Entry(id, info, links)
    PROVE  Entry(id, info, more)
BY DEF Entry, TrueIn

\* So do answers.
LEMMA MoreIsGood ==
    ASSUME NEW links, NEW more, links \subseteq more, NEW r, NEW a
    PROVE  /\ GoodRead(r, a, links) => GoodRead(r, a, more)
           /\ GoodWrite(r, a, links) => GoodWrite(r, a, more)
BY MoreIsTrue DEF GoodRead, GoodWrite

\* NodeTree talks of the same requests and answers.
LEMMA SameApi ==
    /\ S!Root = Root /\ S!NoRequest = NoRequest /\ S!NoAnswer = NoAnswer /\ S!FileInfo = FileInfo
    /\ S!ReadOps = ReadOps /\ S!CreateOps = CreateOps /\ S!DeleteOps = DeleteOps /\ S!WriteOps = WriteOps
    /\ \A s : S!Answer(s) = Answer(s)
    /\ \A s, k, i : S!Located(s, k, i) = Located(s, k, i)
    /\ \A p, own : S!DirectoryInfo(p, own) = DirectoryInfo(p, own)
    /\ \A op : S!WantedKind(op) = WantedKind(op)
    /\ \A op : S!WrongKind(op) = WrongKind(op)
BY DEF S!Root, Root, S!NoRequest, NoRequest, S!NoAnswer, NoAnswer, S!FileInfo, FileInfo,
       S!ReadOps, ReadOps, S!CreateOps, CreateOps, S!DeleteOps, DeleteOps, S!WriteOps, WriteOps,
       S!Answer, Answer, S!Located, Located, S!DirectoryInfo, DirectoryInfo,
       S!WantedKind, WantedKind, S!WrongKind, WrongKind

\* The parent of a directory is where the link to it starts.
LEMMA ParentIsLinked ==
    ASSUME NEW t, t.links \subseteq EntryRows, NEW id \in NodeIds, S!IsDirectory(t, id)
    PROVE  /\ S!ParentOf(t, id) \in NodeIds
           /\ \/ id = Root /\ S!ParentOf(t, id) = Root
              \/ \E e \in t.links : e.kind = "directory" /\ e.child = id /\ e.parent = S!ParentOf(t, id)
<1>1. CASE id = Root
  BY <1>1, SameApi DEF S!ParentOf, Root, NodeIds
<1>2. CASE id # Root
  <2>1. PICK d \in t.links : d.kind = "directory" /\ d.child = id
    BY <1>2, SameApi DEF S!IsDirectory
  <2> DEFINE l == CHOOSE e \in t.links : e.kind = "directory" /\ e.child = id
  <2>2. l \in t.links /\ l.kind = "directory" /\ l.child = id
    BY <2>1
  <2>3. S!ParentOf(t, id) = l.parent
    BY <1>2, SameApi DEF S!ParentOf
  <2> HIDE DEF l
  <2>4. l.parent \in NodeIds
    BY <2>2 DEF EntryRows
  <2> QED
    BY <2>2, <2>3, <2>4
<1> QED
  BY <1>1, <1>2

\* A directory's answer lists its links.
LEMMA ListingIsTrue ==
    ASSUME NEW links, links \subseteq EntryRows, NEW id \in NodeIds, NEW p \in NodeIds,
           \/ id = Root /\ p = Root
           \/ \E e \in links : e.kind = "directory" /\ e.child = id /\ e.parent = p,
           NEW own, own \subseteq links, \A e \in own : e.parent = id
    PROVE  Entry(id, DirectoryInfo(p, own), links)
<1> DEFINE listed == {[name |-> e.name, child |-> e.child] : e \in own}
           info == DirectoryInfo(p, own)
<1>1. info = [status |-> "Ok", kind |-> "directory", node |-> p, children |-> listed]
  BY DEF DirectoryInfo
<1>2. listed \in SUBSET [name : Names, child : NodeIds]
  BY DEF EntryRows
<1>3. \A l \in listed : \E e \in links : e.parent = id /\ e.name = l.name /\ e.child = l.child
  OBVIOUS
<1> HIDE DEF listed, info
<1>4. info \in Infos
  BY <1>1, <1>2 DEF Infos, Answers, Statuses, Kinds, NodeIds
<1>5. info.kind = "directory" /\ info.node = p /\ info.children = listed
  BY <1>1
<1>6. Entry(id, info, links)
  BY <1>3, <1>4, <1>5 DEF Entry, TrueIn
<1> QED
  BY <1>6 DEF info

\* A file's answer says nothing but its kind.
LEMMA FileIsTrue ==
    ASSUME NEW links, NEW id, \E e \in links : e.kind = "file" /\ e.child = id
    PROVE  Entry(id, FileInfo, links)
<1>1. FileInfo = [status |-> "Ok", kind |-> "file", node |-> 0, children |-> {}]
  BY DEF FileInfo, Located
<1>2. FileInfo \in Infos
  BY <1>1 DEF Infos, Answers, Statuses, Kinds
<1>3. FileInfo.kind = "file" /\ FileInfo.children = {}
  BY <1>1
<1> QED
  BY <1>2, <1>3 DEF Entry, TrueIn

\* An answer to a read is true of the tree it is read from.
LEMMA ReadIsTrue ==
    ASSUME NEW t, t.links \subseteq EntryRows, NEW r, r.op \in ReadOps, r.node \in NodeIds
    PROVE  S!ReadAnswer(t, r) \in Answers /\ GoodRead(r, S!ReadAnswer(t, r), t.links)
<1> DEFINE a == S!ReadAnswer(t, r)
           info == DirectoryInfo(S!ParentOf(t, r.node), S!LinksOf(t, r.node))
<1>1. \/ S!IsFile(t, r.node) /\ a = FileInfo
      \/ S!IsDirectory(t, r.node) /\ a = info
      \/ a \in {Answer("NotADirectory"), Answer("NotAFile"), Answer("NotFound")}
  BY SameApi DEF S!ReadAnswer, WrongKind
<1>2. S!IsFile(t, r.node) => Entry(r.node, FileInfo, t.links)
  BY FileIsTrue DEF S!IsFile
<1>3. S!IsDirectory(t, r.node) => Entry(r.node, info, t.links)
  <2>1. S!LinksOf(t, r.node) \subseteq t.links /\ \A e \in S!LinksOf(t, r.node) : e.parent = r.node
    BY DEF S!LinksOf
  <2> QED
    BY <2>1, ParentIsLinked, ListingIsTrue
<1>4. \A s \in {"NotADirectory", "NotAFile", "NotFound"} :
          Answer(s) \in Answers /\ Answer(s).status # "Ok"
  BY DEF Answer, Answers, Statuses
<1> HIDE DEF a, info
<1>5. a \in Answers /\ GoodRead(r, a, t.links)
  BY <1>1, <1>2, <1>3, <1>4 DEF GoodRead, Entry, Infos
<1> QED
  BY <1>5 DEF a

\* What the server refuses with is no success.
LEMMA RefusalsAreNone ==
    ASSUME NEW t, t.links \subseteq EntryRows, NEW r \in WriteRequests, NEW a \in S!Refusals(t, r)
    PROVE  a \in Answers /\ a.status \notin {"Ok", "Created", "NoContent"}
<1>1. \/ \E s \in {"Locked", "DirectoryNotEmpty", "NotFound", "Internal", "NotADirectory", "NotAFile"} :
            a = Answer(s)
      \/ \E e \in S!LinksAt(t, r.node, r.name) : a = Located("AlreadyExists", e.kind, e.child)
  BY SameApi DEF S!Refusals, WrongKind
<1>2. \A s \in {"Locked", "DirectoryNotEmpty", "NotFound", "Internal", "NotADirectory", "NotAFile"} :
         Answer(s) \in Answers /\ Answer(s).status \notin {"Ok", "Created", "NoContent"}
  BY DEF Answer, Answers, Statuses
<1>3. ASSUME NEW e \in S!LinksAt(t, r.node, r.name)
      PROVE  /\ Located("AlreadyExists", e.kind, e.child) \in Answers
             /\ Located("AlreadyExists", e.kind, e.child).status = "AlreadyExists"
  <2>1. e.kind \in Kinds /\ e.child \in Nat
    BY DEF S!LinksAt, EntryRows, NodeIds
  <2> QED
    BY <2>1 DEF Located, Answers, Statuses
<1> QED
  BY <1>1, <1>2, <1>3

-----------------------------------------------------------------------------
(* Lemmas about a cache                                                    *)

\* A cache that fits fits more links.
LEMMA MoreFits ==
    ASSUME NEW c, NEW links, NEW more, links \subseteq more, CacheFits(c, links)
    PROVE  CacheFits(c, more)
BY MoreIsTrue DEF CacheFits

\* A true answer may be entered.
LEMMA WithFits ==
    ASSUME NEW c, NEW links, CacheFits(c, links), NEW id \in NodeIds, NEW info, Entry(id, info, links)
    PROVE  CacheFits(With(c, id, info), links)
BY DEF CacheFits, With

\* A link may be entered below its parent.
LEMMA WithLinkFits ==
    ASSUME NEW c, NEW links, links \subseteq EntryRows, CacheFits(c, links), NEW e \in links
    PROVE  CacheFits(WithLink(c, e.parent, e.name, e.child), links)
<1> DEFINE p == e.parent
           new == [name |-> e.name, child |-> e.child]
           children == {l \in c[p].children : l.name # e.name} \cup {new}
           info == [c[p] EXCEPT !.children = children]
<1>1. CASE Knows(c, p, {"directory"})
  <2>1. p \in DOMAIN c /\ Entry(p, c[p], links) /\ p \in NodeIds /\ c[p].kind = "directory"
    BY <1>1 DEF Knows, CacheFits
  <2>2. c[p] \in Answers /\ c[p].status = "Ok"
    BY <2>1 DEF Entry, Infos
  <2>3. new \in [name : Names, child : NodeIds]
    BY DEF EntryRows
  <2>4. children \in SUBSET [name : Names, child : NodeIds]
    BY <2>2, <2>3 DEF Answers
  <2>5. \A l \in children : \E f \in links : f.parent = p /\ f.name = l.name /\ f.child = l.child
    BY <2>1 DEF Entry, TrueIn
  <2> HIDE DEF new, children
  <2>6. /\ info \in Answers /\ info.status = "Ok" /\ info.kind = "directory"
        /\ info.node = c[p].node /\ info.children = children
    BY <2>1, <2>2, <2>4 DEF Answers
  <2>7. Entry(p, info, links)
    <3> HIDE DEF info
    <3> QED
      BY <2>1, <2>5, <2>6 DEF Entry, TrueIn, Infos
  <2>8. WithLink(c, p, e.name, e.child) = [c EXCEPT ![p] = info]
    BY <1>1 DEF WithLink, children, new
  <2> HIDE DEF info
  <2> QED
    BY <2>1, <2>7, <2>8 DEF CacheFits
<1>2. CASE ~Knows(c, p, {"directory"})
  BY <1>2 DEF WithLink
<1> QED
  BY <1>1, <1>2

\* To forget makes nothing untrue.
LEMMA ForgottenFits ==
    ASSUME NEW c, NEW links, CacheFits(c, links), NEW parent, NEW name
    PROVE  CacheFits(Forgotten(c, parent, name), links)
<1> DEFINE gone == IF Knows(c, parent, {"directory"})
                   THEN {l \in c[parent].children : l.name = name} ELSE {}
           left == c[parent].children \ gone
           info == [c[parent] EXCEPT !.children = left]
           rest == IF gone = {} THEN c ELSE [c EXCEPT ![parent].children = @ \ gone]
<1>1. CacheFits(rest, links)
  <2>1. CASE gone = {}
    BY <2>1
  <2>2. CASE gone # {}
    <3>1. Knows(c, parent, {"directory"})
      BY <2>2
    <3>2. parent \in DOMAIN c /\ Entry(parent, c[parent], links) /\ parent \in NodeIds
      BY <3>1 DEF Knows, CacheFits
    <3>3. c[parent] \in Answers /\ c[parent].status = "Ok"
      BY <3>2 DEF Entry, Infos
    <3>4. left \subseteq c[parent].children
      OBVIOUS
    <3>5. rest = [c EXCEPT ![parent] = info]
      BY <2>2
    <3> HIDE DEF left, gone, rest
    <3>6. /\ info \in Answers /\ info.status = "Ok" /\ info.kind = c[parent].kind
          /\ info.node = c[parent].node /\ info.children = left
      BY <3>3, <3>4 DEF Answers
    <3> HIDE DEF info
    <3>7. Entry(parent, info, links)
      BY <3>2, <3>4, <3>6 DEF Entry, TrueIn, Infos
    <3> QED
      BY <3>2, <3>5, <3>7 DEF CacheFits
  <2> QED
    BY <2>1, <2>2
<1>2. Forgotten(c, parent, name)
          = [i \in DOMAIN c \ UNION {Below(rest, l.child) : l \in gone} |-> rest[i]]
  BY DEF Forgotten, Restrict
<1>3. DOMAIN rest = DOMAIN c
  OBVIOUS
<1> HIDE DEF rest, gone
<1> QED
  BY <1>1, <1>2, <1>3 DEF CacheFits

-----------------------------------------------------------------------------
(* Lemmas about the server                                                 *)

Silent == \A u \in Tasks : request[u] = NoRequest => answer[u] = NoAnswer

\* A request that is sent has heard nothing yet.
LEMMA SendFits ==
    ASSUME ServerInv, Silent, NEW t \in Tasks, NEW STATE r, r \in Requests, S!Call(t, r), ever' = ever
    PROVE  ServerInv' /\ request' = [request EXCEPT ![t] = r] /\ answer' = answer
<1>1. /\ request[t] = NoRequest /\ answer[t] = NoAnswer
      /\ request' = [request EXCEPT ![t] = r] /\ tree' = tree /\ answer' = answer
      /\ possible' = [possible EXCEPT ![t] = IF r.op \in ReadOps THEN {S!ReadAnswer(tree, r)} ELSE {}]
  BY SameApi DEF S!Call, Silent
<1>2. r.op \in ReadOps => /\ S!ReadAnswer(tree, r) \in Answers
                          /\ GoodRead(r, S!ReadAnswer(tree, r), ever)
  <2>1. tree.links \subseteq EntryRows /\ tree.links \subseteq ever
    BY DEF ServerInv, ServerFits
  <2>2. r.node \in NodeIds
    BY DEF Requests, WriteRequests, ReadRequests
  <2> QED
    BY <2>1, <2>2, ReadIsTrue, MoreIsGood
<1>3. ServerFits'
  BY <1>1, <1>2 DEF ServerInv, ServerFits
<1>4. GoodRead(r, NoAnswer, ever) /\ GoodWrite(r, NoAnswer, ever)
  BY DEF GoodRead, GoodWrite, NoAnswer
<1>5. AnswersFit'
  BY <1>1, <1>2, <1>4 DEF ServerInv, ServerFits, AnswersFit
<1> QED
  BY <1>1, <1>3, <1>5 DEF ServerInv

\* A request that is done has no answer any more.
LEMMA ReturnFits ==
    ASSUME ServerInv, NEW t \in Tasks, S!Return(t), ever' = ever
    PROVE  /\ ServerInv'
           /\ request' = [request EXCEPT ![t] = NoRequest]
           /\ answer' = [answer EXCEPT ![t] = NoAnswer]
<1>1. /\ request' = [request EXCEPT ![t] = NoRequest] /\ tree' = tree
      /\ answer' = [answer EXCEPT ![t] = NoAnswer]
      /\ possible' = [possible EXCEPT ![t] = {}]
  BY SameApi DEF S!Return
<1>2. NoRequest.op \notin ReadOps \cup CreateOps
  BY DEF NoRequest, ReadOps, CreateOps
<1>3. ServerFits'
  BY <1>1 DEF ServerInv, ServerFits
<1>4. AnswersFit'
  BY <1>1, <1>2 DEF ServerInv, ServerFits, AnswersFit, GoodWrite
<1> QED
  BY <1>1, <1>3, <1>4 DEF ServerInv

\* The server stops: nobody has asked it for anything any more.
LEMMA CrashFits ==
    ASSUME ServerInv, S!Crash, ever' = ever
    PROVE  /\ ServerInv'
           /\ request' = [u \in Tasks |-> NoRequest] /\ answer' = [u \in Tasks |-> NoAnswer]
<1>1. /\ request' = [u \in Tasks |-> NoRequest] /\ answer' = [u \in Tasks |-> NoAnswer]
      /\ possible' = [u \in Tasks |-> {}] /\ tree' = tree
  BY SameApi DEF S!Crash
<1>2. NoRequest.op \notin ReadOps \cup CreateOps
  BY DEF NoRequest, ReadOps, CreateOps
<1> QED
  BY <1>1, <1>2 DEF ServerInv, ServerFits, AnswersFit, GoodWrite

\* The tree is written: what was true stays true, reads under way may hear of
\* the new tree, and the writer hears what it has done.
LEMMA BecomesFits ==
    ASSUME ServerInv, NEW t \in Tasks, NEW STATE new, S!Becomes(new),
           new \in [last : Nat, links : SUBSET EntryRows], new.last >= Root,
           NEW STATE a, a \in Answers, answer' = [answer EXCEPT ![t] = a],
           request' = request, request[t].op \notin ReadOps,
           ever' = ever \cup tree'.links, GoodWrite(request[t], a, ever \cup new.links)
    PROVE  ServerInv'
<1>1. /\ tree' = new
      /\ possible' = [h \in Tasks |-> IF S!Pending(h, ReadOps)
                                      THEN possible[h] \cup {S!ReadAnswer(new, request[h])}
                                      ELSE possible[h]]
  BY SameApi DEF S!Becomes
<1>2. ever' = ever \cup new.links /\ ever \subseteq ever' /\ new.links \subseteq ever'
  BY <1>1
<1>3. ASSUME NEW h \in Tasks, request[h].op \in ReadOps
      PROVE  /\ S!ReadAnswer(new, request[h]) \in Answers
             /\ GoodRead(request[h], S!ReadAnswer(new, request[h]), ever')
  <2>1. request[h] \in Requests
    BY <1>3 DEF ServerInv, ServerFits, NoRequest, ReadOps
  <2>2. request[h].node \in NodeIds
    BY <2>1 DEF Requests, WriteRequests, ReadRequests
  <2> QED
    BY <1>2, <1>3, <2>2, ReadIsTrue, MoreIsGood
<1>4. ServerFits'
  <2>1. possible' \in [Tasks -> SUBSET Answers]
    BY <1>1, <1>3 DEF ServerInv, ServerFits, S!Pending
  <2>2. tree' \in [last : Nat, links : SUBSET EntryRows] /\ tree'.last >= Root /\ tree'.links \subseteq ever'
    BY <1>1, <1>2
  <2>3. ever' \subseteq EntryRows
    BY <1>2 DEF ServerInv, ServerFits
  <2>4. answer' \in [Tasks -> Answers \cup {NoAnswer}]
    BY DEF ServerInv, ServerFits
  <2> QED
    BY <2>1, <2>2, <2>3, <2>4 DEF ServerInv, ServerFits
<1>5. ASSUME NEW h \in Tasks, request'[h].op \in ReadOps, NEW b \in possible'[h] \cup {answer'[h]}
      PROVE  GoodRead(request'[h], b, ever')
  <2>1. h # t /\ request'[h] = request[h] /\ answer'[h] = answer[h]
    BY <1>5 DEF ServerInv, ServerFits
  <2>2. b \in possible[h] \cup {answer[h]} \/ b = S!ReadAnswer(new, request[h])
    BY <1>1, <1>5, <2>1
  <2>3. CASE b \in possible[h] \cup {answer[h]}
    <3>1. GoodRead(request[h], b, ever)
      BY <1>5, <2>1, <2>3 DEF ServerInv, AnswersFit
    <3> QED
      BY <1>2, <2>1, <3>1, MoreIsGood
  <2>4. CASE b = S!ReadAnswer(new, request[h])
    BY <1>3, <1>5, <2>1, <2>4
  <2> QED
    BY <2>2, <2>3, <2>4
<1>6. ASSUME NEW h \in Tasks
      PROVE  GoodWrite(request'[h], answer'[h], ever')
  <2>1. CASE h = t
    BY <1>2, <2>1 DEF ServerInv, ServerFits
  <2>2. CASE h # t
    <3>1. answer'[h] = answer[h] /\ GoodWrite(request[h], answer[h], ever)
      BY <2>2 DEF ServerInv, ServerFits, AnswersFit
    <3> QED
      BY <1>2, <3>1, MoreIsGood
  <2> QED
    BY <2>1, <2>2
<1>7. AnswersFit'
  BY <1>5, <1>6 DEF AnswersFit
<1> QED
  BY <1>4, <1>7 DEF ServerInv

\* Only the answer is new.
LEMMA AnswerFits ==
    ASSUME ServerInv, NEW t \in Tasks, NEW a \in Answers, answer' = [answer EXCEPT ![t] = a],
           UNCHANGED <<tree, request, possible, ever>>,
           request[t].op \in ReadOps => GoodRead(request[t], a, ever),
           GoodWrite(request[t], a, ever)
    PROVE  ServerInv'
<1>1. ServerFits'
  BY DEF ServerInv, ServerFits
<1>2. AnswersFit'
  BY DEF ServerInv, ServerFits, AnswersFit
<1> QED
  BY <1>1, <1>2 DEF ServerInv

\* Whatever the server does for a request.
LEMMA ServeFits ==
    ASSUME ServerInv, NEW t \in Tasks, Serve(t)
    PROVE  /\ ServerInv' /\ ever \subseteq ever' /\ request' = request /\ request[t] # NoRequest
           /\ \A u \in Tasks \ {t} : answer'[u] = answer[u]
<1> DEFINE r == request[t]
<1>0. /\ ever' = ever \cup tree'.links /\ ever \subseteq ever'
      /\ r.op \notin ReadOps \cup WriteOps => r = NoRequest
      /\ r \in Requests \cup {NoRequest}
      /\ tree \in [last : Nat, links : SUBSET EntryRows] /\ tree.last >= Root
      /\ tree.links \subseteq ever
  BY DEF Serve, ServerInv, ServerFits, Requests, ReadRequests, WriteRequests
<1>00. ReadOps \cap WriteOps = {} /\ NoRequest.op \notin ReadOps \cup WriteOps
       /\ CreateOps \subseteq WriteOps /\ DeleteOps \subseteq WriteOps /\ CreateOps \cap DeleteOps = {}
  BY DEF ReadOps, WriteOps, CreateOps, DeleteOps, NoRequest
<1>1. CASE S!Create(t)
  <2> DEFINE id == tree.last + 1
             link == [parent |-> r.node, name |-> r.name, kind |-> WantedKind(r.op), child |-> id]
             new == [last |-> id, links |-> tree.links \cup {link}]
             a == Located("Created", WantedKind(r.op), id)
  <2>1. /\ r.op \in CreateOps /\ S!Becomes(new) /\ request' = request
        /\ answer' = [answer EXCEPT ![t] = a]
    BY <1>1, SameApi DEF S!Create, S!Pending
  <2>2. r \in WriteRequests
    BY <1>0, <1>00, <2>1 DEF Requests, ReadRequests, WriteRequests
  <2>3. id \in NodeIds /\ id \in Nat /\ id >= Root
    BY <1>0 DEF NodeIds, Root
  <2>4. WantedKind(r.op) \in Kinds
    BY DEF WantedKind, Kinds
  <2>5. link \in EntryRows
    BY <2>2, <2>3, <2>4 DEF EntryRows, WriteRequests
  <2>6. new \in [last : Nat, links : SUBSET EntryRows] /\ new.last >= Root /\ link \in new.links
    BY <1>0, <2>3, <2>5
  <2>7. a = [status |-> "Created", kind |-> WantedKind(r.op), node |-> id, children |-> {}]
    BY DEF Located
  <2>8. a \in Answers /\ a.status = "Created" /\ a.node = id
    BY <2>3, <2>4, <2>7 DEF Answers, Statuses
  <2> HIDE DEF a, new
  <2>9. GoodWrite(r, a, ever \cup new.links)
    BY <2>6, <2>8 DEF GoodWrite
  <2>10. ServerInv'
    BY <1>0, <1>00, <2>1, <2>6, <2>8, <2>9, BecomesFits
  <2> QED
    BY <1>0, <1>00, <2>1, <2>10 DEF ServerInv, ServerFits
<1>2. CASE S!Delete(t)
  <2>1. PICK e \in S!LinksAt(tree, r.node, r.name) : S!Becomes([tree EXCEPT !.links = @ \ {e}])
    BY <1>2 DEF S!Delete
  <2>2. /\ r.op \in DeleteOps /\ request' = request
        /\ answer' = [answer EXCEPT ![t] = Answer("NoContent")]
    BY <1>2, SameApi DEF S!Delete, S!Pending
  <2> DEFINE new == [tree EXCEPT !.links = @ \ {e}]
  <2>3. new \in [last : Nat, links : SUBSET EntryRows] /\ new.last >= Root
    BY <1>0
  <2>4. Answer("NoContent") \in Answers
    BY DEF Answer, Answers, Statuses
  <2>5. GoodWrite(r, Answer("NoContent"), ever \cup new.links)
    BY <1>00, <2>2 DEF GoodWrite
  <2>6. S!Becomes(new)
    BY <2>1
  <2> HIDE DEF new
  <2>7. ServerInv'
    BY <1>0, <1>00, <2>2, <2>3, <2>4, <2>5, <2>6, BecomesFits
  <2> QED
    BY <1>0, <1>00, <2>2, <2>7 DEF ServerInv, ServerFits
<1>3. CASE S!Refuse(t)
  <2>1. PICK a \in S!Refusals(tree, r) : answer' = [answer EXCEPT ![t] = a]
    BY <1>3 DEF S!Refuse
  <2>2. r.op \in WriteOps /\ UNCHANGED <<tree, request, possible>>
    BY <1>3, SameApi DEF S!Refuse, S!Pending
  <2>3. r \in WriteRequests
    BY <1>0, <1>00, <2>2 DEF Requests, ReadRequests, WriteRequests
  <2>4. a \in Answers /\ a.status \notin {"Ok", "Created", "NoContent"}
    BY <1>0, <2>3, RefusalsAreNone
  <2>5. GoodWrite(r, a, ever) /\ r.op \notin ReadOps
    BY <1>00, <2>2, <2>4 DEF GoodWrite
  <2>6. ever' = ever
    BY <1>0, <2>2
  <2>7. ServerInv'
    BY <2>1, <2>2, <2>4, <2>5, <2>6, AnswerFits
  <2> QED
    BY <1>0, <1>00, <2>1, <2>2, <2>7 DEF ServerInv, ServerFits
<1>4. CASE S!Read(t)
  <2>1. PICK a \in possible[t] \cup {Answer("Locked")} : answer' = [answer EXCEPT ![t] = a]
    BY <1>4, SameApi DEF S!Read
  <2>2. r.op \in ReadOps /\ UNCHANGED <<tree, request, possible>>
    BY <1>4, SameApi DEF S!Read, S!Pending
  <2>3. Answer("Locked") \in Answers /\ Answer("Locked").status = "Locked"
    BY DEF Answer, Answers, Statuses
  <2>4. a \in Answers
    BY <2>1, <2>3 DEF ServerInv, ServerFits
  <2>5. GoodRead(r, a, ever)
    BY <2>1, <2>2, <2>3 DEF GoodRead, ServerInv, AnswersFit
  <2>6. GoodWrite(r, a, ever)
    BY <1>00, <2>2 DEF GoodWrite
  <2>7. ever' = ever
    BY <1>0, <2>2
  <2>8. ServerInv'
    BY <2>1, <2>2, <2>4, <2>5, <2>6, <2>7, AnswerFits
  <2> QED
    BY <1>0, <1>00, <2>1, <2>2, <2>8 DEF ServerInv, ServerFits
<1> QED
  BY <1>1, <1>2, <1>3, <1>4 DEF Serve

-----------------------------------------------------------------------------
(* Every step keeps the invariant                                          *)

\* A task that has taken a step fits, and the others have not moved.
LEMMA TaskMoves ==
    ASSUME IInv, NEW t \in Tasks, ServerInv', CachesFit', Fit(t)',
           pc' \in [Tasks -> PCs], operation' \in [Tasks -> FuseOperations \cup {NoOperation}],
           node' \in [Tasks -> Nat], reply' \in [Tasks -> Replies],
           \A u \in Tasks \ {t} : /\ pc'[u] = pc[u] /\ operation'[u] = operation[u] /\ node'[u] = node[u]
                                  /\ request'[u] = request[u] /\ answer'[u] = answer[u]
    PROVE  IInv'
<1>1. \A u \in Tasks \ {t} : Fit(u)'
  BY DEF IInv, TasksFit, Fit, Asked
<1>2. TypeOK'
  <2>1. \A c \in Clients : DOMAIN cache'[c] \subseteq NodeIds /\ \A id \in DOMAIN cache'[c] : cache'[c][id] \in Infos
    BY DEF CachesFit, CacheFits, Entry
  <2> QED
    BY <2>1 DEF TypeOK, ServerInv, ServerFits
<1> QED
  BY <1>1, <1>2 DEF IInv, TasksFit

\* A cache that fits may take the place of another.
LEMMA UpdateFits ==
    ASSUME CachesFit, NEW t \in Tasks, NEW STATE c, CacheFits(c, ever), Update(t, c), ever' = ever
    PROVE  CachesFit'
<1>1. Client[t] \in Clients
  BY ClientAssumption
<1>2. cache' = [cache EXCEPT ![Client[t]] = c]
  BY DEF Update
<1>3. cache' = [d \in Clients |-> cache'[d]]
  BY <1>2 DEF CachesFit
<1>4. \A d \in Clients : cache'[d] = IF d = Client[t] THEN c ELSE cache[d]
  BY <1>1, <1>2 DEF CachesFit
<1>5. \A d \in Clients : CacheFits(cache'[d], ever')
  BY <1>4 DEF CachesFit
<1> QED
  BY <1>3, <1>5 DEF CachesFit

\* Having no answer is no status of an answer.
LEMMA NoAnswerIsNone == NoAnswer.status = "none"
BY DEF NoAnswer

\* What is not written stays.
LEMMA SameFits ==
    /\ ServerInv /\ UNCHANGED server => ServerInv'
    /\ CachesFit /\ UNCHANGED <<ever, cache>> => CachesFit'
<1>1. ServerInv /\ UNCHANGED server => ServerInv'
  BY DEF ServerInv, ServerFits, AnswersFit, server
<1>2. CachesFit /\ UNCHANGED <<ever, cache>> => CachesFit'
  BY DEF CachesFit
<1> QED
  BY <1>1, <1>2

\* The errors have numbers on every level.
LEMMA ErrorsHaveNumbers ==
    /\ \A error \in DOMAIN Errno : \A type : Errno[From(error, type)] \in Errnos
    /\ \A response : decode_errors(response) \in DOMAIN Errno
    /\ NetworkFailures \subseteq DOMAIN Errno /\ "ENOENT" \in Errnos
<1>1. \A error \in DOMAIN Errno : \A type : From(error, type) \in DOMAIN Errno
  BY DEF From, Errno, NetworkFailures
<1>2. \A response : decode_errors(response) \in DOMAIN Errno
  BY DEF decode_errors, Conflicts, Errno
<1>3. NetworkFailures \subseteq DOMAIN Errno /\ "NotFound" \in DOMAIN Errno /\ Errno["NotFound"] = "ENOENT"
  BY DEF Errno, NetworkFailures
<1> QED
  BY <1>1, <1>2, <1>3 DEF Errnos

\* Operations begin and end.
LEMMA BeginKeeps ==
    ASSUME IInv, NEW t \in Tasks, NEW o \in Operations, Begin(t, o)
    PROVE  IInv'
<1>1. o \in FuseOperations
  BY ClientAssumption
<1>2. /\ pc[t] = "idle" /\ operation' = [operation EXCEPT ![t] = o]
      /\ node' = [node EXCEPT ![t] = o.node] /\ UNCHANGED <<server, cache, reply>>
      /\ \/ o.op \in {"lookup", "readdir"} /\ pc' = [pc EXCEPT ![t] = "directory"]
         \/ o.op = "getattr" /\ pc' = [pc EXCEPT ![t] = "node"]
         \/ o.op \in FuseWrites /\ pc' = [pc EXCEPT ![t] = "write"]
  BY DEF Begin, Go
<1>3. o.node \in NodeIds /\ o.node \in Nat
  BY <1>1 DEF FuseOperations, NodeIds
<1>4. ServerInv' /\ CachesFit'
  BY <1>2, SameFits DEF IInv, server
<1>5. Fit(t)'
  BY <1>1, <1>2, <1>3 DEF IInv, TypeOK, TasksFit, Fit, Asked, server, FuseWrites
<1>6. pc' \in [Tasks -> PCs] /\ node' \in [Tasks -> Nat]
      /\ operation' \in [Tasks -> FuseOperations \cup {NoOperation}] /\ reply' \in [Tasks -> Replies]
  BY <1>1, <1>2, <1>3 DEF IInv, TypeOK, PCs
<1>7. \A u \in Tasks \ {t} : /\ pc'[u] = pc[u] /\ operation'[u] = operation[u] /\ node'[u] = node[u]
                             /\ request'[u] = request[u] /\ answer'[u] = answer[u]
  BY <1>2 DEF IInv, TypeOK, server
<1> QED
  BY <1>4, <1>5, <1>6, <1>7, TaskMoves

\* A task that has replied forgets what it worked on.
LEMMA DoneKeeps ==
    ASSUME IInv, NEW t \in Tasks, Done(t)
    PROVE  IInv'
<1>1. /\ pc[t] = "replied" /\ operation' = [operation EXCEPT ![t] = NoOperation]
      /\ node' = [node EXCEPT ![t] = 0] /\ reply' = [reply EXCEPT ![t] = "none"]
      /\ pc' = [pc EXCEPT ![t] = "idle"] /\ UNCHANGED <<server, cache>>
  BY DEF Done, Go
<1>2. ServerInv' /\ CachesFit'
  BY <1>1, SameFits DEF IInv, server
<1>3. Fit(t)'
  BY <1>1 DEF IInv, TypeOK, TasksFit, Fit, Asked, server
<1>4. pc' \in [Tasks -> PCs] /\ node' \in [Tasks -> Nat]
      /\ operation' \in [Tasks -> FuseOperations \cup {NoOperation}] /\ reply' \in [Tasks -> Replies]
  BY <1>1 DEF IInv, TypeOK, PCs, Replies
<1>5. \A u \in Tasks \ {t} : /\ pc'[u] = pc[u] /\ operation'[u] = operation[u] /\ node'[u] = node[u]
                             /\ request'[u] = request[u] /\ answer'[u] = answer[u]
  BY <1>1 DEF IInv, TypeOK, server
<1> QED
  BY <1>2, <1>3, <1>4, <1>5, TaskMoves

\* A task that has the directory goes on with a node or is done.
LEMMA FoundFits ==
    ASSUME IInv, NEW t \in Tasks, pc[t] \in {"directory", "directory sent"},
           NEW STATE info, info \in Infos, Found(t, info), operation' = operation
    PROVE  /\ pc' \in [Tasks -> PCs] /\ pc'[t] \in {"node", "replied"}
           /\ node' \in [Tasks -> Nat] /\ node'[t] \in NodeIds
           /\ reply' \in [Tasks -> Replies]
           /\ \A u \in Tasks \ {t} : pc'[u] = pc[u] /\ node'[u] = node[u]
<1>1. node[t] \in NodeIds /\ operation[t].op \in {"lookup", "readdir"}
  BY DEF IInv, TasksFit, Fit
<1>2. \A l \in info.children : l.child \in NodeIds /\ l.child \in Nat
  BY DEF Infos, Answers, NodeIds
<1>3. "ENOENT" \in Replies
  BY ErrorsHaveNumbers DEF Replies
<1>4. CASE /\ \E l \in info.children : node' = [node EXCEPT ![t] = l.child]
           /\ pc' = [pc EXCEPT ![t] = "node"] /\ reply' = reply
  BY <1>2, <1>4 DEF IInv, TypeOK, PCs
<1>5. CASE pc' = [pc EXCEPT ![t] = "replied"] /\ reply' = [reply EXCEPT ![t] = "ENOENT"] /\ node' = node
  BY <1>1, <1>3, <1>5 DEF IInv, TypeOK, PCs
<1>6. CASE pc' = [pc EXCEPT ![t] = "node"] /\ reply' = reply /\ node' = node
  BY <1>1, <1>6 DEF IInv, TypeOK, PCs
<1> QED
  BY <1>4, <1>5, <1>6 DEF Found, Reply, Go

\* A task that is done or goes on with a node has asked for nothing.
LEMMA RestingFits ==
    ASSUME IInv, NEW t \in Tasks, pc[t] # "idle", operation' = operation, node'[t] \in NodeIds,
           pc'[t] \in {"node", "replied"}, request'[t] = NoRequest, answer'[t] = NoAnswer
    PROVE  Fit(t)'
BY DEF IInv, TasksFit, Fit

\* A directory that is known sends nobody anywhere.
LEMMA DirectoryCachedKeeps ==
    ASSUME IInv, NEW t \in Tasks, DirectoryCached(t)
    PROVE  IInv'
<1> DEFINE info == cache[Client[t]][node[t]]
<1>1. /\ pc[t] = "directory" /\ node[t] \in DOMAIN cache[Client[t]] /\ Found(t, info)
      /\ UNCHANGED <<server, cache, operation>>
  BY DEF DirectoryCached, Knows
<1>2. info \in Infos
  BY <1>1, ClientAssumption DEF IInv, TypeOK
<1> HIDE DEF info
<1>3. /\ pc' \in [Tasks -> PCs] /\ pc'[t] \in {"node", "replied"}
      /\ node' \in [Tasks -> Nat] /\ node'[t] \in NodeIds
      /\ reply' \in [Tasks -> Replies]
      /\ \A u \in Tasks \ {t} : pc'[u] = pc[u] /\ node'[u] = node[u]
  BY <1>1, <1>2, FoundFits
<1>4. ServerInv' /\ CachesFit'
  BY <1>1, SameFits DEF IInv, server
<1>5. request[t] = NoRequest /\ answer[t] = NoAnswer
  BY <1>1 DEF IInv, TasksFit, Fit, Asked
<1>6. Fit(t)'
  BY <1>1, <1>3, <1>5, RestingFits DEF server
<1> QED
  BY <1>1, <1>3, <1>4, <1>6, TaskMoves DEF IInv, TypeOK, server

\* Nor does a node that is known.
LEMMA NodeCachedKeeps ==
    ASSUME IInv, NEW t \in Tasks, NodeCached(t)
    PROVE  IInv'
<1>1. /\ pc[t] = "node" /\ pc' = [pc EXCEPT ![t] = "replied"] /\ reply' = [reply EXCEPT ![t] = "ok"]
      /\ UNCHANGED <<server, cache, operation, node>>
  BY DEF NodeCached, Reply, Go
<1>2. ServerInv' /\ CachesFit'
  BY <1>1, SameFits DEF IInv, server
<1>3. request[t] = NoRequest /\ answer[t] = NoAnswer /\ node[t] \in NodeIds
  BY <1>1 DEF IInv, TasksFit, Fit, Asked
<1>4. pc' \in [Tasks -> PCs] /\ reply' \in [Tasks -> Replies] /\ pc'[t] = "replied"
  BY <1>1 DEF IInv, TypeOK, PCs, Replies
<1>5. Fit(t)'
  BY <1>1, <1>3, <1>4, RestingFits DEF server
<1>6. \A u \in Tasks \ {t} : /\ pc'[u] = pc[u] /\ operation'[u] = operation[u] /\ node'[u] = node[u]
                             /\ request'[u] = request[u] /\ answer'[u] = answer[u]
  BY <1>1 DEF IInv, TypeOK, server
<1>7. operation' \in [Tasks -> FuseOperations \cup {NoOperation}] /\ node' \in [Tasks -> Nat]
  BY <1>1 DEF IInv, TypeOK
<1> QED
  BY <1>2, <1>4, <1>5, <1>6, <1>7, TaskMoves

-----------------------------------------------------------------------------

\* Whatever a task sends is what it then waits for.
LEMMA SendKeeps ==
    ASSUME IInv, NEW t \in Tasks, FetchDirectory(t) \/ FetchNode(t) \/ SendWrite(t)
    PROVE  IInv'
<1> DEFINE fetch == [op |-> "dir_info", node |-> node[t]]
           look == [op |-> "node_info", node |-> node[t]]
           write == WriteOf(operation[t])
<1>0. Silent
  BY DEF Silent, IInv, TasksFit, Fit
<1>1. PICK p \in {"directory", "node", "write"} : pc[t] = p
  BY DEF FetchDirectory, FetchNode, SendWrite
<1>2. /\ node[t] \in NodeIds /\ operation[t] \in FuseOperations
      /\ p = "directory" => operation[t].op \in {"lookup", "readdir"}
      /\ p = "write" => operation[t].op \in FuseWrites
  BY <1>1 DEF IInv, TasksFit, Fit
<1>3. fetch \in Requests /\ look \in Requests
  BY <1>2 DEF Requests, ReadRequests, ReadOps
<1>4. p = "write" => write \in Requests
  <2> SUFFICES ASSUME p = "write" PROVE write \in Requests
    OBVIOUS
  <2>1. operation[t].node \in NodeIds /\ operation[t].name \in Names
    BY <1>2 DEF FuseOperations, FuseWrites
  <2>2. RouteOf(operation[t].op) \in WriteOps
    BY <1>2 DEF RouteOf, FuseWrites, WriteOps, CreateOps, DeleteOps
  <2> QED
    BY <2>1, <2>2 DEF WriteOf, Requests, WriteRequests
<1>5. /\ p = "directory" => Send(t, fetch) /\ pc' = [pc EXCEPT ![t] = "directory sent"]
      /\ p = "node" => Send(t, look) /\ pc' = [pc EXCEPT ![t] = "node sent"]
      /\ p = "write" => Send(t, write) /\ pc' = [pc EXCEPT ![t] = "write sent"]
      /\ UNCHANGED <<cache, operation, node, reply>>
  BY <1>1 DEF FetchDirectory, FetchNode, SendWrite, Go, WriteOf
<1> DEFINE r == IF p = "directory" THEN fetch ELSE IF p = "node" THEN look ELSE write
<1>6. r \in Requests /\ Send(t, r)
  BY <1>3, <1>4, <1>5
<1>7. r = Asked(t)'
  BY <1>5 DEF Asked, IInv, TypeOK
<1>8. /\ pc' \in [Tasks -> PCs] /\ \A u \in Tasks \ {t} : pc'[u] = pc[u]
      /\ pc'[t] \in {"directory sent", "node sent", "write sent"}
      /\ pc'[t] = "directory sent" => p = "directory"
      /\ pc'[t] = "write sent" => p = "write"
  BY <1>5 DEF IInv, TypeOK, PCs
<1> HIDE DEF r, fetch, look, write
<1>9. ServerInv' /\ request' = [request EXCEPT ![t] = r] /\ answer' = answer /\ ever' = ever
      /\ request[t] = NoRequest
  BY <1>0, <1>6, SendFits, SameApi DEF IInv, Send, S!Call
<1>10. request'[t] = r /\ r # NoRequest /\ \A u \in Tasks \ {t} : request'[u] = request[u]
  <2>1. r # NoRequest
    BY <1>6 DEF Requests, ReadRequests, WriteRequests, NoRequest, ReadOps, WriteOps, CreateOps, DeleteOps
  <2> QED
    BY <1>9, <2>1 DEF IInv, ServerInv, ServerFits
<1>11. Fit(t)'
  BY <1>2, <1>5, <1>7, <1>8, <1>10 DEF Fit
<1>12. CachesFit'
  BY <1>5, <1>9, SameFits DEF IInv
<1>13. operation' \in [Tasks -> FuseOperations \cup {NoOperation}] /\ node' \in [Tasks -> Nat]
       /\ reply' \in [Tasks -> Replies]
  BY <1>5 DEF IInv, TypeOK
<1> QED
  BY <1>5, <1>8, <1>9, <1>10, <1>11, <1>12, <1>13, TaskMoves

\* What a task hears is what it has asked for.
LEMMA AnswerIsAsked ==
    ASSUME IInv, NEW t \in Tasks, answer[t] # NoAnswer
    PROVE  /\ Sent(t) /\ request[t] = Asked(t) /\ node[t] \in NodeIds
           /\ pc[t] \in {"directory sent", "node sent"} /\ answer[t].status = "Ok" =>
                 Entry(node[t], answer[t], ever)
           /\ GoodWrite(Asked(t), answer[t], ever)
<1>1. request[t] = Asked(t) /\ request[t] # NoRequest
  BY DEF IInv, TasksFit, Fit
<1>2. Sent(t) /\ pc[t] # "idle"
  BY <1>1 DEF Asked, Sent
<1>3. node[t] \in NodeIds
  BY <1>2 DEF IInv, TasksFit, Fit
<1>4. ASSUME pc[t] \in {"directory sent", "node sent"}, answer[t].status = "Ok"
      PROVE  Entry(node[t], answer[t], ever)
  <2>1. PICK op \in {"dir_info", "node_info"} : request[t] = [op |-> op, node |-> node[t]]
    BY <1>1, <1>4 DEF Asked
  <2>2. request[t].op \in ReadOps /\ request[t].node = node[t]
    BY <2>1 DEF ReadOps
  <2> QED
    BY <1>4, <2>2 DEF IInv, ServerInv, AnswersFit, GoodRead
<1>5. GoodWrite(Asked(t), answer[t], ever)
  BY <1>1 DEF IInv, ServerInv, AnswersFit
<1> QED
  BY <1>1, <1>2, <1>3, <1>4, <1>5

\* The server has answered a task: the caches are what is left to see to.
LEMMA ReturnKeeps ==
    ASSUME IInv, NEW t \in Tasks, Sent(t), S!Return(t), ever' = ever, operation' = operation,
           pc' \in [Tasks -> PCs], pc'[t] \in {"node", "replied"},
           node' \in [Tasks -> Nat], node'[t] \in NodeIds, reply' \in [Tasks -> Replies],
           \A u \in Tasks \ {t} : pc'[u] = pc[u] /\ node'[u] = node[u],
           CachesFit'
    PROVE  IInv'
<1>1. /\ ServerInv'
      /\ request' = [request EXCEPT ![t] = NoRequest] /\ answer' = [answer EXCEPT ![t] = NoAnswer]
  BY ReturnFits DEF IInv
<1>2. /\ request'[t] = NoRequest /\ answer'[t] = NoAnswer
      /\ \A u \in Tasks \ {t} : request'[u] = request[u] /\ answer'[u] = answer[u]
  BY <1>1 DEF IInv, ServerInv, ServerFits
<1>3. pc[t] # "idle"
  BY DEF Sent
<1>4. Fit(t)'
  BY <1>2, <1>3, RestingFits
<1>5. operation' \in [Tasks -> FuseOperations \cup {NoOperation}]
  BY DEF IInv, TypeOK
<1> QED
  BY <1>1, <1>2, <1>4, <1>5, TaskMoves

\* The directory that arrives is the one asked for.
LEMMA DirectoryArrivesKeeps ==
    ASSUME IInv, NEW t \in Tasks, DirectoryArrives(t)
    PROVE  IInv'
<1> DEFINE c == With(cache[Client[t]], node[t], answer[t])
<1>1. /\ pc[t] = "directory sent" /\ answer[t].status = "Ok" /\ S!Return(t)
      /\ Update(t, c) /\ Found(t, answer[t]) /\ ever' = ever /\ operation' = operation
  BY DEF DirectoryArrives, Arrived
<1>2. answer[t] # NoAnswer
  BY <1>1, NoAnswerIsNone
<1>3. Entry(node[t], answer[t], ever) /\ node[t] \in NodeIds /\ Sent(t)
  BY <1>1, <1>2, AnswerIsAsked
<1>4. CacheFits(cache[Client[t]], ever)
  BY ClientAssumption DEF IInv, CachesFit
<1>5. CacheFits(c, ever)
  BY <1>3, <1>4, WithFits
<1> HIDE DEF c
<1>6. CachesFit'
  BY <1>1, <1>5, UpdateFits DEF IInv
<1>7. answer[t] \in Infos
  BY <1>3 DEF Entry
<1> QED
  BY <1>1, <1>3, <1>6, <1>7, FoundFits, ReturnKeeps

\* A task that has replied.
LEMMA ReplyFits ==
    ASSUME IInv, NEW t \in Tasks, NEW STATE r, r \in Replies, Reply(t, r)
    PROVE  /\ pc' \in [Tasks -> PCs] /\ pc'[t] = "replied" /\ reply' \in [Tasks -> Replies]
           /\ \A u \in Tasks \ {t} : pc'[u] = pc[u]
BY DEF IInv, TypeOK, Reply, Go, PCs

\* So is the node.
LEMMA NodeArrivesKeeps ==
    ASSUME IInv, NEW t \in Tasks, NodeArrives(t)
    PROVE  IInv'
<1> DEFINE c == With(cache[Client[t]], node[t], answer[t])
<1>1. /\ pc[t] = "node sent" /\ answer[t].status = "Ok" /\ S!Return(t) /\ Update(t, c)
      /\ Reply(t, "ok") /\ ever' = ever /\ operation' = operation /\ node' = node
  BY DEF NodeArrives, Arrived
<1>2. answer[t] # NoAnswer
  BY <1>1, NoAnswerIsNone
<1>3. Entry(node[t], answer[t], ever) /\ node[t] \in NodeIds /\ Sent(t)
  BY <1>1, <1>2, AnswerIsAsked
<1>4. CacheFits(cache[Client[t]], ever)
  BY ClientAssumption DEF IInv, CachesFit
<1>5. CacheFits(c, ever)
  BY <1>3, <1>4, WithFits
<1> HIDE DEF c
<1>6. CachesFit'
  BY <1>1, <1>5, UpdateFits DEF IInv
<1>7. "ok" \in Replies /\ node' \in [Tasks -> Nat]
  BY <1>1 DEF Replies, IInv, TypeOK
<1> QED
  BY <1>1, <1>3, <1>6, <1>7, ReplyFits, ReturnKeeps

\* A node created is entered with its link; one deleted is forgotten.
LEMMA WriteArrivesKeeps ==
    ASSUME IInv, NEW t \in Tasks, WriteArrives(t)
    PROVE  IInv'
<1> DEFINE o == operation[t]
           a == answer[t]
           c == cache[Client[t]]
           info == IF o.op = "mkdir" THEN DirectoryInfo(o.node, {}) ELSE FileInfo
           entered == WithLink(With(c, a.node, info), o.node, o.name, a.node)
<1>1. /\ pc[t] = "write sent" /\ a.status \in Accepted /\ S!Return(t)
      /\ \/ o.op \in {"mkdir", "create"} /\ Update(t, entered)
         \/ Update(t, Forgotten(c, o.node, o.name))
      /\ Reply(t, "ok") /\ ever' = ever /\ operation' = operation /\ node' = node
  BY DEF WriteArrives
<1>2. answer[t] # NoAnswer
  BY <1>1, NoAnswerIsNone DEF Accepted
<1>3. node[t] \in NodeIds /\ Sent(t) /\ GoodWrite(WriteOf(o), a, ever) /\ o \in FuseOperations
  BY <1>1, <1>2, AnswerIsAsked DEF Asked, IInv, TasksFit, Fit
<1>4. CacheFits(c, ever) /\ ever \subseteq EntryRows
  BY ClientAssumption DEF IInv, CachesFit, ServerInv, ServerFits
<1>5. o.op \in {"mkdir", "create"} => CacheFits(entered, ever)
  <2> SUFFICES ASSUME o.op \in {"mkdir", "create"} PROVE CacheFits(entered, ever)
    OBVIOUS
  <2> DEFINE link == [parent |-> o.node, name |-> o.name, kind |-> WantedKind(RouteOf(o.op)), child |-> a.node]
  <2>1. RouteOf(o.op) \in CreateOps
    BY DEF RouteOf, CreateOps
  <2>2. WriteOf(o).op = RouteOf(o.op) /\ WriteOf(o).node = o.node /\ WriteOf(o).name = o.name
    BY DEF WriteOf
  <2>3. link \in ever
    BY <1>1, <1>3, <2>1, <2>2 DEF GoodWrite, Accepted
  <2>4. link \in EntryRows /\ a.node \in NodeIds /\ o.node \in NodeIds
    BY <1>4, <2>3 DEF EntryRows
  <2>5. Entry(a.node, info, ever)
    <3>1. CASE o.op = "mkdir"
      <4>1. link.kind = "directory" /\ link.child = a.node /\ link.parent = o.node
        BY <3>1 DEF WantedKind, RouteOf
      <4>2. info = DirectoryInfo(o.node, {})
        BY <3>1
      <4> HIDE DEF link, info
      <4> QED
        BY <1>4, <2>3, <2>4, <4>1, <4>2, ListingIsTrue
    <3>2. CASE o.op = "create"
      <4>1. link.kind = "file" /\ link.child = a.node
        BY <3>2 DEF WantedKind, RouteOf
      <4>2. info = FileInfo
        BY <3>2
      <4> HIDE DEF link, info
      <4> QED
        BY <2>3, <4>1, <4>2, FileIsTrue
    <3> QED
      BY <3>1, <3>2
  <2>6. CacheFits(With(c, a.node, info), ever)
    <3> HIDE DEF info, c
    <3> QED
      BY <1>4, <2>4, <2>5, WithFits
  <2>7. link.parent = o.node /\ link.name = o.name /\ link.child = a.node
    OBVIOUS
  <2> HIDE DEF link, info, c
  <2> QED
    BY <1>4, <2>3, <2>6, <2>7, WithLinkFits
<1>6. CacheFits(Forgotten(c, o.node, o.name), ever)
  BY <1>4, ForgottenFits
<1>7. CachesFit'
  <2> HIDE DEF entered, c, o
  <2> QED
    BY <1>1, <1>5, <1>6, UpdateFits DEF IInv
<1>8. "ok" \in Replies /\ node' \in [Tasks -> Nat] /\ node'[t] \in NodeIds
  BY <1>1, <1>3 DEF Replies, IInv, TypeOK
<1> QED
  BY <1>1, <1>3, <1>7, <1>8, ReplyFits, ReturnKeeps

\* Every error is a reply.
LEMMA ReplyErrorFits ==
    ASSUME IInv, NEW t \in Tasks, NEW STATE error, error \in DOMAIN Errno, ReplyError(t, error)
    PROVE  /\ pc' \in [Tasks -> PCs] /\ pc'[t] = "replied" /\ reply' \in [Tasks -> Replies]
           /\ \A u \in Tasks \ {t} : pc'[u] = pc[u]
<1> DEFINE r == IF pc[t] = "node sent" /\ operation[t].op = "lookup" THEN "panic"
                ELSE IF pc[t] = "node sent" /\ operation[t].op = "getattr" THEN "ENOENT"
                ELSE Errno[From(error, ErrorType(t))]
<1>1. r \in Replies
  BY ErrorsHaveNumbers DEF Replies
<1>2. Reply(t, r)
  BY DEF ReplyError
<1> HIDE DEF r
<1> QED
  BY <1>1, <1>2, ReplyFits

\* An error changes nothing in the caches.
LEMMA ErrorKeeps ==
    ASSUME IInv, NEW t \in Tasks, ErrorArrives(t) \/ AnswerLost(t)
    PROVE  IInv'
<1>1. PICK error \in DOMAIN Errno : ReplyError(t, error)
  BY ErrorsHaveNumbers DEF ErrorArrives, AnswerLost
<1>2. Sent(t) /\ S!Return(t) /\ UNCHANGED <<ever, cache, operation, node>>
  BY DEF ErrorArrives, AnswerLost
<1>3. node' \in [Tasks -> Nat] /\ node'[t] \in NodeIds
  BY <1>2 DEF IInv, TypeOK, TasksFit, Fit, Sent
<1>4. CachesFit'
  BY <1>2, SameFits DEF IInv
<1>5. /\ pc' \in [Tasks -> PCs] /\ pc'[t] = "replied" /\ reply' \in [Tasks -> Replies]
      /\ \A u \in Tasks \ {t} : pc'[u] = pc[u]
  BY <1>1, ReplyErrorFits
<1> QED
  BY <1>2, <1>3, <1>4, <1>5, ReturnKeeps

\* Nor does a lost connection.
LEMMA ConnectionLostKeeps ==
    ASSUME IInv, NEW t \in Tasks, ConnectionLost(t)
    PROVE  IInv'
<1>1. /\ Sent(t) /\ request[t] = NoRequest /\ UNCHANGED <<server, cache, operation, node>>
      /\ \E failure \in NetworkFailures : ReplyError(t, failure)
  BY DEF ConnectionLost
<1>2. /\ pc' \in [Tasks -> PCs] /\ pc'[t] = "replied" /\ reply' \in [Tasks -> Replies]
      /\ \A u \in Tasks \ {t} : pc'[u] = pc[u]
  BY <1>1, ErrorsHaveNumbers, ReplyErrorFits
<1>3. node[t] \in NodeIds /\ answer[t] = NoAnswer /\ pc[t] # "idle"
  BY <1>1 DEF IInv, TasksFit, Fit, Sent
<1>4. Fit(t)'
  BY <1>1, <1>2, <1>3, RestingFits DEF server
<1>5. ServerInv' /\ CachesFit'
  BY <1>1, SameFits DEF IInv, server
<1>6. operation' \in [Tasks -> FuseOperations \cup {NoOperation}] /\ node' \in [Tasks -> Nat]
  BY <1>1 DEF IInv, TypeOK
<1> QED
  BY <1>1, <1>2, <1>4, <1>5, <1>6, TaskMoves DEF server

\* The caches do not notice what the server does.
LEMMA ServeKeeps ==
    ASSUME IInv, NEW t \in Tasks, Serve(t)
    PROVE  IInv'
<1>1. /\ ServerInv' /\ ever \subseteq ever' /\ request' = request /\ request[t] # NoRequest
      /\ \A u \in Tasks \ {t} : answer'[u] = answer[u]
  BY ServeFits DEF IInv
<1>2. UNCHANGED <<cache, pc, operation, node, reply>>
  BY DEF Serve
<1>3. CachesFit'
  BY <1>1, <1>2, MoreFits DEF IInv, CachesFit
<1>4. Fit(t)'
  BY <1>1, <1>2 DEF IInv, TasksFit, Fit, Asked
<1>5. /\ pc' \in [Tasks -> PCs] /\ operation' \in [Tasks -> FuseOperations \cup {NoOperation}]
      /\ node' \in [Tasks -> Nat] /\ reply' \in [Tasks -> Replies]
  BY <1>2 DEF IInv, TypeOK
<1> QED
  BY <1>1, <1>2, <1>3, <1>4, <1>5, TaskMoves

\* A crash takes the requests and leaves the caches.
LEMMA ServerCrashKeeps ==
    ASSUME IInv, ServerCrash
    PROVE  IInv'
<1>1. S!Crash /\ UNCHANGED <<ever, cache, pc, operation, node, reply>>
  BY DEF ServerCrash
<1>2. ServerInv' /\ request' = [u \in Tasks |-> NoRequest] /\ answer' = [u \in Tasks |-> NoAnswer]
  BY <1>1, CrashFits DEF IInv
<1>3. TasksFit'
  BY <1>1, <1>2 DEF IInv, TasksFit, Fit
<1>4. CachesFit'
  BY <1>1, SameFits DEF IInv
<1>5. TypeOK'
  BY <1>1 DEF IInv, TypeOK
<1> QED
  BY <1>2, <1>3, <1>4, <1>5 DEF IInv

-----------------------------------------------------------------------------

\* The caches are empty at first.
LEMMA InitHolds == Init => IInv
<1> SUFFICES ASSUME Init PROVE IInv
  OBVIOUS
<1>1. /\ tree = [last |-> Root, links |-> {}] /\ ever = {}
      /\ request = [t \in Tasks |-> NoRequest] /\ answer = [t \in Tasks |-> NoAnswer]
      /\ possible = [t \in Tasks |-> {}]
      /\ cache = [c \in Clients |-> [id \in {} |-> NoAnswer]]
      /\ pc = [t \in Tasks |-> "idle"] /\ operation = [t \in Tasks |-> NoOperation]
      /\ node = [t \in Tasks |-> 0] /\ reply = [t \in Tasks |-> "none"]
  BY SameApi DEF Init, S!Init
<1>2. ServerFits
  BY <1>1 DEF ServerFits, Root
<1>3. NoRequest.op \notin ReadOps \cup CreateOps
  BY DEF NoRequest, ReadOps, CreateOps
<1>4. AnswersFit
  BY <1>1, <1>3 DEF AnswersFit, GoodWrite
<1>5. TasksFit
  BY <1>1 DEF TasksFit, Fit
<1>6. CachesFit
  BY <1>1 DEF CachesFit, CacheFits
<1>7. TypeOK
  BY <1>1 DEF TypeOK, PCs, Replies
<1> QED
  BY <1>2, <1>4, <1>5, <1>6, <1>7 DEF IInv, ServerInv

\* The caches hold what was true, whatever the tasks, the network and the
\* server do.
THEOREM Invariance == Spec => []IInv
<1>1. Init => IInv
  BY InitHolds
<1>2. IInv /\ [Next]_vars => IInv'
  <2> SUFFICES ASSUME IInv, [Next]_vars PROVE IInv'
    OBVIOUS
  <2>1. CASE Next
    BY <2>1, BeginKeeps, DoneKeeps, DirectoryCachedKeeps, NodeCachedKeeps, SendKeeps,
       DirectoryArrivesKeeps, NodeArrivesKeeps, WriteArrivesKeeps, ErrorKeeps,
       ConnectionLostKeeps, ServeKeeps, ServerCrashKeeps
    DEF Next, Work
  <2>2. CASE UNCHANGED vars
    <3>1. ServerInv' /\ CachesFit'
      BY <2>2, SameFits DEF IInv, vars, server
    <3>2. TypeOK' /\ TasksFit'
      BY <2>2 DEF IInv, vars, server, TypeOK, TasksFit, Fit, Asked
    <3> QED
      BY <3>1, <3>2 DEF IInv
  <2> QED
    BY <2>1, <2>2
<1> QED
  BY <1>1, <1>2, PTL DEF Spec

\* Every variable keeps its type: what a cache holds is an answer to a read.
THEOREM TypeCorrect == Spec => []TypeOK
<1>1. IInv => TypeOK
  BY DEF IInv
<1> QED
  BY <1>1, Invariance, PTL

\* What a cache holds was true of that very node once, however late its answer
\* came and whatever the server did since.
THEOREM CachedAnswersWereTrue == Spec => []CachedWasTrue
<1>1. IInv => CachedWasTrue
  BY DEF IInv, CachesFit, CacheFits, Entry, TrueIn, CachedWasTrue, WasTrue
<1> QED
  BY <1>1, Invariance, PTL

-----------------------------------------------------------------------------
(* One client that is alone, does one thing at a time and is not disturbed *)

\* Names and ids lead to one node, and every link starts at a directory.
TreeFits(tr) ==
    /\ \A e \in tr.links : e.child # Root /\ e.child <= tr.last /\ S!IsDirectory(tr, e.parent)
    /\ \A e, f \in tr.links : e.child = f.child => e = f
    /\ \A e, f \in tr.links : e.parent = f.parent /\ e.name = f.name => e = f

\* What the server says of a node, and whether a client that knows the node
\* knows it so: what is gone it may still know, with nothing in it.
Said(tr, id) == S!ReadAnswer(tr, [op |-> "node_info", node |-> id])
Fresh(tr, id, info) ==
    /\ id <= tr.last
    /\ info = Said(tr, id) \/ (Said(tr, id) = Answer("NotFound") /\ info.children = {})
Current(c, tr) == \A id \in DOMAIN c : Fresh(tr, id, c[id])

\* The cache of the client when it has heard of the write that was done for it.
Settled(t) ==
    LET o == operation[t]
        a == answer[t]
        c == cache[Client[t]]
        info == IF o.op = "mkdir" THEN DirectoryInfo(o.node, {}) ELSE FileInfo
    IN  IF a.status \notin Accepted THEN c
        ELSE IF o.op \in {"mkdir", "create"} THEN WithLink(With(c, a.node, info), o.node, o.name, a.node)
        ELSE Forgotten(c, o.node, o.name)

\* The server says what is so.
Heard(t) ==
    LET r == request[t]
        a == answer[t] IN
    /\ r.op \in ReadOps => possible[t] = {S!ReadAnswer(tree, r)} /\ a \in {NoAnswer, S!ReadAnswer(tree, r)}
    /\ r.op \in WriteOps /\ a # NoAnswer /\ a.status \notin Accepted =>
          a \in S!Refusals(tree, r) /\ a.status # "Locked"

\* The node a task looks at is the one the kernel has named, or its child.
Aimed(t) ==
    LET o == operation[t] IN
    /\ pc[t] \in {"directory", "directory sent"} => node[t] = o.node
    /\ pc[t] \in {"node", "node sent"} =>
          \/ /\ o.op = "lookup" /\ S!IsDirectory(tree, o.node)
             /\ \E l \in S!LinksAt(tree, o.node, o.name) : l.child = node[t]
          \/ o.op \in {"getattr", "readdir"} /\ node[t] = o.node

Alone(t) ==
    /\ TreeFits(tree)
    /\ \A c \in Clients \ {Client[t]} : DOMAIN cache[c] = {}
    /\ Current(Settled(t), tree)
    /\ Heard(t)
    /\ Aimed(t)
    /\ RepliesArePosix

-----------------------------------------------------------------------------
(* Lemmas about a tree that fits                                           *)

\* A node is a file or a directory, and a directory's parent is where the link
\* to it starts.
LEMMA OneKind ==
    ASSUME NEW tr, TreeFits(tr)
    PROVE  /\ \A id : ~(S!IsFile(tr, id) /\ S!IsDirectory(tr, id))
           /\ \A e \in tr.links : e.kind = "directory" => S!ParentOf(tr, e.child) = e.parent
<1>1. \A e, f \in tr.links : e.child = f.child => e = f
  BY DEF TreeFits
<1>2. \A e \in tr.links : e.child # Root
  BY DEF TreeFits
<1>3. ASSUME NEW id, S!IsFile(tr, id), S!IsDirectory(tr, id)
      PROVE  FALSE
  <2>1. PICK e \in tr.links : e.kind = "file" /\ e.child = id
    BY <1>3 DEF S!IsFile
  <2>2. PICK f \in tr.links : f.kind = "directory" /\ f.child = id
    BY <1>2, <1>3, <2>1, SameApi DEF S!IsDirectory
  <2> QED
    BY <1>1, <2>1, <2>2
<1>4. ASSUME NEW e \in tr.links, e.kind = "directory"
      PROVE  S!ParentOf(tr, e.child) = e.parent
  <2> DEFINE l == CHOOSE f \in tr.links : f.kind = "directory" /\ f.child = e.child
  <2>1. l \in tr.links /\ l.child = e.child
    BY <1>4
  <2>2. S!ParentOf(tr, e.child) = l.parent
    BY <1>2, SameApi DEF S!ParentOf
  <2> QED
    BY <1>1, <2>1, <2>2
<1> QED
  BY <1>3, <1>4

\* What the server says of a node, by what the node is.
LEMMA SaidIs ==
    ASSUME NEW tr, TreeFits(tr), NEW id
    PROVE  /\ S!IsFile(tr, id) => Said(tr, id) = FileInfo
           /\ S!IsDirectory(tr, id) =>
                 Said(tr, id) = DirectoryInfo(S!ParentOf(tr, id), S!LinksOf(tr, id))
           /\ ~S!IsFile(tr, id) /\ ~S!IsDirectory(tr, id) => Said(tr, id) = Answer("NotFound")
<1> DEFINE r == [op |-> "node_info", node |-> id]
<1>1. r.op = "node_info" /\ r.node = id
  OBVIOUS
<1>2. ~(S!IsFile(tr, id) /\ S!IsDirectory(tr, id))
  BY OneKind
<1> QED
  BY <1>1, <1>2, SameApi DEF Said, S!ReadAnswer

\* What the server says is of one of three forms.
LEMMA Infos3 ==
    /\ FileInfo.kind = "file" /\ FileInfo.children = {} /\ FileInfo.status = "Ok"
    /\ \A p, own : /\ DirectoryInfo(p, own).kind = "directory" /\ DirectoryInfo(p, own).status = "Ok"
                   /\ DirectoryInfo(p, own).children = {[name |-> e.name, child |-> e.child] : e \in own}
    /\ \A s : Answer(s).kind = "none" /\ Answer(s).children = {} /\ Answer(s).status = s
BY DEF FileInfo, Located, DirectoryInfo, Answer

\* The answers that are none.
LEMMA NotFoundIsNotOk == Answer("NotFound").status # "Ok" /\ Answer("NotADirectory").status # "Ok"
BY DEF Answer

\* What a fresh entry says of a directory is what is in it.
LEMMA FreshDirectory ==
    ASSUME NEW tr, TreeFits(tr), NEW id, NEW info, Fresh(tr, id, info), info.kind = "directory"
    PROVE  \/ /\ S!IsDirectory(tr, id) /\ info = Said(tr, id)
              /\ info.children = {[name |-> e.name, child |-> e.child] : e \in S!LinksOf(tr, id)}
           \/ ~S!IsFile(tr, id) /\ ~S!IsDirectory(tr, id) /\ info.children = {}
<1>1. \/ S!IsFile(tr, id) /\ Said(tr, id) = FileInfo
      \/ S!IsDirectory(tr, id) /\ Said(tr, id) = DirectoryInfo(S!ParentOf(tr, id), S!LinksOf(tr, id))
      \/ ~S!IsFile(tr, id) /\ ~S!IsDirectory(tr, id) /\ Said(tr, id) = Answer("NotFound")
  BY SaidIs
<1>2. CASE S!IsFile(tr, id) /\ Said(tr, id) = FileInfo
  BY <1>2, Infos3 DEF Fresh
<1>3. CASE S!IsDirectory(tr, id) /\ Said(tr, id) = DirectoryInfo(S!ParentOf(tr, id), S!LinksOf(tr, id))
  BY <1>3, Infos3 DEF Fresh
<1>4. CASE ~S!IsFile(tr, id) /\ ~S!IsDirectory(tr, id) /\ Said(tr, id) = Answer("NotFound")
  BY <1>4, Infos3 DEF Fresh
<1> QED
  BY <1>1, <1>2, <1>3, <1>4

\* A tree with one link more: what it says of every node, old and new.
LEMMA SaidOfMore ==
    ASSUME NEW old, TreeFits(old), old.last \in Nat, old.last >= Root, old.links \subseteq EntryRows,
           NEW p \in NodeIds, S!IsDirectory(old, p), NEW n, S!LinksAt(old, p, n) = {}, NEW kind \in Kinds,
           NEW new, new = [last |-> old.last + 1,
                           links |-> old.links \cup {[parent |-> p, name |-> n, kind |-> kind,
                                                      child |-> old.last + 1]}]
    PROVE  /\ TreeFits(new)
           /\ p <= old.last
           /\ Said(new, old.last + 1) = IF kind = "directory" THEN DirectoryInfo(p, {}) ELSE FileInfo
           /\ Said(new, p) = DirectoryInfo(S!ParentOf(old, p), S!LinksOf(new, p))
           /\ Said(old, p) = DirectoryInfo(S!ParentOf(old, p), S!LinksOf(old, p))
           /\ \A i \in NodeIds : i # p /\ i # old.last + 1 => Said(new, i) = Said(old, i)
<1> DEFINE id == old.last + 1
           link == [parent |-> p, name |-> n, kind |-> kind, child |-> id]
<1>1. new.last = id /\ new.links = old.links \cup {link}
  OBVIOUS
<1>2. link.parent = p /\ link.name = n /\ link.kind = kind /\ link.child = id
  OBVIOUS
<1>3. \A e \in old.links : /\ e.child # Root /\ e.child <= old.last /\ e.child \in NodeIds
                           /\ e.parent \in NodeIds /\ S!IsDirectory(old, e.parent)
  BY DEF TreeFits, EntryRows
<1>4. \A i : S!IsDirectory(old, i) => i <= old.last
  BY <1>3, SameApi DEF S!IsDirectory
<1>5. id \in Nat /\ id # Root /\ p <= old.last /\ ~(id <= old.last) /\ id <= id /\ id # p
  BY <1>4 DEF Root, NodeIds
<1>6. \A i \in Nat : i <= old.last => i <= id
  OBVIOUS
<1>7. \A e \in old.links : e.child # id /\ e.parent # id
  BY <1>3, <1>4, <1>5
<1> HIDE DEF id, link
<1>8. /\ \A i : S!IsDirectory(new, i) <=> S!IsDirectory(old, i) \/ (kind = "directory" /\ i = id)
      /\ \A i : S!IsFile(new, i) <=> S!IsFile(old, i) \/ (kind = "file" /\ i = id)
  BY <1>1, <1>2 DEF S!IsDirectory, S!IsFile
<1>9. TreeFits(new)
  <2>1. \A e \in new.links : e.child # Root /\ e.child <= new.last /\ S!IsDirectory(new, e.parent)
    <3>1. \A e \in old.links : e.child # Root /\ e.child <= id /\ S!IsDirectory(new, e.parent)
      BY <1>3, <1>6, <1>8 DEF NodeIds
    <3>2. link.child # Root /\ link.child <= id /\ S!IsDirectory(new, link.parent)
      BY <1>2, <1>5, <1>8
    <3> QED
      BY <1>1, <3>1, <3>2
  <2>2. \A e, f \in new.links : e.child = f.child => e = f
    BY <1>1, <1>2, <1>7 DEF TreeFits
  <2>3. \A e \in old.links : ~(e.parent = p /\ e.name = n)
    BY DEF S!LinksAt
  <2>4. \A e, f \in new.links : e.parent = f.parent /\ e.name = f.name => e = f
    BY <1>1, <1>2, <2>3 DEF TreeFits
  <2> QED
    BY <2>1, <2>2, <2>4 DEF TreeFits
<1>10. ~S!IsDirectory(old, id) /\ ~S!IsFile(old, id)
  BY <1>4, <1>5, <1>7 DEF S!IsFile
<1>11. S!LinksOf(new, id) = {}
  BY <1>1, <1>2, <1>5, <1>7 DEF S!LinksOf
<1>12. kind = "directory" => S!ParentOf(new, id) = p
  BY <1>1, <1>2, <1>9, OneKind
<1>13. Said(new, id) = IF kind = "directory" THEN DirectoryInfo(p, {}) ELSE FileInfo
  BY <1>8, <1>9, <1>11, <1>12, SaidIs DEF Kinds
<1>14. \A i : S!IsDirectory(old, i) => S!ParentOf(new, i) = S!ParentOf(old, i)
  <2> SUFFICES ASSUME NEW i, S!IsDirectory(old, i) PROVE S!ParentOf(new, i) = S!ParentOf(old, i)
    OBVIOUS
  <2>1. CASE i = Root
    BY <2>1, SameApi DEF S!ParentOf
  <2>2. CASE i # Root
    <3>1. PICK e \in old.links : e.kind = "directory" /\ e.child = i
      BY <2>2, SameApi DEF S!IsDirectory
    <3>2. S!ParentOf(old, i) = e.parent
      BY <3>1, OneKind
    <3>3. S!ParentOf(new, i) = e.parent
      BY <1>1, <1>9, <3>1, OneKind
    <3> QED
      BY <3>2, <3>3
  <2> QED
    BY <2>1, <2>2
<1>15. Said(new, p) = DirectoryInfo(S!ParentOf(old, p), S!LinksOf(new, p))
  BY <1>8, <1>9, <1>14, SaidIs
<1>16. Said(old, p) = DirectoryInfo(S!ParentOf(old, p), S!LinksOf(old, p))
  BY SaidIs
<1>17. ASSUME NEW i \in NodeIds, i # p, i # id
       PROVE  Said(new, i) = Said(old, i)
  <2>1. S!LinksOf(new, i) = S!LinksOf(old, i)
    BY <1>1, <1>2, <1>17 DEF S!LinksOf
  <2>2. /\ S!IsDirectory(new, i) <=> S!IsDirectory(old, i)
        /\ S!IsFile(new, i) <=> S!IsFile(old, i)
    <3>1. /\ S!IsDirectory(new, i) <=> S!IsDirectory(old, i) \/ (kind = "directory" /\ i = id)
          /\ S!IsFile(new, i) <=> S!IsFile(old, i) \/ (kind = "file" /\ i = id)
      BY <1>8
    <3> QED
      BY <1>17, <3>1
  <2>3. CASE S!IsFile(old, i)
    BY <1>9, <2>2, <2>3, SaidIs
  <2>4. CASE S!IsDirectory(old, i)
    BY <1>9, <1>14, <2>1, <2>2, <2>4, SaidIs
  <2>5. CASE ~S!IsFile(old, i) /\ ~S!IsDirectory(old, i)
    BY <1>9, <2>2, <2>5, SaidIs
  <2> QED
    BY <2>3, <2>4, <2>5
<1> QED
  BY <1>5, <1>9, <1>13, <1>15, <1>16, <1>17 DEF id

\* A tree with one link less, to a node below which there is none.
LEMMA SaidOfLess ==
    ASSUME NEW old, TreeFits(old), old.links \subseteq EntryRows, NEW e \in old.links,
           S!LinksOf(old, e.child) = {},
           NEW new, new.last = old.last, new.links = old.links \ {e}
    PROVE  /\ TreeFits(new)
           /\ e.parent # e.child
           /\ Said(new, e.child) = Answer("NotFound")
           /\ Said(old, e.child).children = {}
           /\ Said(new, e.parent) = DirectoryInfo(S!ParentOf(old, e.parent), S!LinksOf(new, e.parent))
           /\ Said(old, e.parent) = DirectoryInfo(S!ParentOf(old, e.parent), S!LinksOf(old, e.parent))
           /\ \A i : i # e.parent /\ i # e.child => Said(new, i) = Said(old, i)
<1>1. \A f, g \in old.links : f.child = g.child => f = g
  BY DEF TreeFits
<1>2. \A f \in old.links : f.parent # e.child /\ f.child # Root /\ S!IsDirectory(old, f.parent)
  BY DEF S!LinksOf, TreeFits
<1>3. /\ \A i : S!IsDirectory(new, i) <=> S!IsDirectory(old, i) /\ i # e.child
      /\ \A i : S!IsFile(new, i) <=> S!IsFile(old, i) /\ i # e.child
  BY <1>1, <1>2, SameApi DEF S!IsDirectory, S!IsFile
<1>4. TreeFits(new)
  BY <1>2, <1>3 DEF TreeFits
<1>5. e.parent # e.child
  BY <1>2
<1>6. \A i : S!IsDirectory(new, i) => S!ParentOf(new, i) = S!ParentOf(old, i)
  <2> SUFFICES ASSUME NEW i, S!IsDirectory(new, i) PROVE S!ParentOf(new, i) = S!ParentOf(old, i)
    OBVIOUS
  <2>1. CASE i = Root
    BY <2>1, SameApi DEF S!ParentOf
  <2>2. CASE i # Root
    <3>1. PICK f \in new.links : f.kind = "directory" /\ f.child = i
      BY <2>2, SameApi DEF S!IsDirectory
    <3>2. S!ParentOf(new, i) = f.parent
      BY <1>4, <3>1, OneKind
    <3>3. S!ParentOf(old, i) = f.parent
      BY <3>1, OneKind
    <3> QED
      BY <3>2, <3>3
  <2> QED
    BY <2>1, <2>2
<1>7. Said(new, e.child) = Answer("NotFound")
  BY <1>3, <1>4, SaidIs
<1>8. Said(old, e.child).children = {}
  <2>1. Said(old, e.child) \in {FileInfo, Answer("NotFound"), DirectoryInfo(S!ParentOf(old, e.child), {})}
    BY SaidIs
  <2> QED
    BY <2>1, Infos3
<1>9. S!IsDirectory(new, e.parent) /\ S!IsDirectory(old, e.parent)
  BY <1>2, <1>3, <1>5
<1>10. Said(new, e.parent) = DirectoryInfo(S!ParentOf(old, e.parent), S!LinksOf(new, e.parent))
  BY <1>4, <1>6, <1>9, SaidIs
<1>11. Said(old, e.parent) = DirectoryInfo(S!ParentOf(old, e.parent), S!LinksOf(old, e.parent))
  BY <1>9, SaidIs
<1>12. ASSUME NEW i, i # e.parent, i # e.child
       PROVE  Said(new, i) = Said(old, i)
  <2>1. S!LinksOf(new, i) = S!LinksOf(old, i)
    BY <1>12 DEF S!LinksOf
  <2>2. /\ S!IsDirectory(new, i) <=> S!IsDirectory(old, i)
        /\ S!IsFile(new, i) <=> S!IsFile(old, i)
    BY <1>3, <1>12
  <2>3. CASE S!IsFile(old, i)
    BY <1>4, <2>2, <2>3, SaidIs
  <2>4. CASE S!IsDirectory(old, i)
    BY <1>4, <1>6, <2>1, <2>2, <2>4, SaidIs
  <2>5. CASE ~S!IsFile(old, i) /\ ~S!IsDirectory(old, i)
    BY <1>4, <2>2, <2>5, SaidIs
  <2> QED
    BY <2>3, <2>4, <2>5
<1> QED
  BY <1>4, <1>5, <1>7, <1>8, <1>10, <1>11, <1>12

-----------------------------------------------------------------------------
(* Lemmas about a cache that is kept up to date                            *)

\* What holds of the children that are listed for a directory.
Listed(own) == {[name |-> e.name, child |-> e.child] : e \in own}

\* Other children do not change what else is known of a directory.
LEMMA OtherChildren ==
    ASSUME NEW p, NEW own, NEW other
    PROVE  [DirectoryInfo(p, own) EXCEPT !.children = Listed(other)] = DirectoryInfo(p, other)
<1>1. \A links : DirectoryInfo(p, links)
          = [status |-> "Ok", kind |-> "directory", node |-> p, children |-> Listed(links)]
  BY DEF DirectoryInfo, Listed
<1> DEFINE L(links) == Listed(links)
<1>2. \A links : DirectoryInfo(p, links)
          = [status |-> "Ok", kind |-> "directory", node |-> p, children |-> L(links)]
  BY <1>1
<1> HIDE DEF L
<1>3. [DirectoryInfo(p, own) EXCEPT !.children = L(other)] = DirectoryInfo(p, other)
  BY <1>2
<1> QED
  BY <1>3 DEF L

\* A node created is entered as it is, and so is its link.
LEMMA CreateSettles ==
    ASSUME NEW old, TreeFits(old), old.last \in Nat, old.last >= Root, old.links \subseteq EntryRows,
           NEW p \in NodeIds, S!IsDirectory(old, p), NEW n, S!LinksAt(old, p, n) = {}, NEW kind \in Kinds,
           NEW new, new = [last |-> old.last + 1,
                           links |-> old.links \cup {[parent |-> p, name |-> n, kind |-> kind,
                                                      child |-> old.last + 1]}],
           NEW c, DOMAIN c \subseteq NodeIds, \A i \in DOMAIN c : c[i] \in Infos, Current(c, old)
    PROVE  /\ TreeFits(new)
           /\ Current(WithLink(With(c, old.last + 1,
                                    IF kind = "directory" THEN DirectoryInfo(p, {}) ELSE FileInfo),
                               p, n, old.last + 1), new)
<1> DEFINE id == old.last + 1
           info == IF kind = "directory" THEN DirectoryInfo(p, {}) ELSE FileInfo
           w == With(c, id, info)
           link == [parent |-> p, name |-> n, kind |-> kind, child |-> id]
           entered == WithLink(w, p, n, id)
<1>1. /\ TreeFits(new) /\ p <= old.last
      /\ Said(new, id) = info
      /\ Said(new, p) = DirectoryInfo(S!ParentOf(old, p), S!LinksOf(new, p))
      /\ Said(old, p) = DirectoryInfo(S!ParentOf(old, p), S!LinksOf(old, p))
      /\ \A i \in NodeIds : i # p /\ i # id => Said(new, i) = Said(old, i)
  BY SaidOfMore
<1>2. new.last = id /\ new.links = old.links \cup {link}
  OBVIOUS
<1>3. link.parent = p /\ link.name = n /\ link.child = id
  OBVIOUS
<1>4. w = [i \in DOMAIN c \cup {id} |-> IF i = id THEN info ELSE c[i]]
  BY DEF With
<1>5. id \in Nat /\ p # id /\ id <= id /\ \A i \in NodeIds : i <= old.last => i <= id
  BY <1>1 DEF NodeIds
<1> HIDE DEF id, info, w, link
<1>6. \A i \in DOMAIN c : i \in NodeIds /\ i <= id /\ Fresh(old, i, c[i])
  BY <1>5 DEF Current, Fresh
<1>7. ASSUME NEW i \in DOMAIN w, i # p
      PROVE  Fresh(new, i, w[i])
  <2>1. CASE i = id
    BY <1>1, <1>2, <1>4, <1>5, <2>1 DEF Fresh
  <2>2. CASE i # id
    <3>1. i \in DOMAIN c /\ w[i] = c[i]
      BY <1>4, <2>2
    <3>2. Said(new, i) = Said(old, i)
      BY <1>1, <1>6, <1>7, <2>2, <3>1
    <3> QED
      BY <1>2, <1>6, <3>1, <3>2 DEF Fresh
  <2> QED
    BY <2>1, <2>2
<1>8. CASE p \notin DOMAIN c
  <2>1. entered = w
    BY <1>4, <1>5, <1>8 DEF WithLink, Knows
  <2>2. \A i \in DOMAIN w : i # p
    BY <1>4, <1>5, <1>8
  <2>3. Current(w, new)
    BY <1>7, <2>2 DEF Current
  <2>4. Current(entered, new)
    BY <2>1, <2>3
  <2> QED
    BY <1>1, <2>4 DEF id, info, w
<1>9. CASE p \in DOMAIN c
  <2> DEFINE children == {l \in c[p].children : l.name # n} \cup {[name |-> n, child |-> id]}
  <2>1. c[p] = DirectoryInfo(S!ParentOf(old, p), S!LinksOf(old, p))
    <3>1. Said(old, p).kind = "directory" /\ Answer("NotFound").kind = "none"
      BY <1>1, Infos3
    <3> QED
      BY <1>1, <1>6, <1>9, <3>1 DEF Fresh
  <2>2. c[p].kind = "directory" /\ c[p].children = Listed(S!LinksOf(old, p)) /\ w[p] = c[p] /\ p \in DOMAIN w
    BY <1>4, <1>5, <1>9, <2>1, Infos3 DEF Listed
  <2>3. entered = [w EXCEPT ![p].children = {l \in @ : l.name # n} \cup {[name |-> n, child |-> id]}]
    BY <2>2 DEF WithLink, Knows
  <2>4. entered = [w EXCEPT ![p] = [c[p] EXCEPT !.children = children]]
    BY <2>2, <2>3
  <2>5. children = Listed(S!LinksOf(new, p))
    <3>1. \A l \in Listed(S!LinksOf(old, p)) : l.name # n
      BY DEF Listed, S!LinksOf, S!LinksAt
    <3>2. S!LinksOf(new, p) = S!LinksOf(old, p) \cup {link}
      BY <1>2, <1>3 DEF S!LinksOf
    <3>3. Listed(S!LinksOf(old, p) \cup {link}) = Listed(S!LinksOf(old, p)) \cup {[name |-> n, child |-> id]}
      BY <1>3 DEF Listed
    <3> QED
      BY <2>2, <3>1, <3>2, <3>3
  <2>6. [c[p] EXCEPT !.children = children] = Said(new, p)
    <3> HIDE DEF children, entered
    <3>1. [c[p] EXCEPT !.children = Listed(S!LinksOf(new, p))]
             = DirectoryInfo(S!ParentOf(old, p), S!LinksOf(new, p))
      BY <2>1, OtherChildren
    <3> QED
      BY <1>1, <2>5, <3>1
  <2> HIDE DEF children, entered
  <2>7. DOMAIN entered = DOMAIN w /\ entered[p] = Said(new, p) /\ \A i \in DOMAIN w : i # p => entered[i] = w[i]
    BY <1>4, <2>2, <2>4, <2>6
  <2>8. Fresh(new, p, entered[p])
    BY <1>2, <1>6, <1>9, <2>7 DEF Fresh
  <2>9. Current(entered, new)
    BY <1>7, <2>7, <2>8 DEF Current
  <2> QED
    BY <1>1, <2>9 DEF entered, w, info, id
<1> QED
  BY <1>8, <1>9

\* A node deleted is forgotten, or known as one with nothing in it.
LEMMA DeleteSettles ==
    ASSUME NEW old, TreeFits(old), old.links \subseteq EntryRows, NEW e \in old.links,
           S!LinksOf(old, e.child) = {},
           NEW new, new.last = old.last, new.links = old.links \ {e},
           NEW c, Current(c, old)
    PROVE  TreeFits(new) /\ Current(Forgotten(c, e.parent, e.name), new)
<1> DEFINE p == e.parent
           gone == IF Knows(c, p, {"directory"}) THEN {l \in c[p].children : l.name = e.name} ELSE {}
           rest == IF gone = {} THEN c ELSE [c EXCEPT ![p].children = @ \ gone]
<1>1. /\ TreeFits(new) /\ p # e.child
      /\ Said(new, e.child) = Answer("NotFound") /\ Said(old, e.child).children = {}
      /\ Said(new, p) = DirectoryInfo(S!ParentOf(old, p), S!LinksOf(new, p))
      /\ Said(old, p) = DirectoryInfo(S!ParentOf(old, p), S!LinksOf(old, p))
      /\ \A i : i # p /\ i # e.child => Said(new, i) = Said(old, i)
  BY SaidOfLess
<1>2. Forgotten(c, p, e.name)
          = [i \in DOMAIN c \ UNION {Below(rest, l.child) : l \in gone} |-> rest[i]]
  BY DEF Forgotten, Restrict
<1>3. DOMAIN rest = DOMAIN c /\ \A i \in DOMAIN c : i # p => rest[i] = c[i]
  OBVIOUS
<1>4. ASSUME NEW i \in DOMAIN c, i # p
      PROVE  Fresh(new, i, c[i])
  <2>1. Fresh(old, i, c[i])
    BY DEF Current
  <2>2. CASE i = e.child
    <3>1. c[i].children = {}
      BY <1>1, <2>1, <2>2 DEF Fresh
    <3> QED
      BY <1>1, <2>1, <2>2, <3>1 DEF Fresh
  <2>3. CASE i # e.child
    BY <1>1, <1>4, <2>1, <2>3 DEF Fresh
  <2> QED
    BY <2>2, <2>3
<1>5. ASSUME p \in DOMAIN c
      PROVE  Fresh(new, p, rest[p])
  <2>1. Fresh(old, p, c[p])
    BY <1>5 DEF Current
  <2>2. c[p] = DirectoryInfo(S!ParentOf(old, p), S!LinksOf(old, p))
    <3>1. Said(old, p).kind = "directory" /\ Answer("NotFound").kind = "none"
      BY <1>1, Infos3
    <3> QED
      BY <1>1, <2>1, <3>1 DEF Fresh
  <2>3. c[p].kind = "directory" /\ c[p].children = Listed(S!LinksOf(old, p))
    BY <2>2, Infos3 DEF Listed
  <2>4. gone = {[name |-> e.name, child |-> e.child]}
    <3>1. \A f \in S!LinksOf(old, p) : f.name = e.name => f = e
      BY DEF TreeFits, S!LinksOf
    <3>2. e \in S!LinksOf(old, p)
      BY DEF S!LinksOf
    <3> QED
      BY <1>5, <2>3, <3>1, <3>2 DEF Listed, Knows
  <2>5. Listed(S!LinksOf(old, p)) \ gone = Listed(S!LinksOf(new, p))
    <3>1. S!LinksOf(new, p) = S!LinksOf(old, p) \ {e}
      BY DEF S!LinksOf
    <3>2. \A f \in S!LinksOf(old, p) : f.name = e.name => f = e
      BY DEF TreeFits, S!LinksOf
    <3> QED
      BY <2>4, <3>1, <3>2 DEF Listed
  <2>6. rest[p] = [c[p] EXCEPT !.children = Listed(S!LinksOf(new, p))]
    <3>1. rest[p] = [c[p] EXCEPT !.children = @ \ gone]
      BY <1>5, <2>4
    <3> HIDE DEF rest, gone
    <3> QED
      BY <2>3, <2>5, <3>1
  <2>7. rest[p] = Said(new, p)
    <3> HIDE DEF rest, gone
    <3> QED
      BY <1>1, <2>2, <2>6, OtherChildren
  <2> HIDE DEF rest, gone
  <2> QED
    BY <2>1, <2>7 DEF Fresh
<1> HIDE DEF rest, gone
<1>6. \A i \in DOMAIN c : Fresh(new, i, rest[i])
  BY <1>3, <1>4, <1>5
<1>7. Current(Forgotten(c, p, e.name), new)
  BY <1>2, <1>3, <1>6 DEF Current
<1> QED
  BY <1>1, <1>7

-----------------------------------------------------------------------------
(* Lemmas about the errors POSIX names                                     *)

\* PosixErrors and RepliesArePosix of a tree and a task.
Cause(tr, o, e) ==
    LET found == IF o.op \in {"getattr", "readdir"} THEN {} ELSE S!LinksAt(tr, o.node, o.name) IN
    \/ e = "ENOENT" /\ ~S!IsFile(tr, o.node) /\ ~S!IsDirectory(tr, o.node)
    \/ e = "ENOENT" /\ S!IsDirectory(tr, o.node) /\ found = {} /\ o.op \in {"lookup", "unlink", "rmdir"}
    \/ e = "ENOTDIR" /\ S!IsFile(tr, o.node) /\ o.op # "getattr"
    \/ e = "ENOTDIR" /\ o.op = "rmdir" /\ \E l \in found : l.kind = "file"
    \/ e = "EISDIR" /\ o.op = "unlink" /\ \E l \in found : l.kind = "directory"
    \/ e = "EEXIST" /\ found # {} /\ o.op \in {"mkdir", "create"}
    \/ e = "ENOTEMPTY" /\ o.op = "rmdir" /\ \E l \in found : S!LinksOf(tr, l.child) # {}
PosixReply(tr, o, r) ==
    /\ \/ r = "ok"
       \/ r \in Errnos /\ Cause(tr, o, r)
       \/ o.op \in {"mkdir", "create"} /\ ~S!IsDirectory(tr, o.node)
    /\ r = "ok" /\ o.op = "lookup" => \A e \in Errnos : ~Cause(tr, o, e)

\* They say the same.
LEMMA PosixIsCause ==
    ASSUME NEW t, Tasks = {t}
    PROVE  /\ RepliesArePosix <=> (pc[t] = "replied" => PosixReply(tree, operation[t], reply[t]))
           /\ RepliesArePosix' <=> (pc'[t] = "replied" => PosixReply(tree', operation'[t], reply'[t]))
<1>1. \A e : e \in PosixErrors(operation[t]) <=> e \in Errnos /\ Cause(tree, operation[t], e)
  BY DEF PosixErrors, Cause
<1>2. \A e : e \in PosixErrors(operation[t])' <=> e \in Errnos /\ Cause(tree', operation'[t], e)
  BY DEF PosixErrors, Cause
<1>3. RepliesArePosix <=> (pc[t] = "replied" => PosixReply(tree, operation[t], reply[t]))
  BY <1>1 DEF RepliesArePosix, PosixReply
<1>4. RepliesArePosix' <=> (pc'[t] = "replied" => PosixReply(tree', operation'[t], reply'[t]))
  BY <1>2 DEF RepliesArePosix, PosixReply
<1> QED
  BY <1>3, <1>4

\* The number each error of the server becomes.
LEMMA ErrorNumbers ==
    /\ decode_errors(IntoResponse("NotFound")) = "NotFound"
    /\ decode_errors(IntoResponse("NotADirectory")) = "NotADirectory"
    /\ decode_errors(IntoResponse("NotAFile")) = "NotAFile"
    /\ decode_errors(IntoResponse("AlreadyExists")) = "AlreadyExists"
    /\ decode_errors(IntoResponse("DirectoryNotEmpty")) = "DirectoryNotEmpty"
    /\ Errno["NotFound"] = "ENOENT" /\ Errno["NotADirectory"] = "ENOTDIR" /\ Errno["NotAFile"] = "EISDIR"
    /\ Errno["AlreadyExists"] = "EEXIST" /\ Errno["DirectoryNotEmpty"] = "ENOTEMPTY"
    /\ \A e \in {"ENOENT", "ENOTDIR", "EISDIR", "EEXIST", "ENOTEMPTY"} : e \in Errnos
    /\ From("NotFound", "FetchNode") = "NotFound"
    /\ From("NotFound", "FetchDirectory") = "NotFound"
    /\ From("NotADirectory", "FetchDirectory") = "NotADirectory"
    /\ From("AlreadyExists", "CreateNode") = "AlreadyExists"
    /\ From("NotFound", "DeleteDirectory") = "NotFound"
    /\ From("NotADirectory", "DeleteDirectory") = "NotADirectory"
    /\ From("DirectoryNotEmpty", "DeleteDirectory") = "DirectoryNotEmpty"
    /\ From("NotFound", "DeleteFile") = "NotFound"
    /\ From("NotADirectory", "DeleteFile") = "NotADirectory"
    /\ From("NotAFile", "DeleteFile") = "NotAFile"
<1>1. \A e \in {"NotAFile", "NotADirectory", "AlreadyExists", "DirectoryNotEmpty"} :
         decode_errors(IntoResponse(e)) = e
  <2>1. \A e \in {"NotAFile", "NotADirectory", "AlreadyExists", "DirectoryNotEmpty"} :
           IntoResponse(e) = [status |-> 409, body |-> e]
    BY DEF IntoResponse
  <2> QED
    BY <2>1 DEF decode_errors, Conflicts
<1>2. decode_errors(IntoResponse("NotFound")) = "NotFound"
  BY DEF decode_errors, IntoResponse
<1>3. /\ Errno["NotFound"] = "ENOENT" /\ Errno["NotADirectory"] = "ENOTDIR" /\ Errno["NotAFile"] = "EISDIR"
      /\ Errno["AlreadyExists"] = "EEXIST" /\ Errno["DirectoryNotEmpty"] = "ENOTEMPTY"
      /\ {"NotFound", "NotADirectory", "NotAFile", "AlreadyExists", "DirectoryNotEmpty"} \subseteq DOMAIN Errno
  BY DEF Errno
<1>4. \A e \in {"ENOENT", "ENOTDIR", "EISDIR", "EEXIST", "ENOTEMPTY"} : e \in Errnos
  BY <1>3 DEF Errnos
<1>5. \A e, type : e \in Expressible[type] => From(e, type) = e
  BY DEF From
<1>6. /\ "NotFound" \in Expressible["FetchNode"]
      /\ {"NotFound", "NotADirectory"} \subseteq Expressible["FetchDirectory"]
      /\ "AlreadyExists" \in Expressible["CreateNode"]
      /\ {"NotFound", "NotADirectory", "DirectoryNotEmpty"} \subseteq Expressible["DeleteDirectory"]
      /\ {"NotFound", "NotADirectory", "NotAFile"} \subseteq Expressible["DeleteFile"]
  BY DEF Expressible
<1> QED
  BY <1>1, <1>2, <1>3, <1>4, <1>5, <1>6

-----------------------------------------------------------------------------
(* Every undisturbed step keeps the lone client's invariant                *)

\* Having no answer is no answer that is accepted.
LEMMA UnheardIsSettled ==
    ASSUME NEW t
    PROVE  /\ answer[t].status \notin Accepted => Settled(t) = cache[Client[t]]
           /\ answer[t] = NoAnswer => Settled(t) = cache[Client[t]]
           /\ answer'[t] = NoAnswer => Settled(t)' = cache'[Client[t]]
BY NoAnswerIsNone DEF Settled, Accepted

\* A step of the task that leaves the tree: its cache and its reply are what is
\* left to see to.
LEMMA StillAlone ==
    ASSUME NEW t, Tasks = {t}, Alone(t), tree' = tree, answer'[t] = NoAnswer,
           \A c \in Clients \ {Client[t]} : cache'[c] = cache[c],
           Current(cache'[Client[t]], tree),
           request'[t].op \in ReadOps => possible'[t] = {S!ReadAnswer(tree, request'[t])},
           Aimed(t)',
           pc'[t] = "replied" => PosixReply(tree, operation'[t], reply'[t])
    PROVE  Alone(t)'
<1>1. TreeFits(tree)' /\ \A c \in Clients \ {Client[t]} : DOMAIN cache'[c] = {}
  BY DEF Alone
<1>2. Current(Settled(t), tree)'
  BY UnheardIsSettled
<1>3. Heard(t)'
  BY DEF Heard
<1>4. RepliesArePosix'
  BY PosixIsCause
<1> QED
  BY <1>1, <1>2, <1>3, <1>4 DEF Alone

\* A task that has asked for nothing has heard nothing.
LEMMA NothingAsked ==
    ASSUME NEW t, Tasks = {t}, IInv, ~Sent(t)
    PROVE  request[t] = NoRequest /\ answer[t] = NoAnswer /\ request[t].op \notin ReadOps \cup WriteOps
<1>1. request[t] = NoRequest /\ answer[t] = NoAnswer
  BY DEF IInv, TasksFit, Fit, Asked, Sent
<1> QED
  BY <1>1 DEF NoRequest, ReadOps, WriteOps, CreateOps, DeleteOps

\* An operation begins at the node the kernel has named.
LEMMA BeginAlone ==
    ASSUME NEW t, Tasks = {t}, IInv, Alone(t), NEW o \in Operations, Begin(t, o)
    PROVE  Alone(t)'
<1>1. /\ pc[t] = "idle" /\ operation' = [operation EXCEPT ![t] = o]
      /\ node' = [node EXCEPT ![t] = o.node] /\ UNCHANGED <<server, cache, reply>>
      /\ \/ o.op \in {"lookup", "readdir"} /\ pc' = [pc EXCEPT ![t] = "directory"]
         \/ o.op = "getattr" /\ pc' = [pc EXCEPT ![t] = "node"]
         \/ o.op \in FuseWrites /\ pc' = [pc EXCEPT ![t] = "write"]
  BY DEF Begin, Go
<1>2. request[t] = NoRequest /\ answer[t] = NoAnswer /\ request[t].op \notin ReadOps
  BY <1>1, NothingAsked DEF Sent
<1>3. operation'[t] = o /\ node'[t] = o.node /\ pc'[t] # "replied"
      /\ \/ pc'[t] = "directory"
         \/ pc'[t] = "node" /\ o.op = "getattr"
         \/ pc'[t] = "write"
  BY <1>1 DEF IInv, TypeOK
<1>4. Aimed(t)'
  BY <1>3 DEF Aimed
<1>5. Current(cache[Client[t]], tree)
  BY <1>2, UnheardIsSettled DEF Alone
<1> QED
  BY <1>1, <1>2, <1>3, <1>4, <1>5, StillAlone DEF server

\* A task that has replied is idle with the cache it has made.
LEMMA DoneAlone ==
    ASSUME NEW t, Tasks = {t}, IInv, Alone(t), Done(t)
    PROVE  Alone(t)'
<1>1. pc[t] = "replied" /\ pc' = [pc EXCEPT ![t] = "idle"] /\ UNCHANGED <<server, cache>>
  BY DEF Done, Go
<1>2. request[t] = NoRequest /\ answer[t] = NoAnswer /\ request[t].op \notin ReadOps
  BY <1>1, NothingAsked DEF Sent
<1>3. pc'[t] = "idle"
  BY <1>1 DEF IInv, TypeOK
<1>4. Aimed(t)'
  BY <1>3 DEF Aimed
<1>5. Current(cache[Client[t]], tree)
  BY <1>2, UnheardIsSettled DEF Alone
<1> QED
  BY <1>1, <1>2, <1>3, <1>4, <1>5, StillAlone DEF server

\* What a lookup goes on with is in the tree, and what it does not find is not.
LEMMA FoundAlone ==
    ASSUME NEW t, Tasks = {t}, IInv, Alone(t), pc[t] \in {"directory", "directory sent"},
           NEW STATE info, Fresh(tree, node[t], info), info.kind = "directory",
           Found(t, info), tree' = tree, operation' = operation
    PROVE  Aimed(t)' /\ (pc'[t] = "replied" => PosixReply(tree, operation'[t], reply'[t]))
<1> DEFINE o == operation[t]
<1>1. node[t] = o.node /\ o.op \in {"lookup", "readdir"}
  BY DEF Alone, Aimed, IInv, TasksFit, Fit
<1>2. \/ /\ S!IsDirectory(tree, o.node)
         /\ info.children = {[name |-> e.name, child |-> e.child] : e \in S!LinksOf(tree, o.node)}
      \/ ~S!IsFile(tree, o.node) /\ ~S!IsDirectory(tree, o.node) /\ info.children = {}
  BY <1>1, FreshDirectory DEF Alone
<1>3. CASE /\ o.op = "lookup"
           /\ \E l \in info.children : l.name = o.name /\ node' = [node EXCEPT ![t] = l.child]
           /\ pc' = [pc EXCEPT ![t] = "node"]
  <2>1. PICK l \in info.children : l.name = o.name /\ node' = [node EXCEPT ![t] = l.child]
    BY <1>3
  <2>2. PICK e \in S!LinksOf(tree, o.node) : l = [name |-> e.name, child |-> e.child]
    BY <1>2, <2>1
  <2>3. S!IsDirectory(tree, o.node)
    BY <1>2, <2>1
  <2>4. e \in S!LinksAt(tree, o.node, o.name) /\ e.child = l.child
    BY <2>1, <2>2 DEF S!LinksOf, S!LinksAt
  <2>5. pc'[t] = "node" /\ node'[t] = l.child
    BY <1>3, <2>1 DEF IInv, TypeOK
  <2> QED
    BY <1>3, <2>3, <2>4, <2>5 DEF Aimed
<1>4. CASE /\ o.op = "lookup" /\ \A l \in info.children : l.name # o.name
           /\ pc' = [pc EXCEPT ![t] = "replied"] /\ reply' = [reply EXCEPT ![t] = "ENOENT"]
  <2>1. S!LinksAt(tree, o.node, o.name) = {} \/ ~S!IsDirectory(tree, o.node)
    <3> SUFFICES ASSUME S!IsDirectory(tree, o.node), NEW e \in S!LinksAt(tree, o.node, o.name) PROVE FALSE
      OBVIOUS
    <3>1. e \in S!LinksOf(tree, o.node) /\ e.name = o.name
      BY DEF S!LinksAt, S!LinksOf
    <3>2. [name |-> e.name, child |-> e.child] \in info.children
      BY <1>2, <3>1
    <3> QED
      BY <1>4, <3>1, <3>2
  <2>2. Cause(tree, o, "ENOENT")
    BY <1>2, <1>4, <2>1 DEF Cause
  <2>3. pc'[t] = "replied" /\ reply'[t] = "ENOENT"
    BY <1>4 DEF IInv, TypeOK
  <2> QED
    BY <2>2, <2>3, ErrorNumbers DEF Aimed, PosixReply
<1>5. CASE o.op = "readdir" /\ pc' = [pc EXCEPT ![t] = "node"] /\ node' = node
  <2>1. pc'[t] = "node"
    BY <1>5 DEF IInv, TypeOK
  <2> QED
    BY <1>1, <1>5, <2>1 DEF Aimed
<1> QED
  BY <1>3, <1>4, <1>5 DEF Found, Reply, Go

\* A directory that is known.
LEMMA DirectoryCachedAlone ==
    ASSUME NEW t, Tasks = {t}, IInv, Alone(t), DirectoryCached(t)
    PROVE  Alone(t)'
<1> DEFINE c == cache[Client[t]]
           info == c[node[t]]
<1>1. /\ pc[t] = "directory" /\ node[t] \in DOMAIN c /\ info.kind = "directory"
      /\ Found(t, info) /\ UNCHANGED <<server, cache, operation>>
  BY DEF DirectoryCached, Knows
<1>2. request[t] = NoRequest /\ answer[t] = NoAnswer /\ request[t].op \notin ReadOps
  BY <1>1, NothingAsked DEF Sent
<1>3. Current(c, tree)
  BY <1>2, UnheardIsSettled DEF Alone
<1>4. Fresh(tree, node[t], info)
  BY <1>1, <1>3 DEF Current
<1>5. tree' = tree /\ request' = request /\ answer' = answer /\ cache' = cache
  BY <1>1 DEF server
<1> HIDE DEF info
<1>6. Aimed(t)' /\ (pc'[t] = "replied" => PosixReply(tree, operation'[t], reply'[t]))
  BY <1>1, <1>4, <1>5, FoundAlone
<1> QED
  BY <1>2, <1>3, <1>5, <1>6, StillAlone

\* A lookup that has found a child has met none of the errors.
LEMMA LookupFinds ==
    ASSUME NEW tr, TreeFits(tr), NEW o, o.op = "lookup", S!IsDirectory(tr, o.node),
           S!LinksAt(tr, o.node, o.name) # {}
    PROVE  PosixReply(tr, o, "ok")
<1>1. ~S!IsFile(tr, o.node)
  BY OneKind
<1>2. \A e : ~Cause(tr, o, e)
  BY <1>1 DEF Cause
<1> QED
  BY <1>2 DEF PosixReply

\* A node that is known.
LEMMA NodeCachedAlone ==
    ASSUME NEW t, Tasks = {t}, IInv, Alone(t), NodeCached(t)
    PROVE  Alone(t)'
<1>1. /\ pc[t] = "node" /\ pc' = [pc EXCEPT ![t] = "replied"] /\ reply' = [reply EXCEPT ![t] = "ok"]
      /\ UNCHANGED <<server, cache, operation, node>>
  BY DEF NodeCached, Reply, Go
<1>2. request[t] = NoRequest /\ answer[t] = NoAnswer /\ request[t].op \notin ReadOps
  BY <1>1, NothingAsked DEF Sent
<1>3. Current(cache[Client[t]], tree)
  BY <1>2, UnheardIsSettled DEF Alone
<1>4. pc'[t] = "replied" /\ reply'[t] = "ok"
  BY <1>1 DEF IInv, TypeOK
<1>5. Aimed(t)'
  BY <1>4 DEF Aimed
<1>6. PosixReply(tree, operation[t], "ok")
  <2>1. CASE operation[t].op = "lookup"
    <3>1. /\ S!IsDirectory(tree, operation[t].node)
          /\ S!LinksAt(tree, operation[t].node, operation[t].name) # {}
      BY <1>1, <2>1 DEF Alone, Aimed
    <3> QED
      BY <2>1, <3>1, LookupFinds DEF Alone
  <2>2. CASE operation[t].op # "lookup"
    BY <2>2 DEF PosixReply
  <2> QED
    BY <2>1, <2>2
<1> QED
  BY <1>1, <1>2, <1>3, <1>4, <1>5, <1>6, StillAlone DEF server

\* A request is sent: what the server could say is what is so.
LEMMA SendAlone ==
    ASSUME NEW t, Tasks = {t}, IInv, Alone(t), FetchDirectory(t) \/ FetchNode(t) \/ SendWrite(t)
    PROVE  Alone(t)'
<1>1. PICK r : /\ Send(t, r) /\ UNCHANGED <<cache, operation, node, reply>>
               /\ \/ pc[t] = "directory" /\ pc' = [pc EXCEPT ![t] = "directory sent"]
                  \/ pc[t] = "node" /\ pc' = [pc EXCEPT ![t] = "node sent"]
                  \/ pc[t] = "write" /\ pc' = [pc EXCEPT ![t] = "write sent"]
  BY DEF FetchDirectory, FetchNode, SendWrite, Go
<1>2. request[t] = NoRequest /\ answer[t] = NoAnswer
  BY <1>1, NothingAsked DEF Sent
<1>3. /\ request' = [request EXCEPT ![t] = r] /\ tree' = tree /\ answer' = answer
      /\ possible' = [possible EXCEPT ![t] = IF r.op \in ReadOps THEN {S!ReadAnswer(tree, r)} ELSE {}]
  BY <1>1, SameApi DEF Send, S!Call
<1>4. request'[t] = r /\ (r.op \in ReadOps => possible'[t] = {S!ReadAnswer(tree, r)})
  BY <1>3 DEF IInv, ServerInv, ServerFits
<1>5. Current(cache[Client[t]], tree)
  BY <1>2, UnheardIsSettled DEF Alone
<1>6. /\ pc'[t] # "replied"
      /\ \/ pc[t] = "directory" /\ pc'[t] = "directory sent"
         \/ pc[t] = "node" /\ pc'[t] = "node sent"
         \/ pc[t] = "write" /\ pc'[t] = "write sent"
  BY <1>1 DEF IInv, TypeOK
<1>7. Aimed(t)'
  <2>1. CASE pc[t] = "directory" /\ pc'[t] = "directory sent"
    BY <1>1, <2>1 DEF Alone, Aimed
  <2>2. CASE pc[t] = "node" /\ pc'[t] = "node sent"
    BY <1>1, <1>3, <2>2 DEF Alone, Aimed
  <2>3. CASE pc'[t] = "write sent"
    BY <2>3 DEF Aimed
  <2> QED
    BY <1>6, <2>1, <2>2, <2>3
<1> QED
  BY <1>1, <1>2, <1>3, <1>4, <1>5, <1>6, <1>7, StillAlone

\* What the server says of a directory.
LEMMA SaidOfDirectory ==
    ASSUME NEW tr, TreeFits(tr), Root <= tr.last, NEW id
    PROVE  LET a == S!ReadAnswer(tr, [op |-> "dir_info", node |-> id])
           IN  \/ S!IsDirectory(tr, id) /\ a = Said(tr, id) /\ a.status = "Ok" /\ a.kind = "directory"
               \/ S!IsFile(tr, id) /\ a = Answer("NotADirectory")
               \/ ~S!IsDirectory(tr, id) /\ ~S!IsFile(tr, id) /\ a = Answer("NotFound")
<1> DEFINE r == [op |-> "dir_info", node |-> id]
<1>1. r.op = "dir_info" /\ r.node = id
  OBVIOUS
<1>2. ~(S!IsFile(tr, id) /\ S!IsDirectory(tr, id))
  BY OneKind
<1>3. WrongKind("dir_info") = Answer("NotADirectory")
  BY DEF WrongKind, WantedKind
<1>4. CASE S!IsDirectory(tr, id)
  <2>1. S!ReadAnswer(tr, r) = DirectoryInfo(S!ParentOf(tr, id), S!LinksOf(tr, id))
    BY <1>1, <1>2, <1>4, SameApi DEF S!ReadAnswer
  <2> QED
    BY <1>4, <2>1, SaidIs, Infos3
<1>5. CASE S!IsFile(tr, id)
  BY <1>1, <1>2, <1>3, <1>5, SameApi DEF S!ReadAnswer
<1>6. CASE ~S!IsDirectory(tr, id) /\ ~S!IsFile(tr, id)
  BY <1>1, <1>6, SameApi DEF S!ReadAnswer
<1> QED
  BY <1>4, <1>5, <1>6

\* What it says of a node that is there is fresh.
LEMMA SaidIsFresh ==
    ASSUME NEW tr, TreeFits(tr), Root <= tr.last, NEW id
    PROVE  \/ Said(tr, id).status = "Ok" /\ Fresh(tr, id, Said(tr, id))
           \/ ~S!IsDirectory(tr, id) /\ ~S!IsFile(tr, id) /\ Said(tr, id) = Answer("NotFound")
<1>1. S!IsDirectory(tr, id) \/ S!IsFile(tr, id) => id <= tr.last
  BY SameApi DEF S!IsDirectory, S!IsFile, TreeFits
<1> QED
  BY <1>1, SaidIs, Infos3 DEF Fresh

\* A fresh answer may be entered.
LEMMA WithFresh ==
    ASSUME NEW tr, NEW c, Current(c, tr), NEW id, NEW info, Fresh(tr, id, info)
    PROVE  Current(With(c, id, info), tr)
BY DEF Current, With

\* What a task that looks at something has heard.
LEMMA HeardOf ==
    ASSUME NEW t, Tasks = {t}, IInv, Alone(t), answer[t] # NoAnswer
    PROVE  /\ request[t] = Asked(t) /\ Sent(t)
           /\ pc[t] = "directory sent" =>
                 answer[t] = S!ReadAnswer(tree, [op |-> "dir_info", node |-> node[t]])
           /\ pc[t] = "node sent" => answer[t] = Said(tree, node[t])
           /\ pc[t] = "write sent" /\ answer[t].status \notin Accepted =>
                 answer[t] \in S!Refusals(tree, WriteOf(operation[t])) /\ answer[t].status # "Locked"
<1>1. request[t] = Asked(t) /\ Sent(t)
  BY AnswerIsAsked
<1>2. CASE pc[t] = "directory sent"
  <2>1. Asked(t) = [op |-> "dir_info", node |-> node[t]] /\ Asked(t).op \in ReadOps
    BY <1>2 DEF Asked, ReadOps
  <2> QED
    BY <1>1, <1>2, <2>1 DEF Alone, Heard
<1>3. CASE pc[t] = "node sent"
  <2>1. Asked(t) = [op |-> "node_info", node |-> node[t]] /\ Asked(t).op \in ReadOps
    BY <1>3 DEF Asked, ReadOps
  <2> QED
    BY <1>1, <1>3, <2>1 DEF Alone, Heard, Said
<1>4. CASE pc[t] = "write sent"
  <2>1. Asked(t) = WriteOf(operation[t]) /\ operation[t].op \in FuseWrites
    BY <1>4 DEF Asked, IInv, TasksFit, Fit
  <2>2. Asked(t).op \in WriteOps
    BY <2>1 DEF WriteOf, RouteOf, FuseWrites, WriteOps, CreateOps, DeleteOps
  <2> QED
    BY <1>1, <1>4, <2>1, <2>2 DEF Alone, Heard
<1> QED
  BY <1>1, <1>2, <1>3, <1>4 DEF Sent

\* A request is done with.
LEMMA ReturnIsQuiet ==
    ASSUME NEW t, Tasks = {t}, IInv, S!Return(t)
    PROVE  tree' = tree /\ answer'[t] = NoAnswer /\ request'[t].op \notin ReadOps
<1>1. /\ request' = [request EXCEPT ![t] = NoRequest] /\ tree' = tree
      /\ answer' = [answer EXCEPT ![t] = NoAnswer]
  BY SameApi DEF S!Return
<1>2. request'[t] = NoRequest /\ answer'[t] = NoAnswer
  BY <1>1 DEF IInv, ServerInv, ServerFits
<1> QED
  BY <1>1, <1>2 DEF NoRequest, ReadOps

\* One cache is written.
LEMMA UpdateIs ==
    ASSUME NEW t, Tasks = {t}, IInv, NEW STATE c, Update(t, c)
    PROVE  cache'[Client[t]] = c /\ \A d \in Clients \ {Client[t]} : cache'[d] = cache[d]
<1>1. Client[t] \in Clients /\ cache = [d \in Clients |-> cache[d]]
  BY ClientAssumption DEF IInv, CachesFit
<1> QED
  BY <1>1 DEF Update

\* The directory that arrives is the one that is there.
LEMMA DirectoryArrivesAlone ==
    ASSUME NEW t, Tasks = {t}, IInv, Alone(t), DirectoryArrives(t)
    PROVE  Alone(t)'
<1> DEFINE a == answer[t]
           c == With(cache[Client[t]], node[t], a)
<1>1. /\ pc[t] = "directory sent" /\ a.status = "Ok" /\ S!Return(t) /\ Update(t, c)
      /\ Found(t, a) /\ operation' = operation
  BY DEF DirectoryArrives, Arrived
<1>2. a # NoAnswer /\ a.status \notin Accepted
  BY <1>1, NoAnswerIsNone DEF Accepted
<1>3. TreeFits(tree) /\ Root <= tree.last
  BY DEF Alone, IInv, ServerInv, ServerFits, Root
<1>4. a = Said(tree, node[t]) /\ a.kind = "directory"
  <2>1. a = S!ReadAnswer(tree, [op |-> "dir_info", node |-> node[t]])
    BY <1>1, <1>2, HeardOf
  <2>2. \/ a = Said(tree, node[t]) /\ a.kind = "directory"
        \/ a = Answer("NotADirectory")
        \/ a = Answer("NotFound")
    BY <1>3, <2>1, SaidOfDirectory
  <2> QED
    BY <1>1, <2>2, NotFoundIsNotOk
<1>5. Fresh(tree, node[t], a)
  <2>1. \/ Said(tree, node[t]).status = "Ok" /\ Fresh(tree, node[t], Said(tree, node[t]))
        \/ Said(tree, node[t]) = Answer("NotFound")
    BY <1>3, SaidIsFresh
  <2> QED
    BY <1>1, <1>4, <2>1, NotFoundIsNotOk
<1>6. Current(cache[Client[t]], tree)
  BY <1>2, UnheardIsSettled DEF Alone
<1>7. Current(c, tree)
  BY <1>5, <1>6, WithFresh
<1> HIDE DEF c, a
<1>8. tree' = tree /\ answer'[t] = NoAnswer /\ request'[t].op \notin ReadOps
  BY <1>1, ReturnIsQuiet
<1>9. cache'[Client[t]] = c /\ \A d \in Clients \ {Client[t]} : cache'[d] = cache[d]
  BY <1>1, UpdateIs DEF c, a
<1>10. Aimed(t)' /\ (pc'[t] = "replied" => PosixReply(tree, operation'[t], reply'[t]))
  BY <1>1, <1>4, <1>5, <1>8, FoundAlone DEF a
<1> QED
  BY <1>7, <1>8, <1>9, <1>10, StillAlone

\* So is the node; a lookup has found it before.
LEMMA NodeArrivesAlone ==
    ASSUME NEW t, Tasks = {t}, IInv, Alone(t), NodeArrives(t)
    PROVE  Alone(t)'
<1> DEFINE a == answer[t]
           c == With(cache[Client[t]], node[t], a)
<1>1. /\ pc[t] = "node sent" /\ a.status = "Ok" /\ S!Return(t) /\ Update(t, c)
      /\ pc' = [pc EXCEPT ![t] = "replied"] /\ reply' = [reply EXCEPT ![t] = "ok"]
      /\ operation' = operation /\ node' = node
  BY DEF NodeArrives, Arrived, Reply, Go
<1>2. a # NoAnswer /\ a.status \notin Accepted
  BY <1>1, NoAnswerIsNone DEF Accepted
<1>3. TreeFits(tree) /\ Root <= tree.last
  BY DEF Alone, IInv, ServerInv, ServerFits, Root
<1>4. a = Said(tree, node[t])
  BY <1>1, <1>2, HeardOf
<1>5. Fresh(tree, node[t], a)
  <2>1. \/ Said(tree, node[t]).status = "Ok" /\ Fresh(tree, node[t], Said(tree, node[t]))
        \/ Said(tree, node[t]) = Answer("NotFound")
    BY <1>3, SaidIsFresh
  <2> QED
    BY <1>1, <1>4, <2>1, NotFoundIsNotOk
<1>6. Current(cache[Client[t]], tree)
  BY <1>2, UnheardIsSettled DEF Alone
<1>7. Current(c, tree)
  BY <1>5, <1>6, WithFresh
<1>8. tree' = tree /\ answer'[t] = NoAnswer /\ request'[t].op \notin ReadOps
  BY <1>1, ReturnIsQuiet
<1>9. cache'[Client[t]] = c /\ \A d \in Clients \ {Client[t]} : cache'[d] = cache[d]
  <2> HIDE DEF c
  <2> QED
    BY <1>1, UpdateIs
<1> HIDE DEF c, a
<1>10. pc'[t] = "replied" /\ reply'[t] = "ok"
  BY <1>1 DEF IInv, TypeOK
<1>11. Aimed(t)'
  BY <1>10 DEF Aimed
<1>12. PosixReply(tree, operation[t], "ok")
  <2>1. CASE operation[t].op = "lookup"
    <3>1. /\ S!IsDirectory(tree, operation[t].node)
          /\ S!LinksAt(tree, operation[t].node, operation[t].name) # {}
      BY <1>1, <2>1 DEF Alone, Aimed
    <3> QED
      BY <1>3, <2>1, <3>1, LookupFinds
  <2>2. CASE operation[t].op # "lookup"
    BY <2>2 DEF PosixReply
  <2> QED
    BY <2>1, <2>2
<1> QED
  BY <1>1, <1>7, <1>8, <1>9, <1>10, <1>11, <1>12, StillAlone

\* The cache becomes what the write has made of the tree.
LEMMA WriteArrivesAlone ==
    ASSUME NEW t, Tasks = {t}, IInv, Alone(t), WriteArrives(t)
    PROVE  Alone(t)'
<1>1. /\ pc[t] = "write sent" /\ answer[t].status \in Accepted /\ S!Return(t)
      /\ pc' = [pc EXCEPT ![t] = "replied"] /\ reply' = [reply EXCEPT ![t] = "ok"]
      /\ operation' = operation /\ node' = node
  BY DEF WriteArrives, Reply, Go
<1>2. Update(t, Settled(t)) /\ operation[t].op # "lookup"
  BY <1>1 DEF WriteArrives, Settled
<1>3. tree' = tree /\ answer'[t] = NoAnswer /\ request'[t].op \notin ReadOps
  BY <1>1, ReturnIsQuiet
<1>4. cache'[Client[t]] = Settled(t) /\ \A d \in Clients \ {Client[t]} : cache'[d] = cache[d]
  BY <1>2, UpdateIs
<1>5. Current(cache'[Client[t]], tree)
  BY <1>4 DEF Alone
<1>6. pc'[t] = "replied" /\ reply'[t] = "ok"
  BY <1>1 DEF IInv, TypeOK
<1>7. Aimed(t)' /\ PosixReply(tree, operation[t], "ok")
  BY <1>2, <1>6 DEF Aimed, PosixReply
<1> QED
  BY <1>1, <1>3, <1>4, <1>5, <1>6, <1>7, StillAlone

\* A refusal has the number of what is in the way.
LEMMA RefusalIsPosix ==
    ASSUME NEW tr, tr.links \subseteq EntryRows, NEW o \in FuseOperations, o.op \in FuseWrites,
           NEW a \in S!Refusals(tr, WriteOf(o)), a.status # "Locked",
           NEW type, type = IF o.op \in {"mkdir", "create"} THEN "CreateNode"
                            ELSE IF o.op = "rmdir" THEN "DeleteDirectory" ELSE "DeleteFile"
    PROVE  PosixReply(tr, o, Errno[From(decode_errors(IntoResponse(a.status)), type)])
<1> DEFINE r == WriteOf(o)
           found == S!LinksAt(tr, o.node, o.name)
           number == Errno[From(decode_errors(IntoResponse(a.status)), type)]
<1>0. r.op = RouteOf(o.op) /\ r.node = o.node /\ r.name = o.name
  BY DEF WriteOf
<1>00. o.op # "lookup" /\ o.op \notin {"getattr", "readdir"}
  BY DEF FuseWrites
<1>1. \A e \in Errnos : Cause(tr, o, e) => PosixReply(tr, o, e)
  BY <1>00 DEF PosixReply
<1>2. \A s : Answer(s).status = s
  BY Infos3
<1>3. CASE o.op \in {"mkdir", "create"}
  <2>1. r.op \in CreateOps /\ r.op \notin DeleteOps /\ type = "CreateNode"
    BY <1>0, <1>3 DEF RouteOf, CreateOps, DeleteOps
  <2>2. CASE ~S!IsDirectory(tr, o.node)
    BY <1>00, <1>3, <2>2 DEF PosixReply
  <2>3. CASE S!IsDirectory(tr, o.node)
    <3>1. PICK e \in found : a = Located("AlreadyExists", e.kind, e.child)
      BY <1>0, <1>2, <2>1, <2>3, SameApi DEF S!Refusals, DeleteOps
    <3>2. a.status = "AlreadyExists"
      BY <3>1 DEF Located
    <3>3. number = "EEXIST"
      BY <2>1, <3>2, ErrorNumbers
    <3>4. Cause(tr, o, "EEXIST")
      BY <1>00, <1>3, <3>1 DEF Cause
    <3> QED
      BY <1>1, <3>3, <3>4, ErrorNumbers
  <2> QED
    BY <2>2, <2>3
<1>4. CASE o.op \in {"rmdir", "unlink"}
  <2>1. /\ r.op \in DeleteOps /\ r.op \notin CreateOps
        /\ o.op = "rmdir" => r.op = "delete_dir" /\ type = "DeleteDirectory"
        /\ o.op = "unlink" => r.op = "delete_file" /\ type = "DeleteFile"
    BY <1>0, <1>4 DEF RouteOf, CreateOps, DeleteOps
  <2>2. \/ \E e \in found : a = WrongKind(r.op) /\ e.kind # WantedKind(r.op)
        \/ \E e \in found : /\ a = Answer("DirectoryNotEmpty") /\ r.op = "delete_dir"
                            /\ S!LinksOf(tr, e.child) # {}
        \/ found = {} /\ S!IsFile(tr, o.node) /\ a = Answer("NotADirectory")
        \/ found = {} /\ ~S!IsFile(tr, o.node) /\ a = Answer("NotFound")
    BY <1>0, <1>2, <2>1, SameApi DEF S!Refusals, CreateOps
  <2>3. ASSUME NEW e \in found, a = WrongKind(r.op), e.kind # WantedKind(r.op)
        PROVE  PosixReply(tr, o, number)
    <3>1. e.kind \in {"file", "directory"}
      BY DEF S!LinksAt, EntryRows, Kinds
    <3>2. CASE o.op = "rmdir"
      <4>1. a.status = "NotADirectory" /\ e.kind = "file"
        BY <1>2, <2>1, <2>3, <3>1, <3>2 DEF WrongKind, WantedKind
      <4>2. number = "ENOTDIR"
        BY <2>1, <3>2, <4>1, ErrorNumbers
      <4>3. Cause(tr, o, "ENOTDIR")
        BY <1>00, <3>2, <4>1 DEF Cause
      <4> QED
        BY <1>1, <4>2, <4>3, ErrorNumbers
    <3>3. CASE o.op = "unlink"
      <4>1. a.status = "NotAFile" /\ e.kind = "directory"
        BY <1>2, <2>1, <2>3, <3>1, <3>3 DEF WrongKind, WantedKind
      <4>2. number = "EISDIR"
        BY <2>1, <3>3, <4>1, ErrorNumbers
      <4>3. Cause(tr, o, "EISDIR")
        BY <1>00, <3>3, <4>1 DEF Cause
      <4> QED
        BY <1>1, <4>2, <4>3, ErrorNumbers
    <3> QED
      BY <1>4, <3>2, <3>3
  <2>4. ASSUME NEW e \in found, a = Answer("DirectoryNotEmpty"), r.op = "delete_dir",
               S!LinksOf(tr, e.child) # {}
        PROVE  PosixReply(tr, o, number)
    <3>1. o.op = "rmdir"
      BY <1>4, <2>1, <2>4
    <3>2. number = "ENOTEMPTY"
      BY <1>2, <2>1, <2>4, <3>1, ErrorNumbers
    <3>3. Cause(tr, o, "ENOTEMPTY")
      BY <1>00, <2>4, <3>1 DEF Cause
    <3> QED
      BY <1>1, <3>2, <3>3, ErrorNumbers
  <2>5. ASSUME found = {}, a = Answer("NotADirectory"), S!IsFile(tr, o.node)
        PROVE  PosixReply(tr, o, number)
    <3>1. number = "ENOTDIR"
      BY <1>2, <1>4, <2>1, <2>5, ErrorNumbers
    <3>2. Cause(tr, o, "ENOTDIR")
      BY <1>00, <2>5 DEF Cause
    <3> QED
      BY <1>1, <3>1, <3>2, ErrorNumbers
  <2>6. ASSUME found = {}, a = Answer("NotFound"), ~S!IsFile(tr, o.node)
        PROVE  PosixReply(tr, o, number)
    <3>1. number = "ENOENT"
      BY <1>2, <1>4, <2>1, <2>6, ErrorNumbers
    <3>2. Cause(tr, o, "ENOENT")
      BY <1>00, <1>4, <2>6 DEF Cause
    <3> QED
      BY <1>1, <3>1, <3>2, ErrorNumbers
  <2>7. PosixReply(tr, o, number)
    <3> HIDE DEF number, found, r
    <3> QED
      BY <2>2, <2>3, <2>4, <2>5, <2>6
  <2> QED
    BY <2>7
<1> QED
  BY <1>3, <1>4 DEF FuseWrites

\* An error is the one of what is so: a lookup meets none after it has found a
\* child.
LEMMA ErrorAlone ==
    ASSUME NEW t, Tasks = {t}, IInv, Alone(t), ErrorArrives(t)
    PROVE  Alone(t)'
<1> DEFINE a == answer[t]
           o == operation[t]
           error == decode_errors(IntoResponse(a.status))
           number == IF pc[t] = "node sent" /\ o.op = "lookup" THEN "panic"
                     ELSE IF pc[t] = "node sent" /\ o.op = "getattr" THEN "ENOENT"
                     ELSE Errno[From(error, ErrorType(t))]
<1>1. /\ Sent(t) /\ a # NoAnswer /\ a.status # "Ok" /\ a.status \notin Accepted /\ S!Return(t)
      /\ pc' = [pc EXCEPT ![t] = "replied"] /\ reply' = [reply EXCEPT ![t] = number]
      /\ UNCHANGED <<ever, cache, operation, node>>
  BY DEF ErrorArrives, ReplyError, Reply, Go
<1>2. TreeFits(tree) /\ Root <= tree.last /\ tree.links \subseteq EntryRows
  BY DEF Alone, IInv, ServerInv, ServerFits, Root
<1>3. o \in FuseOperations /\ (pc[t] = "write sent" => o.op \in FuseWrites)
      /\ (pc[t] = "directory sent" => o.op \in {"lookup", "readdir"})
  BY <1>1 DEF Sent, IInv, TasksFit, Fit
<1>30. \A s : Answer(s).status = s
  BY Infos3
<1>31. pc[t] = "directory sent" => number = Errno[From(error, "FetchDirectory")]
  BY <1>3 DEF ErrorType
<1>32. pc[t] = "node sent" =>
          /\ o.op \in {"lookup", "getattr", "readdir"}
          /\ o.op = "getattr" => number = "ENOENT"
          /\ o.op = "readdir" => number = Errno[From(error, "FetchNode")]
  <2> SUFFICES ASSUME pc[t] = "node sent"
               PROVE  /\ o.op \in {"lookup", "getattr", "readdir"}
                      /\ o.op = "getattr" => number = "ENOENT"
                      /\ o.op = "readdir" => number = Errno[From(error, "FetchNode")]
    OBVIOUS
  <2>1. o.op \in {"lookup", "getattr", "readdir"}
    BY DEF Alone, Aimed
  <2> QED
    BY <2>1 DEF ErrorType
<1>33. pc[t] = "write sent" => number = Errno[From(error, ErrorType(t))]
  OBVIOUS
<1> HIDE DEF number
<1>4. ASSUME pc[t] = "directory sent" PROVE PosixReply(tree, o, number)
  <2>1. node[t] = o.node
    BY <1>4 DEF Alone, Aimed
  <2>2. a = S!ReadAnswer(tree, [op |-> "dir_info", node |-> o.node])
    BY <1>1, <1>4, <2>1, HeardOf
  <2>3. \/ S!IsFile(tree, o.node) /\ a = Answer("NotADirectory")
        \/ ~S!IsDirectory(tree, o.node) /\ ~S!IsFile(tree, o.node) /\ a = Answer("NotFound")
    BY <1>1, <1>2, <2>2, SaidOfDirectory
  <2>4. number = Errno[From(error, "FetchDirectory")]
    BY <1>4, <1>31
  <2>5. ASSUME S!IsFile(tree, o.node), a = Answer("NotADirectory")
        PROVE  PosixReply(tree, o, number)
    <3>1. number = "ENOTDIR"
      BY <1>30, <2>4, <2>5, ErrorNumbers
    <3>2. Cause(tree, o, "ENOTDIR")
      BY <1>3, <1>4, <2>5 DEF Cause
    <3> QED
      BY <3>1, <3>2, ErrorNumbers DEF PosixReply
  <2>6. ASSUME ~S!IsDirectory(tree, o.node), ~S!IsFile(tree, o.node), a = Answer("NotFound")
        PROVE  PosixReply(tree, o, number)
    <3>1. number = "ENOENT"
      BY <1>30, <2>4, <2>6, ErrorNumbers
    <3>2. Cause(tree, o, "ENOENT")
      BY <2>6 DEF Cause
    <3> QED
      BY <3>1, <3>2, ErrorNumbers DEF PosixReply
  <2> QED
    BY <2>3, <2>5, <2>6
<1>5. ASSUME pc[t] = "node sent" PROVE PosixReply(tree, o, number)
  <2>1. a = Said(tree, node[t])
    BY <1>1, <1>5, HeardOf
  <2>2. ~S!IsDirectory(tree, node[t]) /\ ~S!IsFile(tree, node[t]) /\ a = Answer("NotFound")
    BY <1>1, <1>2, <2>1, SaidIsFresh
  <2>3. o.op # "lookup"
    <3> SUFFICES ASSUME o.op = "lookup" PROVE FALSE
      OBVIOUS
    <3>1. PICK l \in S!LinksAt(tree, o.node, o.name) : l.child = node[t]
      BY <1>5 DEF Alone, Aimed
    <3>2. l \in tree.links /\ l.kind \in {"file", "directory"}
      BY <1>2, <3>1 DEF S!LinksAt, EntryRows, Kinds
    <3> QED
      BY <2>2, <3>1, <3>2 DEF S!IsDirectory, S!IsFile
  <2>4. node[t] = o.node
    BY <1>5, <2>3 DEF Alone, Aimed
  <2>5. Cause(tree, o, "ENOENT")
    BY <2>2, <2>4 DEF Cause
  <2>6. Errno[From(error, "FetchNode")] = "ENOENT"
    BY <1>30, <2>2, ErrorNumbers
  <2>7. number = "ENOENT"
    BY <1>5, <1>32, <2>3, <2>6
  <2> QED
    BY <2>5, <2>7, ErrorNumbers DEF PosixReply
<1>6. ASSUME pc[t] = "write sent" PROVE PosixReply(tree, o, number)
  <2>1. a \in S!Refusals(tree, WriteOf(o)) /\ a.status # "Locked"
    BY <1>1, <1>6, HeardOf
  <2>2. ErrorType(t) = IF o.op \in {"mkdir", "create"} THEN "CreateNode"
                       ELSE IF o.op = "rmdir" THEN "DeleteDirectory" ELSE "DeleteFile"
    BY <1>3, <1>6 DEF ErrorType, FuseWrites
  <2>3. number = Errno[From(error, ErrorType(t))]
    BY <1>6, <1>33
  <2>4. o.op \in FuseWrites
    BY <1>3, <1>6
  <2>5. PosixReply(tree, o, Errno[From(decode_errors(IntoResponse(a.status)), ErrorType(t))])
    <3> HIDE DEF a, o
    <3> QED
      BY <1>2, <1>3, <2>1, <2>2, <2>4, RefusalIsPosix
  <2> QED
    BY <2>3, <2>5
<1>7. PosixReply(tree, o, number)
  BY <1>1, <1>4, <1>5, <1>6 DEF Sent
<1>8. Current(cache[Client[t]], tree)
  BY <1>1, UnheardIsSettled DEF Alone
<1>9. tree' = tree /\ answer'[t] = NoAnswer /\ request'[t].op \notin ReadOps
  BY <1>1, ReturnIsQuiet
<1>10. pc'[t] = "replied" /\ reply'[t] = number
  BY <1>1 DEF IInv, TypeOK
<1>11. Aimed(t)'
  BY <1>10 DEF Aimed
<1> QED
  BY <1>1, <1>7, <1>8, <1>9, <1>10, <1>11, StillAlone

\* The server does what it is asked for: the tree and the cache that is to
\* become its image change together.
LEMMA ServeAlone ==
    ASSUME NEW t, Tasks = {t}, IInv, Alone(t), Serve(t), answer'[t].status # "Locked"
    PROVE  Alone(t)'
<1> DEFINE r == request[t]
           o == operation[t]
           c == cache[Client[t]]
<1>1. /\ answer[t] = NoAnswer /\ r.op \in ReadOps \cup WriteOps
      /\ UNCHANGED <<cache, pc, operation, node, reply>>
  BY SameApi DEF Serve, S!Create, S!Delete, S!Refuse, S!Read, S!Pending, WriteOps
<1>2. r = Asked(t) /\ Sent(t)
  <2>1. r # NoRequest
    BY <1>1 DEF NoRequest, ReadOps, WriteOps, CreateOps, DeleteOps
  <2> QED
    BY <2>1 DEF IInv, TasksFit, Fit, Asked, Sent
<1>3. ReadOps \cap WriteOps = {} /\ CreateOps \cap DeleteOps = {}
      /\ CreateOps \subseteq WriteOps /\ DeleteOps \subseteq WriteOps
  BY DEF ReadOps, WriteOps, CreateOps, DeleteOps
<1>4. r.op \in WriteOps => /\ pc[t] = "write sent" /\ r = WriteOf(o)
                           /\ o.op \in FuseWrites /\ o \in FuseOperations
  <2>1. pc[t] = "write sent" => /\ Asked(t) = WriteOf(o) /\ o.op \in FuseWrites /\ o \in FuseOperations
    BY DEF Asked, IInv, TasksFit, Fit
  <2>2. pc[t] \in {"directory sent", "node sent"} => Asked(t).op \in ReadOps
    BY DEF Asked, ReadOps
  <2> QED
    BY <1>2, <1>3, <2>1, <2>2 DEF Sent
<1>5. /\ TreeFits(tree) /\ tree.last \in Nat /\ tree.last >= Root /\ tree.links \subseteq EntryRows
      /\ tree = [last |-> tree.last, links |-> tree.links]
  BY DEF Alone, IInv, ServerInv, ServerFits
<1>6. /\ DOMAIN c \subseteq NodeIds /\ \A i \in DOMAIN c : c[i] \in Infos
      /\ Current(c, tree)
  BY <1>1, UnheardIsSettled, ClientAssumption DEF Alone, IInv, TypeOK
<1>7. pc[t] # "replied" /\ RepliesArePosix'
  BY <1>1, <1>2, PosixIsCause DEF Sent
<1>8. \A d \in Clients \ {Client[t]} : DOMAIN cache'[d] = {}
  BY <1>1 DEF Alone
<1>9. WriteOf(o).op = RouteOf(o.op) /\ WriteOf(o).node = o.node /\ WriteOf(o).name = o.name
  BY DEF WriteOf
<1>10. CASE S!Create(t)
  <2> DEFINE kind == WantedKind(r.op)
             id == tree.last + 1
             new == [last |-> id, links |-> tree.links \cup
                        {[parent |-> o.node, name |-> o.name, kind |-> kind, child |-> id]}]
             a == Located("Created", kind, id)
             info == IF o.op = "mkdir" THEN DirectoryInfo(o.node, {}) ELSE FileInfo
  <2>1. r.op \in CreateOps /\ r.op \notin ReadOps
    BY <1>3, <1>10, SameApi DEF S!Create, S!Pending
  <2>2. r.node = o.node /\ r.name = o.name /\ o.op \in {"mkdir", "create"}
        /\ (kind = "directory" <=> o.op = "mkdir") /\ kind \in Kinds
    <3>1. r.op = RouteOf(o.op) /\ o.op \in FuseWrites /\ r.node = o.node /\ r.name = o.name
      BY <1>3, <1>4, <1>9, <2>1
    <3> QED
      BY <2>1, <3>1 DEF RouteOf, FuseWrites, CreateOps, WantedKind, Kinds
  <2>3. /\ S!IsDirectory(tree, o.node) /\ S!LinksAt(tree, o.node, o.name) = {}
        /\ tree' = new /\ answer' = [answer EXCEPT ![t] = a] /\ request' = request
    BY <1>10, <2>2, SameApi DEF S!Create, S!Becomes
  <2>4. o.node \in NodeIds
    BY <1>3, <1>4, <2>1, <2>2 DEF FuseOperations, FuseWrites
  <2>5. answer'[t] = a
    BY <2>3 DEF IInv, ServerInv, ServerFits
  <2>6. a.status = "Created" /\ a.node = id
    BY DEF Located
  <2>7. info = IF kind = "directory" THEN DirectoryInfo(o.node, {}) ELSE FileInfo
    BY <2>2
  <2> HIDE DEF a
  <2>8. Settled(t)' = WithLink(With(c, id, info), o.node, o.name, id)
    BY <1>1, <2>2, <2>5, <2>6 DEF Settled, Accepted
  <2>9. /\ TreeFits(new)
        /\ Current(WithLink(With(c, id, IF kind = "directory" THEN DirectoryInfo(o.node, {}) ELSE FileInfo),
                            o.node, o.name, id), new)
    <3> HIDE DEF c, o, kind
    <3> QED
      BY <1>5, <1>6, <2>2, <2>3, <2>4, CreateSettles
  <2> HIDE DEF info, new
  <2>10. TreeFits(tree') /\ Current(Settled(t)', tree')
    BY <2>3, <2>7, <2>8, <2>9
  <2>11. Heard(t)'
    BY <2>1, <2>3, <2>5, <2>6 DEF Heard, Accepted
  <2>12. Aimed(t)'
    BY <1>1, <1>3, <1>4, <2>1 DEF Aimed
  <2> QED
    BY <1>7, <1>8, <2>10, <2>11, <2>12 DEF Alone
<1>11. CASE S!Delete(t)
  <2>1. r.op \in DeleteOps /\ r.op \notin ReadOps
    BY <1>3, <1>11, SameApi DEF S!Delete, S!Pending
  <2>2. r.node = o.node /\ r.name = o.name /\ o.op \notin {"mkdir", "create"}
    <3>1. r.op = RouteOf(o.op) /\ o.op \in FuseWrites /\ r.node = o.node /\ r.name = o.name
      BY <1>3, <1>4, <1>9, <2>1
    <3> QED
      BY <2>1, <3>1 DEF RouteOf, FuseWrites, DeleteOps
  <2>3. PICK e \in S!LinksAt(tree, o.node, o.name) :
           /\ S!LinksOf(tree, e.child) = {}
           /\ tree' = [tree EXCEPT !.links = @ \ {e}]
    BY <1>11, <2>2 DEF S!Delete, S!Becomes
  <2>4. answer' = [answer EXCEPT ![t] = Answer("NoContent")] /\ request' = request
    BY <1>11, SameApi DEF S!Delete
  <2>5. answer'[t].status = "NoContent"
    <3>1. answer'[t] = Answer("NoContent")
      BY <2>4 DEF IInv, ServerInv, ServerFits
    <3> QED
      BY <3>1 DEF Answer
  <2>6. Settled(t)' = Forgotten(c, o.node, o.name)
    BY <1>1, <2>2, <2>5 DEF Settled, Accepted
  <2>7. e \in tree.links /\ e.parent = o.node /\ e.name = o.name
    BY <2>3 DEF S!LinksAt
  <2>8. tree'.last = tree.last /\ tree'.links = tree.links \ {e}
    BY <1>5, <2>3
  <2>9. TreeFits(tree') /\ Current(Settled(t)', tree')
    <3> HIDE DEF c, o
    <3>1. TreeFits(tree') /\ Current(Forgotten(c, e.parent, e.name), tree')
      BY <1>5, <1>6, <2>3, <2>7, <2>8, DeleteSettles
    <3> QED
      BY <2>6, <2>7, <3>1
  <2>10. Heard(t)'
    BY <2>1, <2>4, <2>5 DEF Heard, Accepted
  <2>11. Aimed(t)'
    BY <1>1, <1>3, <1>4, <2>1 DEF Aimed
  <2> QED
    BY <1>7, <1>8, <2>9, <2>10, <2>11 DEF Alone
<1>12. CASE S!Refuse(t)
  <2>1. PICK a \in S!Refusals(tree, r) : answer' = [answer EXCEPT ![t] = a]
    BY <1>12 DEF S!Refuse
  <2>2. r.op \in WriteOps /\ r.op \notin ReadOps /\ UNCHANGED <<tree, request, possible>>
    BY <1>3, <1>12, SameApi DEF S!Refuse, S!Pending
  <2>3. r \in WriteRequests
    BY <1>3, <2>2 DEF IInv, ServerInv, ServerFits, Requests, ReadRequests, NoRequest,
                      WriteOps, CreateOps, DeleteOps
  <2>4. a.status \notin Accepted
    BY <1>5, <2>3, RefusalsAreNone DEF Accepted
  <2>5. answer'[t] = a
    BY <2>1 DEF IInv, ServerInv, ServerFits
  <2>6. Settled(t)' = c
    BY <1>1, <2>4, <2>5 DEF Settled
  <2>7. Heard(t)'
    BY <2>1, <2>2, <2>5 DEF Heard
  <2>8. Aimed(t)'
    BY <1>1, <1>4, <2>2 DEF Aimed
  <2> QED
    BY <1>5, <1>6, <1>7, <1>8, <2>2, <2>6, <2>7, <2>8 DEF Alone
<1>13. CASE S!Read(t)
  <2>1. PICK a \in possible[t] \cup {Answer("Locked")} : answer' = [answer EXCEPT ![t] = a]
    BY <1>13, SameApi DEF S!Read
  <2>2. r.op \in ReadOps /\ r.op \notin WriteOps /\ UNCHANGED <<tree, request, possible>>
    BY <1>3, <1>13, SameApi DEF S!Read, S!Pending
  <2>3. answer'[t] = a
    BY <2>1 DEF IInv, ServerInv, ServerFits
  <2>4. a = S!ReadAnswer(tree, r) /\ possible[t] = {S!ReadAnswer(tree, r)}
    <3>1. Answer("Locked").status = "Locked"
      BY DEF Answer
    <3> QED
      BY <2>1, <2>2, <2>3, <3>1 DEF Alone, Heard
  <2>5. a.status \notin Accepted
    <3>1. a = FileInfo \/ a = DirectoryInfo(S!ParentOf(tree, r.node), S!LinksOf(tree, r.node))
          \/ a = Answer("NotADirectory") \/ a = Answer("NotAFile") \/ a = Answer("NotFound")
      BY <2>4, SameApi DEF S!ReadAnswer, WrongKind
    <3>2. /\ FileInfo.status = "Ok"
          /\ \A p, own : DirectoryInfo(p, own).status = "Ok"
          /\ Answer("NotADirectory").status = "NotADirectory" /\ Answer("NotAFile").status = "NotAFile"
          /\ Answer("NotFound").status = "NotFound"
      BY Infos3
    <3> QED
      BY <3>1, <3>2 DEF Accepted
  <2>6. Settled(t)' = c
    BY <1>1, <2>3, <2>5 DEF Settled
  <2>7. Heard(t)'
    BY <2>2, <2>3, <2>4 DEF Heard
  <2>8. Aimed(t)'
    BY <1>1, <2>2 DEF Alone, Aimed
  <2> QED
    BY <1>5, <1>6, <1>7, <1>8, <2>2, <2>6, <2>7, <2>8 DEF Alone
<1> QED
  BY <1>10, <1>11, <1>12, <1>13 DEF Serve

-----------------------------------------------------------------------------

\* A lone client knows nothing at first.
LEMMA InitAlone ==
    ASSUME NEW t, Tasks = {t}, Init
    PROVE  Alone(t)
<1>1. /\ tree = [last |-> Root, links |-> {}]
      /\ request = [u \in Tasks |-> NoRequest] /\ answer = [u \in Tasks |-> NoAnswer]
      /\ cache = [c \in Clients |-> [id \in {} |-> NoAnswer]] /\ pc = [u \in Tasks |-> "idle"]
  BY SameApi DEF Init, S!Init
<1>2. TreeFits(tree)
  BY <1>1 DEF TreeFits
<1>3. \A c \in Clients : DOMAIN cache[c] = {}
  BY <1>1
<1>4. answer[t] = NoAnswer /\ request[t] = NoRequest /\ pc[t] = "idle" /\ Client[t] \in Clients
  BY <1>1, ClientAssumption
<1>5. Current(Settled(t), tree)
  BY <1>3, <1>4, UnheardIsSettled DEF Current
<1>6. Heard(t) /\ Aimed(t)
  BY <1>4 DEF Heard, Aimed, NoRequest, ReadOps, WriteOps, CreateOps, DeleteOps
<1>7. RepliesArePosix
  BY <1>4 DEF RepliesArePosix
<1> QED
  BY <1>2, <1>3, <1>5, <1>6, <1>7 DEF Alone

\* An undisturbed client takes no other steps than any client may take.
LEMMA UndisturbedIsSpec == UndisturbedSpec => Spec
<1>1. NextUndisturbed => Next
  BY DEF NextUndisturbed, Next
<1>2. [NextUndisturbed]_vars => [Next]_vars
  BY <1>1
<1> QED
  BY <1>2, PTL DEF UndisturbedSpec, Spec

\* The invariant of a client that is alone.
LEMMA AloneInvariance ==
    ASSUME NEW t, Tasks = {t}
    PROVE  UndisturbedSpec => []Alone(t)
<1>1. Init => Alone(t)
  BY InitAlone
<1>2. IInv /\ Alone(t) /\ [NextUndisturbed]_vars => Alone(t)'
  <2> SUFFICES ASSUME IInv, Alone(t), [NextUndisturbed]_vars PROVE Alone(t)'
    OBVIOUS
  <2>1. CASE NextUndisturbed
    BY <2>1, BeginAlone, DoneAlone, DirectoryCachedAlone, NodeCachedAlone, SendAlone,
       DirectoryArrivesAlone, NodeArrivesAlone, WriteArrivesAlone, ErrorAlone, ServeAlone
    DEF NextUndisturbed, Work
  <2>2. CASE UNCHANGED vars
    <3>1. /\ tree' = tree /\ cache' = cache /\ answer' = answer /\ request' = request
          /\ possible' = possible /\ operation' = operation /\ node' = node /\ pc' = pc /\ reply' = reply
      BY <2>2 DEF vars, server
    <3>2. Settled(t)' = Settled(t)
      BY <3>1 DEF Settled
    <3>3. (Heard(t) => Heard(t)') /\ (Aimed(t) => Aimed(t)')
      BY <3>1 DEF Heard, Aimed
    <3>4. RepliesArePosix => RepliesArePosix'
      BY <3>1, PosixIsCause
    <3> QED
      BY <3>1, <3>2, <3>3, <3>4 DEF Alone
  <2> QED
    BY <2>1, <2>2
<1> QED
  BY <1>1, <1>2, UndisturbedIsSpec, Invariance, PTL DEF UndisturbedSpec

\* A client that is alone and does one thing at a time has in its cache what
\* the server has.
THEOREM LoneCacheIsCurrent ==
    ASSUME NEW t, Tasks = {t}
    PROVE  UndisturbedSpec => []CacheIsCurrent
<1>1. IInv /\ Alone(t) => CacheIsCurrent
  <2> SUFFICES ASSUME IInv, Alone(t), pc[t] = "idle", NEW c \in Clients, NEW id \in DOMAIN cache[c]
               PROVE  Said(tree, id) \in {cache[c][id], Answer("NotFound")}
    BY SameApi DEF CacheIsCurrent, Said
  <2>1. c = Client[t]
    BY DEF Alone
  <2>2. answer[t] = NoAnswer
    BY NothingAsked DEF Sent
  <2>3. Current(cache[c], tree)
    BY <2>1, <2>2, UnheardIsSettled DEF Alone
  <2> QED
    BY <2>3 DEF Current, Fresh
<1> QED
  BY <1>1, AloneInvariance, UndisturbedIsSpec, Invariance, PTL

\* The errors it hears are the ones POSIX names for the state of the tree, and
\* a lookup that succeeds finds what is there.
THEOREM LoneRepliesArePosix ==
    ASSUME NEW t, Tasks = {t}
    PROVE  UndisturbedSpec => []RepliesArePosix
<1>1. Alone(t) => RepliesArePosix
  BY DEF Alone
<1> QED
  BY <1>1, AloneInvariance, PTL

-----------------------------------------------------------------------------
(* The server                                                              *)

\* What a task sends is a request the routes know.
LEMMA SentIsRequest ==
    ASSUME IInv, NEW t \in Tasks, FetchDirectory(t) \/ FetchNode(t) \/ SendWrite(t)
    PROVE  \E r \in Requests : S!Call(t, r)
<1>1. pc[t] # "idle" => node[t] \in NodeIds /\ operation[t] \in FuseOperations
  BY DEF IInv, TasksFit, Fit
<1>2. CASE FetchDirectory(t)
  <2>1. [op |-> "dir_info", node |-> node[t]] \in Requests
    BY <1>1, <1>2 DEF FetchDirectory, Requests, ReadRequests, ReadOps
  <2> QED
    BY <1>2, <2>1 DEF FetchDirectory, Send
<1>3. CASE FetchNode(t)
  <2>1. [op |-> "node_info", node |-> node[t]] \in Requests
    BY <1>1, <1>3 DEF FetchNode, Requests, ReadRequests, ReadOps
  <2> QED
    BY <1>3, <2>1 DEF FetchNode, Send
<1>4. CASE SendWrite(t)
  <2> DEFINE o == operation[t]
             r == [op |-> RouteOf(o.op), node |-> o.node, name |-> o.name]
  <2>1. o \in FuseOperations /\ o.op \in FuseWrites
    BY <1>1, <1>4 DEF SendWrite, IInv, TasksFit, Fit
  <2>2. o.node \in NodeIds /\ o.name \in Names
    BY <2>1 DEF FuseOperations, FuseWrites
  <2>3. RouteOf(o.op) \in WriteOps
    BY <2>1 DEF RouteOf, FuseWrites, WriteOps, CreateOps, DeleteOps
  <2>4. r \in Requests
    BY <2>2, <2>3 DEF Requests, WriteRequests
  <2>5. S!Call(t, r)
    BY <1>4 DEF SendWrite, Send
  <2> HIDE DEF r
  <2> QED
    BY <2>4, <2>5
<1> QED
  BY <1>2, <1>3, <1>4

\* Every step of a client is one that NodeTree has, or none.
LEMMA StepUsesServer ==
    ASSUME IInv, [Next]_vars
    PROVE  [S!Next]_(S!vars)
<1>1. ASSUME NEW t \in Tasks, FetchDirectory(t) \/ FetchNode(t) \/ SendWrite(t)
      PROVE  S!Next
  BY <1>1, SentIsRequest DEF S!Next
<1>2. ASSUME NEW t \in Tasks,
             DirectoryArrives(t) \/ NodeArrives(t) \/ WriteArrives(t) \/ ErrorArrives(t) \/ AnswerLost(t)
      PROVE  S!Next
  <2>1. S!Return(t)
    BY <1>2 DEF DirectoryArrives, NodeArrives, WriteArrives, ErrorArrives, AnswerLost
  <2> QED
    BY <2>1 DEF S!Next
<1>3. ASSUME NEW t \in Tasks, Serve(t)
      PROVE  S!Next
  BY <1>3 DEF Serve, S!Next
<1>4. CASE ServerCrash
  BY <1>4 DEF ServerCrash, S!Next
<1>5. ASSUME NEW t \in Tasks,
             \/ \E o \in Operations : Begin(t, o)
             \/ DirectoryCached(t) \/ NodeCached(t) \/ Done(t) \/ ConnectionLost(t)
      PROVE  UNCHANGED S!vars
  BY <1>5 DEF Begin, DirectoryCached, NodeCached, Done, ConnectionLost, server, S!vars
<1>6. UNCHANGED vars => UNCHANGED S!vars
  BY DEF vars, server, S!vars
<1> QED
  BY <1>1, <1>2, <1>3, <1>4, <1>5, <1>6 DEF Next, Work

\* Clients keep to what NodeTree, and so NodeRoutes, promises: they send only
\* requests its router knows (remote_data_service.rs), one for each task, take
\* each answer once, and rely on no step it does not have.
THEOREM ServerIsUsed == Spec => S!Spec
<1>1. Init => S!Init
  BY DEF Init
<1>2. IInv /\ [Next]_vars => [S!Next]_(S!vars)
  BY StepUsesServer
<1> QED
  BY <1>1, <1>2, Invariance, PTL DEF Spec, S!Spec

=============================================================================
