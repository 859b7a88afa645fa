-------------------------- MODULE DirectoryListing -------------------------
(***************************************************************************)
(* Listing a directory: readdir (client/src/filesystem.rs) is called again *)
(* and again with the offset of the last entry of the call before, until a *)
(* call returns no entry.  An offset is a position among the children at   *)
(* the time of the call, which other operations change meanwhile.          *)
(*                                                                         *)
(* The children are those the client has in its cache: fetched if there    *)
(* are none (LocalFileCache::get_dir_info), changed by what this client    *)
(* creates and deletes, and replaced by the answer of every other          *)
(* operation of it that asked while there were none: getattr, lookup or    *)
(* another readdir (local_file_cache.rs:29, 40).                           *)
(***************************************************************************)
EXTENDS Naturals, FiniteSets

CONSTANTS
    Count,      \* BOUND: the number of names
    MaxAnswers, \* BOUND: the other operations of this client under way
    None        \* not cached, nothing fetched

\* "." and "..", which come first, and the names in their order.
Dots == {1, 2}
Names == 3..Count + 2

ASSUME ListingAssumption ==
    /\ Count \in Nat /\ MaxAnswers \in Nat
    /\ \A names \in SUBSET Names : None # names

Never == [entry \in 1..Count + 2 |-> 0]

\* What another operation of this client is about: it has asked for the
\* directory, has been sent the names, or has created or deleted one.
Answers == [does : {"ask", "read", "create", "delete"}, names : SUBSET Names]
Ask == [does |-> "ask", names |-> {}]

VARIABLES
    children,   \* the names in the directory, on the server
    fetched,    \* what the server has sent of them to the listing
    answers,    \* the other operations of this client that are under way
    cached,     \* what the client has in its cache
    phase,      \* where the listing is
    offset,     \* the offset of the next call
    times,      \* how often it has returned each entry: never, once, or more
    kept,       \* history: the names in the cache from the first page on
    added,      \* history: those that have come into the cache since then
    removed     \* and those that have gone

history == <<kept, added, removed>>
vars == <<children, fetched, answers, cached, phase, offset, times, history>>

Init ==
    /\ children \in SUBSET Names
    /\ fetched = None
    /\ answers = {}
    /\ cached = None
    /\ phase = "closed"
    /\ offset = 0
    /\ times = Never
    /\ kept = {} /\ added = {} /\ removed = {}

-----------------------------------------------------------------------------
(* readdir                                                                 *)

Open ==
    /\ phase = "closed"
    /\ phase' = "call"
    /\ UNCHANGED <<children, fetched, answers, cached, offset, times, history>>

\* The next listing may be of a client that has just been started.
Close ==
    /\ phase \in {"ended", "failed"}
    /\ phase' = "closed"
    /\ offset' = 0
    /\ times' = Never
    /\ kept' = {} /\ added' = {} /\ removed' = {}
    /\ \/ UNCHANGED <<cached, answers>>
       \/ cached' = None /\ answers' = {}
    /\ UNCHANGED <<children, fetched>>

\* Mutant of Known: it is cached for the first call only.
KnownAtFirst == cached # None /\ offset = 0
Known == cached # None

Look ==
    /\ phase = "call"
    /\ ~Known
    /\ phase' = "asked"
    /\ UNCHANGED <<children, fetched, answers, cached, offset, times, history>>

Fetch ==
    /\ phase = "asked"
    /\ fetched = None
    /\ fetched' = children
    /\ UNCHANGED <<children, answers, cached, phase, offset, times, history>>

Entries(names) == Dots \cup names

\* The index of an entry, counted from 0, in the order of the names.  Mutant:
\* counted from 1.
PositionFromOne(names, entry) == Cardinality({e \in Entries(names) : e <= entry})
Position(names, entry) == Cardinality({e \in Entries(names) : e < entry})

\* The offset of the entry at index i.  Mutants: that of the entry itself; one
\* too many.
OffsetOfItself(i) == i
OffsetAfterNext(i) == i + 2
OffsetAfter(i) == i + 1

\* The entries from the offset on, as many as the kernel has room for.
Return(names) ==
    /\ \E last \in offset .. Cardinality(Entries(names)) - 1 :
          /\ times' = [entry \in DOMAIN times |->
                          IF entry \in Entries(names) /\ Position(names, entry) \in offset .. last
                          THEN IF times[entry] = 0 THEN 1 ELSE 2
                          ELSE times[entry]]
          /\ offset' = OffsetAfter(last)
    /\ kept' = IF offset = 0 THEN names ELSE kept
    /\ phase' = "call"
    /\ UNCHANGED <<children, answers, added, removed>>

ReadCached ==
    /\ phase = "call"
    /\ Known
    /\ Return(cached)
    /\ UNCHANGED <<fetched, cached>>

ReadEnd ==
    /\ phase = "call"
    /\ Known
    /\ offset >= Cardinality(Entries(cached))
    /\ phase' = "ended"
    /\ UNCHANGED <<children, fetched, answers, cached, offset, times, history>>

FetchArrives ==
    /\ phase = "asked"
    /\ fetched # None
    /\ Return(fetched)
    /\ cached' = fetched
    /\ fetched' = None

\* The directory could not be fetched: the server's error or the network's.
Fails ==
    /\ phase = "asked"
    /\ phase' = "failed"
    /\ fetched' = None
    /\ UNCHANGED <<children, answers, cached, offset, times, history>>

-----------------------------------------------------------------------------
(* The directory changes.                                                  *)

\* By another client: this one does not hear of it.
OthersChange ==
    /\ \E n \in Names : children' \in {children \cup {n}, children \ {n}}
    /\ UNCHANGED <<fetched, answers, cached, phase, offset, times, history>>

\* By this client: create_file and create_dir, delete_file and delete_dir, as far
\* as the server.
Create(n) ==
    /\ Cardinality(answers) < MaxAnswers
    /\ n \notin children
    /\ children' = children \cup {n}
    /\ answers' = answers \cup {[does |-> "create", names |-> {n}]}
    /\ UNCHANGED <<fetched, cached, phase, offset, times, history>>

Delete(n) ==
    /\ Cardinality(answers) < MaxAnswers
    /\ n \in children
    /\ children' = children \ {n}
    /\ answers' = answers \cup {[does |-> "delete", names |-> {n}]}
    /\ UNCHANGED <<fetched, cached, phase, offset, times, history>>

\* getattr, lookup or another readdir of this client finds nothing in the cache.
OtherLooks ==
    /\ Cardinality(answers) < MaxAnswers
    /\ cached = None
    /\ answers' = answers \cup {Ask}
    /\ UNCHANGED <<children, fetched, cached, phase, offset, times, history>>

OtherFetches ==
    /\ Ask \in answers
    /\ answers' = (answers \ {Ask}) \cup {[does |-> "read", names |-> children]}
    /\ UNCHANGED <<children, fetched, cached, phase, offset, times, history>>

\* What the cached directory is after an answer has arrived.
After(answer) ==
    CASE answer.does = "read" -> answer.names
      [] answer.does = "create" -> cached \cup answer.names
      [] answer.does = "delete" -> cached \ answer.names

\* The cached directory is another from now on.
Becomes(names) ==
    /\ cached' = names
    /\ IF offset = 0 THEN UNCHANGED history
       ELSE /\ kept' = kept \cap names
            /\ added' = added \cup (names \ cached)
            /\ removed' = removed \cup (cached \ names)

\* What is created and deleted changes a directory that is cached; one that was
\* read takes the place of what is there.
AnswerArrives(answer) ==
    /\ answer.does # "ask"
    /\ answers' = answers \ {answer}
    /\ IF cached = None /\ answer.does # "read"
       THEN UNCHANGED <<cached, history>>
       ELSE Becomes(After(answer))
    /\ UNCHANGED <<children, fetched, phase, offset, times>>

\* The operation ends in an error.
AnswerLost(answer) ==
    /\ answers' = answers \ {answer}
    /\ UNCHANGED <<children, fetched, cached, phase, offset, times, history>>

readdir == Look \/ Fetch \/ FetchArrives \/ ReadCached \/ ReadEnd

Next == \/ Open \/ Close \/ readdir \/ Fails \/ OthersChange
        \/ OtherLooks \/ OtherFetches
        \/ \E n \in Names : Create(n) \/ Delete(n)
        \/ \E answer \in answers : AnswerArrives(answer) \/ AnswerLost(answer)

\* The client works on a call it has received, the server answers it, and the
\* kernel calls again until it is told that there is nothing more.
Spec == Init /\ [][Next]_vars /\ WF_vars(readdir)

-----------------------------------------------------------------------------
(* Properties *)

\* The type of every variable; an offset is never past the end of what the
\* directory may have had.
TypeOK ==
    /\ children \subseteq Names
    /\ fetched = None \/ fetched \subseteq Names
    /\ answers \subseteq Answers
    /\ cached = None \/ cached \subseteq Names
    /\ phase \in {"closed", "call", "asked", "ended", "failed"}
    /\ offset \in 0..Count + Cardinality(Dots)
    /\ times \in [1..Count + 2 -> 0..2]
    /\ kept \subseteq Names /\ added \subseteq Names /\ removed \subseteq Names

\* An entry that is in the cached directory from the first page to the last is left
\* out of the listing only if another before it has gone from there meanwhile: by
\* this client's deletion, or by an answer that was late.  What other clients do
\* without this one hearing of it does not matter (filesystem.rs:127-169).
NothingIsMissed ==
    phase = "ended" =>
        \A entry \in kept \cup Dots :
            times[entry] > 0 \/ \E gone \in removed : gone < entry

\* An entry is listed twice only if another before it has come into the cached
\* directory meanwhile.
NothingIsListedTwice ==
    \A entry \in DOMAIN times :
        times[entry] <= 1 \/ \E new \in added : new < entry

\* A listing that has begun comes to its end.
ListingEnds == phase \in {"call", "asked"} ~> phase \notin {"call", "asked"}

=============================================================================
