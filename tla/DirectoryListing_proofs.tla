----------------------- MODULE DirectoryListing_proofs ---------------------
(***************************************************************************)
(* Theorems about DirectoryListing, for any number of names and of other   *)
(* operations of the client.                                               *)
(*                                                                         *)
(* What matters of a listing under way is the position of an entry against *)
(* the offset of the next call.  A name that goes from the cached          *)
(* directory moves those behind it towards the front, one that comes moves *)
(* them towards the back; so an entry behind no name that has gone has     *)
(* been listed once it is before the offset, and one behind no name that   *)
(* has come is before the offset once it has been listed.  The offset only *)
(* grows, so what is left of a listing gets less.                          *)
(***************************************************************************)
EXTENDS DirectoryListing, FiniteSetTheorems, TLAPS

Before(names, entry) == {e \in Entries(names) : e < entry}

\* Nothing before the entry is among the names.
Clear(names, entry) == \A name \in names : ~(name < entry)

\* What is known where a listing is.
PhasesFit ==
    /\ fetched # None => phase = "asked"
    /\ phase = "asked" => offset = 0
    /\ offset > 0 => cached # None /\ phase \in {"call", "ended"}
    /\ offset = 0 => times = Never
    /\ phase = "ended" => offset > 0

\* The names that were kept are there, and what is before the offset has been
\* listed if nothing before it has gone.
PassedAreListed ==
    offset > 0 =>
        /\ kept \subseteq cached
        /\ \A entry \in kept \cup Dots :
              Clear(removed, entry) /\ Position(cached, entry) < offset => times[entry] > 0

\* What has been listed is before the offset if nothing before it has come.
ListedArePassed ==
    offset > 0 =>
        \A entry \in 1..Count + 2 :
            Clear(added, entry) /\ times[entry] > 0 => Position(cached, entry) < offset

IInv ==
    /\ TypeOK
    /\ PhasesFit
    /\ PassedAreListed
    /\ ListedArePassed
    /\ NothingIsMissed
    /\ NothingIsListedTwice

-----------------------------------------------------------------------------
(* Positions *)

\* There are two dots.
LEMMA TwoDots == Cardinality(Dots) = 2
<1>1. IsFiniteSet({1}) /\ Cardinality({1}) = 1
  BY FS_Singleton
<1>2. Cardinality({1} \cup {2}) = 2
  BY <1>1, FS_AddElement
<1> QED
  BY <1>2 DEF Dots

\* The entries of a directory are finitely many, at most all there can be.
LEMMA EntriesAreFinite ==
    ASSUME NEW names \in SUBSET Names
    PROVE  /\ IsFiniteSet(Entries(names))
           /\ Entries(names) \subseteq 1..Count + 2
           /\ Cardinality(Entries(names)) \in 2..Count + 2
<1>1. Entries(names) \subseteq 1..Count + 2
  BY ListingAssumption DEF Entries, Dots, Names
<1>2. IsFiniteSet(1..Count + 2) /\ Cardinality(1..Count + 2) = Count + 2
  BY FS_Interval, ListingAssumption
<1>3. ASSUME NEW all, IsFiniteSet(all), Entries(names) \in SUBSET all
      PROVE  IsFiniteSet(Entries(names)) /\ Cardinality(Entries(names)) <= Cardinality(all)
  BY <1>3, FS_Subset
<1>4. IsFiniteSet(Entries(names)) /\ Cardinality(Entries(names)) <= Count + 2
  BY <1>1, <1>2, <1>3
<1>5. 2 <= Cardinality(Entries(names))
  BY <1>4, TwoDots, FS_Subset DEF Entries
<1>6. Cardinality(Entries(names)) \in Nat
  BY <1>4, FS_CardinalityType
<1> QED
  BY <1>1, <1>4, <1>5, <1>6, ListingAssumption

\* A position is one of those there are.
LEMMA PositionIsInside ==
    ASSUME NEW names \in SUBSET Names, NEW entry \in 1..Count + 2
    PROVE  /\ Position(names, entry) \in Nat
           /\ entry \in Entries(names) => Position(names, entry) < Cardinality(Entries(names))
<1>1. Before(names, entry) \in SUBSET Entries(names)
  BY DEF Before
<1>2. IsFiniteSet(Before(names, entry)) /\ Cardinality(Before(names, entry)) \in Nat
  BY <1>1, EntriesAreFinite, FS_Subset, FS_CardinalityType
<1>3. ASSUME entry \in Entries(names)
      PROVE  Cardinality(Before(names, entry)) < Cardinality(Entries(names))
  <2>1. entry \notin Before(names, entry)
    BY ListingAssumption DEF Before
  <2>2. Cardinality(Before(names, entry)) # Cardinality(Entries(names))
    BY <1>1, <1>3, <2>1, EntriesAreFinite, FS_Subset
  <2>3. Cardinality(Before(names, entry)) <= Cardinality(Entries(names))
    BY <1>1, EntriesAreFinite, FS_Subset
  <2> QED
    BY <1>2, <2>2, <2>3, EntriesAreFinite
<1> QED
  BY <1>2, <1>3 DEF Position, Before

\* If what was before an entry still is, the entry is not further to the front.
LEMMA PositionGrows ==
    ASSUME NEW names \in SUBSET Names, NEW more \in SUBSET Names, NEW entry \in 1..Count + 2,
           Clear(names \ more, entry)
    PROVE  Position(names, entry) <= Position(more, entry)
<1>1. Before(names, entry) \in SUBSET Before(more, entry)
  BY DEF Before, Entries, Clear
<1>2. Before(more, entry) \in SUBSET Entries(more)
  BY DEF Before
<1>3. IsFiniteSet(Before(more, entry))
  BY <1>2, EntriesAreFinite, FS_Subset
<1> QED
  BY <1>1, <1>3, FS_Subset DEF Position, Before

-----------------------------------------------------------------------------
(* The steps *)

\* The initial state satisfies the invariant.
LEMMA InitHolds == Init => IInv
<1> SUFFICES ASSUME Init PROVE IInv
  OBVIOUS
<1> USE ListingAssumption DEF Init, Never
<1>2. TypeOK
  BY TwoDots DEF TypeOK
<1>3. PhasesFit /\ PassedAreListed /\ ListedArePassed
  BY DEF PhasesFit, PassedAreListed, ListedArePassed
<1>4. NothingIsMissed /\ NothingIsListedTwice
  BY DEF NothingIsMissed, NothingIsListedTwice
<1> QED
  BY <1>2, <1>3, <1>4 DEF IInv

\* One more page of what is listed.
LEMMA ReturnKeeps ==
    ASSUME IInv, NEW names \in SUBSET Names, Return(names),
           cached' = names, fetched' = None,
           cached = names \/ offset = 0
    PROVE  IInv'
<1> USE ListingAssumption, TwoDots
<1> PICK last \in offset .. Cardinality(Entries(names)) - 1 :
        /\ times' = [entry \in DOMAIN times |->
                        IF entry \in Entries(names) /\ Position(names, entry) \in offset .. last
                        THEN IF times[entry] = 0 THEN 1 ELSE 2
                        ELSE times[entry]]
        /\ offset' = last + 1
  BY DEF Return, OffsetAfter
<1>1. /\ offset \in Nat /\ last \in Nat /\ offset <= last
      /\ offset' = last + 1 /\ offset' > 0 /\ offset' <= Count + 2
  BY EntriesAreFinite DEF IInv, TypeOK
<1>2. times \in [1..Count + 2 -> 0..2]
  BY DEF IInv, TypeOK
<1>3. ASSUME NEW entry \in 1..Count + 2
      PROVE  times'[entry] = IF entry \in Entries(names) /\ Position(names, entry) \in offset .. last
                             THEN IF times[entry] = 0 THEN 1 ELSE 2
                             ELSE times[entry]
  BY <1>2
<1>4. UNCHANGED <<children, answers, added, removed>> /\ kept' = (IF offset = 0 THEN names ELSE kept)
      /\ phase' = "call"
  BY DEF Return
<1>5. TypeOK'
  <2>1. times' \in [1..Count + 2 -> 0..2]
    BY <1>2
  <2> QED
    BY <1>1, <1>4, <2>1 DEF IInv, TypeOK
<1>6. PhasesFit'
  BY <1>1, <1>4 DEF PhasesFit
<1>7. offset > 0 => cached = names
  BY <1>1
<1>8. kept' \subseteq names
  BY <1>1, <1>4, <1>7 DEF IInv, TypeOK, PassedAreListed
<1>9. PassedAreListed'
  <2> SUFFICES ASSUME NEW entry \in kept' \cup Dots, Clear(removed, entry), Position(names, entry) < last + 1
               PROVE  times'[entry] > 0
    <3>1. \A entry : Position(cached, entry)' = Position(names, entry)
      BY DEF Position, Entries
    <3>2. \A entry : Clear(removed, entry)' = Clear(removed, entry)
      BY <1>4 DEF Clear
    <3> QED
      BY <1>1, <1>4, <1>8, <3>1, <3>2 DEF PassedAreListed
  <2>1. entry \in Entries(names) /\ entry \in 1..Count + 2
    BY <1>8, EntriesAreFinite DEF Entries
  <2>2. Position(names, entry) \in Nat
    BY <2>1, PositionIsInside
  <2>3. CASE Position(names, entry) < offset
    <3>1. times[entry] > 0
      BY <1>1, <1>4, <1>7, <2>2, <2>3 DEF IInv, PassedAreListed
    <3> QED
      BY <1>2, <1>3, <2>1, <3>1
  <2>4. CASE offset <= Position(names, entry)
    BY <1>1, <1>2, <1>3, <2>1, <2>2, <2>4
  <2> QED
    BY <1>1, <2>2, <2>3, <2>4
<1>10. ASSUME NEW entry \in 1..Count + 2, Clear(added, entry)
       PROVE  /\ times'[entry] > 0 => Position(names, entry) < last + 1
              /\ times'[entry] <= 1
  <2>1. Position(names, entry) \in Nat
    BY PositionIsInside
  <2>2. times[entry] \in 0..2 /\ times[entry] <= 1
    BY <1>2, <1>10 DEF IInv, NothingIsListedTwice, Clear
  <2>3. times[entry] > 0 => Position(names, entry) < offset
    BY <1>1, <1>7, <1>10, <1>2 DEF IInv, ListedArePassed, PhasesFit, Never
  <2> QED
    BY <1>1, <1>3, <2>1, <2>2, <2>3
<1>11. ListedArePassed' /\ NothingIsListedTwice'
  <2>1. \A entry : Position(cached, entry)' = Position(names, entry) /\ Clear(added, entry)' = Clear(added, entry)
    BY <1>4 DEF Position, Entries, Clear
  <2>2. ListedArePassed'
    BY <1>1, <1>10, <2>1 DEF ListedArePassed
  <2>3. NothingIsListedTwice'
    BY <1>2, <1>4, <1>10 DEF NothingIsListedTwice, Clear
  <2> QED
    BY <2>2, <2>3
<1>12. NothingIsMissed'
  BY <1>4 DEF NothingIsMissed
<1> QED
  BY <1>5, <1>6, <1>9, <1>11, <1>12 DEF IInv

\* A page from the cache, or of what the server has sent.
LEMMA PagesKeep == IInv /\ (ReadCached \/ FetchArrives) => IInv'
<1>1. ASSUME IInv, ReadCached PROVE IInv'
  <2>1. cached \in SUBSET Names /\ fetched = None
    BY <1>1 DEF IInv, TypeOK, PhasesFit, ReadCached, Known
  <2> QED
    BY <1>1, <2>1, ReturnKeeps DEF ReadCached
<1>2. ASSUME IInv, FetchArrives PROVE IInv'
  <2>1. fetched \in SUBSET Names /\ offset = 0
    BY <1>2 DEF IInv, TypeOK, PhasesFit, FetchArrives
  <2> QED
    BY <1>2, <2>1, ReturnKeeps DEF FetchArrives
<1> QED
  BY <1>1, <1>2

\* The call that finds nothing more: all positions are before the offset.
LEMMA EndKeeps == IInv /\ ReadEnd => IInv'
<1> SUFFICES ASSUME IInv, ReadEnd PROVE IInv'
  OBVIOUS
<1>1. UNCHANGED <<children, fetched, answers, cached, offset, times, kept, added, removed>>
      /\ phase' = "ended" /\ phase = "call"
      /\ cached # None /\ offset >= Cardinality(Entries(cached))
  BY DEF ReadEnd, Known, history
<1>2. cached \in SUBSET Names /\ offset \in Nat
  BY <1>1, TwoDots, ListingAssumption DEF IInv, TypeOK
<1>3. offset > 0
  BY <1>1, <1>2, EntriesAreFinite
<1>4. TypeOK' /\ PhasesFit' /\ PassedAreListed' /\ ListedArePassed' /\ NothingIsListedTwice'
  <2>1. TypeOK'
    BY <1>1 DEF IInv, TypeOK
  <2>2. PhasesFit'
    BY <1>1, <1>3 DEF IInv, PhasesFit
  <2>3. PassedAreListed'
    BY <1>1 DEF IInv, PassedAreListed, Position, Entries, Clear
  <2>4. ListedArePassed'
    BY <1>1 DEF IInv, ListedArePassed, Position, Entries, Clear
  <2> QED
    BY <1>1, <2>1, <2>2, <2>3, <2>4 DEF IInv, NothingIsListedTwice
<1>5. NothingIsMissed'
  <2> SUFFICES ASSUME NEW entry \in kept \cup Dots, Clear(removed, entry) PROVE times[entry] > 0
    BY <1>1 DEF NothingIsMissed, Clear
  <2>1. entry \in Entries(cached) /\ entry \in 1..Count + 2
    BY <1>2, <1>3, EntriesAreFinite DEF IInv, PassedAreListed, Entries
  <2>2. Position(cached, entry) < offset
    BY <1>1, <1>2, <2>1, PositionIsInside, EntriesAreFinite
  <2> QED
    BY <1>3, <2>2 DEF IInv, PassedAreListed
<1> QED
  BY <1>4, <1>5 DEF IInv

\* Steps that leave the cache and what has been listed.
LEMMA OthersKeep ==
    ASSUME IInv, UNCHANGED <<cached, offset, times, kept, added, removed>>,
           TypeOK', PhasesFit', phase' = "ended" => phase = "ended"
    PROVE  IInv'
<1>1. PassedAreListed' /\ ListedArePassed'
  BY DEF IInv, PassedAreListed, ListedArePassed, Position, Entries, Clear
<1>2. NothingIsListedTwice' /\ NothingIsMissed'
  BY DEF IInv, NothingIsListedTwice, NothingIsMissed
<1> QED
  BY <1>1, <1>2 DEF IInv

\* The steps of the kernel, the server, and other operations before their answers.
LEMMA QuietKeeps ==
    ASSUME IInv,
           Open \/ Look \/ Fetch \/ Fails \/ OthersChange \/ OtherLooks \/ OtherFetches
           \/ (\E n \in Names : Create(n) \/ Delete(n)) \/ (\E answer \in answers : AnswerLost(answer))
    PROVE  IInv'
<1> USE ListingAssumption, TwoDots DEF history
<1>1. UNCHANGED <<cached, offset, times, kept, added, removed>>
  BY DEF Open, Look, Fetch, Fails, OthersChange, OtherLooks, OtherFetches, Create, Delete, AnswerLost
<1>2. phase' = "ended" => phase = "ended"
  BY DEF Open, Look, Fetch, Fails, OthersChange, OtherLooks, OtherFetches, Create, Delete, AnswerLost
<1>3. answers' \subseteq Answers
  BY DEF IInv, TypeOK, Answers, Ask, Open, Look, Fetch, Fails, OthersChange, OtherLooks, OtherFetches, Create, Delete,
         AnswerLost
<1>4. children' \subseteq Names /\ (fetched' = None \/ fetched' \subseteq Names)
  BY DEF IInv, TypeOK, Open, Look, Fetch, Fails, OthersChange, OtherLooks, OtherFetches, Create, Delete, AnswerLost
<1>5. phase' \in {"closed", "call", "asked", "ended", "failed"}
  BY DEF IInv, TypeOK, Open, Look, Fetch, Fails, OthersChange, OtherLooks, OtherFetches, Create, Delete, AnswerLost
<1>6. TypeOK'
  BY <1>1, <1>3, <1>4, <1>5 DEF IInv, TypeOK
<1>7. offset \in Nat
  BY DEF IInv, TypeOK
<1>8. PhasesFit'
  BY <1>1, <1>7 DEF IInv, PhasesFit, Known, Open, Look, Fetch, Fails, OthersChange, OtherLooks, OtherFetches, Create, Delete,
                    AnswerLost
<1> QED
  BY <1>1, <1>2, <1>6, <1>8, OthersKeep

\* A listing begins anew.
LEMMA CloseKeeps == IInv /\ Close => IInv'
<1> SUFFICES ASSUME IInv, Close PROVE IInv'
  OBVIOUS
<1> USE ListingAssumption DEF Close, Never
<1>1. TypeOK'
  BY TwoDots DEF IInv, TypeOK
<1>2. PhasesFit' /\ PassedAreListed' /\ ListedArePassed'
  BY DEF IInv, PhasesFit, PassedAreListed, ListedArePassed
<1>3. NothingIsMissed' /\ NothingIsListedTwice'
  BY DEF NothingIsMissed, NothingIsListedTwice
<1> QED
  BY <1>1, <1>2, <1>3 DEF IInv

\* Another directory in the cache: each entry moves only for what comes and goes
\* before it.
LEMMA BecomesKeeps ==
    ASSUME IInv, NEW names \in SUBSET Names, Becomes(names), answers' \subseteq Answers,
           UNCHANGED <<children, fetched, phase, offset, times>>
    PROVE  IInv'
<1>1. offset \in Nat
  BY TwoDots, ListingAssumption DEF IInv, TypeOK
<1>2. cached' = names /\ names # None
  BY ListingAssumption DEF Becomes
<1>3. CASE offset = 0
  <2>1. UNCHANGED <<kept, added, removed>>
    BY <1>3 DEF Becomes, history
  <2>2. TypeOK' /\ PhasesFit'
    BY <1>2, <1>3, <2>1 DEF IInv, TypeOK, PhasesFit
  <2>3. PassedAreListed' /\ ListedArePassed'
    BY <1>3 DEF PassedAreListed, ListedArePassed
  <2>4. NothingIsMissed' /\ NothingIsListedTwice'
    BY <2>1 DEF IInv, NothingIsMissed, NothingIsListedTwice
  <2> QED
    BY <2>2, <2>3, <2>4 DEF IInv
<1>4. CASE offset > 0
  <2>1. cached # None /\ cached \in SUBSET Names
    BY <1>4 DEF IInv, PhasesFit, TypeOK
  <2>2. kept' = kept \cap names /\ added' = added \cup (names \ cached) /\ removed' = removed \cup (cached \ names)
    BY <1>4 DEF Becomes
  <2>3. TypeOK' /\ PhasesFit'
    BY <1>2, <2>1, <2>2 DEF IInv, TypeOK, PhasesFit
  <2>4. \A entry : Position(cached, entry)' = Position(names, entry)
    BY <1>2 DEF Position, Entries
  <2>5. ASSUME NEW entry \in kept' \cup Dots, Clear(removed', entry), Position(names, entry) < offset
        PROVE  times[entry] > 0
    <3>1. entry \in 1..Count + 2 /\ entry \in kept \cup Dots
      BY <2>1, <2>2, EntriesAreFinite DEF IInv, PassedAreListed, TypeOK, Names, Entries
    <3>2. Clear(removed, entry) /\ Clear(cached \ names, entry)
      BY <2>2, <2>5 DEF Clear
    <3>3. Position(cached, entry) <= Position(names, entry)
      BY <2>1, <3>1, <3>2, PositionGrows
    <3>4. Position(cached, entry) \in Nat
      BY <2>1, <3>1, PositionIsInside
    <3>5. Position(names, entry) \in Nat
      BY <3>1, PositionIsInside
    <3>6. Position(cached, entry) < offset
      BY <1>1, <2>5, <3>3, <3>4, <3>5
    <3> QED
      BY <1>4, <3>1, <3>2, <3>6 DEF IInv, PassedAreListed
  <2>6. ASSUME NEW entry \in 1..Count + 2, Clear(added', entry), times[entry] > 0
        PROVE  Position(names, entry) < offset
    <3>1. Clear(added, entry) /\ Clear(names \ cached, entry)
      BY <2>2, <2>6 DEF Clear
    <3>2. Position(cached, entry) < offset
      BY <1>4, <2>6, <3>1 DEF IInv, ListedArePassed
    <3>3. Position(names, entry) <= Position(cached, entry)
      BY <2>1, <3>1, PositionGrows
    <3>4. Position(cached, entry) \in Nat
      BY <2>1, PositionIsInside
    <3>5. Position(names, entry) \in Nat
      BY PositionIsInside
    <3> QED
      BY <1>1, <3>2, <3>3, <3>4, <3>5
  <2>7. PassedAreListed'
    <3>1. kept' \subseteq cached' /\ \A entry : Clear(removed, entry)' = Clear(removed', entry)
      BY <1>2, <2>2 DEF Clear
    <3> QED
      BY <2>4, <2>5, <3>1 DEF PassedAreListed
  <2>8. ListedArePassed'
    <3>1. \A entry : Clear(added, entry)' = Clear(added', entry)
      BY DEF Clear
    <3> QED
      BY <2>4, <2>6, <3>1 DEF ListedArePassed
  <2>9. NothingIsMissed' /\ NothingIsListedTwice'
    BY <2>2 DEF IInv, NothingIsMissed, NothingIsListedTwice
  <2> QED
    BY <2>3, <2>7, <2>8, <2>9 DEF IInv
<1> QED
  BY <1>1, <1>3, <1>4

\* The answer to another operation of this client.
LEMMA AnswerKeeps == ASSUME IInv, NEW answer \in answers, AnswerArrives(answer) PROVE IInv'
<1>1. answer \in Answers /\ answer.names \in SUBSET Names /\ answers' \subseteq Answers
  BY DEF IInv, TypeOK, Answers, AnswerArrives
<1>2. UNCHANGED <<children, fetched, phase, offset, times>>
  BY DEF AnswerArrives
<1>3. CASE cached = None /\ answer.does # "read"
  <2>1. UNCHANGED <<cached, kept, added, removed>>
    BY <1>3 DEF AnswerArrives, history
  <2>2. TypeOK' /\ PhasesFit'
    BY <1>1, <1>2, <2>1 DEF IInv, TypeOK, PhasesFit
  <2> QED
    BY <1>2, <2>1, <2>2, OthersKeep
<1>4. CASE ~(cached = None /\ answer.does # "read")
  <2>1. Becomes(After(answer))
    BY <1>4 DEF AnswerArrives
  <2>2. cached \in SUBSET Names \/ answer.does = "read"
    BY <1>4 DEF IInv, TypeOK
  <2>3. answer.does \in {"read", "create", "delete"}
    BY <1>1 DEF AnswerArrives, Answers
  <2>4. After(answer) \in SUBSET Names
    BY <1>1, <2>2, <2>3 DEF After
  <2> QED
    BY <1>1, <1>2, <2>1, <2>4, BecomesKeeps
<1> QED
  BY <1>3, <1>4

-----------------------------------------------------------------------------
(* The theorems                                                            *)

\* The invariant holds throughout.
THEOREM Invariance == Spec => []IInv
<1>1. IInv /\ [Next]_vars => IInv'
  <2> SUFFICES ASSUME IInv, [Next]_vars PROVE IInv'
    OBVIOUS
  <2>1. CASE UNCHANGED vars
    BY <2>1 DEF vars, history, IInv, TypeOK, PhasesFit, PassedAreListed, ListedArePassed,
                NothingIsMissed, NothingIsListedTwice, Position, Entries, Clear
  <2>2. CASE Next
    BY <2>2, PagesKeep, EndKeeps, QuietKeeps, CloseKeeps, AnswerKeeps DEF Next, readdir
  <2> QED
    BY <2>1, <2>2
<1> QED
  BY InitHolds, <1>1, PTL DEF Spec

\* Every variable keeps its type: an offset is never past the end of the largest
\* listing there can be (filesystem.rs:143, 155).
THEOREM TypeCorrect == Spec => []TypeOK
BY Invariance, PTL DEF IInv

\* A listing misses an entry only if one before it has gone from the cached
\* directory meanwhile, whatever other operations and clients do
\* (filesystem.rs:127-169).
THEOREM ListingsAreComplete == Spec => []NothingIsMissed
BY Invariance, PTL DEF IInv

\* A listing repeats an entry only if one before it has come into the cached
\* directory meanwhile.
THEOREM ListingsDoNotRepeat == Spec => []NothingIsListedTwice
BY Invariance, PTL DEF IInv

-----------------------------------------------------------------------------
(* Why a listing comes to its end                                          *)

\* What is left to do of a listing, at most: the pages of one entry each, and
\* the directory to be asked for and to be sent.
Steps(at, got) == IF at = "call" THEN 2 ELSE IF got = None THEN 1 ELSE 0
Left == 3 * (Count + 2 - offset) + Steps(phase, fetched)

\* Whatever is created, deleted and lost meanwhile, and whatever late answers put
\* in the cache, a listing that goes on has no more left to do than before, and
\* less after each step of readdir: what ListingEnds needs besides readdir being
\* taken (filesystem.rs:143-166).
ListingShrinks ==
    [][({phase, phase'} \subseteq {"call", "asked"}) =>
           Left' <= Left /\ (readdir => Left' < Left)]_vars

\* A page counts for more than what there may be to do for it.
LEMMA FurtherIsLess ==
    \A n \in Nat : \A i, j \in 0..n + 2 : \A a, b \in 0..2 :
        j > i => 3 * (n + 2 - j) + b < 3 * (n + 2 - i) + a /\ 3 * (n + 2 - j) + b <= 3 * (n + 2 - i) + a
OBVIOUS

\* A step of the listing between two pages counts one.
LEMMA StepIsLess ==
    \A n \in Nat : \A i \in 0..n + 2 : \A a, b \in 0..2 :
        b < a => 3 * (n + 2 - i) + b < 3 * (n + 2 - i) + a /\ 3 * (n + 2 - i) + b <= 3 * (n + 2 - i) + a
OBVIOUS

\* A listing cannot go on for ever.
THEOREM ListingsShrink == Spec => [](Left \in Nat) /\ ListingShrinks
<1>1. IInv => Left \in Nat /\ offset \in 0..Count + 2 /\ Count \in Nat
  BY TwoDots, ListingAssumption DEF IInv, TypeOK, Left, Steps
<1> DEFINE Shrinks == ({phase, phase'} \subseteq {"call", "asked"}) =>
                          Left' <= Left /\ (readdir => Left' < Left)
<1>2. IInv /\ IInv' /\ Next => Shrinks
  <2> SUFFICES ASSUME IInv, IInv', Next, phase \in {"call", "asked"}, phase' \in {"call", "asked"}
               PROVE  Left' <= Left /\ (readdir => Left' < Left)
    OBVIOUS
  <2>1. offset \in 0..Count + 2 /\ offset' \in 0..Count + 2 /\ Count \in Nat
    BY <1>1, TwoDots, ListingAssumption DEF IInv, TypeOK
  <2> DEFINE a == Steps(phase, fetched)
             b == Steps(phase', fetched')
  <2>2. Left = 3 * (Count + 2 - offset) + a /\ Left' = 3 * (Count + 2 - offset') + b
    BY DEF Left
  <2>3. a \in 0..2 /\ b \in 0..2
    BY DEF Steps
  <2>4. ASSUME NEW names \in SUBSET Names, Return(names) PROVE Left' < Left /\ Left' <= Left
    <3>1. Cardinality(Entries(names)) \in Nat
      BY EntriesAreFinite
    <3>2. PICK last \in offset .. Cardinality(Entries(names)) - 1 : offset' = last + 1
      BY <2>4 DEF Return, OffsetAfter
    <3>3. offset' > offset
      BY <2>1, <3>1, <3>2
    <3> HIDE DEF a, b
    <3> QED
      BY <2>1, <2>2, <2>3, <3>3, FurtherIsLess
  <2>5. CASE ReadCached
    <3>1. cached \in SUBSET Names /\ Return(cached)
      BY <2>5 DEF ReadCached, Known, IInv, TypeOK
    <3> QED
      BY <3>1, <2>4
  <2>6. CASE FetchArrives
    <3>1. fetched \in SUBSET Names /\ Return(fetched)
      BY <2>6 DEF FetchArrives, IInv, TypeOK
    <3> QED
      BY <3>1, <2>4
  <2>7. CASE Look \/ Fetch
    <3>1. offset' = offset /\ b < a
      BY <2>7, ListingAssumption DEF Look, Fetch, Steps, IInv, TypeOK, PhasesFit
    <3> HIDE DEF a, b
    <3>2. 3 * (Count + 2 - offset) + b < 3 * (Count + 2 - offset) + a
          /\ 3 * (Count + 2 - offset) + b <= 3 * (Count + 2 - offset) + a
      BY <2>1, <2>3, <3>1, StepIsLess
    <3> QED
      BY <2>2, <3>1, <3>2
  <2>8. ~Open /\ ~Close /\ ~ReadEnd /\ ~Fails
    BY DEF Open, Close, ReadEnd, Fails
  <2>9. CASE ~readdir
    <3>1. UNCHANGED <<fetched, phase, offset>>
      BY <2>8, <2>9 DEF Next, OthersChange, OtherLooks, OtherFetches, Create, Delete, AnswerArrives, AnswerLost
    <3>2. Left' = Left
      BY <3>1 DEF Left, Steps
    <3> QED
      BY <1>1, <2>9, <3>2
  <2> QED
    BY <2>5, <2>6, <2>7, <2>8, <2>9 DEF readdir
<1>3. IInv /\ IInv' /\ [Next]_vars => [Shrinks]_vars
  BY <1>2
<1> QED
  BY <1>1, <1>3, Invariance, PTL DEF Spec, ListingShrinks

=============================================================================
