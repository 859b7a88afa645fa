SPECIFICATION Spec
CONSTANTS
    Count = 2
    MaxAnswers = 2
    None = None
INVARIANTS TypeOK NothingIsMissed NothingIsListedTwice
PROPERTIES ListingEnds
