SPECIFICATION Spec
CONSTANTS
    ClientIDs = {c1, c2, c3}
    ClientNames = {}
    StoryIDs = {s1, s2}
    StoryNames = {}
    None = None
    EstimateCards <- SmallCards
    SpecialDeckCards = {"?"}
    Atoi <- SmallAtoi
SYMMETRY Symmetry
INVARIANTS
    RoomHasOwner
    StoryIndexValid
    ResultsCoherent
PROPERTIES
    CompletedBallotReveals
    RevealedIsFrozen
    AnotherStoryStartsFreshRound
    EstimatesKept
