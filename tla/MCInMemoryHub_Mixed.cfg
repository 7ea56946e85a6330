SPECIFICATION Spec
CONSTANTS
    ClientIDs = {c1, c2}
    ClientNames = {ann}
    StoryIDs = {s1}
    StoryNames = {}
    None = None
    EstimateCards <- HubCards
    SpecialDeckCards = {}
    Atoi <- HubAtoi
    Procs = {p1, p2}
    Commands <- Mixed
    MaxCommands = 5
    MaxFailures = 1
CHECK_DEADLOCK FALSE
SYMMETRY Symmetry
INVARIANTS
    RoomsCorrect
    HubIsSettled
    EveryoneIsShown
PROPERTY
    SavedChangesAtomically
