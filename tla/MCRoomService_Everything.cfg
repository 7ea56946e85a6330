SPECIFICATION Spec
CONSTANTS
    ClientIDs = {c1, c2}
    ClientNames = {ann}
    StoryIDs = {s1}
    StoryNames = {}
    None = None
    EstimateCards <- ServiceCards
    SpecialDeckCards = {}
    Atoi <- ServiceAtoi
    Procs = {p1, p2}
    Commands <- Everything
    MaxCommands = 4
    MaxFailures = 1
    HoldersMayStall = TRUE
CHECK_DEADLOCK FALSE
SYMMETRY Symmetry
INVARIANT
    StoredRoomCorrect
PROPERTY
    GuardedSavesSeeLatest
