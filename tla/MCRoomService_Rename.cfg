SPECIFICATION Spec
CONSTANTS
    ClientIDs = {c1, c2}
    ClientNames = {ann}
    StoryIDs = {}
    StoryNames = {}
    None = None
    EstimateCards <- ServiceCards
    SpecialDeckCards = {}
    Atoi <- ServiceAtoi
    Procs = {p1, p2}
    Commands <- Mixed
    MaxCommands = 4
    MaxFailures = 0
    HoldersMayStall = FALSE
CHECK_DEADLOCK FALSE
SYMMETRY Symmetry
PROPERTY
    RenameOnlyRenames
