SPECIFICATION FairSpec
CONSTANTS
    ClientIDs = {c1, c2}
    ClientNames = {ann}
    StoryIDs = {}
    StoryNames = {}
    None = None
    EstimateCards <- ServiceCards
    SpecialDeckCards = {}
    Atoi <- ServiceAtoi
    Procs = {p1, p2}
    Commands <- Locking
    MaxCommands = 4
    MaxFailures = 1
    HoldersMayStall = FALSE
CHECK_DEADLOCK FALSE
INVARIANT
    QuietRoomIsShown
PROPERTIES
    SavesSeeLatest
    SnapshotsInOrder
    LockIsFreed
    ImplementsRoom
