SPECIFICATION FairSpec
CONSTANTS
    RoomIDs = {r1, r2}
    ClientIDs = {c1, c2}
    Sockets = {w1, w2}
    c1 = c1
    c2 = c2
    c3 = c3
    None = None
    NoTimer = None
    Views <- MCViews
    NoView <- MCEmpty
INVARIANTS
    PageFitsRoom
    TimersAreDue
PROPERTIES
    ComesBack
    WaitersAreReminded
