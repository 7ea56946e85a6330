SPECIFICATION FairSpec
CONSTANTS
    Instances = {i1}
    RoomIDs = {r1}
    ClientIDs = {c1, c2}
    Buses = {b1, b2, b3}
    AdminOn = {}
    MaxFailures = 0
    None = None
CHECK_DEADLOCK FALSE
INVARIANTS
    ListenersAreReached
    UsersAreCounted
PROPERTY
    ClosesFinish
