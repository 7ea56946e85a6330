SPECIFICATION Spec
CONSTANTS
    Instances = {i1}
    RoomIDs = {r1}
    ClientIDs = {c1}
    Buses = {b1, b2}
    AdminOn = {}
    MaxFailures = 0
    None = None
CHECK_DEADLOCK FALSE
INVARIANT
    CountsEndWithClients
