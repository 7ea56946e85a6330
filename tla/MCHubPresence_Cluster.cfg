SPECIFICATION Spec
CONSTANTS
    Instances = {i1, i2}
    RoomIDs = {r1, r2}
    ClientIDs = {c1, c2}
    Buses = {b1, b2}
    AdminOn = {i1, i2}
    MaxFailures = 2
    None = None
CHECK_DEADLOCK FALSE
SYMMETRY Symmetry
INVARIANT
    MappedAreSubscribed
