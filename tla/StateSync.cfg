SPECIFICATION Spec
CONSTANTS
    Clients = {c1, c2}
    Bound = 3
    MaxLevel = 2
    Radius = 1
    Depth = 2
    Starts <- OneSpot
    Directions <- RightOnly
    MaxSteps = 1
    MaxTick = 3
    ByteBits = 3
    AccBits = 4
    TickBits = 2
    CountBits = 2
    IdBits = 2
    PosBits = 2
    MaxInputs = 1
SYMMETRY ClientSymmetry
INVARIANTS TypeOK ViewConsistency DiffsOnlyAgainstApplied AgedOutFallsBack ReadAsWritten
CHECK_DEADLOCK FALSE
