SPECIFICATION Spec
CONSTANTS
    Clients = {c1}
    Bound = 3
    MaxLevel = 2
    Radius = 1
    Depth = 2
    Starts <- OneSpot
    Directions <- RightOnly
    MaxSteps = 2
    MaxTick = 4
    ByteBits = 3
    AccBits = 5
    TickBits = 3
    CountBits = 2
    IdBits = 2
    PosBits = 2
    MaxInputs = 2
INVARIANT AgedOutFallsBack
CHECK_DEADLOCK FALSE
