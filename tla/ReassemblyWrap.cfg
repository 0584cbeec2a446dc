CONSTANTS
    SeqSpace = 4
    BufferSize = 2
    AckBits = 1
    Sizes = {2}
    CountSpace = 3
    MaxGroups = 2
    MaxSent = 4
SPECIFICATION Spec
INVARIANT OnlyWholePackets
CHECK_DEADLOCK FALSE
