CONSTANTS
    SeqSpace = 8
    BufferSize = 2
    AckBits = 1
    Sizes = {1, 2, 3}
    CountSpace = 3
    MaxGroups = 2
    MaxSent = 3
SPECIFICATION Spec
INVARIANTS TypeOK OnlyWholePackets ArrivedIsReturned
PROPERTY IsDatagramPath
CHECK_DEADLOCK FALSE
