CONSTANTS
    server = server
    client = client
    Peers <- TwoPeers
    SeqSpace = 6
    BufferSize = 1
    AckBits = 0
    IdSpace = 2
    MaxReliable <- OneFromClient
    MaxUnreliable <- NoMessages
    MaxInFlight <- TwoAndOne
SPECIFICATION LiveSpec
CONSTRAINT UnderWay
INVARIANT NewestIsRecognised
PROPERTY EventuallyDelivered
CHECK_DEADLOCK FALSE
