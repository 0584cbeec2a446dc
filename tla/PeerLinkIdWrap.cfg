CONSTANTS
    server = server
    client = client
    Peers <- TwoPeers
    SeqSpace = 8
    BufferSize = 2
    AckBits = 1
    IdSpace = 2
    MaxReliable <- ThreeFromServer
    MaxUnreliable <- NoMessages
    MaxPackets <- FourAndTwo
    MaxInFlight <- TwoEach
SPECIFICATION HistorySpec
INVARIANT NoFalseRetire
CHECK_DEADLOCK FALSE
