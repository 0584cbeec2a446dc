CONSTANTS
    server = server
    client = client
    Peers <- TwoPeers
    SeqSpace = 10
    BufferSize = 2
    AckBits = 1
    IdSpace = 2
    MaxReliable <- NoMessages
    MaxUnreliable <- NoMessages
    MaxPackets <- FourAndTwo
    MaxInFlight <- ThreeEach
SPECIFICATION HistorySpec
INVARIANT HeadersNameArrivals
CHECK_DEADLOCK FALSE
