CONSTANTS
    server = server
    client = client
    Peers <- TwoPeers
    SeqSpace = 6
    BufferSize = 3
    AckBits = 2
    IdSpace = 2
    MaxReliable <- OneEach
    MaxUnreliable <- OneFromClient
    MaxPackets <- SixAndOne
    MaxInFlight <- TwoEach
SPECIFICATION HistorySpec
INVARIANTS TypeOK NoFalseRetire PacketCoversWindow AckedWindowGiven AtMostOnce
    AcksSurviveLoss FirstLapAcksAreTrue RemoteSequenceIsNewest
PROPERTY KeepsPromise
CHECK_DEADLOCK FALSE
