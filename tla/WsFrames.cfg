SPECIFICATION FairWireSpec
CONSTANTS
    MaxQueueSize = 1
    MaxFrames = 3
    MaxSize <- MCMaxSize
    Frames <- MCFrames
    MaxSent = 2
    Window = 2
INVARIANTS
    WireTypeOK
    NothingLostWhileUp
PROPERTIES
    ImplementsChannel
    AcceptedIsSent
    ReceivesInOrder
    SentIsDelivered
    EndingReachesReader
CHECK_DEADLOCK FALSE
