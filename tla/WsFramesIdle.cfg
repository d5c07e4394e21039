SPECIFICATION WireSpec
CONSTANTS
    MaxQueueSize = 1
    MaxFrames = 3
    MaxSize <- MCMaxSize
    Frames <- MCFrames
    MaxSent = 2
    Window = 2
PROPERTY IdleRobotIsKept
CHECK_DEADLOCK FALSE
