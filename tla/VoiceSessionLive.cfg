CONSTANTS
    t1 = t1
    t2 = t2
    Threads = {t1, t2}
    MaxGeneration = 2
    MaxTts = 2
    SilenceFramesThreshold = 1
    InterruptType = 1
SPECIFICATION FairSpec
PROPERTIES
    ClosedUtteranceReopens
    TurnEnds
CHECK_DEADLOCK FALSE
