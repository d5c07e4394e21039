CONSTANTS
    t1 = t1
    t2 = t2
    Threads = {t1, t2}
    MaxGeneration = 3
    MaxTts = 2
    SilenceFramesThreshold = 2
    InterruptType = 1
SPECIFICATION Spec
SYMMETRY ThreadSymmetry
INVARIANTS
    TypeOK
    ClosedUtteranceHasThread
    NoSpuriousCancel
    CurrentIsLive
    QueueInOrder
CHECK_DEADLOCK FALSE
