CONSTANTS
    t1 = t1
    t2 = t2
    Threads = {t1, t2}
    MaxGeneration = 2
    MaxTts = 1
    SilenceFramesThreshold = 1
    InterruptType = 1
SPECIFICATION Spec
INVARIANT BargeInFinishes
