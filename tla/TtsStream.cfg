CONSTANTS
    t1 = t1
    t2 = t2
    Threads = {t1, t2}
    MaxGeneration = 2
    MaxTts = 2
    SilenceFramesThreshold = 1
    InterruptType = 0
    MaxChunks = 2
SPECIFICATION StreamSpec
SYMMETRY ThreadSymmetry
INVARIANTS
    OvertakenFallsSilent
    EndTellsWhatWasMade
CHECK_DEADLOCK FALSE
