SPECIFICATION Spec
CONSTANTS
    t1 = t1
    t2 = t2
    x1 = x1
    x2 = x2
    x3 = x3
    p1 = p1
    p2 = p2
    Threads = {t1, t2}
    Texts = {x1, x2, x3}
    Paths = {p1, p2}
    Blocks <- MCBlocks
    Hash <- MCHash
    Backends = {"remote", "espeak", "program", "pipe", "missing"}
    MaxTurns = 3
    MaxCrashes = 1
INVARIANTS
    OwnVoice
    CacheSettles
SYMMETRY ThreadSymmetry
CHECK_DEADLOCK FALSE
