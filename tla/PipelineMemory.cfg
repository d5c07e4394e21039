SPECIFICATION Spec
CONSTANTS
    u1 = u1
    u2 = u2
    s1 = s1
    s2 = s2
    t1 = t1
    t2 = t2
    Users = {u1, u2}
    Sessions = {s1, s2}
    Threads = {t1, t2}
    SessionOf <- MCSessionOf
    Texts <- MCTexts
    Configs <- MCConfigs
    RoundTokens = {2}
    MaxLlmCacheEntries = 1
    MaxTurns = 3
    MaxFailures = 1
    MaxCrashes = 1
INVARIANTS
    TypeOK
    HistoryIsOwn
    CacheIsImpersonal
    ChatWithinLimits
    ChatFileCurrent
 
SYMMETRY Symmetry
CHECK_DEADLOCK FALSE
