SPECIFICATION Spec
CONSTANTS
    u1 = u1
    u2 = u2
    s1 = s1
    s2 = s2
    t1 = t1
    t2 = t2
    Users = {u1, u2}
    Sessions = {s1, s2}
    Threads = {t1, t2}
    SessionOf <- MCSessionOf
    Texts <- MCTexts
    Configs <- MCConfigs
    RoundTokens = {2}
    MaxLlmCacheEntries = 1
    MaxTurns = 2
    MaxFailures = 0
    MaxCrashes = 0
INVARIANT MemoryIsolation
CHECK_DEADLOCK FALSE
