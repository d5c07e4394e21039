CONSTANTS
    c1 = c1
    c2 = c2
    f1 = f1
    s1 = s1
    s2 = s2
    None = None
    Cleanup = Cleanup
    Conns = {c1, c2}
    Fds = {f1}
    Sessions = {s1, s2}
    MaxSessions = 2
    StreamsPerConnection = 1
SPECIFICATION FairSpec
INVARIANTS
    OwnDisconnectLeavesNoPull
    DisconnectSparesOpen
PROPERTIES
    UsesAudioPulls
    
CHECK_DEADLOCK FALSE
