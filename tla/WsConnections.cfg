CONSTANTS
    f1 = f1
    f2 = f2
    c1 = c1
    c2 = c2
    c3 = c3
    None = None
    Fds = {f1, f2}
    Conns = {c1, c2, c3}
    MaxConnections = 2
SPECIFICATION FairSpec
INVARIANTS
    TypeOK
    RegisteredIsUsable
    CountMatches
    NoDoubleJoin
PROPERTIES
    DisconnectIsReported
    StopEnds
CHECK_DEADLOCK FALSE
