CONSTANTS
    s1 = s1
    p1 = p1
    p2 = p2
    p3 = p3
    None = None
    Purge = Purge
    Main = Main
    Sessions = {s1}
    Pipelines = {p1, p2, p3}
    MaxRetries = 2
SPECIFICATION FairSpec
INVARIANTS
    OnePullPerSession
    ThreadHasPipeline
    NoStrayFfmpeg
PROPERTIES
    ImplementsAudioPulls
    JoinReturns
    ShutdownEnds
CHECK_DEADLOCK FALSE
