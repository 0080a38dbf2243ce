SPECIFICATION LifeSpec
CONSTANTS
    c1 = c1
    Conns = {c1}
    None = None
    Sources <- ColorSource
    ClientViews <- ColorViews
    MaxSessions = 2
    IoThreads = 2
    SpawnMayFail = FALSE
INVARIANTS
    ShutsDownCleanly
