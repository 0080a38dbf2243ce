SPECIFICATION CooperativeSpec
CONSTANTS
    c1 = c1
    c2 = c2
    Conns = {c1, c2}
    None = None
    Sources <- ColorSource
    ClientViews <- ColorViews
    MaxSessions = 2
    IoThreads = 2
    SpawnMayFail = FALSE
PROPERTIES
    CallsReturn
    ClosedIsRemoved
    MatchUnlessOverlap
    ServedUnlessOverlap
