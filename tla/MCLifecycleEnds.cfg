SPECIFICATION LifeFairSpec
CONSTANTS
    c1 = c1
    c2 = c2
    Conns = {c1, c2}
    None = None
    Sources <- BothSources
    ClientViews <- ColorViews
    MaxSessions = 2
    IoThreads = 2
    SpawnMayFail = TRUE
INVARIANTS
    LifeTypeOK
    WritesReachLiveConnections
    QuietWhenGone
    DestructorsAlone
PROPERTIES
    SignalEndsProcess
