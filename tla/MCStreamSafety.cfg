SPECIFICATION Spec
CONSTANTS
    c1 = c1
    c2 = c2
    Conns = {c1, c2}
    None = None
    Sources <- BothSources
    ClientViews <- MixedViews
    MaxSessions = 1
    IoThreads = 2
    SpawnMayFail = TRUE
INVARIANTS
    TypeOK
    BroadcastToRegistered
    DanglesOnlyAfterFault
    StoppedMeansJoined
    SourceCallsExclusive
    NoWaitCycle
PROPERTIES
    SyncReachesSnapshot
    SourcesKeepPromise
