SPECIFICATION Spec
CONSTANTS
    c1 = c1
    c2 = c2
    Conns = {c1, c2}
    None = None
    Sources <- BothSources
    ClientViews <- MixedViews
    MaxSessions = 2
    IoThreads = 2
    SpawnMayFail = FALSE
INVARIANTS
    SourcesMatchClients
