SPECIFICATION Spec
CONSTANTS
    c1 = c1
    Conns = {c1}
    i1 = i1
    Ips = {i1}
    Segments <- SomeSegments
    LoginNames = {"login"}
    StreamNames = {"stream"}
    Requests <- EachWay
    Upgrades <- EachUpgrade
    IoThreads = 1
    MaxRequests = 1
    Window = 1
    MaxLag = 0
INVARIANTS
    LogoutIsGuarded
