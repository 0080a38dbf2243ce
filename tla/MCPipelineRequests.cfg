SPECIFICATION FairSpec
CONSTANTS
    c1 = c1
    c2 = c2
    Conns = {c1, c2}
    i1 = i1
    Ips = {i1}
    Segments <- SomeSegments
    LoginNames = {"login"}
    StreamNames = {"stream"}
    Requests <- EachWay
    Upgrades <- EachUpgrade
    IoThreads = 2
    MaxRequests = 1
    Window = 1
    MaxLag = 3
INVARIANTS
    TypeOK
    RateBounded
    HandledAsMeant
    GuardedBehindOneSlash
    ResponsesAreSecured
    RoomIsForUsers
PROPERTIES
    ConnectionsEnd
