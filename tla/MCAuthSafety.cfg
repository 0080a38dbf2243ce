SPECIFICATION Spec
CONSTANTS
    Threads = {t1, t2, t3}
    Ips = {i1, i2}
    Tokens = {k1, k2}
    None = None
    MaxFailAttempts = 2
    LockoutDuration = 2
    SessionTtl = 2
SYMMETRY Symmetric
INVARIANTS
    TypeOK
    AttemptsBounded
    RelocksAtOnce
PROPERTIES
    EndedSessionsStayEnded
    SessionsLastWhileUsed
