SPECIFICATION Spec
CONSTANTS
    Threads = {t1, t2}
    Ips = {i1}
    Tokens = {k1}
    None = None
    MaxFailAttempts = 2
    LockoutDuration = 2
    SessionTtl = 2
PROPERTIES
    LockoutRunsItsCourse
