SPECIFICATION FairSpec
CONSTANTS
    p1 = p1
    p2 = p2
    Procs = {p1, p2}
    admin = admin
    alice = alice
    Users = {admin, alice}
    Admin = admin
    NoRow = NoRow
    PortArgs <- SomePorts
    ThreadArgs <- SomeThreads
    SizeMod = 256
    MaxSize = 32
    MaxFaults = 3
INVARIANTS
    TypeOK
    ReadyMeansAccounts
    ThreadsAsAsked
PROPERTIES
    AccountsSurvive
    ServesAgain
