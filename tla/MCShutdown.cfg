SPECIFICATION FairSpec
CONSTANTS
    Subs = {r1, r2}
    Requests = {q1, q2, q3}
    kDbThreads = 1
    MaxEvents = 2
    NoRequest = NoRequest
INVARIANTS
    TypeOK
    UsersJoined
    ServesUntilSignal
PROPERTIES
    ShutdownCompletes
CHECK_DEADLOCK FALSE
