SPECIFICATION Spec
CONSTANTS
    Subs = {r1, r2}
    Requests = {q1, q2}
    kDbThreads = 1
    MaxEvents = 1
    NoRequest = NoRequest
INVARIANTS
    NoUseOfFreedPool
CHECK_DEADLOCK FALSE
