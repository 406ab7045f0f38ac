SPECIFICATION Spec
CONSTANTS
    SndBuf = 2
    MaxRequests = 2
    Pipelining = TRUE
INVARIANTS
    InOrder
CHECK_DEADLOCK FALSE
