SPECIFICATION Spec
CONSTANTS
    kMaxHeaderBytes = 4
    kMaxBodyBytes = 1
    MaxTokens = 7
INVARIANTS
    Framed
    NoneWaits
    RejectedForCause
CHECK_DEADLOCK FALSE
