SPECIFICATION FairSpec
CONSTANTS
    SndBuf = 2
    MaxRequests = 3
    Pipelining = FALSE
PROPERTIES
    Implements
    CutOnlyWhenFull
    ClosesWhenSent
    BufferedAnswered
CHECK_DEADLOCK FALSE
