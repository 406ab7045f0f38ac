SPECIFICATION FairSpec
CONSTANTS
    Conns = {c1, c2}
    NoConn = NoConn
    Fds = {5}
    NSub = 1
    kMaxEvents = 2
    kIdleTimeoutSec = 60
    Senders = {c1}
    MaxRequests = 2
INVARIANTS
    FdOwnership
    NoDanglingChannel
    SweepIteratorValid
    NoLostWakeup
PROPERTIES
    OwnerDestroys
    ClosedPeerReclaimed
    RequestsRead
    BacklogServed
