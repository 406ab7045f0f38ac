SPECIFICATION FairSpec
CONSTANTS
    Users = {u1, u2, u3}
    Handles = {h1, h2, h3, h4}
    NoHandle = NoHandle
    maxConn = 3
INVARIANTS
    Exclusive
    Accounted
    NoSleeperBesideConn
    WaitsOnlyIfShort
PROPERTIES
    BrokenNotRequeued
    GetConnReturns
