----------------------------- MODULE MysqlPool -----------------------------
(***************************************************************************)
(* MysqlPool: the queue of ConnPool, used through MysqlGuard, whose        *)
(* destructor releases the connection on every way out of a handler.  No   *)
(* connection is ever replaced.                                            *)
(***************************************************************************)
EXTENDS ConnPool

vars == connPoolVars

Init == PoolInit

Next == \E u \in Users : GetConn(u) \/ Getting(u) \/ Fail(u) \/ ReleaseConn(u)

Spec == Init /\ [][Next]_vars
=============================================================================
