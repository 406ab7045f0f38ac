----------------------------- MODULE RedisPool -----------------------------
(***************************************************************************)
(* RedisPool: the queue of ConnPool and the commands get, setex and del,   *)
(* each of which runs getConn, redisCommand, then releaseConn or           *)
(* discardBrokenConn.                                                      *)
(***************************************************************************)
EXTENDS ConnPool

VARIABLES
    up,      \* Redis can be reached (external)
    broken   \* connections Redis has dropped (external)

vars == <<connPoolVars, up, broken>>

Init ==
    /\ PoolInit
    /\ up \in BOOLEAN
    /\ broken = IF up THEN {} ELSE Pooled

\* Redis stops, and with it all its connections.
RedisDown ==
    /\ up
    /\ up' = FALSE
    /\ broken' = Pooled \cup HeldNow
    /\ UNCHANGED connPoolVars

RedisUp ==
    /\ ~up
    /\ up' = TRUE
    /\ UNCHANGED <<connPoolVars, broken>>

\* redisCommand got a reply, of whatever type: the connection is released.
Reply(u) ==
    /\ upc[u] = "use" /\ held[u] \notin broken
    /\ ReleaseConn(u)
    /\ UNCHANGED <<up, broken>>

\* A fault: the connection is released although the reply is NULL.
NoReplyRelease(u) ==
    /\ upc[u] = "use" /\ held[u] \in broken
    /\ ReleaseConn(u)
    /\ UNCHANGED <<up, broken>>

\* redisCommand returned NULL.
NoReply(u) ==
    /\ upc[u] = "use" /\ held[u] \in broken
    /\ upc' = [upc EXCEPT ![u] = "discard"]
    /\ UNCHANGED <<pool, held, lost, up, broken>>

\* discardBrokenConn: redisFree, then createConn, which may be given the address
\* of the old connection, and may fail.
DiscardBrokenConn(u) ==
    /\ upc[u] = "discard"
    /\ \/ \E h \in (Handles \ (Pooled \cup HeldNow)) \cup {held[u]} :
             /\ up
             /\ PutBack(u, h)
       \/ /\ upc' = [upc EXCEPT ![u] = "idle"]
          /\ held' = [held EXCEPT ![u] = NoHandle]
          /\ lost' = lost + 1
          /\ UNCHANGED pool
    /\ broken' = broken \ {held[u]}
    /\ UNCHANGED up

User(u) ==
    \/ (GetConn(u) \/ Getting(u) \/ Fail(u)) /\ UNCHANGED <<up, broken>>
    \/ Reply(u)
    \/ NoReply(u)
    \/ DiscardBrokenConn(u)

Next == RedisDown \/ RedisUp \/ \E u \in Users : User(u)

Spec == Init /\ [][Next]_vars

\* Time passes in wait_for.  Nothing is assumed of redisCommand, which has no
\* timeout.
FairSpec == Spec /\ \A u \in Users : WF_vars(Expire(u) /\ UNCHANGED <<up, broken>>)

----------------------------------------------------------------------------

\* A connection that fails a command is never queued again as it is ("Broken
\* connection: do not return it to the pool").
BrokenNotRequeued ==
    [][\A u \in Users : upc[u] \in {"use", "discard"} /\ held[u] \in broken =>
          held[u] \notin Pooled' \cap broken']_vars
=============================================================================
