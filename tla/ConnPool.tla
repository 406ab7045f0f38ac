------------------------------ MODULE ConnPool ------------------------------
(***************************************************************************)
(* What MysqlPool and RedisPool have in common: a queue of connections,    *)
(* getConn with its timed wait, and releaseConn.  A step is a critical     *)
(* section of mtx_; both pools notify while they hold it.                  *)
(***************************************************************************)
EXTENDS Naturals, Sequences, FiniteSets

CONSTANTS
    Users,    \* DB threads
    Handles,  \* MYSQL* or redisContext* values
    NoHandle, \* nullptr
    maxConn   \* maxConn_

ASSUME ConnPoolAssumption ==
    /\ IsFiniteSet(Users)
    /\ NoHandle \notin Handles
    /\ maxConn \in Nat

VARIABLES
    pool,     \* pool_
    upc,      \* of a user: "idle", "get" (about to test the predicate of the
              \* wait), "wait" (blocked in wait_for), "use", "discard" (the
              \* connection is broken), "failed" (getConn returned nullptr)
    held,     \* the connection a user has taken out of the pool
    lost      \* history: connections that could not be opened

connPoolVars == <<pool, upc, held, lost>>

Sleepers == {u \in Users : upc[u] = "wait"}
Pooled == {pool[i] : i \in 1 .. Len(pool)}
HeldNow == {held[u] : u \in Users} \ {NoHandle}

\* The constructor opens maxConn_ connections and keeps those that succeed.
PoolInit ==
    /\ \E n \in 0 .. maxConn :
         /\ pool \in [1 .. n -> Handles]
         /\ \A i, j \in 1 .. n : pool[i] = pool[j] => i = j
         /\ lost = maxConn - n
    /\ upc = [u \in Users |-> "idle"]
    /\ held = [u \in Users |-> NoHandle]

\* A user calls getConn.
GetConn(u) ==
    /\ upc[u] = "idle"
    /\ upc' = [upc EXCEPT ![u] = "get"]
    /\ UNCHANGED <<pool, held, lost>>

\* A fault: front() without pop().
PopFront(u) ==
    /\ pool # <<>>
    /\ held' = [held EXCEPT ![u] = Head(pool)]
    /\ upc' = [upc EXCEPT ![u] = "use"]
    /\ UNCHANGED <<pool, lost>>

\* conn = pool_.front(); pool_.pop()
Pop(u) ==
    /\ pool # <<>>
    /\ held' = [held EXCEPT ![u] = Head(pool)]
    /\ pool' = Tail(pool)
    /\ upc' = [upc EXCEPT ![u] = "use"]
    /\ UNCHANGED lost

\* The predicate of wait_for holds.
Acquire(u) == upc[u] = "get" /\ Pop(u)

\* It does not: wait_for blocks.
Block(u) ==
    /\ upc[u] = "get"
    /\ pool = <<>>
    /\ upc' = [upc EXCEPT ![u] = "wait"]
    /\ UNCHANGED <<pool, held, lost>>

\* wait_for wakes up without a notification.
SpuriousWakeup(u) ==
    /\ upc[u] = "wait"
    /\ upc' = [upc EXCEPT ![u] = "get"]
    /\ UNCHANGED <<pool, held, lost>>

\* A fault: wait instead of wait_for.
ExpireNever(u) == upc[u] = "get" /\ Pop(u)

\* kPoolAcquireTimeoutSec have passed: wait_for tests the predicate a last time.
Expire(u) ==
    /\ upc[u] \in {"get", "wait"}
    /\ \/ Pop(u)
       \/ /\ pool = <<>>
          /\ upc' = [upc EXCEPT ![u] = "failed"]
          /\ UNCHANGED <<pool, held, lost>>

\* A fault: the connection is put back without a notification.
PutBackQuiet(u, h) ==
    /\ pool' = Append(pool, h)
    /\ upc' = [upc EXCEPT ![u] = "idle"]
    /\ held' = [held EXCEPT ![u] = NoHandle]
    /\ UNCHANGED lost

\* pool_.push(h); cv_.notify_one(), by user u, which is done with it.
PutBack(u, h) ==
    /\ pool' = Append(pool, h)
    /\ \/ /\ Sleepers = {}
          /\ upc' = [upc EXCEPT ![u] = "idle"]
       \/ \E s \in Sleepers : upc' = [upc EXCEPT ![u] = "idle", ![s] = "get"]
    /\ held' = [held EXCEPT ![u] = NoHandle]
    /\ UNCHANGED lost

\* getConn returned nullptr; the caller reports it and gives up.
Fail(u) ==
    /\ upc[u] = "failed"
    /\ upc' = [upc EXCEPT ![u] = "idle"]
    /\ UNCHANGED <<pool, held, lost>>

\* A fault: a path of the caller returns without giving the connection back.
ReleaseConnLeak(u) ==
    /\ upc[u] = "use"
    /\ upc' = [upc EXCEPT ![u] = "idle"]
    /\ held' = [held EXCEPT ![u] = NoHandle]
    /\ UNCHANGED <<pool, lost>>

ReleaseConn(u) == upc[u] = "use" /\ PutBack(u, held[u])

\* A thread inside getConn.
Getting(u) == Acquire(u) \/ Block(u) \/ SpuriousWakeup(u) \/ Expire(u)

----------------------------------------------------------------------------
(* Properties of either pool.                                              *)

\* The queue, the threads and what they hold keep their types: nullptr is never
\* queued.
PoolTypeOK ==
    /\ pool \in Seq(Handles)
    /\ upc \in [Users -> {"idle", "get", "wait", "use", "discard", "failed"}]
    /\ held \in [Users -> Handles \cup {NoHandle}]
    /\ lost \in Nat

\* A connection is in one place: once in the queue or with one thread, as
\* MYSQL* and redisContext* demand; and a thread has one exactly while it uses
\* it.
Exclusive ==
    /\ \A i, j \in 1 .. Len(pool) : pool[i] = pool[j] => i = j
    /\ \A u, v \in Users : held[u] = held[v] /\ held[u] # NoHandle => u = v
    /\ Pooled \cap HeldNow = {}
    /\ \A u \in Users : held[u] # NoHandle <=> upc[u] \in {"use", "discard"}

\* Every path of getConn, releaseConn and discardBrokenConn accounts for its
\* connection: of the maxConn_ there are to be, each is queued, in use, or one
\* that could not be opened.
Accounted == Len(pool) + Cardinality(HeldNow) + lost = maxConn

\* A thread sleeps in getConn only while every connection in the queue has
\* another thread on its way to it.
NoSleeperBesideConn ==
    Sleepers # {} => Len(pool) <= Cardinality({u \in Users : upc[u] = "get"})

\* As long as there are as many connections as DB threads (kDbThreads 4, of
\* kDbMaxConn and kRedisMaxConn 8), no thread waits for one or fails to get it.
WaitsOnlyIfShort ==
    (\E u \in Users : upc[u] \in {"wait", "failed"}) => maxConn < Cardinality(Users) + lost

\* getConn returns within its timeout, with a connection or without.
GetConnReturns == \A u \in Users : (upc[u] = "get") ~> (upc[u] \in {"use", "failed"})
=============================================================================
