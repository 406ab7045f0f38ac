--------------------------- MODULE ConnPoolProof ---------------------------
(***************************************************************************)
(* The steps both connection pools are made of keep the invariant of the   *)
(* pools; RedisPool keeps it whatever Redis does, and never queues a       *)
(* connection that failed; MysqlPool keeps it.  All for any number of      *)
(* threads and connections.                                                *)
(***************************************************************************)
EXTENDS RedisPool, QueueProof, FiniteSetTheorems

USE ConnPoolAssumption

\* The threads that have tested the predicate of the wait, or are about to.
Getters == {u \in Users : upc[u] = "get"}

\* Where a connection is, and that it counts.
PoolInv == PoolTypeOK /\ Exclusive /\ Accounted /\ NoSleeperBesideConn /\ WaitsOnlyIfShort

\* The sets the invariant counts are finite, and fewer connections are held than
\* there are threads other than one that holds none.
LEMMA Counted ==
    ASSUME PoolTypeOK
    PROVE  /\ IsFiniteSet(HeldNow) /\ Cardinality(HeldNow) \in Nat
           /\ IsFiniteSet(Getters) /\ Cardinality(Getters) \in Nat
           /\ Len(pool) \in Nat /\ Cardinality(Users) \in Nat
           /\ \A u \in Users : held[u] = NoHandle => Cardinality(HeldNow) < Cardinality(Users)
<1>1. Len(pool) \in Nat /\ held \in [Users -> Handles \cup {NoHandle}]
  BY DEF PoolTypeOK
<1>2. IsFiniteSet(Getters) /\ Cardinality(Getters) \in Nat /\ Cardinality(Users) \in Nat
  BY FS_Subset, FS_CardinalityType DEF Getters
<1>3. ASSUME NEW U \in SUBSET Users, HeldNow \subseteq {held[u] : u \in U},
             \A u \in U : held[u] # NoHandle
      PROVE  IsFiniteSet(HeldNow) /\ Cardinality(HeldNow) <= Cardinality(U)
  <2>1. IsFiniteSet(U)
    BY FS_Subset
  <2>2. [u \in U |-> held[u]] \in Surjection(U, HeldNow)
    <3>1. \A u \in U : held[u] \in HeldNow
      BY <1>3 DEF HeldNow
    <3> QED BY <3>1, <1>3 DEF Surjection
  <2> QED BY <2>1, <2>2, FS_Surjection
<1> DEFINE U == {u \in Users : held[u] # NoHandle}
<1>4. HeldNow \subseteq {held[u] : u \in U}
  BY DEF HeldNow
<1>5. IsFiniteSet(HeldNow) /\ Cardinality(HeldNow) <= Cardinality(U)
  BY <1>3, <1>4
<1>6. ASSUME NEW u \in Users, held[u] = NoHandle
      PROVE  Cardinality(U) < Cardinality(Users)
  <2>1. U \in SUBSET (Users \ {u})
    BY <1>6
  <2>2. IsFiniteSet(Users \ {u}) /\ Cardinality(Users \ {u}) = Cardinality(Users) - 1
    BY FS_RemoveElement
  <2>3. Cardinality(U) <= Cardinality(Users \ {u}) /\ Cardinality(U) \in Nat
    BY <2>1, <2>2, FS_Subset, FS_CardinalityType
  <2> QED BY <2>2, <2>3, <1>2
<1>7. Cardinality(U) \in Nat /\ Cardinality(HeldNow) \in Nat
  BY <1>5, FS_Subset, FS_CardinalityType
<1> QED BY <1>1, <1>2, <1>5, <1>6, <1>7

\* The constructor.
LEMMA InitInv == PoolInit => PoolInv
<1> SUFFICES ASSUME PoolInit PROVE PoolInv
  OBVIOUS
<1>1. PICK n \in 0 .. maxConn : /\ pool \in [1 .. n -> Handles]
                                /\ \A i, j \in 1 .. n : pool[i] = pool[j] => i = j
                                /\ lost = maxConn - n
  BY DEF PoolInit
<1>2. pool \in Seq(Handles) /\ Len(pool) = n
  BY <1>1
<1>3. held = [u \in Users |-> NoHandle] /\ upc = [u \in Users |-> "idle"]
  BY DEF PoolInit
<1>4. HeldNow = {} /\ Sleepers = {}
  BY <1>3 DEF HeldNow, Sleepers
<1>5. PoolTypeOK
  BY <1>1, <1>2, <1>3 DEF PoolTypeOK
<1>6. Exclusive
  BY <1>1, <1>2, <1>3, <1>4 DEF Exclusive
<1>7. Accounted
  BY <1>1, <1>2, <1>4, FS_EmptySet DEF Accounted
<1> QED BY <1>3, <1>4, <1>5, <1>6, <1>7 DEF PoolInv, NoSleeperBesideConn, WaitsOnlyIfShort

\* A step of one thread that moves no connection: it starts to wait, or gives up,
\* only when the queue is empty.
LEMMA MoveInv ==
    ASSUME PoolInv, NEW u \in Users, NEW pc \in {"idle", "get", "wait", "failed", "discard"},
           upc' = [upc EXCEPT ![u] = pc], UNCHANGED <<pool, held, lost>>,
           upc[u] \in {"use", "discard"} <=> pc = "discard",
           pc \in {"wait", "failed"} \/ upc[u] = "get" => pool = <<>>
    PROVE  PoolInv'
<1> USE DEF PoolInv
<1>1. PoolTypeOK'
  BY DEF PoolTypeOK
<1>2. Exclusive'
  BY DEF PoolTypeOK, Exclusive, Pooled, HeldNow
<1>3. Accounted'
  BY DEF Accounted, HeldNow
<1>4. NoSleeperBesideConn'
  <2>0. /\ Len(pool) \in Nat /\ Cardinality(Getters) \in Nat /\ IsFiniteSet(Getters)
        /\ Cardinality(Getters') \in Nat
    BY <1>1, Counted, FS_Subset, FS_CardinalityType DEF Getters
  <2>1. CASE pool = <<>>
    BY <2>0, <2>1 DEF NoSleeperBesideConn, Getters
  <2>2. CASE pool # <<>>
    <3>1. Sleepers' # {} => Sleepers # {}
      BY <2>2 DEF Sleepers, PoolTypeOK
    <3>2. Getters' = Getters \/ (u \notin Getters /\ Getters' = Getters \cup {u})
      BY <2>2 DEF Getters, PoolTypeOK
    <3>3. u \notin Getters => Cardinality(Getters \cup {u}) = Cardinality(Getters) + 1
      BY <2>0, FS_AddElement, Zenon
    <3>4. Cardinality(Getters) <= Cardinality(Getters')
      <4>1. CASE Getters' = Getters
        BY <4>1, <2>0
      <4>2. CASE u \notin Getters /\ Getters' = Getters \cup {u}
        <5>1. Cardinality(Getters') = Cardinality(Getters) + 1
          BY <4>2, <3>3, Zenon
        <5> QED BY <5>1, <2>0
      <4> QED BY <3>2, <4>1, <4>2
    <3> QED BY <3>1, <3>4, <2>0 DEF NoSleeperBesideConn, Getters
  <2> QED BY <2>1, <2>2
<1>5. WaitsOnlyIfShort'
  <2>1. CASE pc \in {"wait", "failed"}
    <3>1. held[u] = NoHandle /\ Len(pool) = 0
      BY <2>1 DEF Exclusive
    <3>2. Cardinality(HeldNow) < Cardinality(Users)
      BY <3>1, Counted
    <3> QED BY <3>1, <3>2, Counted DEF Accounted, PoolTypeOK, WaitsOnlyIfShort
  <2>2. CASE pc \notin {"wait", "failed"}
    BY <2>2 DEF WaitsOnlyIfShort, PoolTypeOK
  <2> QED BY <2>1, <2>2
<1> QED BY <1>1, <1>2, <1>3, <1>4, <1>5

\* front() and pop() by a thread about to test the predicate, or woken by the
\* end of its timeout.
LEMMA PopInv ==
    ASSUME PoolInv, NEW u \in Users, upc[u] \in {"get", "wait"}, Pop(u)
    PROVE  PoolInv'
<1> USE DEF PoolInv
<1>0. /\ IsFiniteSet(HeldNow) /\ Cardinality(HeldNow) \in Nat
      /\ IsFiniteSet(Getters) /\ Cardinality(Getters) \in Nat /\ lost \in Nat
  BY Counted DEF PoolTypeOK
<1> DEFINE h == Head(pool)
<1>1. /\ held' = [held EXCEPT ![u] = h] /\ upc' = [upc EXCEPT ![u] = "use"] /\ lost' = lost
      /\ pool \in Seq(Handles) /\ Distinct(pool) /\ Popped(pool, pool', h)
  BY DEF Pop, PoolTypeOK, Exclusive, Popped, Distinct
<1> HIDE DEF h
<1>2. /\ pool' \in Seq(Handles) /\ h \in Handles /\ Distinct(pool')
      /\ h \in Pooled /\ Pooled' = Pooled \ {h}
      /\ Len(pool) = Len(pool') + 1 /\ Len(pool') \in Nat
  BY <1>1, QueueTail, Zenon DEF Pooled, Elems
<1>3. held[u] = NoHandle /\ h \notin HeldNow
  BY <1>2 DEF Exclusive
<1>4. HeldNow' = HeldNow \cup {h}
  BY <1>1, <1>2, <1>3 DEF HeldNow, PoolTypeOK
<1>5. PoolTypeOK'
  BY <1>1, <1>2 DEF PoolTypeOK
<1>6. Exclusive'
  <2>1. \A i, j \in 1 .. Len(pool') : pool'[i] = pool'[j] => i = j
    BY <1>2 DEF Distinct
  <2>2. \A v \in Users : v # u => held'[v] # h
    BY <1>1, <1>3, <1>2 DEF HeldNow, PoolTypeOK
  <2>3. \A v, w \in Users : held'[v] = held'[w] /\ held'[v] # NoHandle => v = w
    BY <1>1, <2>2 DEF Exclusive, PoolTypeOK
  <2>4. Pooled' \cap HeldNow' = {}
    BY <1>2, <1>4 DEF Exclusive
  <2>5. \A v \in Users : held'[v] # NoHandle <=> upc'[v] \in {"use", "discard"}
    BY <1>1, <1>2 DEF Exclusive, PoolTypeOK
  <2> QED BY <2>1, <2>3, <2>4, <2>5 DEF Exclusive
<1>7. Accounted'
  <2>0. Cardinality(HeldNow \cup {h}) = Cardinality(HeldNow) + 1
    BY <1>3, <1>0, FS_AddElement, Zenon
  <2>1. Cardinality(HeldNow') = Cardinality(HeldNow) + 1
    BY <1>4, <2>0, Zenon
  <2>2. Len(pool) + Cardinality(HeldNow) + lost = maxConn
    BY DEF Accounted
  <2>3. Len(pool') + Cardinality(HeldNow') + lost' = maxConn
    BY ONLY <1>0, <1>1, <1>2, <2>1, <2>2
  <2> QED BY <2>3 DEF Accounted
<1>8. NoSleeperBesideConn'
  <2>1. Sleepers' \subseteq Sleepers /\ Getters' = Getters \ {u}
    BY <1>1 DEF Sleepers, Getters, PoolTypeOK
  <2>0. Cardinality(Getters \ {u}) >= Cardinality(Getters) - 1
    <3>1. Cardinality(Getters \ {u}) = IF u \in Getters THEN Cardinality(Getters) - 1 ELSE Cardinality(Getters)
      BY <1>0, FS_RemoveElement, Zenon
    <3> QED BY <1>0, <3>1
  <2>2. Cardinality(Getters') >= Cardinality(Getters) - 1 /\ Cardinality(Getters') \in Nat
    <3>1. Cardinality(Getters') = Cardinality(Getters \ {u})
      BY <2>1, Zenon
    <3>2. Cardinality(Getters') \in Nat
      BY <2>1, <1>0, FS_RemoveElement, FS_CardinalityType
    <3> QED BY <3>1, <3>2, <2>0
  <2> QED BY <2>1, <2>2, <1>2, <1>0 DEF NoSleeperBesideConn, Getters
<1>9. WaitsOnlyIfShort'
  BY <1>1 DEF WaitsOnlyIfShort, PoolTypeOK
<1> QED BY <1>5, <1>6, <1>7, <1>8, <1>9

\* A thread gives up the connection it holds, with or without another of the
\* threads being woken.
LEMMA GiveUp ==
    ASSUME PoolInv, NEW u \in Users, upc[u] \in {"use", "discard"},
           held' = [held EXCEPT ![u] = NoHandle]
    PROVE  /\ held[u] \in HeldNow /\ HeldNow' = HeldNow \ {held[u]}
           /\ Cardinality(HeldNow') = Cardinality(HeldNow) - 1
           /\ \A v, w \in Users : held'[v] = held'[w] /\ held'[v] # NoHandle => v = w
<1>1. held[u] \in HeldNow
  BY DEF PoolInv, Exclusive, HeldNow
<1>2. HeldNow' = HeldNow \ {held[u]}
  BY <1>1 DEF PoolInv, Exclusive, HeldNow, PoolTypeOK
<1>3. Cardinality(HeldNow') = Cardinality(HeldNow) - 1
  BY <1>1, <1>2, Counted, FS_RemoveElement, Zenon DEF PoolInv
<1>4. \A v, w \in Users : held'[v] = held'[w] /\ held'[v] # NoHandle => v = w
  BY DEF PoolInv, Exclusive, PoolTypeOK
<1> QED BY <1>1, <1>2, <1>3, <1>4

\* push and notify_one by a thread that has a connection, of that connection or
\* of a new one in its place.
LEMMA PutBackInv ==
    ASSUME PoolInv, NEW u \in Users, upc[u] \in {"use", "discard"}, NEW h \in Handles,
           h = held[u] \/ h \notin Pooled \cup HeldNow, PutBack(u, h)
    PROVE  PoolInv'
<1> USE DEF PoolInv
<1>1. /\ Pushed(pool, pool', h) /\ held' = [held EXCEPT ![u] = NoHandle] /\ lost' = lost
      /\ pool \in Seq(Handles) /\ Distinct(pool)
  BY DEF PutBack, PoolTypeOK, Exclusive, Distinct, Pushed
<1>2. /\ held[u] \in HeldNow /\ HeldNow' = HeldNow \ {held[u]}
      /\ Cardinality(HeldNow') = Cardinality(HeldNow) - 1
      /\ \A v, w \in Users : held'[v] = held'[w] /\ held'[v] # NoHandle => v = w
  BY <1>1, GiveUp, Zenon
<1>3. h \notin Pooled /\ h \notin HeldNow'
  BY <1>2 DEF Exclusive
<1>4. /\ pool' \in Seq(Handles) /\ Distinct(pool') /\ Pooled' = Pooled \cup {h}
      /\ Len(pool') = Len(pool) + 1
  <2>1. h \notin Elems(pool) /\ Pooled = Elems(pool) /\ Pooled' = Elems(pool')
    BY <1>3 DEF Pooled, Elems
  <2>2. /\ pool' \in Seq(Handles) /\ Distinct(pool') /\ Elems(pool') = Elems(pool) \cup {h}
        /\ Len(pool') = Len(pool) + 1
    BY ONLY <1>1, <2>1, h \in Handles, QueueAppend
  <2> QED BY <2>1, <2>2, Zenon
<1>5. \/ Sleepers = {} /\ upc' = [upc EXCEPT ![u] = "idle"]
      \/ \E s \in Sleepers : upc' = [upc EXCEPT ![u] = "idle", ![s] = "get"]
  BY DEF PutBack
<1>6. \A s \in Sleepers : s \in Users /\ s # u /\ upc[s] = "wait"
  BY DEF Sleepers
<1>7. PoolTypeOK'
  <2>1. upc' \in [Users -> {"idle", "get", "wait", "use", "discard", "failed"}]
    BY <1>5, <1>6 DEF PoolTypeOK
  <2> QED BY <1>1, <1>4, <2>1, Zenon DEF PoolTypeOK
<1>8. Exclusive'
  <2>1. \A i, j \in 1 .. Len(pool') : pool'[i] = pool'[j] => i = j
    BY <1>4 DEF Distinct
  <2>2. Pooled' \cap HeldNow' = {}
    BY <1>2, <1>3, <1>4 DEF Exclusive
  <2>3. \A v \in Users : held'[v] # NoHandle <=> upc'[v] \in {"use", "discard"}
    BY <1>1, <1>5, <1>6 DEF Exclusive, PoolTypeOK
  <2> QED BY <1>2, <2>1, <2>2, <2>3 DEF Exclusive
<1>9. Accounted'
  <2>1. /\ Len(pool) \in Nat /\ Cardinality(HeldNow) \in Nat /\ lost \in Nat
        /\ Len(pool) + Cardinality(HeldNow) + lost = maxConn
    BY Counted DEF Accounted, PoolTypeOK
  <2>2. Len(pool') + Cardinality(HeldNow') + lost' = maxConn
    BY ONLY <1>1, <1>2, <1>4, <2>1
  <2> QED BY <2>2 DEF Accounted
<1>10. NoSleeperBesideConn'
  <2>1. CASE Sleepers = {} /\ upc' = [upc EXCEPT ![u] = "idle"]
    BY <2>1 DEF NoSleeperBesideConn, Sleepers, PoolTypeOK
  <2>2. ASSUME NEW s \in Sleepers, upc' = [upc EXCEPT ![u] = "idle", ![s] = "get"]
        PROVE  NoSleeperBesideConn'
    <3>1. Getters' = Getters \cup {s} /\ s \notin Getters
      BY <2>2, <1>6 DEF Getters, PoolTypeOK
    <3>2. Cardinality(Getters') = Cardinality(Getters) + 1
      BY <3>1, Counted, FS_AddElement, Zenon
    <3> QED BY <3>2, <2>2, <1>4, Counted DEF NoSleeperBesideConn, Getters
  <2> QED BY <1>5, <2>1, <2>2
<1>11. WaitsOnlyIfShort'
  BY <1>1, <1>5, <1>6 DEF WaitsOnlyIfShort, PoolTypeOK
<1> QED BY <1>7, <1>8, <1>9, <1>10, <1>11

\* A thread gives up a connection that could not be replaced.
LEMMA DropInv ==
    ASSUME PoolInv, NEW u \in Users, upc[u] = "discard",
           upc' = [upc EXCEPT ![u] = "idle"], held' = [held EXCEPT ![u] = NoHandle],
           lost' = lost + 1, pool' = pool
    PROVE  PoolInv'
<1> USE DEF PoolInv
<1>1. /\ held[u] \in HeldNow /\ HeldNow' = HeldNow \ {held[u]}
      /\ Cardinality(HeldNow') = Cardinality(HeldNow) - 1
      /\ \A v, w \in Users : held'[v] = held'[w] /\ held'[v] # NoHandle => v = w
  BY GiveUp, Zenon
<1>2. PoolTypeOK'
  BY DEF PoolTypeOK
<1>3. Exclusive'
  <2>1. Pooled' = Pooled
    BY DEF Pooled
  <2>2. \A v \in Users : held'[v] # NoHandle <=> upc'[v] \in {"use", "discard"}
    BY DEF Exclusive, PoolTypeOK
  <2> QED BY <1>1, <2>1, <2>2 DEF Exclusive
<1>4. Accounted'
  <2>1. /\ Len(pool) \in Nat /\ Cardinality(HeldNow) \in Nat /\ lost \in Nat
        /\ Len(pool) + Cardinality(HeldNow) + lost = maxConn
    BY Counted DEF Accounted, PoolTypeOK
  <2>2. Len(pool') + Cardinality(HeldNow') + lost' = maxConn
    BY <1>1, <2>1
  <2> QED BY <2>2 DEF Accounted
<1>5. NoSleeperBesideConn'
  <2>1. Sleepers' \subseteq Sleepers /\ Getters' = Getters
    BY DEF Sleepers, Getters, PoolTypeOK
  <2> QED BY <2>1, Zenon DEF NoSleeperBesideConn, Getters
<1>6. WaitsOnlyIfShort'
  BY Counted DEF WaitsOnlyIfShort, PoolTypeOK
<1> QED BY <1>2, <1>3, <1>4, <1>5, <1>6

\* The steps of getConn and releaseConn, which are those of either pool.
LEMMA CallInv ==
    ASSUME PoolInv, NEW u \in Users, GetConn(u) \/ Getting(u) \/ Fail(u) \/ ReleaseConn(u)
    PROVE  PoolInv'
<1>1. CASE GetConn(u)
  BY <1>1, MoveInv, Zenon DEF GetConn
<1>2. CASE Acquire(u)
  BY <1>2, PopInv DEF Acquire
<1>3. CASE Block(u)
  BY <1>3, MoveInv, Zenon DEF Block
<1>4. CASE SpuriousWakeup(u)
  BY <1>4, MoveInv, Zenon DEF SpuriousWakeup
<1>5. CASE Expire(u)
  <2>1. CASE Pop(u)
    BY <1>5, <2>1, PopInv DEF Expire
  <2>2. CASE ~Pop(u)
    BY <1>5, <2>2, MoveInv DEF Expire
  <2> QED BY <2>1, <2>2
<1>6. CASE Fail(u)
  BY <1>6, MoveInv, Zenon DEF Fail
<1>7. CASE ReleaseConn(u)
  <2>1. held[u] \in Handles
    BY <1>7 DEF ReleaseConn, PoolInv, Exclusive, PoolTypeOK
  <2> QED BY <1>7, <2>1, PutBackInv DEF ReleaseConn
<1> QED BY <1>1, <1>2, <1>3, <1>4, <1>5, <1>6, <1>7 DEF Getting

----------------------------------------------------------------------------
(* RedisPool.                                                              *)

\* A step of Redis or of a thread keeps the invariant of the pools.
LEMMA RedisStep == PoolInv /\ [Next]_vars => PoolInv'
<1> SUFFICES ASSUME PoolInv, [Next]_vars PROVE PoolInv'
  OBVIOUS
<1>1. CASE UNCHANGED connPoolVars
  <2> USE DEF connPoolVars
  <2>1. PoolTypeOK'
    BY <1>1 DEF PoolInv, PoolTypeOK
  <2>2. Exclusive'
    BY <1>1 DEF PoolInv, Exclusive, Pooled, HeldNow
  <2>3. Accounted'
    BY <1>1 DEF PoolInv, Accounted, Pooled, HeldNow
  <2>4. NoSleeperBesideConn' /\ WaitsOnlyIfShort'
    BY <1>1 DEF PoolInv, NoSleeperBesideConn, WaitsOnlyIfShort, Sleepers
  <2> QED BY <2>1, <2>2, <2>3, <2>4 DEF PoolInv
<1>2. ASSUME NEW u \in Users, GetConn(u) \/ Getting(u) \/ Fail(u) PROVE PoolInv'
  BY <1>2, CallInv
<1>3. ASSUME NEW u \in Users, Reply(u) PROVE PoolInv'
  BY <1>3, CallInv DEF Reply
<1>4. ASSUME NEW u \in Users, NoReply(u) PROVE PoolInv'
  BY <1>4, MoveInv, Zenon DEF NoReply
<1>5. ASSUME NEW u \in Users, DiscardBrokenConn(u) PROVE PoolInv'
  <2>1. upc[u] = "discard" /\ held[u] \in Handles
    BY <1>5 DEF DiscardBrokenConn, PoolInv, PoolTypeOK, Exclusive
  <2>2. ASSUME NEW h \in (Handles \ (Pooled \cup HeldNow)) \cup {held[u]}, PutBack(u, h)
        PROVE  PoolInv'
    <3>1. h \in Handles /\ (h = held[u] \/ h \notin Pooled \cup HeldNow)
      BY <2>1
    <3> QED BY <2>1, <2>2, <3>1, PutBackInv
  <2>3. ASSUME upc' = [upc EXCEPT ![u] = "idle"], held' = [held EXCEPT ![u] = NoHandle],
               lost' = lost + 1, pool' = pool
        PROVE  PoolInv'
    BY <2>1, <2>3, DropInv, Zenon
  <2> QED BY <1>5, <2>2, <2>3 DEF DiscardBrokenConn
<1> QED BY <1>1, <1>2, <1>3, <1>4, <1>5 DEF vars, Next, User, RedisDown, RedisUp

\* The invariant of the pools holds of RedisPool, whether Redis is up or not.
THEOREM RedisPoolInvariant == Spec => []PoolInv
<1>1. Init => PoolInv
  BY InitInv DEF Init
<1> QED BY <1>1, RedisStep, PTL DEF Spec

\* nullptr is never queued: getConn, releaseConn and discardBrokenConn keep the
\* types of the queue and of what the threads hold.
THEOREM RedisTypes == Spec => []PoolTypeOK
<1>1. PoolInv => PoolTypeOK
  BY DEF PoolInv
<1> QED BY <1>1, RedisPoolInvariant, PTL

\* No redisContext is ever in the hands of two threads, or in the queue and in
\* use.
THEOREM RedisExclusive == Spec => []Exclusive
<1>1. PoolInv => Exclusive
  BY DEF PoolInv
<1> QED BY <1>1, RedisPoolInvariant, PTL

\* No path of get, setex and del loses a connection other than one that
\* discardBrokenConn could not reopen.
THEOREM RedisAccounted == Spec => []Accounted
<1>1. PoolInv => Accounted
  BY DEF PoolInv
<1> QED BY <1>1, RedisPoolInvariant, PTL

\* The notify_one of releaseConn and discardBrokenConn is enough: no thread sleeps
\* in getConn beside a connection nobody comes for.
THEOREM RedisNoSleeper == Spec => []NoSleeperBesideConn
<1>1. PoolInv => NoSleeperBesideConn
  BY DEF PoolInv
<1> QED BY <1>1, RedisPoolInvariant, PTL

\* With as many connections left as DB threads, getConn neither waits nor fails.
THEOREM RedisWaits == Spec => []WaitsOnlyIfShort
<1>1. PoolInv => WaitsOnlyIfShort
  BY DEF PoolInv
<1> QED BY <1>1, RedisPoolInvariant, PTL

\* get, setex and del never queue a connection that failed a command.
THEOREM RedisBroken == Spec => BrokenNotRequeued
<1> DEFINE Kept == \A u \in Users : upc[u] \in {"use", "discard"} /\ held[u] \in broken =>
                       held[u] \notin Pooled' \cap broken'
<1>1. ASSUME PoolInv, [Next]_vars PROVE Kept
  <2> SUFFICES ASSUME NEW u \in Users, upc[u] \in {"use", "discard"}, held[u] \in broken
               PROVE  held[u] \notin Pooled' \cap broken'
    OBVIOUS
  <2> USE <1>1
  <2>1. held[u] \in HeldNow /\ held[u] \notin Pooled
    BY DEF PoolInv, Exclusive, HeldNow
  <2>2. CASE UNCHANGED pool
    BY <2>1, <2>2 DEF Pooled
  <2>3. ASSUME NEW v \in Users, Pop(v) PROVE held[u] \notin Pooled'
    <3>1. pool \in Seq(Handles) /\ Distinct(pool) /\ Popped(pool, pool', Head(pool))
      BY <2>3 DEF Pop, PoolInv, PoolTypeOK, Exclusive, Distinct, Popped
    <3>2. Elems(pool') \subseteq Elems(pool)
      BY <3>1, QueueTail
    <3> QED BY <2>1, <3>2, Zenon DEF Pooled, Elems
  <2>4. ASSUME NEW v \in Users, NEW h \in Handles, PutBack(v, h), upc[v] \in {"use", "discard"},
               h = held[v] \/ h \notin Pooled \cup HeldNow, v # u
        PROVE  held[u] \notin Pooled'
    <3>1. h # held[u]
      BY <2>1, <2>4 DEF PoolInv, Exclusive
    <3>2. h \notin Pooled
      <4>1. upc[v] \in {"use", "discard"} => held[v] \in HeldNow
        BY DEF PoolInv, Exclusive, HeldNow
      <4> QED BY <2>4, <4>1 DEF PoolInv, Exclusive
    <3>3. pool \in Seq(Handles) /\ Distinct(pool) /\ Pushed(pool, pool', h) /\ h \notin Elems(pool)
      BY <2>4, <3>2 DEF PutBack, PoolInv, PoolTypeOK, Exclusive, Distinct, Pushed, Pooled, Elems
    <3>4. Elems(pool') = Elems(pool) \cup {h}
      BY <3>3, QueueAppend
    <3> QED BY <2>1, <3>1, <3>4, Zenon DEF Pooled, Elems
  <2>5. ASSUME NEW v \in Users, Reply(v) PROVE held[u] \notin Pooled'
    <3>1. PutBack(v, held[v]) /\ upc[v] = "use" /\ held[v] \in Handles /\ v # u
      BY <2>5 DEF Reply, ReleaseConn, PoolInv, PoolTypeOK, Exclusive
    <3> QED BY <2>4, <3>1
  <2>6. ASSUME NEW v \in Users, DiscardBrokenConn(v) PROVE held[u] \notin Pooled' \cap broken'
    <3>1. CASE v = u
      BY <2>6, <3>1 DEF DiscardBrokenConn
    <3>2. CASE v # u
      <4>1. upc[v] = "discard" /\ held[v] \in Handles
        BY <2>6 DEF DiscardBrokenConn, PoolInv, PoolTypeOK, Exclusive
      <4>2. ASSUME NEW h \in (Handles \ (Pooled \cup HeldNow)) \cup {held[v]}, PutBack(v, h)
            PROVE  held[u] \notin Pooled'
        <5>1. h \in Handles /\ (h = held[v] \/ h \notin Pooled \cup HeldNow)
          BY <4>1
        <5> QED BY <2>4, <3>2, <4>1, <4>2, <5>1
      <4>3. CASE UNCHANGED pool
        BY <2>2, <4>3
      <4> QED BY <2>6, <4>2, <4>3 DEF DiscardBrokenConn
    <3> QED BY <3>1, <3>2
  <2>7. ASSUME NEW v \in Users, GetConn(v) \/ Getting(v) \/ Fail(v)
        PROVE  UNCHANGED pool \/ Pop(v)
    BY <2>7 DEF GetConn, Getting, Fail, Acquire, Block, SpuriousWakeup, Expire
  <2> QED BY <2>2, <2>3, <2>5, <2>6, <2>7
          DEF vars, connPoolVars, Next, User, RedisDown, RedisUp, NoReply
<1>2. Kept => [Kept]_vars
  OBVIOUS
<1> QED BY <1>1, RedisPoolInvariant, PTL DEF Spec, BrokenNotRequeued

----------------------------------------------------------------------------
(* MysqlPool.                                                              *)

Mysql == INSTANCE MysqlPool

\* A step of a thread that uses MysqlPool is one of those above.
LEMMA MysqlCall ==
    ASSUME Mysql!Next
    PROVE  \E u \in Users : GetConn(u) \/ Getting(u) \/ Fail(u) \/ ReleaseConn(u)
  BY DEF Mysql!Next, Mysql!GetConn, Mysql!Getting, Mysql!Acquire, Mysql!Block,
         Mysql!SpuriousWakeup, Mysql!Expire, Mysql!Pop, Mysql!Fail, Mysql!ReleaseConn,
         Mysql!PutBack, Mysql!Sleepers, GetConn, Getting, Acquire, Block, SpuriousWakeup,
         Expire, Pop, Fail, ReleaseConn, PutBack, Sleepers

\* MysqlGuard keeps what getConn and releaseConn need: every connection is queued
\* or with one handler, none is lost on the way, and no handler sleeps beside a
\* connection nobody comes for.
THEOREM MysqlPoolInvariant == Mysql!Spec => []PoolInv
<1>1. Mysql!Init => PoolInv
  BY InitInv DEF Mysql!Init, Mysql!PoolInit, PoolInit
<1>2. PoolInv /\ [Mysql!Next]_Mysql!vars => PoolInv'
  <2>1. ASSUME PoolInv, UNCHANGED Mysql!vars PROVE PoolInv'
    <3>1. pool' = pool /\ upc' = upc /\ held' = held /\ lost' = lost
      BY <2>1 DEF Mysql!vars, Mysql!connPoolVars
    <3>2. Pooled' = Pooled /\ HeldNow' = HeldNow /\ Sleepers' = Sleepers
      BY <3>1 DEF Pooled, HeldNow, Sleepers
    <3>3. PoolTypeOK' /\ Exclusive'
      BY <2>1, <3>1, <3>2 DEF PoolInv, PoolTypeOK, Exclusive
    <3>4. Accounted' /\ NoSleeperBesideConn' /\ WaitsOnlyIfShort'
      BY <2>1, <3>1, <3>2 DEF PoolInv, Accounted, NoSleeperBesideConn, WaitsOnlyIfShort
    <3> QED BY <3>3, <3>4 DEF PoolInv
  <2> QED BY <2>1, MysqlCall, CallInv
<1> QED BY <1>1, <1>2, PTL DEF Mysql!Spec
============================================================================
