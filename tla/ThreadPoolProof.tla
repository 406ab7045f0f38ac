-------------------------- MODULE ThreadPoolProof --------------------------
(***************************************************************************)
(* ThreadPool keeps its inductive invariant and implements TaskPool, for   *)
(* any finite number of workers and tasks.                                 *)
(***************************************************************************)
EXTENDS ThreadPool, QueueProof, FiniteSetTheorems

USE ThreadPoolAssumption

\* The constructor establishes the invariant.
LEMMA PoolInit == Init => IInv
<1> SUFFICES ASSUME Init PROVE IInv
  OBVIOUS
<1>1. TypeOK
  <2>1. tasks \in Seq(Tasks) /\ done \subseteq Tasks
    BY DEF Init
  <2>0. stop \in BOOLEAN /\ dpc \in {"none", "notify", "join", "returned"}
    BY Zenon DEF Init
  <2>2. /\ call \in [Tasks -> Calls] /\ cur \in [Workers -> Tasks \cup {NoTask}]
        /\ wpc \in [Workers -> {"lock", "wait", "run", "exited"}]
    BY DEF Init, Calls
  <2> QED BY <2>0, <2>1, <2>2 DEF TypeOK
<1>0. NoSleeperAtJoin
  BY DEF Init, NoSleeperAtJoin
<1>2. Queued = {} /\ Running = {} /\ done = {}
  BY DEF Init, Queued, Running
<1>3. tasks = <<>> /\ Len(tasks) = 0
  BY DEF Init
<1> QED BY <1>0, <1>1, <1>2, <1>3 DEF Init, IInv, ExactlyOnce

\* add keeps the invariant: it queues a task nobody has seen.
LEMMA AddStep == ASSUME IInv, NEW t \in Tasks, Add(t) PROVE IInv'
<1> USE DEF IInv, TypeOK, Calls, ExactlyOnce
<1>1. CASE stop
  BY <1>1 DEF Add, NoSleeperAtJoin, Queued, Running, Waiting
<1>2. CASE ~stop
  <2>1. t \notin Queued \cup Running \cup done
    BY DEF Add
  <2>2. /\ tasks' \in Seq(Tasks)
        /\ \A i, j \in 1 .. Len(tasks') : tasks'[i] = tasks'[j] => i = j
        /\ Queued' = Queued \cup {t}
    <3>1. /\ Pushed(tasks, tasks', t) /\ tasks \in Seq(Tasks) /\ Distinct(tasks)
          /\ t \notin Elems(tasks)
      BY <1>2, <2>1 DEF Add, Pushed, Distinct, Elems, Queued
    <3>2. tasks' \in Seq(Tasks) /\ Distinct(tasks') /\ Elems(tasks') = Elems(tasks) \cup {t}
      BY ONLY <3>1, t \in Tasks, QueueAppend
    <3> QED BY ONLY <3>2, Zenon DEF Elems, Distinct, Queued
  <2>3. \A w \in Workers : cur[w] # t
    BY <2>1 DEF Running
  <2>4. call' = [call EXCEPT ![t] = "notify"] /\ UNCHANGED <<stop, wpc, cur, done, dpc>>
    BY <1>2 DEF Add
  <2>5. Running' = Running
    BY <2>4 DEF Running
  <2>6. \A w \in Workers : wpc[w] # "exited"
    BY <1>2
  <2> QED BY <1>2, <2>1, <2>2, <2>3, <2>4, <2>5, <2>6 DEF NoSleeperAtJoin, Waiting
<1> QED BY <1>1, <1>2

\* Notifications, waits and wake-ups move no task.
LEMMA IdleStep ==
    ASSUME IInv,
           \/ \E t \in Tasks : NotifyOne(t)
           \/ \E w \in Workers : Wait(w) \/ SpuriousWakeup(w) \/ Exit(w)
           \/ Destructor
    PROVE  IInv' /\ Queued' = Queued /\ Running' = Running
<1> USE DEF IInv, TypeOK, Calls, ExactlyOnce, NoSleeperAtJoin, Waiting
<1>1. ASSUME NEW t \in Tasks, NotifyOne(t) PROVE IInv' /\ Queued' = Queued /\ Running' = Running
  <2>1. /\ call' = [call EXCEPT ![t] = "returned"] /\ call[t] = "notify"
        /\ UNCHANGED <<tasks, stop, cur, done, dpc>> /\ dpc # "returned"
    BY <1>1 DEF NotifyOne
  <2>2. /\ wpc' \in [Workers -> {"lock", "wait", "run", "exited"}]
        /\ \A w \in Workers : wpc'[w] = wpc[w] \/ (wpc[w] = "wait" /\ wpc'[w] = "lock")
    BY <1>1 DEF NotifyOne
  <2>3. Queued' = Queued /\ Running' = Running
    BY <2>1, <2>2 DEF Queued, Running
  <2>4. TypeOK' /\ NoSleeperAtJoin'
    BY <2>1, <2>2
  <2>5. ExactlyOnce'
    BY <2>1, <2>2, <2>3
  <2> QED BY <2>3, <2>4, <2>5
<1>2. ASSUME NEW w \in Workers, Wait(w) \/ SpuriousWakeup(w) \/ Exit(w)
      PROVE  IInv' /\ Queued' = Queued /\ Running' = Running
  BY <1>2 DEF Wait, SpuriousWakeup, Exit, Queued, Running
<1>3. CASE SetStop
  BY <1>3 DEF SetStop, Queued, Running
<1>4. CASE NotifyAll
  <2>1. /\ wpc' = [w \in Workers |-> IF wpc[w] = "wait" THEN "lock" ELSE wpc[w]]
        /\ dpc = "notify" /\ dpc' = "join" /\ UNCHANGED <<tasks, stop, call, cur, done>>
    BY <1>4 DEF NotifyAll
  <2>2. /\ wpc' \in [Workers -> {"lock", "wait", "run", "exited"}]
        /\ \A w \in Workers : /\ wpc'[w] # "wait"
                              /\ wpc[w] # "wait" => wpc'[w] = wpc[w]
                              /\ wpc[w] = "wait" => wpc'[w] = "lock"
    BY <2>1
  <2>3. Queued' = Queued
    BY <2>1 DEF Queued
  <2>6. {v \in Workers : wpc'[v] = "run"} = {v \in Workers : wpc[v] = "run"}
    BY <2>2
  <2>7. Running' = Running
    BY ONLY <2>1, <2>6, Zenon DEF Running
  <2>4. TypeOK' /\ NoSleeperAtJoin'
    BY <2>1, <2>2
  <2>5. ExactlyOnce'
    BY <2>1, <2>2, <2>3, <2>7
  <2> QED BY <2>3, <2>4, <2>5, <2>7
<1>5. CASE Join
  BY <1>5 DEF Join, Queued, Running
<1> QED BY <1>1, <1>2, <1>3, <1>4, <1>5 DEF Destructor

\* The worker that pops a task is the only one to have it.
LEMMA TakeStep ==
    ASSUME IInv, NEW w \in Workers, Take(w)
    PROVE  /\ IInv'
           /\ Head(tasks) \in Queued
           /\ Running' = Running \cup {Head(tasks)}
<1> USE DEF IInv, TypeOK, Calls, ExactlyOnce
<1> DEFINE h == Head(tasks)
<1>1. /\ tasks' \in Seq(Tasks) /\ h \in Tasks /\ h \in Queued
      /\ \A i, j \in 1 .. Len(tasks') : tasks'[i] = tasks'[j] => i = j
      /\ Queued' = Queued \ {h}
  <2>1. tasks \in Seq(Tasks) /\ Popped(tasks, tasks', h) /\ Distinct(tasks)
    BY DEF Take, Popped, Distinct
  <2>2. /\ tasks' \in Seq(Tasks) /\ h \in Tasks /\ Distinct(tasks')
        /\ h \in Elems(tasks) /\ Elems(tasks') = Elems(tasks) \ {h}
    BY ONLY <2>1, QueueTail, Zenon
  <2> QED BY ONLY <2>2, Zenon DEF Elems, Distinct, Queued
<1> HIDE DEF h
<1>2. /\ cur' = [cur EXCEPT ![w] = h] /\ wpc' = [wpc EXCEPT ![w] = "run"]
      /\ wpc[w] = "lock" /\ tasks # <<>> /\ UNCHANGED <<stop, call, done, dpc>>
  BY DEF Take, h
<1>3. Running' = Running \cup {h}
  BY <1>2 DEF Running
<1>4. \A v \in Workers : wpc[v] # "exited"
  BY <1>2
<1>5. h # NoTask /\ h \notin done /\ \A v \in Workers : cur[v] # h
  BY <1>1
<1>6. IInv'
  BY <1>1, <1>2, <1>3, <1>4, <1>5 DEF NoSleeperAtJoin, Waiting
<1> QED BY <1>1, <1>3, <1>6 DEF h

\* A task that returns is finished and no worker has it.
LEMMA ReturnStep ==
    ASSUME IInv, NEW w \in Workers, Return(w)
    PROVE  /\ IInv'
           /\ cur[w] \in Running
           /\ Running' = Running \ {cur[w]}
<1> USE DEF IInv, TypeOK, Calls, ExactlyOnce
<1>1. /\ cur' = [cur EXCEPT ![w] = NoTask] /\ wpc' = [wpc EXCEPT ![w] = "lock"]
      /\ wpc[w] = "run" /\ done' = done \cup {cur[w]} /\ UNCHANGED <<tasks, stop, call, dpc>>
  BY DEF Return
<1>2. cur[w] \in Tasks /\ cur[w] \in Running
  BY <1>1 DEF Running
<1>3. Running' = Running \ {cur[w]}
  BY <1>1, <1>2 DEF Running
<1>4. Queued' = Queued
  BY <1>1 DEF Queued
<1>5. TypeOK' /\ NoSleeperAtJoin'
  BY <1>1, <1>2 DEF NoSleeperAtJoin, Waiting
<1>6. /\ cur[w] \notin Queued /\ call[cur[w]] \in {"notify", "returned"}
      /\ \A v \in Workers : v # w => cur'[v] = cur[v] /\ cur[v] # cur[w] /\ wpc'[v] = wpc[v]
      /\ cur'[w] = NoTask /\ wpc'[w] = "lock" /\ NoTask \notin Queued \cup done \cup {cur[w]}
  <2>1. Queued \subseteq Tasks
    BY DEF Queued
  <2> QED BY <1>1, <1>2, <2>1
<1>7. ExactlyOnce'
  BY <1>1, <1>3, <1>4, <1>6
<1> QED BY <1>2, <1>3, <1>5, <1>7

\* The invariant is inductive.
LEMMA PoolStep == IInv /\ [Next]_vars => IInv'
<1> SUFFICES ASSUME IInv, [Next]_vars PROVE IInv'
  OBVIOUS
<1>1. CASE UNCHANGED vars
  BY <1>1 DEF vars, IInv, TypeOK, NoSleeperAtJoin, ExactlyOnce, Queued, Running, Waiting
<1> QED BY <1>1, AddStep, IdleStep, TakeStep, ReturnStep DEF Next, Caller, Worker, Gone

\* ThreadPool runs each accepted task at most once, in one worker, and no worker
\* leaves before its queue is drained, for any number of workers and tasks.
THEOREM PoolInvariant == Spec => []IInv
BY PoolInit, PoolStep, PTL DEF Spec

\* add, the workers and ~ThreadPool keep the types of what they share.
THEOREM PoolTypes == Spec => []TypeOK
<1>1. IInv => TypeOK
  BY DEF IInv
<1> QED BY <1>1, PoolInvariant, PTL

\* Each task is in one place.
THEOREM TasksOnce == Spec => []ExactlyOnce
<1>1. IInv => ExactlyOnce
  BY DEF IInv
<1> QED BY <1>1, PoolInvariant, PTL

\* No worker waits once ~ThreadPool has notified them all.
THEOREM JoinSafe == Spec => []NoSleeperAtJoin
<1>1. IInv => NoSleeperAtJoin
  BY DEF IInv
<1> QED BY <1>1, PoolInvariant, PTL

----------------------------------------------------------------------------
(* Notifications are enough.                                               *)

\* The sets WorkConserving counts are finite.
LEMMA Counted ==
    ASSUME TypeOK
    PROVE  /\ IsFiniteSet(Awake) /\ Cardinality(Awake) \in Nat
           /\ IsFiniteSet(Notifying) /\ Cardinality(Notifying) \in Nat
           /\ Len(tasks) \in Nat
<1>1. IsFiniteSet(Awake) /\ Cardinality(Awake) \in Nat
  BY FS_Subset, FS_CardinalityType DEF Awake
<1>2. IsFiniteSet(Notifying) /\ Cardinality(Notifying) \in Nat
  BY FS_Subset, FS_CardinalityType DEF Notifying
<1> QED BY <1>1, <1>2 DEF TypeOK

\* What a step does to the workers awake, the notifications to be sent and the
\* length of the queue, unless it leaves the queue empty.
Balanced ==
    \/ tasks' = <<>>
    \/ /\ Waiting # {}
       /\ \/ Awake' = Awake /\ Notifying' = Notifying /\ Len(tasks') = Len(tasks)
          \/ \E t \in Tasks \ Notifying :
                /\ Awake' = Awake /\ Notifying' = Notifying \cup {t}
                /\ Len(tasks') = Len(tasks) + 1
          \/ \E t \in Notifying, w \in Workers \ Awake :
                /\ Awake' = Awake \cup {w} /\ Notifying' = Notifying \ {t}
                /\ Len(tasks') = Len(tasks)
          \/ \E w \in Awake :
                /\ Awake' = Awake \ {w} /\ Notifying' = Notifying
                /\ Len(tasks') = Len(tasks) - 1
          \/ \E w \in Workers \ Awake :
                /\ Awake' = Awake \cup {w} /\ Notifying' = Notifying
                /\ Len(tasks') = Len(tasks)

\* Every step that leaves a worker waiting is of this kind.
LEMMA Balance == ASSUME IInv, Next, Waiting' # {} PROVE Balanced
<1> USE DEF Balanced, Awake, Waiting, Notifying, IInv, TypeOK, Calls
<1>1. ASSUME NEW t \in Tasks, Add(t) PROVE Balanced
  BY <1>1 DEF Add
<1>2. ASSUME NEW t \in Tasks, NotifyOne(t) PROVE Balanced
  BY <1>2 DEF NotifyOne
<1>3. ASSUME NEW w \in Workers, Wait(w) \/ Exit(w) PROVE Balanced
  <2>1. tasks' = <<>>
    BY <1>3 DEF Wait, Exit
  <2> QED BY <2>1
<1>4. ASSUME NEW w \in Workers, Take(w) PROVE Balanced
  BY <1>4 DEF Take
<1>5. ASSUME NEW w \in Workers, SpuriousWakeup(w) \/ Return(w) PROVE Balanced
  BY <1>5 DEF SpuriousWakeup, Return
<1>6. CASE NotifyAll
  BY <1>6 DEF NotifyAll
<1>7. CASE SetStop \/ Join \/ Gone
  BY <1>7 DEF SetStop, Join, Gone, vars
<1> HIDE DEF Balanced, Awake, Waiting, Notifying, IInv, TypeOK, Calls
<1> QED BY <1>1, <1>2, <1>3, <1>4, <1>5, <1>6, <1>7, Zenon DEF Next, Caller, Worker, Destructor


\* add and the end of a task leave no worker asleep beside a task nobody comes
\* for, although notify_one comes after the mutex is released.
THEOREM PoolConserves == Spec => []WorkConserving
<1>1. Init => WorkConserving
  BY DEF Init, WorkConserving, Waiting
<1>2. ASSUME IInv, WorkConserving, [Next]_vars PROVE WorkConserving'
  <2>1. CASE UNCHANGED vars
    BY <1>2, <2>1 DEF vars, WorkConserving, Waiting, Awake, Notifying
  <2>2. CASE Next /\ Waiting' # {}
    <3>1. /\ IsFiniteSet(Awake) /\ Cardinality(Awake) \in Nat
          /\ IsFiniteSet(Notifying) /\ Cardinality(Notifying) \in Nat
          /\ Len(tasks) \in Nat
      BY <1>2, Counted DEF IInv
    <3>2. Cardinality(Awake') \in Nat /\ Cardinality(Notifying') \in Nat
      BY FS_Subset, FS_CardinalityType DEF Awake, Notifying
    <3>3. CASE tasks' = <<>>
      BY <3>2, <3>3 DEF WorkConserving
    <3>4. CASE tasks' # <<>>
      <4>1. Len(tasks) <= Cardinality(Awake) + Cardinality(Notifying)
        BY <1>2, <2>2, <3>4, Balance DEF Balanced, WorkConserving
      <4>2. \A w \in Workers \ Awake : Cardinality(Awake \cup {w}) = Cardinality(Awake) + 1
        BY <3>1, FS_AddElement, Zenon
      <4>3. \A w \in Awake : Cardinality(Awake \ {w}) = Cardinality(Awake) - 1
        BY <3>1, FS_RemoveElement, Zenon
      <4>4. \A t \in Tasks \ Notifying : Cardinality(Notifying \cup {t}) = Cardinality(Notifying) + 1
        BY <3>1, FS_AddElement, Zenon
      <4>5. \A t \in Notifying : Cardinality(Notifying \ {t}) = Cardinality(Notifying) - 1
        BY <3>1, FS_RemoveElement, Zenon
      <4>6. Balanced
        BY <1>2, <2>2, Balance
      <4> DEFINE Covered == Len(tasks') + Cardinality(Awake) + Cardinality(Notifying) <=
                              Len(tasks) + Cardinality(Awake') + Cardinality(Notifying')
      <4>7. Covered
        <5>1. CASE Awake' = Awake /\ Notifying' = Notifying /\ Len(tasks') = Len(tasks)
          BY <5>1, <3>1
        <5>2. ASSUME NEW t \in Tasks \ Notifying, Awake' = Awake, Notifying' = Notifying \cup {t},
                     Len(tasks') = Len(tasks) + 1
              PROVE  Covered
          BY <5>2, <4>4, <3>1
        <5>3. ASSUME NEW t \in Notifying, NEW w \in Workers \ Awake, Awake' = Awake \cup {w},
                     Notifying' = Notifying \ {t}, Len(tasks') = Len(tasks)
              PROVE  Covered
          BY <5>3, <4>2, <4>5, <3>1
        <5>4. ASSUME NEW w \in Awake, Awake' = Awake \ {w}, Notifying' = Notifying,
                     Len(tasks') = Len(tasks) - 1
              PROVE  Covered
          BY <5>4, <4>3, <3>1
        <5>5. ASSUME NEW w \in Workers \ Awake, Awake' = Awake \cup {w}, Notifying' = Notifying,
                     Len(tasks') = Len(tasks)
              PROVE  Covered
          BY <5>5, <4>2, <3>1
        <5> QED BY <4>6, <3>4, <5>1, <5>2, <5>3, <5>4, <5>5 DEF Balanced
      <4>8. Len(tasks') \in Nat
        BY <1>2, PoolStep DEF IInv, TypeOK
      <4>9. Len(tasks') <= Cardinality(Awake') + Cardinality(Notifying')
        BY <4>1, <4>7, <4>8, <3>1, <3>2
      <4> QED BY <4>9 DEF WorkConserving
    <3> QED BY <3>3, <3>4
  <2>3. CASE Waiting' = {}
    BY <2>3 DEF WorkConserving
  <2> QED BY <1>2, <2>1, <2>2, <2>3
<1> QED BY <1>1, <1>2, PoolInvariant, PTL DEF Spec

----------------------------------------------------------------------------
(* ThreadPool implements TaskPool.                                         *)

\* What the refinement mapping makes of a task, clause by clause.
LEMMA StatusCases ==
    /\ statusBar = [u \in Tasks |-> statusBar[u]]
    /\ \A u \in Tasks :
          /\ u \in done => statusBar[u] = "done"
          /\ u \notin done /\ u \in Running => statusBar[u] = "running"
          /\ u \notin done \cup Running /\ call[u] = "none" => statusBar[u] = "new"
          /\ u \notin done \cup Running /\ call[u] = "threw" => statusBar[u] = "rejected"
          /\ u \notin done \cup Running /\ call[u] \notin {"none", "threw"} => statusBar[u] = "accepted"
BY DEF statusBar

\* A step that changes neither done, Running nor what add answered changes no
\* status.
LEMMA StatusSame ==
    ASSUME done' = done, Running' = Running,
           \A u \in Tasks : \/ call'[u] = call[u]
                            \/ call[u] = "notify" /\ call'[u] = "returned"
    PROVE  statusBar' = statusBar
BY DEF statusBar

\* While a worker is not in a task, fewer tasks run than there are threads.
LEMMA FewRunning ==
    ASSUME IInv, NEW w \in Workers, wpc[w] # "run"
    PROVE  Cardinality({u \in Tasks : statusBar[u] = "running"}) < Cardinality(Workers)
<1> DEFINE R == {v \in Workers : wpc[v] = "run"}
           f == [v \in R |-> cur[v]]
<1>1. Running \subseteq Tasks /\ Running \cap done = {}
  BY DEF IInv, TypeOK, ExactlyOnce, Running
<1>2. {u \in Tasks : statusBar[u] = "running"} = Running
  BY <1>1, StatusCases DEF IInv, TypeOK, Calls
<1>3. R \in SUBSET (Workers \ {w})
  OBVIOUS
<1>4. /\ IsFiniteSet(Workers \ {w})
      /\ Cardinality(Workers \ {w}) = Cardinality(Workers) - 1
  BY FS_RemoveElement
<1>5. IsFiniteSet(R) /\ Cardinality(R) <= Cardinality(Workers \ {w})
  BY <1>3, <1>4, FS_Subset
<1>6. f \in Surjection(R, Running)
  BY DEF Surjection, Running
<1>7. IsFiniteSet(Running) /\ Cardinality(Running) <= Cardinality(R)
  BY <1>5, <1>6, FS_Surjection
<1>8. Cardinality(Workers) \in Nat /\ Cardinality(R) \in Nat /\ Cardinality(Running) \in Nat
  BY <1>5, <1>7, FS_CardinalityType
<1> HIDE DEF R, f
<1>9. Cardinality(Running) < Cardinality(Workers)
  BY <1>4, <1>5, <1>7, <1>8
<1> QED BY <1>2, <1>9

\* Every step of ThreadPool is a step of TaskPool or leaves it alone.
LEMMA StepRefines == IInv /\ [Next]_vars => [Promise!Next]_(Promise!poolVars)
<1> SUFFICES ASSUME IInv, [Next]_vars PROVE [Promise!Next]_(Promise!poolVars)
  OBVIOUS
<1> USE DEF Promise!poolVars
<1>1. ASSUME NEW t \in Tasks, Add(t) PROVE Promise!Next
  <2>1. t \notin done \cup Running /\ call[t] = "none"
    BY <1>1 DEF Add, IInv, ExactlyOnce
  <2>2. statusBar[t] = "new"
    BY <2>1 DEF statusBar
  <2>3. Running' = Running /\ UNCHANGED <<done, phaseBar>>
    BY <1>1 DEF Add, Running, phaseBar
  <2>4. CASE stop
    <3>1. phaseBar = "closing"
      BY <1>1, <2>4 DEF Add, IInv, ExactlyOnce, phaseBar
    <3>2. statusBar' = [statusBar EXCEPT ![t] = "rejected"]
      BY <1>1, <2>1, <2>3, <2>4, Zenon DEF Add, statusBar, IInv, TypeOK
    <3> QED BY <1>1, <2>2, <2>3, <2>4, <3>1, <3>2, Zenon DEF Add, Promise!Next, Promise!Reject
  <2>5. CASE ~stop
    <3>1. phaseBar = "open"
      BY <2>5 DEF IInv, ExactlyOnce, phaseBar
    <3>2. statusBar' = [statusBar EXCEPT ![t] = "accepted"]
      BY <1>1, <2>1, <2>3, <2>5, Zenon DEF Add, statusBar, IInv, TypeOK
    <3> QED BY <1>1, <2>2, <2>3, <2>5, <3>1, <3>2, Zenon DEF Add, Promise!Next, Promise!Accept
  <2> QED BY <2>4, <2>5
<1>2. ASSUME NEW t \in Tasks, NotifyOne(t) PROVE UNCHANGED Promise!poolVars
  <2>1. Running' = Running
    BY <1>2, IdleStep
  <2>2. statusBar' = statusBar
    BY <1>2, <2>1, StatusSame DEF NotifyOne, IInv, TypeOK
  <2> QED BY <1>2, <2>2 DEF NotifyOne, phaseBar
<1>3. ASSUME NEW w \in Workers, Wait(w) \/ SpuriousWakeup(w) \/ Exit(w)
      PROVE  UNCHANGED Promise!poolVars
  <2>1. Running' = Running
    BY <1>3, IdleStep
  <2>2. statusBar' = statusBar
    BY <1>3, <2>1, StatusSame DEF Wait, SpuriousWakeup, Exit
  <2> QED BY <1>3, <2>2 DEF Wait, SpuriousWakeup, Exit, phaseBar
<1>4. ASSUME NEW w \in Workers, Take(w) PROVE Promise!Next
  <2> DEFINE h == Head(tasks)
  <2>1. h \in Queued /\ Running' = Running \cup {h}
    BY <1>4, TakeStep
  <2>2. h \in Tasks /\ h \notin done
    BY <2>1 DEF IInv, TypeOK, ExactlyOnce, Queued
  <2>3. /\ tasks # <<>> /\ tasks' = Tail(tasks)
        /\ UNCHANGED <<done, call, dpc>> /\ wpc[w] = "lock"
    BY <1>4 DEF Take
  <2> HIDE DEF h
  <2>4. statusBar' = [statusBar EXCEPT ![h] = "running"]
    BY <2>1, <2>2, <2>3, Zenon DEF statusBar
  <2>5. Cardinality({u \in Tasks : statusBar[u] = "running"}) < Cardinality(Workers)
    BY <2>3, FewRunning, Zenon
  <2>6. UNCHANGED phaseBar /\ phaseBar # "closed"
    BY <2>3 DEF phaseBar, IInv, ExactlyOnce
  <2>7. Promise!Start(h)
    <3>1. h = Head(tasks)
      BY DEF h
    <3>2. \A S : Promise!Cardinality(S) = Cardinality(S)
      BY ONLY Zenon DEF Promise!Cardinality, Cardinality, Promise!IsFiniteSet, IsFiniteSet
    <3> QED BY ONLY <2>3, <2>4, <2>5, <2>6, <3>1, <3>2, Zenon DEF Promise!Start
  <2> QED BY <2>2, <2>7 DEF Promise!Next
<1>5. ASSUME NEW w \in Workers, Return(w) PROVE Promise!Next
  <2>1. cur[w] \in Running /\ Running' = Running \ {cur[w]}
    BY <1>5, ReturnStep
  <2>2. cur[w] \in Tasks /\ cur[w] \notin done
    BY <2>1 DEF IInv, TypeOK, ExactlyOnce, Running
  <2>3. /\ done' = done \cup {cur[w]} /\ wpc[w] = "run"
        /\ UNCHANGED <<tasks, call, dpc>>
    BY <1>5 DEF Return
  <2>4. statusBar[cur[w]] = "running"
    BY <2>1, <2>2 DEF statusBar
  <2>5. statusBar' = [statusBar EXCEPT ![cur[w]] = "done"]
    BY <2>1, <2>2, <2>3, Zenon DEF statusBar
  <2>6. UNCHANGED phaseBar /\ phaseBar # "closed"
    BY <2>3 DEF phaseBar, IInv, ExactlyOnce
  <2>7. Promise!Finish(cur[w])
    BY <2>3, <2>4, <2>5, <2>6 DEF Promise!Finish
  <2> QED BY <2>2, <2>7 DEF Promise!Next
<1>6. CASE Destructor
  <2>1. Running' = Running
    BY <1>6, IdleStep
  <2>2. statusBar' = statusBar /\ UNCHANGED tasks
    BY <1>6, <2>1, StatusSame DEF Destructor, SetStop, NotifyAll, Join
  <2>3. CASE SetStop
    BY <2>2, <2>3 DEF SetStop, phaseBar, Promise!Next, Promise!Close
  <2>4. CASE NotifyAll
    BY <2>2, <2>4 DEF NotifyAll, phaseBar
  <2>5. CASE Join
    <3>1. phaseBar = "closing" /\ phaseBar' = "closed"
      BY <2>5 DEF Join, phaseBar
    <3>2. Running = {} /\ tasks = <<>>
      BY <2>5 DEF Join, Running, IInv, ExactlyOnce
    <3>3. \A u \in Tasks : statusBar[u] # "running"
      BY <3>2 DEF statusBar
    <3> QED BY <2>2, <3>1, <3>2, <3>3 DEF Promise!Next, Promise!Closed
  <2> QED BY <1>6, <2>3, <2>4, <2>5 DEF Destructor
<1>7. CASE UNCHANGED vars
  BY <1>7 DEF vars, statusBar, phaseBar, Running
<1> QED BY <1>1, <1>2, <1>3, <1>4, <1>5, <1>6, <1>7 DEF Next, Caller, Worker, Gone

\* ThreadPool implements TaskPool, for any finite number of workers and tasks:
\* add accepts or throws, accepted tasks start in order and once each, no more
\* at a time than there are threads, and the destructor outlasts them.
THEOREM PoolImplements == Spec => Implements
<1>1. Init => Promise!Init
  BY DEF Init, Promise!Init, statusBar, phaseBar, Running
<1> QED BY <1>1, PoolInvariant, StepRefines, PTL DEF Spec, Implements, Promise!Spec
=============================================================================
