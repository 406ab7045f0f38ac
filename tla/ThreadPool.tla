----------------------------- MODULE ThreadPool -----------------------------
(***************************************************************************)
(* ThreadPool: a mutex, a condition variable and a FIFO of tasks.  A       *)
(* critical section of tasks_mtx_ is one step; the notifications happen    *)
(* outside of it.  The calls of add come from different threads, so each   *)
(* call has a state of its own; a task is identified with the call that    *)
(* submits it.                                                             *)
(***************************************************************************)
EXTENDS Naturals, Sequences, FiniteSets

CONSTANTS
    Workers,   \* threads_
    Tasks,     \* tasks, and the calls of add that submit them
    NoTask

ASSUME ThreadPoolAssumption ==
    /\ Workers # {} /\ IsFiniteSet(Workers)
    /\ IsFiniteSet(Tasks)
    /\ NoTask \notin Tasks

VARIABLES
    tasks,   \* tasks_
    stop,    \* stop_
    call,    \* of add(t): "none", "notify" (before notify_one), "returned", "threw"
    wpc,     \* of a worker: "lock" (about to test the predicate of the wait),
             \* "wait" (blocked in the wait), "run" (in task()), "exited"
    cur,     \* the task a worker runs
    done,    \* tasks that have finished
    dpc      \* the destructor: "none", "notify", "join", "returned"

vars == <<tasks, stop, call, wpc, cur, done, dpc>>

Waiting == {w \in Workers : wpc[w] = "wait"}
Calls == {"none", "notify", "returned", "threw"}

Init ==
    /\ tasks = <<>>
    /\ stop = FALSE
    /\ call = [t \in Tasks |-> "none"]
    /\ wpc = [w \in Workers |-> "lock"]
    /\ cur = [w \in Workers |-> NoTask]
    /\ done = {}
    /\ dpc = "none"

----------------------------------------------------------------------------
(* add                                                                     *)

\* A fault: the notification is left out when tasks are queued already.
AddQuiet(t) ==
    /\ call[t] = "none" /\ dpc # "returned"
    /\ IF stop
       THEN call' = [call EXCEPT ![t] = "threw"] /\ UNCHANGED tasks
       ELSE /\ tasks' = Append(tasks, t)
            /\ call' = [call EXCEPT ![t] = IF tasks = <<>> THEN "notify" ELSE "returned"]
    /\ UNCHANGED <<stop, wpc, cur, done, dpc>>

\* The critical section of add.  A call on a pool that is gone has no meaning;
\* the callers have to see to it that there is none.
Add(t) ==
    /\ call[t] = "none" /\ dpc # "returned"
    /\ IF stop
       THEN call' = [call EXCEPT ![t] = "threw"] /\ UNCHANGED tasks
       ELSE /\ tasks' = Append(tasks, t)
            /\ call' = [call EXCEPT ![t] = "notify"]
    /\ UNCHANGED <<stop, wpc, cur, done, dpc>>

\* cv_.notify_one(): wakes one of the waiting workers, if there are any.
NotifyOne(t) ==
    /\ call[t] = "notify" /\ dpc # "returned"
    /\ call' = [call EXCEPT ![t] = "returned"]
    /\ IF Waiting = {}
       THEN UNCHANGED wpc
       ELSE \E w \in Waiting : wpc' = [wpc EXCEPT ![w] = "lock"]
    /\ UNCHANGED <<tasks, stop, cur, done, dpc>>

----------------------------------------------------------------------------
(* A worker                                                                *)

\* The predicate of the wait is false: the worker gives up the lock and blocks.
Wait(w) ==
    /\ wpc[w] = "lock"
    /\ ~stop /\ tasks = <<>>
    /\ wpc' = [wpc EXCEPT ![w] = "wait"]
    /\ UNCHANGED <<tasks, stop, call, cur, done, dpc>>

\* A wait may end without a notification; its predicate is tested again.
SpuriousWakeup(w) ==
    /\ wpc[w] = "wait"
    /\ wpc' = [wpc EXCEPT ![w] = "lock"]
    /\ UNCHANGED <<tasks, stop, call, cur, done, dpc>>

\* A fault: a worker leaves as soon as stop_ is set.
ExitAtOnce(w) ==
    /\ wpc[w] = "lock"
    /\ stop
    /\ wpc' = [wpc EXCEPT ![w] = "exited"]
    /\ UNCHANGED <<tasks, stop, call, cur, done, dpc>>

\* if (stop_ && tasks_.empty()) return
Exit(w) ==
    /\ wpc[w] = "lock"
    /\ stop /\ tasks = <<>>
    /\ wpc' = [wpc EXCEPT ![w] = "exited"]
    /\ UNCHANGED <<tasks, stop, call, cur, done, dpc>>

\* task = tasks_.front(); tasks_.pop()
Take(w) ==
    /\ wpc[w] = "lock"
    /\ tasks # <<>>
    /\ cur' = [cur EXCEPT ![w] = Head(tasks)]
    /\ tasks' = Tail(tasks)
    /\ wpc' = [wpc EXCEPT ![w] = "run"]
    /\ UNCHANGED <<stop, call, done, dpc>>

\* task() returns; what it throws is kept by its packaged_task.
Return(w) ==
    /\ wpc[w] = "run"
    /\ done' = done \cup {cur[w]}
    /\ cur' = [cur EXCEPT ![w] = NoTask]
    /\ wpc' = [wpc EXCEPT ![w] = "lock"]
    /\ UNCHANGED <<tasks, stop, call, dpc>>

----------------------------------------------------------------------------
(* ~ThreadPool                                                             *)

SetStop ==
    /\ dpc = "none"
    /\ stop' = TRUE
    /\ dpc' = "notify"
    /\ UNCHANGED <<tasks, call, wpc, cur, done>>

\* A fault: the destructor wakes a single worker.
NotifyAllOne ==
    /\ dpc = "notify"
    /\ IF Waiting = {}
       THEN UNCHANGED wpc
       ELSE \E w \in Waiting : wpc' = [wpc EXCEPT ![w] = "lock"]
    /\ dpc' = "join"
    /\ UNCHANGED <<tasks, stop, call, cur, done>>

NotifyAll ==
    /\ dpc = "notify"
    /\ wpc' = [w \in Workers |-> IF wpc[w] = "wait" THEN "lock" ELSE wpc[w]]
    /\ dpc' = "join"
    /\ UNCHANGED <<tasks, stop, call, cur, done>>

Join ==
    /\ dpc = "join"
    /\ \A w \in Workers : wpc[w] = "exited"
    /\ dpc' = "returned"
    /\ UNCHANGED <<tasks, stop, call, wpc, cur, done>>

----------------------------------------------------------------------------

Caller(t) == Add(t) \/ NotifyOne(t)
Worker(w) == Wait(w) \/ Exit(w) \/ Take(w)
Destructor == SetStop \/ NotifyAll \/ Join

\* The pool is gone.
Gone == dpc = "returned" /\ UNCHANGED vars

Next ==
    \/ \E t \in Tasks : Caller(t)
    \/ \E w \in Workers : Worker(w) \/ SpuriousWakeup(w) \/ Return(w)
    \/ Destructor
    \/ Gone

Spec == Init /\ [][Next]_vars

\* Every thread keeps running: a call of add that has begun ends, a worker that
\* is awake gets the mutex, a destructor that has begun goes on.
Progress ==
    /\ \A t \in Tasks : WF_vars(NotifyOne(t))
    /\ \A w \in Workers : WF_vars(Worker(w))
    /\ WF_vars(NotifyAll \/ Join)

LiveSpec == Spec /\ Progress

\* Tasks return, as those of dbPool_ do if MySQL and Redis answer or drop the
\* connection: neither client library is given a timeout for a command.
TasksEnd == \A w \in Workers : WF_vars(Return(w))

----------------------------------------------------------------------------
(* Properties.                                                             *)

Queued == {tasks[i] : i \in 1 .. Len(tasks)}
Running == {cur[w] : w \in {v \in Workers : wpc[v] = "run"}}

\* The variables of add, of the workers and of the destructor keep their types.
TypeOK ==
    /\ tasks \in Seq(Tasks)
    /\ stop \in BOOLEAN
    /\ call \in [Tasks -> Calls]
    /\ wpc \in [Workers -> {"lock", "wait", "run", "exited"}]
    /\ cur \in [Workers -> Tasks \cup {NoTask}]
    /\ done \subseteq Tasks
    /\ dpc \in {"none", "notify", "join", "returned"}

Awake == {w \in Workers : wpc[w] = "lock"}
Notifying == {t \in Tasks : call[t] = "notify"}

\* No worker sleeps next to a task nobody comes for: while one waits, there are
\* no more queued tasks than workers about to look and notifications still to
\* be sent.  notify_one comes after the mutex is released, and may find every
\* worker busy.
WorkConserving ==
    Waiting # {} => Len(tasks) <= Cardinality(Awake) + Cardinality(Notifying)

\* After the destructor's notify_all no worker waits again, so join returns.
NoSleeperAtJoin == dpc \in {"join", "returned"} => Waiting = {}

\* Where a task and the threads are: a task is queued once, run by one worker or
\* finished, and none of these before add accepted it; a worker has a task
\* exactly while it runs one, and leaves only when stop_ is set and the queue is
\* empty for good; stop_ and the end of join follow the destructor.
ExactlyOnce ==
    /\ \A i, j \in 1 .. Len(tasks) : tasks[i] = tasks[j] => i = j
    /\ \A v, w \in Workers : cur[v] = cur[w] /\ cur[v] # NoTask => v = w
    /\ \A w \in Workers : /\ cur[w] \notin Queued \cup done
                          /\ cur[w] # NoTask <=> wpc[w] = "run"
                          /\ wpc[w] = "exited" => stop /\ tasks = <<>>
    /\ Queued \cap done = {}
    /\ \A t \in Queued \cup Running \cup done : call[t] \in {"notify", "returned"}
    /\ stop <=> dpc # "none"
    /\ dpc = "returned" => \A w \in Workers : wpc[w] = "exited"

\* The inductive invariant.
IInv == TypeOK /\ NoSleeperAtJoin /\ ExactlyOnce

\* The promise of the pool, with the mutex and the condition variable hidden.
statusBar == [t \in Tasks |->
    IF t \in done THEN "done"
    ELSE IF t \in Running THEN "running"
    ELSE IF call[t] = "none" THEN "new"
    ELSE IF call[t] = "threw" THEN "rejected"
    ELSE "accepted"]

phaseBar ==
    IF dpc = "none" THEN "open" ELSE IF dpc = "returned" THEN "closed" ELSE "closing"

Promise == INSTANCE TaskPool WITH Size <- Cardinality(Workers),
               pending <- tasks, status <- statusBar, phase <- phaseBar

\* ThreadPool does what TaskPool says: add accepts or throws, accepted tasks
\* start in order, each once, and the destructor outlasts them.
Implements == Promise!Spec

\* Every task of the DB pool that add accepts has run in the end, whether or
\* not the pool is destroyed meanwhile, if tasks end.
AcceptedRun == TasksEnd => \A t \in Tasks : (t \in Queued) ~> (t \in done)

\* The destructor returns if tasks end.
DestructorReturns == TasksEnd => ((dpc = "notify") ~> (dpc = "returned"))

\* Server's constructor hands thPool_ as many loops as it has threads: an
\* accepted task starts in the end or finds every worker in a task, even if no
\* task ever returns.
EveryLoopRuns ==
    \A t \in Tasks : (t \in Queued) ~>
        (t \in Running \cup done \/ \A w \in Workers : wpc[w] = "run")
=============================================================================
