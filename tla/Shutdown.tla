------------------------------ MODULE Shutdown ------------------------------
(***************************************************************************)
(* The life of the process: main() and the Server it builds, the           *)
(* sub-reactors' loops on thPool_, the DB tasks on dbPool_, the signal,    *)
(* Server::stop, and the destruction of the members in the reverse of      *)
(* their order in Server.h.  Each ThreadPool is taken as what it promises  *)
(* (TaskPool, which module ThreadPool implements).                         *)
(***************************************************************************)
EXTENDS Integers, Sequences, FiniteSets

CONSTANTS
    Subs,         \* subReactors_, and their loops, the tasks of thPool_
    Requests,     \* requests for a DB route, and the tasks made of them
    kDbThreads,
    MaxEvents,    \* bound: channels one epoll_wait returns
    NoRequest

ASSUME ShutdownAssumption == MaxEvents \in Nat

VARIABLES
    g_shutdown,
    mpc,          \* main(): "construct", "loop", "callback", "stop", "destroy", "join", "exited"
    mainQuit,     \* quit_ of the main reactor
    quit,         \* the sub-reactors whose quit_ is set
    gone,         \* the parts of the process destroyed so far, in order
    lpc,          \* a loop: "test", "poll", "handle", "add", "notify", "ended"
    left,         \* channels of its batch a loop has yet to handle
    adding,       \* the request a handler is submitting
    thPending, thStatus, thPhase,   \* thPool_
    dbPending, dbStatus, dbPhase,   \* dbPool_
    freedUse      \* history: a call was made on a pool that is destroyed

mainVars == <<g_shutdown, mpc, mainQuit, quit, gone>>
loopVars == <<lpc, left, adding>>
thVars == <<thPending, thStatus, thPhase>>
dbVars == <<dbPending, dbStatus, dbPhase>>
vars == <<mainVars, loopVars, thVars, dbVars, freedUse>>

ThPool == INSTANCE TaskPool WITH Tasks <- Subs, Size <- Cardinality(Subs),
    pending <- thPending, status <- thStatus, phase <- thPhase
DbPool == INSTANCE TaskPool WITH Tasks <- Requests, Size <- kDbThreads,
    pending <- dbPending, status <- dbStatus, phase <- dbPhase

\* A fault: the members are declared the other way round.
ConnectionsFirst ==
    <<"connections_", "dbPool_", "thPool_", "subReactors_", "connMtx_", "acceptor_", "log">>

\* What is destroyed when main() leaves its scope, and the logger after it.
Destruction ==
    <<"dbPool_", "thPool_", "subReactors_", "connMtx_", "connections_", "acceptor_", "log">>

Gone(part) == \E i \in 1 .. Len(gone) : gone[i] = part
Dying == Destruction[Len(gone) + 1]

----------------------------------------------------------------------------
(* main(), on the main thread.                                             *)

Signal ==
    /\ ~g_shutdown /\ mpc # "exited"
    /\ g_shutdown' = TRUE
    /\ UNCHANGED <<mpc, mainQuit, quit, gone, loopVars, thVars, dbVars, freedUse>>

\* The constructor of Server submits the loop of each sub-reactor to thPool_.
Construct(r) ==
    /\ mpc = "construct"
    /\ ThPool!Accept(r)
    /\ mpc' = IF \A s \in Subs \ {r} : thStatus[s] # "new" THEN "loop" ELSE "construct"
    /\ UNCHANGED <<g_shutdown, mainQuit, quit, gone, loopVars, dbVars, freedUse>>

\* The test of quit_ in EventLoop::loop, and an epoll_wait that lasts a second at
\* most; the accept handler changes nothing here.
MainLoop ==
    /\ mpc = "loop"
    /\ mpc' = IF mainQuit THEN "destroy" ELSE "callback"
    /\ UNCHANGED <<g_shutdown, mainQuit, quit, gone, loopVars, thVars, dbVars, freedUse>>

\* The callback of main(): stop(), whose first step is mainReactor_->quit(), or
\* the idle sweep.
MainCallback ==
    /\ mpc = "callback"
    /\ IF g_shutdown
       THEN mpc' = "stop" /\ mainQuit' = TRUE
       ELSE mpc' = "loop" /\ UNCHANGED mainQuit
    /\ UNCHANGED <<g_shutdown, quit, gone, loopVars, thVars, dbVars, freedUse>>

\* The rest of Server::stop, one reactor after the other.
StopSub(r) ==
    /\ mpc = "stop" /\ r \notin quit
    /\ quit' = quit \cup {r}
    /\ mpc' = IF quit' = Subs THEN "loop" ELSE "stop"
    /\ UNCHANGED <<g_shutdown, mainQuit, gone, loopVars, thVars, dbVars, freedUse>>

\* The destruction of the next part; that of a pool sets stop_ and then joins.
Destroy ==
    /\ mpc = "destroy" /\ Len(gone) < Len(Destruction)
    /\ CASE Dying = "dbPool_" -> DbPool!Close /\ mpc' = "join" /\ UNCHANGED <<gone, thVars>>
         [] Dying = "thPool_" -> ThPool!Close /\ mpc' = "join" /\ UNCHANGED <<gone, dbVars>>
         [] OTHER -> gone' = Append(gone, Dying) /\ UNCHANGED <<mpc, thVars, dbVars>>
    /\ UNCHANGED <<g_shutdown, mainQuit, quit, loopVars, freedUse>>

\* The last thread of the pool has ended.
Join ==
    /\ mpc = "join"
    /\ \/ Dying = "dbPool_" /\ DbPool!Closed /\ UNCHANGED thVars
       \/ Dying = "thPool_" /\ ThPool!Closed /\ UNCHANGED dbVars
    /\ gone' = Append(gone, Dying)
    /\ mpc' = "destroy"
    /\ UNCHANGED <<g_shutdown, mainQuit, quit, loopVars, freedUse>>

Exit ==
    /\ mpc = "destroy" /\ Len(gone) = Len(Destruction)
    /\ mpc' = "exited"
    /\ UNCHANGED <<g_shutdown, mainQuit, quit, gone, loopVars, thVars, dbVars, freedUse>>

----------------------------------------------------------------------------
(* EventLoop::loop of a sub-reactor, on a thread of thPool_.               *)

LoopStarts(r) ==
    /\ ThPool!Start(r)
    /\ lpc' = [lpc EXCEPT ![r] = "test"]
    /\ UNCHANGED <<mainVars, left, adding, dbVars, freedUse>>

\* The loop returns, or an exception leaves it; the thread of thPool_ goes on to
\* its next task.
End(r) ==
    /\ ThPool!Finish(r)
    /\ lpc' = [lpc EXCEPT ![r] = "ended"]
    /\ left' = [left EXCEPT ![r] = 0]
    /\ adding' = [adding EXCEPT ![r] = NoRequest]

\* A fault: quit_ is not tested.
LoopTestNever(r) ==
    /\ lpc[r] = "test"
    /\ lpc' = [lpc EXCEPT ![r] = "poll"]
    /\ UNCHANGED <<mainVars, left, adding, thVars, dbVars, freedUse>>

\* A fault: quit_ is not initialised.
LoopTestAny(r) ==
    /\ lpc[r] = "test"
    /\ \/ End(r)
       \/ lpc' = [lpc EXCEPT ![r] = "poll"] /\ UNCHANGED <<left, adding, thVars>>
    /\ UNCHANGED <<mainVars, dbVars, freedUse>>

LoopTest(r) ==
    /\ lpc[r] = "test"
    /\ IF r \in quit
       THEN End(r)
       ELSE lpc' = [lpc EXCEPT ![r] = "poll"] /\ UNCHANGED <<left, adding, thVars>>
    /\ UNCHANGED <<mainVars, dbVars, freedUse>>

\* activeChannels returns, after a second at most.
LoopPoll(r) ==
    /\ lpc[r] = "poll"
    /\ \E n \in 0 .. MaxEvents : left' = [left EXCEPT ![r] = n]
    /\ lpc' = [lpc EXCEPT ![r] = "handle"]
    /\ UNCHANGED <<mainVars, adding, thVars, dbVars, freedUse>>

\* A fault: the batch is handled to its capacity, not to its length.
LoopHandleAll(r) ==
    /\ lpc[r] = "handle"
    /\ \/ lpc' = [lpc EXCEPT ![r] = "test"] /\ UNCHANGED left
       \/ left' = [left EXCEPT ![r] = @ - 1] /\ UNCHANGED lpc
    /\ UNCHANGED <<mainVars, adding, thVars, dbVars, freedUse>>

\* A handler that has no DB task to submit, or the end of the batch.
LoopHandle(r) ==
    /\ lpc[r] = "handle"
    /\ IF left[r] = 0
       THEN lpc' = [lpc EXCEPT ![r] = "test"] /\ UNCHANGED left
       ELSE left' = [left EXCEPT ![r] = @ - 1] /\ UNCHANGED lpc
    /\ UNCHANGED <<mainVars, adding, thVars, dbVars, freedUse>>

\* A handler that gets to dbPool_->add.
LoopRequest(r, q) ==
    /\ lpc[r] = "handle" /\ left[r] > 0
    /\ dbStatus[q] = "new" /\ \A s \in Subs : adding[s] # q
    /\ lpc' = [lpc EXCEPT ![r] = "add"]
    /\ left' = [left EXCEPT ![r] = @ - 1]
    /\ adding' = [adding EXCEPT ![r] = q]
    /\ UNCHANGED <<mainVars, thVars, dbVars, freedUse>>

\* add: the task is accepted; or the pool is stopped, and the exception ends the
\* loop; or the pool is gone, and the call throws, returns or ends the process.
LoopAdd(r) ==
    /\ lpc[r] = "add"
    /\ \/ /\ DbPool!Accept(adding[r])
          /\ lpc' = [lpc EXCEPT ![r] = "notify"]
          /\ UNCHANGED <<mpc, left, adding, thVars, freedUse>>
       \/ /\ DbPool!Reject(adding[r])
          /\ End(r)
          /\ UNCHANGED <<mpc, freedUse>>
       \/ /\ dbPhase = "closed"
          /\ freedUse' = TRUE
          /\ \/ End(r) /\ UNCHANGED mpc
             \/ lpc' = [lpc EXCEPT ![r] = "notify"] /\ UNCHANGED <<mpc, left, adding, thVars>>
             \/ mpc' = "exited" /\ UNCHANGED <<loopVars, thVars>>
          /\ UNCHANGED dbVars
    /\ UNCHANGED <<g_shutdown, mainQuit, quit, gone>>

\* The notify_one at the end of add, after the lock is released.
LoopNotify(r) ==
    /\ lpc[r] = "notify"
    /\ freedUse' = (freedUse \/ dbPhase = "closed")
    /\ lpc' = [lpc EXCEPT ![r] = "handle"]
    /\ adding' = [adding EXCEPT ![r] = NoRequest]
    /\ UNCHANGED <<mainVars, left, thVars, dbVars>>

\* A DB thread starts or ends a task; the task writes to a socket and to the log.
DbThread ==
    /\ \E q \in Requests : DbPool!Start(q) \/ DbPool!Finish(q)
    /\ UNCHANGED <<mainVars, loopVars, thVars, freedUse>>

----------------------------------------------------------------------------

Init ==
    /\ g_shutdown = FALSE /\ mpc = "construct" /\ mainQuit = FALSE /\ quit = {} /\ gone = <<>>
    /\ lpc = [r \in Subs |-> "ended"]
    /\ left = [r \in Subs |-> 0]
    /\ adding = [r \in Subs |-> NoRequest]
    /\ ThPool!Init
    /\ DbPool!Init
    /\ freedUse = FALSE

Main ==
    \/ \E r \in Subs : Construct(r) \/ StopSub(r)
    \/ MainLoop
    \/ MainCallback
    \/ Destroy
    \/ Join
    \/ Exit

Loop(r) ==
    /\ mpc # "exited"
    /\ \/ LoopStarts(r)
       \/ LoopTest(r)
       \/ LoopPoll(r)
       \/ LoopHandle(r)
       \/ \E q \in Requests : LoopRequest(r, q)
       \/ LoopAdd(r)
       \/ LoopNotify(r)

Next == Signal \/ Main \/ DbThread \/ \E r \in Subs : Loop(r)

Spec == Init /\ [][Next]_vars

\* The threads run, epoll_wait times out, and a DB task ends (DbTasks!TaskEnds).
FairSpec == Spec /\ WF_vars(Main) /\ WF_vars(DbThread) /\ \A r \in Subs : WF_vars(Loop(r))

----------------------------------------------------------------------------
(* Properties.                                                             *)

\* main(), the loops and the pools keep to their steps.
TypeOK ==
    /\ mpc \in {"construct", "loop", "callback", "stop", "destroy", "join", "exited"}
    /\ quit \subseteq Subs
    /\ lpc \in [Subs -> {"test", "poll", "handle", "add", "notify", "ended"}]
    /\ left \in [Subs -> 0 .. MaxEvents]
    /\ adding \in [Subs -> Requests \cup {NoRequest}]

\* No loop runs on, and no DB task is left or running, once a part of the process
\* they use is destroyed: the loops use the reactors, the connections, their mutex
\* and the log, the tasks the sockets of the connections and the log.
UsersJoined ==
    /\ \A part \in {"subReactors_", "connMtx_", "connections_", "log"} : Gone(part) =>
          \A r \in Subs : thStatus[r] = "done" /\ lpc[r] = "ended"
    /\ \A part \in {"connections_", "log"} : Gone(part) =>
          \A q \in Requests : dbStatus[q] \notin {"accepted", "running"}

\* A request that was accepted is answered before the process ends; none is
\* refused, and no loop ends, unless a signal asked for it.
ServesUntilSignal ==
    /\ mpc = "exited" => \A q \in Requests : dbStatus[q] \in {"new", "done", "rejected"}
    /\ ~g_shutdown => /\ \A q \in Requests : dbStatus[q] # "rejected"
                      /\ \A r \in Subs : thStatus[r] # "done"

\* After a signal the process ends: every thread notices, and nobody joins a
\* thread that waits for them.  (A call on a destroyed pool promises nothing.)
ShutdownCompletes == g_shutdown ~> (mpc = "exited" \/ freedUse)

\* Server.h:31: stop() is a "graceful shutdown" of all reactors, so that no
\* handler calls into a pool that is destroyed.
NoUseOfFreedPool == ~freedUse
=============================================================================
