--------------------------- MODULE ShutdownProof ---------------------------
(***************************************************************************)
(* The order in which the server ends is safe, for any number of           *)
(* sub-reactors, DB threads and requests.                                  *)
(***************************************************************************)
EXTENDS Shutdown, QueueProof

----------------------------------------------------------------------------
(* The inductive invariant.                                                *)

\* A task is accepted exactly while it is queued, and is queued once.
Statuses == {"new", "accepted", "running", "done", "rejected"}
PoolOK(T, p, s) ==
    /\ p \in Seq(T) /\ Distinct(p)
    /\ s \in [T -> Statuses]
    /\ \A t \in T : s[t] = "accepted" <=> t \in Elems(p)

\* A pool whose destructor has returned has no task left.
Drained(T, s) == \A t \in T : s[t] \notin {"accepted", "running"}

Parts == {"dbPool_", "thPool_", "subReactors_", "connMtx_", "connections_", "acceptor_", "log"}

\* The members destroyed so far are the first of Destruction, and the phases of
\* the pools go with them: dbPool_ is the first and thPool_ the second.
Phases ==
    /\ gone \in Seq(Parts) /\ Len(gone) \in 0 .. 7
    /\ \A i \in 1 .. Len(gone) : gone[i] = Destruction[i]
    /\ dbPhase \in {"open", "closing", "closed"}
    /\ thPhase \in {"open", "closing", "closed"}
    /\ dbPhase = "closed" <=> Len(gone) # 0
    /\ thPhase = "closed" <=> Len(gone) \notin {0, 1}
    /\ mpc = "join" => \/ Len(gone) = 0 /\ dbPhase = "closing"
                       \/ Len(gone) = 1 /\ thPhase = "closing"
    /\ mpc \notin {"destroy", "join", "exited"} => Len(gone) = 0 /\ dbPhase = "open"
    /\ mpc = "exited" => Len(gone) # 0
    /\ Len(gone) = 0 => thPhase = "open"

\* What stop() and the destructors do follows a signal.
Asked ==
    /\ mainQuit => g_shutdown
    /\ quit # {} => mainQuit
    /\ mpc \in {"stop", "destroy", "join"} => mainQuit
    /\ Len(gone) # 0 => mainQuit
    /\ \A q \in Requests : dbStatus[q] = "rejected" => dbPhase # "open"
    /\ \A r \in Subs : thStatus[r] = "done" => mainQuit

\* A loop runs exactly while it is a running task of thPool_, to which the
\* constructor has submitted it before anything else happens.
Loops ==
    /\ \A r \in Subs : /\ thStatus[r] = "running" <=> lpc[r] # "ended"
                       /\ thStatus[r] # "rejected"
                       /\ lpc[r] = "add" => adding[r] \in Requests
    /\ mpc # "construct" => \A r \in Subs : thStatus[r] # "new"

Pools ==
    /\ PoolOK(Subs, thPending, thStatus)
    /\ PoolOK(Requests, dbPending, dbStatus)
    /\ thPhase = "closed" => Drained(Subs, thStatus)
    /\ dbPhase = "closed" => Drained(Requests, dbStatus)

IInv == TypeOK /\ Phases /\ Asked /\ Loops /\ Pools

----------------------------------------------------------------------------
(* What an operation of TaskPool does to its queue and its tasks.          *)

\* add: a new task becomes the last of the queue.
LEMMA PoolAccept ==
    ASSUME NEW T, NEW p, NEW s, NEW q, NEW u, NEW t \in T, PoolOK(T, p, s),
           s[t] = "new", q = Append(p, t), u = [s EXCEPT ![t] = "accepted"]
    PROVE  PoolOK(T, q, u)
<1>1. p \in Seq(T) /\ Distinct(p) /\ t \notin Elems(p) /\ Pushed(p, q, t)
  BY DEF PoolOK, Pushed
<1>2. q \in Seq(T) /\ Distinct(q) /\ Elems(q) = Elems(p) \cup {t}
  BY <1>1, QueueAppend
<1> QED BY <1>2 DEF PoolOK, Statuses

\* A thread takes the first task of the queue.
LEMMA PoolStart ==
    ASSUME NEW T, NEW p, NEW s, NEW q, NEW u, NEW t \in T, PoolOK(T, p, s),
           Popped(p, q, t), u = [s EXCEPT ![t] = "running"]
    PROVE  PoolOK(T, q, u) /\ s[t] = "accepted"
<1>1. p \in Seq(T) /\ Distinct(p) /\ Popped(p, q, t)
  BY DEF PoolOK
<1>2. q \in Seq(T) /\ Distinct(q) /\ t \in Elems(p) /\ Elems(q) = Elems(p) \ {t}
  BY <1>1, QueueTail
<1> QED BY <1>2 DEF PoolOK, Statuses

\* A call that throws, or a task that ends, leaves the queue alone.
LEMMA PoolMove ==
    ASSUME NEW T, NEW p, NEW s, NEW u, NEW t \in T, PoolOK(T, p, s), s[t] # "accepted",
           NEW to \in {"rejected", "done"}, u = [s EXCEPT ![t] = to]
    PROVE  PoolOK(T, p, u)
BY DEF PoolOK, Statuses

\* The destructor returns only when nothing is left.
LEMMA PoolClosed ==
    ASSUME NEW T, NEW s, PoolOK(T, <<>>, s), \A t \in T : s[t] # "running"
    PROVE  Drained(T, s)
BY DEF PoolOK, Drained, Elems

----------------------------------------------------------------------------
(* Every step keeps the invariant.                                         *)

\* The server is about to be constructed.
LEMMA IInit == Init => IInv
<1> SUFFICES ASSUME Init PROVE IInv
  OBVIOUS
<1>1. TypeOK
  BY ShutdownAssumption DEF Init, TypeOK
<1>2. Phases
  BY DEF Init, Phases, ThPool!Init, DbPool!Init
<1>3. Asked /\ Loops
  BY DEF Init, Asked, Loops, ThPool!Init, DbPool!Init
<1>4. Pools
  BY DEF Init, Pools, PoolOK, Statuses, Distinct, Elems, ThPool!Init, DbPool!Init
<1> QED BY <1>1, <1>2, <1>3, <1>4 DEF IInv

\* The signal and the steps of main() before the destructors.
LEMMA MainStep ==
    ASSUME IInv,
           \/ Signal
           \/ \E r \in Subs : Construct(r) \/ StopSub(r)
           \/ MainLoop
           \/ MainCallback
    PROVE  IInv'
<1> USE DEF IInv, mainVars, loopVars, thVars, dbVars
<1>1. CASE Signal
  BY <1>1 DEF Signal, TypeOK, Phases, Asked, Loops, Pools
<1>2. ASSUME NEW r \in Subs, Construct(r) PROVE IInv'
  <2>1. /\ mpc = "construct" /\ thStatus[r] = "new"
        /\ thPending' = Append(thPending, r)
        /\ thStatus' = [thStatus EXCEPT ![r] = "accepted"]
        /\ thPhase' = thPhase
    BY <1>2 DEF Construct, ThPool!Accept
  <2>2. PoolOK(Subs, thPending', thStatus')
    BY <2>1, PoolAccept, Zenon DEF Pools
  <2>3. thPhase = "open" /\ thStatus \in [Subs -> Statuses]
    BY <2>1 DEF Phases, Pools, PoolOK
  <2>4. Pools'
    BY <1>2, <2>1, <2>2, <2>3 DEF Construct, Pools
  <2>5. TypeOK' /\ Phases' /\ Asked'
    BY <1>2, <2>1, <2>3 DEF Construct, TypeOK, Phases, Asked
  <2>6. Loops'
    BY <1>2, <2>1, <2>3 DEF Construct, Loops
  <2> QED BY <2>4, <2>5, <2>6
<1>3. ASSUME NEW r \in Subs, StopSub(r) PROVE IInv'
  BY <1>3 DEF StopSub, TypeOK, Phases, Asked, Loops, Pools
<1>4. CASE MainLoop
  BY <1>4 DEF MainLoop, TypeOK, Phases, Asked, Loops, Pools
<1>5. CASE MainCallback
  BY <1>5 DEF MainCallback, TypeOK, Phases, Asked, Loops, Pools
<1> QED BY <1>1, <1>2, <1>3, <1>4, <1>5

\* The part that is destroyed next, by the number of those that are gone.
LEMMA DyingPart ==
    ASSUME Phases, Len(gone) < 7
    PROVE  /\ Len(gone) = 0 => Dying = "dbPool_"
           /\ Len(gone) = 1 => Dying = "thPool_"
           /\ Len(gone) \notin {0, 1} => Dying \notin {"dbPool_", "thPool_"}
           /\ Dying \in Parts
<1>1. Len(gone) \in 0 .. 7
  BY DEF Phases
<1>2. ASSUME NEW n \in 0 .. 7, n < 7
      PROVE  /\ n = 0 => Destruction[n + 1] = "dbPool_"
             /\ n = 1 => Destruction[n + 1] = "thPool_"
             /\ n \notin {0, 1} => Destruction[n + 1] \notin {"dbPool_", "thPool_"}
             /\ Destruction[n + 1] \in Parts
  <2>1. n \in {0, 1, 2, 3, 4, 5, 6}
    BY <1>2
  <2>2. /\ Destruction[1] = "dbPool_" /\ Destruction[2] = "thPool_"
        /\ Destruction[3] = "subReactors_" /\ Destruction[4] = "connMtx_"
        /\ Destruction[5] = "connections_" /\ Destruction[6] = "acceptor_"
        /\ Destruction[7] = "log"
    BY DEF Destruction
  <2> QED BY <2>1, <2>2 DEF Parts
<1> QED BY <1>1, <1>2, Zenon DEF Dying

\* A part more is gone.
LEMMA GoneAppend ==
    ASSUME Phases, Len(gone) < 7, gone' = Append(gone, Dying)
    PROVE  /\ gone' \in Seq(Parts) /\ Len(gone') = Len(gone) + 1
           /\ \A i \in 1 .. Len(gone') : gone'[i] = Destruction[i]
<1>1. Dying \in Parts /\ gone \in Seq(Parts) /\ Len(gone) \in Nat
  BY DyingPart DEF Phases
<1>2. gone' \in Seq(Parts) /\ Len(gone') = Len(gone) + 1 /\ gone'[Len(gone) + 1] = Dying
  BY <1>1
<1>3. \A i \in 1 .. Len(gone) : gone'[i] = gone[i]
  BY <1>1
<1>4. ASSUME NEW i \in 1 .. Len(gone') PROVE gone'[i] = Destruction[i]
  <2>1. CASE i = Len(gone) + 1
    BY <1>2, <2>1 DEF Dying
  <2>2. CASE i # Len(gone) + 1
    <3>1. i \in 1 .. Len(gone)
      BY <1>1, <1>2, <2>2
    <3> QED BY <1>3, <3>1 DEF Phases
  <2> QED BY <2>1, <2>2
<1> QED BY <1>2, <1>4

\* The destructors, in the reverse of the order in Server.h.
LEMMA DestroyStep ==
    ASSUME IInv, Destroy \/ Join \/ Exit
    PROVE  IInv'
<1> USE DEF IInv, mainVars, loopVars, thVars, dbVars
<1>1. CASE Destroy
  <2>1. mpc = "destroy" /\ Len(gone) < 7 /\ Len(gone) \in Nat
    BY <1>1 DEF Destroy, Destruction, Phases
  <2>2. CASE Len(gone) = 0
    <3>1. DbPool!Close /\ mpc' = "join" /\ UNCHANGED <<gone, thVars>>
      BY <1>1, <2>1, <2>2, DyingPart DEF Destroy
    <3>2. dbPhase' = "closing" /\ UNCHANGED <<dbPending, dbStatus>>
      BY <3>1 DEF DbPool!Close
    <3>3. Phases'
      BY <2>1, <2>2, <3>1, <3>2 DEF Phases
    <3>4. TypeOK' /\ Asked' /\ Loops' /\ Pools'
      BY <1>1, <2>1, <3>1, <3>2 DEF Destroy, TypeOK, Asked, Loops, Pools
    <3> QED BY <3>3, <3>4
  <2>3. CASE Len(gone) = 1
    <3>1. ThPool!Close /\ mpc' = "join" /\ UNCHANGED <<gone, dbVars>>
      BY <1>1, <2>1, <2>3, DyingPart DEF Destroy
    <3>2. thPhase' = "closing" /\ UNCHANGED <<thPending, thStatus>>
      BY <3>1 DEF ThPool!Close
    <3>3. Phases'
      <4>1. dbPhase = "closed" /\ thPhase # "closed"
        BY <2>3 DEF Phases
      <4>2. UNCHANGED <<gone, dbPhase>> /\ mpc' = "join" /\ thPhase' = "closing"
        BY <3>1, <3>2
      <4> QED BY <2>1, <2>3, <4>1, <4>2, Zenon DEF Phases
    <3>4. TypeOK' /\ Asked' /\ Loops' /\ Pools'
      BY <1>1, <2>1, <3>1, <3>2 DEF Destroy, TypeOK, Asked, Loops, Pools
    <3> QED BY <3>3, <3>4
  <2>4. CASE Len(gone) \notin {0, 1}
    <3>1. gone' = Append(gone, Dying) /\ UNCHANGED <<mpc, thVars, dbVars>>
      BY <1>1, <2>1, <2>4, DyingPart DEF Destroy
    <3>2. Phases'
      BY <2>1, <2>4, <3>1, GoneAppend DEF Phases
    <3>3. Len(gone') # 0 /\ mainQuit
      BY <2>1, <2>4, <3>1, GoneAppend DEF Phases, Asked
    <3>4. Asked' /\ Loops'
      BY <1>1, <3>1, <3>3 DEF Destroy, TypeOK, Asked, Loops
    <3>5. TypeOK' /\ Pools'
      BY <1>1, <3>1 DEF Destroy, TypeOK, Pools
    <3> QED BY <3>2, <3>4, <3>5
  <2> QED BY <2>2, <2>3, <2>4
<1>2. CASE Join
  <2>1. /\ mpc = "join" /\ mpc' = "destroy" /\ gone' = Append(gone, Dying)
        /\ Len(gone) < 7 /\ Len(gone) \in Nat
    BY <1>2 DEF Join, Phases
  <2>2. CASE Len(gone) = 0
    <3>1. DbPool!Closed /\ UNCHANGED thVars
      BY <1>2, <2>1, <2>2, DyingPart DEF Join
    <3>2. dbPhase' = "closed" /\ UNCHANGED <<dbPending, dbStatus>> /\ Drained(Requests, dbStatus)
      BY <3>1, PoolClosed DEF DbPool!Closed, Pools
    <3>3. Phases' /\ mainQuit
      BY <2>1, <2>2, <3>1, <3>2, GoneAppend DEF Phases, Asked
    <3> QED BY <1>2, <2>1, <3>1, <3>2, <3>3 DEF Join, TypeOK, Asked, Loops, Pools
  <2>3. CASE Len(gone) = 1
    <3>1. ThPool!Closed /\ UNCHANGED dbVars
      BY <1>2, <2>1, <2>3, DyingPart DEF Join
    <3>2. thPhase' = "closed" /\ UNCHANGED <<thPending, thStatus>> /\ Drained(Subs, thStatus)
      BY <3>1, PoolClosed DEF ThPool!Closed, Pools
    <3>3. Phases' /\ mainQuit
      BY <2>1, <2>3, <3>1, <3>2, GoneAppend DEF Phases, Asked
    <3> QED BY <1>2, <2>1, <3>1, <3>2, <3>3 DEF Join, TypeOK, Asked, Loops, Pools
  <2> QED BY <2>1, <2>2, <2>3 DEF Phases
<1>3. CASE Exit
  <2>1. Len(gone) # 0
    BY <1>3 DEF Exit, Destruction
  <2>2. Phases'
    BY <1>3, <2>1, Zenon DEF Exit, Phases
  <2>3. TypeOK' /\ Asked' /\ Loops' /\ Pools'
    BY <1>3, <2>1 DEF Exit, TypeOK, Asked, Loops, Pools
  <2> QED BY <2>2, <2>3
<1> QED BY <1>1, <1>2, <1>3

\* A loop that ends does so after stop(): it has seen quit_, or dbPool_ is no
\* longer open.
LEMMA EndStep ==
    ASSUME IInv, NEW r \in Subs, lpc[r] # "ended", End(r), mainQuit,
           UNCHANGED <<mainVars, dbPending, dbPhase>>, PoolOK(Requests, dbPending, dbStatus'),
           \A q \in Requests : dbStatus'[q] = "rejected" => dbPhase # "open",
           dbPhase = "closed" => dbStatus' = dbStatus
    PROVE  IInv'
<1> USE DEF IInv, mainVars
<1>1. /\ thStatus' = [thStatus EXCEPT ![r] = "done"] /\ thPending' = thPending
      /\ thPhase' = thPhase /\ thPhase # "closed" /\ thStatus[r] = "running"
      /\ thStatus \in [Subs -> Statuses]
  BY DEF End, ThPool!Finish, Pools, PoolOK
<1>2. PoolOK(Subs, thPending', thStatus')
  BY <1>1, PoolMove, Zenon DEF Pools
<1>3. Pools'
  BY <1>1, <1>2 DEF Pools
<1>4. TypeOK'
  BY ShutdownAssumption DEF End, TypeOK
<1>5. Phases' /\ Asked'
  BY <1>1 DEF Phases, Asked
<1>6. Loops'
  BY <1>1 DEF End, TypeOK, Loops
<1> QED BY <1>3, <1>4, <1>5, <1>6

\* stop() has been called when dbPool_ is not open.
LEMMA ClosingAsked ==
    ASSUME IInv, dbPhase # "open"
    PROVE  mainQuit
BY DEF IInv, TypeOK, Phases, Asked

\* The steps of a loop.
LEMMA LoopStep ==
    ASSUME IInv, NEW r \in Subs, Loop(r)
    PROVE  IInv'
<1> USE DEF IInv, mainVars, loopVars, thVars, dbVars
<1>1. CASE LoopStarts(r)
  <2>1. /\ Popped(thPending, thPending', r)
        /\ thStatus' = [thStatus EXCEPT ![r] = "running"]
        /\ thPhase' = thPhase /\ thPhase # "closed"
    BY <1>1 DEF LoopStarts, ThPool!Start, Popped
  <2>2. PoolOK(Subs, thPending', thStatus') /\ thStatus[r] = "accepted"
    BY <2>1, PoolStart, Zenon DEF Pools
  <2>3. Pools'
    BY <1>1, <2>1, <2>2 DEF LoopStarts, Pools
  <2>4. TypeOK' /\ Phases'
    BY <1>1, <2>1 DEF LoopStarts, TypeOK, Phases
  <2>5. thStatus \in [Subs -> Statuses]
    BY DEF Pools, PoolOK
  <2>6. Asked' /\ Loops'
    BY <1>1, <2>1, <2>2, <2>5 DEF LoopStarts, TypeOK, Asked, Loops
  <2> QED BY <2>3, <2>4, <2>6
<1>2. ASSUME lpc[r] # "ended", UNCHANGED <<mainVars, thVars, dbVars>>,
             NEW to \in {"test", "poll", "handle", "add", "notify"},
             lpc' = [lpc EXCEPT ![r] = to],
             left' \in [Subs -> 0 .. MaxEvents], adding' \in [Subs -> Requests \cup {NoRequest}],
             \A s \in Subs \ {r} : adding'[s] = adding[s],
             to = "add" => adding'[r] \in Requests
      PROVE  IInv'
  <2>1. TypeOK' /\ Phases' /\ Asked' /\ Pools'
    BY <1>2, Zenon DEF TypeOK, Phases, Asked, Pools
  <2>2. Loops'
    BY <1>2 DEF TypeOK, Loops
  <2> QED BY <2>1, <2>2
<1>3. CASE LoopTest(r)
  <2>1. CASE r \in quit
    <3>1. mainQuit
      BY <2>1 DEF Asked
    <3> QED BY <1>3, <2>1, <3>1, EndStep DEF LoopTest, Pools, Asked
  <2>2. CASE r \notin quit
    BY <1>2, <1>3, <2>2 DEF LoopTest, TypeOK
  <2> QED BY <2>1, <2>2
<1>4. CASE LoopPoll(r)
  BY <1>2, <1>4 DEF LoopPoll, TypeOK
<1>5. left \in [Subs -> 0 .. MaxEvents] /\ \A s \in Subs : left[s] > 0 => left[s] - 1 \in 0 .. MaxEvents
  BY ShutdownAssumption DEF TypeOK
<1>6. CASE LoopHandle(r)
  <2>1. CASE left[r] = 0
    BY <1>2, <1>5, <1>6, <2>1 DEF LoopHandle, TypeOK
  <2>2. CASE left[r] # 0
    <3>1. left[r] > 0
      BY <1>5, <2>2, ShutdownAssumption
    <3>2. lpc' = [lpc EXCEPT ![r] = "handle"]
      BY <1>6, <2>2 DEF LoopHandle, TypeOK
    <3> QED BY <1>2, <1>5, <1>6, <2>2, <3>1, <3>2 DEF LoopHandle, TypeOK
  <2> QED BY <2>1, <2>2
<1>7. ASSUME NEW q \in Requests, LoopRequest(r, q) PROVE IInv'
  BY <1>2, <1>5, <1>7 DEF LoopRequest, TypeOK
<1>8. CASE LoopAdd(r)
  <2>1. lpc[r] = "add" /\ adding[r] \in Requests /\ UNCHANGED <<g_shutdown, mainQuit, quit, gone>>
    BY <1>8 DEF LoopAdd, Loops
  <2>2. ASSUME DbPool!Accept(adding[r]), lpc' = [lpc EXCEPT ![r] = "notify"],
               UNCHANGED <<mpc, left, adding, thVars>>
        PROVE  IInv'
    <3>1. /\ dbPhase = "open" /\ dbStatus[adding[r]] = "new" /\ dbPhase' = dbPhase
          /\ dbPending' = Append(dbPending, adding[r])
          /\ dbStatus' = [dbStatus EXCEPT ![adding[r]] = "accepted"]
      BY <2>2 DEF DbPool!Accept
    <3>2. PoolOK(Requests, dbPending', dbStatus')
      <4>1. PICK q \in Requests : q = adding[r]
        BY <2>1
      <4>2. /\ PoolOK(Requests, dbPending, dbStatus) /\ dbStatus[q] = "new"
            /\ dbPending' = Append(dbPending, q) /\ dbStatus' = [dbStatus EXCEPT ![q] = "accepted"]
        BY <3>1, <4>1 DEF Pools
      <4> QED BY ONLY <4>2, PoolAccept, Zenon
    <3>3. dbStatus \in [Requests -> Statuses]
      BY DEF Pools, PoolOK
    <3>4. Pools'
      BY <2>2, <3>1, <3>2 DEF Pools
    <3>5. TypeOK' /\ Phases' /\ Asked'
      BY <2>1, <2>2, <3>1, <3>3 DEF TypeOK, Phases, Asked
    <3>6. Loops'
      BY <2>1, <2>2 DEF TypeOK, Loops
    <3> QED BY <3>4, <3>5, <3>6
  <2>3. ASSUME DbPool!Reject(adding[r]), End(r), UNCHANGED mpc
        PROVE  IInv'
    <3>1. /\ dbPhase = "closing" /\ dbStatus[adding[r]] = "new"
          /\ dbPhase' = dbPhase /\ dbPending' = dbPending
          /\ dbStatus' = [dbStatus EXCEPT ![adding[r]] = "rejected"]
      BY <2>3 DEF DbPool!Reject
    <3>2. PoolOK(Requests, dbPending, dbStatus')
      BY <2>1, <3>1, PoolMove, Zenon DEF Pools
    <3> QED BY <2>1, <2>3, <3>1, <3>2, ClosingAsked, EndStep, Zenon
  <2>4. ASSUME dbPhase = "closed", End(r), UNCHANGED <<mpc, dbVars>>
        PROVE  IInv'
    <3>1. PoolOK(Requests, dbPending, dbStatus') /\ mainQuit
      BY <2>4, ClosingAsked DEF Pools
    <3> QED BY <2>1, <2>4, <3>1, EndStep
  <2>5. ASSUME lpc' = [lpc EXCEPT ![r] = "notify"], UNCHANGED <<mpc, left, adding, thVars, dbVars>>
        PROVE  IInv'
    BY <1>2, <2>1, <2>5 DEF TypeOK
  <2>6. ASSUME dbPhase = "closed", mpc' = "exited", UNCHANGED <<loopVars, thVars, dbVars>>
        PROVE  IInv'
    BY <2>1, <2>6 DEF TypeOK, Phases, Asked, Loops, Pools
  <2> QED BY <1>8, <2>2, <2>3, <2>4, <2>5, <2>6 DEF LoopAdd
<1>9. CASE LoopNotify(r)
  BY <1>2, <1>9 DEF LoopNotify, TypeOK
<1> QED BY <1>1, <1>3, <1>4, <1>6, <1>7, <1>8, <1>9 DEF Loop

\* A DB thread starts or ends a task.
LEMMA DbStep ==
    ASSUME IInv, DbThread
    PROVE  IInv'
<1> USE DEF IInv, mainVars, loopVars, thVars
<1>1. PICK q \in Requests : DbPool!Start(q) \/ DbPool!Finish(q)
  BY DEF DbThread
<1>2. CASE DbPool!Start(q)
  <2>1. /\ Popped(dbPending, dbPending', q)
        /\ dbStatus' = [dbStatus EXCEPT ![q] = "running"]
        /\ dbPhase' = dbPhase /\ dbPhase # "closed"
    BY <1>2 DEF DbPool!Start, Popped
  <2>2. PoolOK(Requests, dbPending', dbStatus')
    BY <2>1, PoolStart, Zenon DEF Pools
  <2>3. dbStatus \in [Requests -> Statuses]
    BY DEF Pools, PoolOK
  <2> QED BY <2>1, <2>2, <2>3 DEF DbThread, TypeOK, Phases, Asked, Loops, Pools
<1>3. CASE DbPool!Finish(q)
  <2>1. /\ dbStatus[q] = "running" /\ dbPending' = dbPending
        /\ dbStatus' = [dbStatus EXCEPT ![q] = "done"]
        /\ dbPhase' = dbPhase /\ dbPhase # "closed"
    BY <1>3 DEF DbPool!Finish
  <2>2. PoolOK(Requests, dbPending', dbStatus')
    BY <2>1, PoolMove, Zenon DEF Pools
  <2>3. dbStatus \in [Requests -> Statuses]
    BY DEF Pools, PoolOK
  <2> QED BY <2>1, <2>2, <2>3 DEF DbThread, TypeOK, Phases, Asked, Loops, Pools
<1> QED BY <1>1, <1>2, <1>3

\* The invariant holds from the construction of the server to the end of the
\* process.
THEOREM ShutdownInvariant == Spec => []IInv
<1>1. IInv /\ UNCHANGED vars => IInv'
  BY DEF vars, mainVars, loopVars, thVars, dbVars, IInv, TypeOK, Phases, Asked, Loops, Pools
<1>2. IInv /\ [Next]_vars => IInv'
  BY <1>1, MainStep, DestroyStep, LoopStep, DbStep DEF Next, Main
<1> QED BY IInit, <1>2, PTL DEF Spec

\* main(), the loops and their batches keep their types: a batch is never handled
\* beyond its length.
THEOREM ShutdownTypes == Spec => []TypeOK
<1>1. IInv => TypeOK
  BY DEF IInv
<1> QED BY <1>1, ShutdownInvariant, PTL

\* A part that is gone is one of the first Len(gone) of Destruction.
LEMMA GoneCount ==
    ASSUME IInv, NEW part, Gone(part)
    PROVE  part \notin {"dbPool_", "thPool_"} => Len(gone) \notin {0, 1}
<1>1. PICK i \in 1 .. Len(gone) : part = Destruction[i]
  BY DEF Gone, IInv, Phases
<1>2. Destruction[1] = "dbPool_" /\ 1 .. 0 = {} /\ 1 .. 1 = {1}
  BY DEF Destruction
<1> QED BY <1>1, <1>2, Zenon

\* The order of Server's members joins the users of a part before the part is
\* destroyed: no loop is left when the reactors, the connections, their mutex or
\* the log go, and no DB task when the connections or the log do.
THEOREM UsersAreJoined == Spec => []UsersJoined
<1>1. IInv => UsersJoined
  <2> SUFFICES ASSUME IInv, NEW part \in {"subReactors_", "connMtx_", "connections_", "log"},
                      Gone(part)
               PROVE  /\ \A r \in Subs : thStatus[r] = "done" /\ lpc[r] = "ended"
                      /\ \A q \in Requests : dbStatus[q] \notin {"accepted", "running"}
    BY DEF UsersJoined
  <2>1. Len(gone) \notin {0, 1}
    BY GoneCount
  <2>2. thPhase = "closed" /\ dbPhase = "closed" /\ mpc # "construct"
    BY <2>1 DEF IInv, Phases
  <2>3. Drained(Subs, thStatus) /\ Drained(Requests, dbStatus) /\ thStatus \in [Subs -> Statuses]
    BY <2>2 DEF IInv, Pools, PoolOK
  <2> QED BY <2>2, <2>3 DEF IInv, Loops, Drained, Statuses
<1> QED BY <1>1, ShutdownInvariant, PTL

\* Every request dbPool_ accepted is answered before the process ends, and without
\* a signal none is refused and no loop ends.
THEOREM ServedUntilSignal == Spec => []ServesUntilSignal
<1>1. IInv => ServesUntilSignal
  <2> SUFFICES ASSUME IInv PROVE ServesUntilSignal
    OBVIOUS
  <2> USE DEF IInv
  <2>1. ASSUME mpc = "exited", NEW q \in Requests PROVE dbStatus[q] \in {"new", "done", "rejected"}
    <3>1. dbPhase = "closed"
      BY <2>1 DEF Phases
    <3> QED BY <3>1 DEF Pools, PoolOK, Drained, Statuses
  <2>2. ASSUME ~g_shutdown, NEW q \in Requests PROVE dbStatus[q] # "rejected"
    BY <2>2, ClosingAsked DEF Asked
  <2>3. ASSUME ~g_shutdown, NEW r \in Subs PROVE thStatus[r] # "done"
    BY <2>3 DEF Asked
  <2> QED BY <2>1, <2>2, <2>3 DEF ServesUntilSignal
<1> QED BY <1>1, ShutdownInvariant, PTL

\* The server uses each thread pool by its specification, so that what ThreadPool
\* promises (TaskPool) holds of thPool_ and of dbPool_ inside the process; calls
\* on a destroyed dbPool_ are the only others, and are recorded in freedUse.
THEOREM PoolsUsed == Spec => ThPool!Spec /\ DbPool!Spec
<1> USE DEF mainVars, loopVars, thVars, dbVars
<1>1. Init => ThPool!Init /\ DbPool!Init
  BY DEF Init
<1>2. IInv /\ [Next]_vars => [ThPool!Next]_<<thPending, thStatus, thPhase>>
  <2> SUFFICES ASSUME IInv, Next PROVE ThPool!Next \/ UNCHANGED thVars
    BY DEF vars
  <2>1. ASSUME NEW r \in Subs, Construct(r) \/ StopSub(r) PROVE ThPool!Next \/ UNCHANGED thVars
    BY <2>1 DEF Construct, StopSub, ThPool!Next
  <2>2. ASSUME NEW r \in Subs, End(r) PROVE ThPool!Next
    BY <2>2 DEF End, ThPool!Next
  <2>3. ASSUME NEW r \in Subs, Loop(r) PROVE ThPool!Next \/ UNCHANGED thVars
    <3>1. CASE LoopStarts(r)
      BY <3>1 DEF LoopStarts, ThPool!Next
    <3>2. CASE LoopTest(r)
      BY <2>2, <3>2 DEF LoopTest
    <3>3. CASE LoopAdd(r)
      BY <2>2, <3>3 DEF LoopAdd
    <3> QED BY <2>3, <3>1, <3>2, <3>3 DEF Loop, LoopPoll, LoopHandle, LoopRequest, LoopNotify
  <2>4. CASE Destroy
    BY <2>4 DEF Destroy, ThPool!Next
  <2>5. CASE Join
    BY <2>5 DEF Join, ThPool!Next
  <2> QED BY <2>1, <2>3, <2>4, <2>5 DEF Next, Main, Signal, MainLoop, MainCallback, Exit, DbThread
<1>3. IInv /\ [Next]_vars => [DbPool!Next]_<<dbPending, dbStatus, dbPhase>>
  <2> SUFFICES ASSUME IInv, Next PROVE DbPool!Next \/ UNCHANGED dbVars
    BY DEF vars
  <2>1. ASSUME NEW r \in Subs, Construct(r) \/ StopSub(r) PROVE UNCHANGED dbVars
    BY <2>1 DEF Construct, StopSub
  <2>2. ASSUME NEW r \in Subs, Loop(r) PROVE DbPool!Next \/ UNCHANGED dbVars
    <3>1. CASE LoopAdd(r)
      <4>1. adding[r] \in Requests
        BY <3>1 DEF LoopAdd, IInv, Loops
      <4> QED BY <3>1, <4>1 DEF LoopAdd, DbPool!Next
    <3> QED BY <2>2, <3>1 DEF Loop, LoopStarts, LoopTest, LoopPoll, LoopHandle, LoopRequest, LoopNotify
  <2>3. CASE DbThread
    BY <2>3 DEF DbThread, DbPool!Next
  <2>4. CASE Destroy
    BY <2>4 DEF Destroy, DbPool!Next
  <2>5. CASE Join
    BY <2>5 DEF Join, DbPool!Next
  <2> QED BY <2>1, <2>2, <2>3, <2>4, <2>5 DEF Next, Main, Signal, MainLoop, MainCallback, Exit
<1> QED BY <1>1, <1>2, <1>3, ShutdownInvariant, PTL
        DEF Spec, ThPool!Spec, DbPool!Spec, ThPool!poolVars, DbPool!poolVars
=============================================================================
