------------------------------ MODULE TaskPool ------------------------------
(***************************************************************************)
(* What ThreadPool promises its callers: a task is either accepted or the  *)
(* call throws because the pool is closing; accepted tasks are started in  *)
(* the order they were accepted, each once, Size of them at a time at      *)
(* most; and the destructor returns when the last of them has finished.    *)
(***************************************************************************)
EXTENDS Naturals, Sequences, FiniteSets

CONSTANTS Tasks, Size

VARIABLES
    pending,   \* accepted and not started, oldest first
    status,    \* of a task: "new", "accepted", "running", "done", "rejected"
    phase      \* of the pool: "open", "closing", "closed"

poolVars == <<pending, status, phase>>

Init ==
    /\ pending = <<>>
    /\ status = [t \in Tasks |-> "new"]
    /\ phase = "open"

Accept(t) ==
    /\ phase = "open" /\ status[t] = "new"
    /\ pending' = Append(pending, t)
    /\ status' = [status EXCEPT ![t] = "accepted"]
    /\ UNCHANGED phase

Reject(t) ==
    /\ phase = "closing" /\ status[t] = "new"
    /\ status' = [status EXCEPT ![t] = "rejected"]
    /\ UNCHANGED <<pending, phase>>

Start(t) ==
    /\ phase # "closed"
    /\ pending # <<>> /\ t = Head(pending)
    /\ Cardinality({u \in Tasks : status[u] = "running"}) < Size
    /\ pending' = Tail(pending)
    /\ status' = [status EXCEPT ![t] = "running"]
    /\ UNCHANGED phase

Finish(t) ==
    /\ phase # "closed"
    /\ status[t] = "running"
    /\ status' = [status EXCEPT ![t] = "done"]
    /\ UNCHANGED <<pending, phase>>

Close ==
    /\ phase = "open"
    /\ phase' = "closing"
    /\ UNCHANGED <<pending, status>>

\* The destructor returns.
Closed ==
    /\ phase = "closing"
    /\ pending = <<>> /\ \A t \in Tasks : status[t] # "running"
    /\ phase' = "closed"
    /\ UNCHANGED <<pending, status>>

Next ==
    \/ \E t \in Tasks : Accept(t) \/ Reject(t) \/ Start(t) \/ Finish(t)
    \/ Close
    \/ Closed

Spec == Init /\ [][Next]_poolVars
=============================================================================
