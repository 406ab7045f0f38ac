-------------------------- MODULE OrderedResponses --------------------------
(***************************************************************************)
(* What a client may expect of a connection: the responses to its          *)
(* requests, whole and in the order of the requests, until it is closed.   *)
(***************************************************************************)
EXTENDS Naturals, Sequences

CONSTANT MaxRequests

VARIABLES
    asked,   \* the requests the client has sent
    wire,    \* the units of responses the client is given
    closed   \* the connection is closed

\* The answers to them: three units <<i, 1>>, <<i, 2>>, <<i, 3>> for the i-th.
Answers == [k \in 1 .. 3 * Len(asked) |-> <<1 + ((k - 1) \div 3), 1 + ((k - 1) % 3)>>]

Init == asked = <<>> /\ wire = <<>> /\ closed = FALSE

Ask ==
    /\ ~closed /\ Len(asked) < MaxRequests
    /\ \E r \in [route : {"inline", "file", "reject", "bad", "db"}, keepAlive : BOOLEAN] :
          asked' = Append(asked, r)
    /\ UNCHANGED <<wire, closed>>

Deliver ==
    /\ ~closed
    /\ \E n \in Len(wire) + 1 .. Len(Answers) : wire' = SubSeq(Answers, 1, n)
    /\ UNCHANGED <<asked, closed>>

Close == ~closed /\ closed' = TRUE /\ UNCHANGED <<asked, wire>>

Next == Ask \/ Deliver \/ Close

Spec == Init /\ [][Next]_<<asked, wire, closed>>
=============================================================================
