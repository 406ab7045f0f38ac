---------------------------- MODULE ReactorProof ----------------------------
(***************************************************************************)
(* Proofs about Reactor for every number of clients, fds and sub-reactors. *)
(***************************************************************************)
EXTENDS Reactor, TLAPS

USE DEF kernelVars, channelVars, connVars, mainVars, subVars

----------------------------------------------------------------------------
(* Types.                                                                  *)

\* The state Server's constructor leaves is well typed.
LEMMA TypeInit == Init => TypeOK
BY ReactorAssumption DEF Init, TypeOK, Subs

\* epoll_ctl leaves the registrations and the ready list well typed.
LEMMA EpollCtlType ==
    ASSUME TypeOK, NEW c \in Conns, NEW ev \in SUBSET {"IN", "OUT"}, NEW full,
           EpollCtl(c, ev, full)
    PROVE  /\ events' \in [Conns -> SUBSET {"IN", "OUT"}]
           /\ interest' \in [Conns -> SUBSET {"IN", "OUT"}]
           /\ rdy' \in [Conns -> BOOLEAN]
<1> DEFINE due == PollMask(c, full) \cap ev # {}
<1>1. events' \in [Conns -> SUBSET {"IN", "OUT"}]
  BY DEF EpollCtl, TypeOK
<1>2. CASE inEpoll[c] /\ interest[c] = {}
  BY <1>1, <1>2 DEF EpollCtl, TypeOK
<1>3. CASE ~(inEpoll[c] /\ interest[c] = {})
  <2>1. /\ interest' = [interest EXCEPT ![c] = ev]
        /\ rdy' = [rdy EXCEPT ![c] = rdy[c] \/ due]
    BY <1>3, Zenon DEF EpollCtl
  <2> HIDE DEF due
  <2> QED BY <1>1, <2>1 DEF TypeOK
<1> QED BY <1>2, <1>3

\* So does the drain of a response, which also keeps the buffers typed.
LEMMA WriteType ==
    ASSUME TypeOK, NEW c \in Conns, NEW w \in {"keep", "close"}, NEW o,
           WriteFromBuffer(c, w, o)
    PROVE  /\ events' \in [Conns -> SUBSET {"IN", "OUT"}]
           /\ interest' \in [Conns -> SUBSET {"IN", "OUT"}]
           /\ rdy' \in [Conns -> BOOLEAN]
           /\ inEpoll' \in [Conns -> BOOLEAN]
           /\ wbuf' \in [Conns -> {"empty", "keep", "close"}]
           /\ txFull' \in [Conns -> BOOLEAN]
           /\ missed' \in [Conns -> BOOLEAN]
<1>1. /\ events[c] \ {"OUT"} \in SUBSET {"IN", "OUT"}
      /\ events[c] \cup {"OUT"} \in SUBSET {"IN", "OUT"}
  BY DEF TypeOK
<1>2. CASE o = "full"
  <2>1. /\ wbuf' = [wbuf EXCEPT ![c] = "empty"]
        /\ EpollCtl(c, events[c] \ {"OUT"}, FALSE)
        /\ inEpoll' = [inEpoll EXCEPT ![c] = TRUE]
        /\ txFull' = txFull /\ missed' = [missed EXCEPT ![c] = FALSE]
    BY <1>2, ZenonT(40) DEF WriteFromBuffer, UpdateChannel
  <2> QED BY <1>1, <2>1, EpollCtlType, ZenonT(40) DEF TypeOK
<1>3. CASE o = "again"
  <2>1. /\ wbuf' = [wbuf EXCEPT ![c] = w]
        /\ txFull' = [txFull EXCEPT ![c] = TRUE]
        /\ EpollCtl(c, events[c] \cup {"OUT"}, TRUE)
        /\ inEpoll' = [inEpoll EXCEPT ![c] = TRUE]
        /\ missed' = [missed EXCEPT ![c] = FALSE]
    BY <1>3, ZenonT(40) DEF WriteFromBuffer, UpdateChannel
  <2> QED BY <1>1, <2>1, EpollCtlType, ZenonT(40) DEF TypeOK
<1>4. CASE o = "error"
  BY <1>4 DEF WriteFromBuffer, TypeOK
<1> QED BY <1>2, <1>3, <1>4, ZenonT(40) DEF WriteFromBuffer

----------------------------------------------------------------------------
(* Each action preserves the types.                                        *)

\* The steps of clients and of time keep the types.
LEMMA ClientType ==
    ASSUME IInv, NEW c \in Conns, Client(c) \/ IdleElapses(c) \/ RunDbTask(c)
    PROVE  TypeOK'
<1> USE ReactorAssumption DEF IInv
<1>1. CASE ClientConnect(c)
  BY <1>1 DEF ClientConnect, TypeOK
<1>2. CASE ClientSend(c)
  BY <1>2 DEF ClientSend, Wake, TypeOK
<1>3. ASSUME NEW how \in {"fin", "rst"}, ClientClose(c, how) PROVE TypeOK'
  BY <1>3 DEF ClientClose, Wake, TypeOK
<1>4. CASE ClientDrain(c)
  BY <1>4 DEF ClientDrain, Wake, TypeOK
<1>5. CASE IdleElapses(c)
  BY <1>5 DEF IdleElapses, TypeOK
<1>6. CASE RunDbTask(c)
  <2>1. txFull' \in [Conns -> BOOLEAN]
    BY <1>6, ZenonT(40) DEF RunDbTask, SendHttpResponse, TypeOK
  <2>2. tasks' \in [Conns -> Nat]
    BY <1>6 DEF RunDbTask, TypeOK
  <2> QED BY <1>6, <2>1, <2>2 DEF RunDbTask, TypeOK
<1> QED BY <1>1, <1>2, <1>3, <1>4, <1>5, <1>6 DEF Client

\* So do the main reactor's accept, registration, filing and sweep.
LEMMA MainType == ASSUME IInv, Main PROVE TypeOK'
<1> USE ReactorAssumption DEF IInv
<1>1. ASSUME NEW c \in Conns, NEW fd \in Fds, AcceptConnection(c, fd) PROVE TypeOK'
  BY <1>1 DEF AcceptConnection, TypeOK
<1>2. CASE RegisterChannel
  <2>1. mconn \in Conns /\ events[mconn] \cup {"IN"} \in SUBSET {"IN", "OUT"}
    BY <1>2 DEF RegisterChannel, ThreadsOwn, TypeOK
  <2> QED BY <1>2, <2>1, EpollCtlType, ZenonT(40) DEF RegisterChannel, TypeOK
<1>3. CASE SetInEpoll
  BY <1>3, ZenonT(40) DEF SetInEpoll, TypeOK
<1>4. CASE InsertConnection
  <2>1. mconn \in Conns /\ connections[fdOf[mconn]] = NoConn
    BY <1>4 DEF InsertConnection, ThreadsOwn, TypeOK
  <2> QED BY <1>4, <2>1 DEF InsertConnection, TypeOK
<1>5. CASE AcceptFails
  BY <1>5 DEF AcceptFails, TypeOK
<1>6. CASE SweepIdle
  BY <1>6, ZenonT(40) DEF SweepIdle, TypeOK
<1>7. ASSUME NEW fd \in Fds, SweepVisit(fd) PROVE TypeOK'
  BY <1>7, ZenonT(40) DEF SweepVisit, TypeOK
<1>8. ASSUME NEW fd \in Fds, SweepShutdown(fd) PROVE TypeOK'
  <2>1. /\ mpc' = "visit" /\ todo' = todo \ {fd}
        /\ UNCHANGED <<peer, sent, rx, txFull, fdTab, interest, channelVars, connVars>>
        /\ UNCHANGED <<connections, mconn, subVars, tasks, running, missed>>
    BY <1>8, Zenon DEF SweepShutdown
  <2>2. shut' \in [Conns -> BOOLEAN] /\ rdy' \in [Conns -> BOOLEAN]
    <3>1. CASE fdTab[fd] = NoConn
      BY <1>8, <3>1, Zenon DEF SweepShutdown, TypeOK
    <3>2. CASE fdTab[fd] # NoConn
      <4>1. shut \in [Conns -> BOOLEAN] /\ rdy \in [Conns -> BOOLEAN]
        BY Zenon DEF TypeOK
      <4> QED BY <1>8, <3>2, <4>1, ZenonT(40) DEF SweepShutdown, Wake
    <3> QED BY <3>1, <3>2
  <2> QED BY <2>1, <2>2 DEF channelVars, connVars, subVars, TypeOK
<1>9. CASE SweepDone
  BY <1>9 DEF SweepDone, TypeOK
<1> QED BY <1>1, <1>2, <1>3, <1>4, <1>5, <1>6, <1>7, <1>8, <1>9 DEF Main

\* So do a sub-reactor's poll, handlers and teardown.
LEMMA SubType == ASSUME IInv, NEW r \in Subs, Sub(r) PROVE TypeOK'
<1> USE ReactorAssumption DEF IInv
<1>1. CASE ActiveChannels(r)
  BY <1>1 DEF ActiveChannels, Reported, PollMask, TypeOK
<1>2. ASSUME NEW c \in Conns, HandleWrite(r, c) PROVE TypeOK'
  <2>0. revent' \in [Conns -> SUBSET {"IN", "OUT"}]
    BY <1>2, ZenonT(40) DEF HandleWrite, Take, TypeOK
  <2>1. CASE wbuf[c] = "empty"
    <3>1. events[c] \ {"OUT"} \in SUBSET {"IN", "OUT"}
      BY DEF TypeOK
    <3>2. EpollCtl(c, events[c] \ {"OUT"}, txFull[c])
      BY <1>2, <2>1 DEF HandleWrite, UpdateChannel
    <3>3. /\ batch' \in [Subs -> SUBSET Conns]
          /\ rpc' \in [Subs -> {"loop", "process", "delete", "deleteAndLoop"}]
          /\ rcur' \in [Subs -> Conns \cup {NoConn}]
          /\ inEpoll' \in [Conns -> BOOLEAN]
      <4>1. /\ batch' = [batch EXCEPT ![r] = batch[r] \ {c}]
            /\ Goto(r, "loop", NoConn)
            /\ inEpoll' = [inEpoll EXCEPT ![c] = TRUE]
        BY <1>2, <2>1 DEF HandleWrite, UpdateChannel, Take
      <4> QED BY <4>1 DEF Goto, TypeOK
    <3>4. /\ events' \in [Conns -> SUBSET {"IN", "OUT"}]
          /\ interest' \in [Conns -> SUBSET {"IN", "OUT"}]
          /\ rdy' \in [Conns -> BOOLEAN]
      BY <3>1, <3>2, EpollCtlType
    <3> QED BY <1>2, <2>0, <2>1, <3>3, <3>4 DEF HandleWrite, TypeOK
  <2>2. CASE wbuf[c] # "empty"
    <3>1. wbuf[c] \in {"keep", "close"}
      BY <2>2 DEF TypeOK
    <3>2. PICK o \in {"full", "again", "error"} : WriteFromBuffer(c, wbuf[c], o)
      BY <1>2, <2>2, Zenon DEF HandleWrite
    <3>3. batch' \in [Subs -> SUBSET Conns]
      BY <1>2 DEF HandleWrite, Take, TypeOK
    <3>4. /\ rpc' \in [Subs -> {"loop", "process", "delete", "deleteAndLoop"}]
          /\ rcur' \in [Subs -> Conns \cup {NoConn}]
      BY <1>2, <2>2 DEF HandleWrite, Goto, TypeOK
    <3> QED BY <1>2, <2>0, <2>2, <3>1, <3>2, <3>3, <3>4, WriteType, SMTT(30) DEF HandleWrite, TypeOK
  <2> QED BY <2>1, <2>2
<1>3. ASSUME NEW c \in Conns, HandleMessage(r, c) PROVE TypeOK'
  BY <1>3 DEF HandleMessage, Take, Goto, TypeOK
<1>4. CASE NoRequest(r)
  BY <1>4 DEF NoRequest, Goto, TypeOK
<1>5. ASSUME NEW keepAlive \in BOOLEAN, NEW clear \in BOOLEAN,
             RespondInline(r, keepAlive, clear)
      PROVE  TypeOK'
  <2> DEFINE c == rcur[r]
             w == IF keepAlive THEN "keep" ELSE "close"
  <2>1. c \in Conns /\ w \in {"keep", "close"}
    BY <1>5 DEF RespondInline, ThreadsOwn, TypeOK
  <2>2. PICK o \in {"full", "again", "error"} : WriteFromBuffer(c, w, o)
    BY <1>5 DEF RespondInline
  <2>3. input' \in [Conns -> Nat]
    BY <1>5, <2>1 DEF RespondInline, TypeOK
  <2>4. /\ rpc' \in [Subs -> {"loop", "process", "delete", "deleteAndLoop"}]
        /\ rcur' \in [Subs -> Conns \cup {NoConn}]
    <3>1. \E pc \in {"loop", "process", "delete", "deleteAndLoop"}, d \in {c, NoConn} :
             Goto(r, pc, d)
      BY <1>5 DEF RespondInline
    <3> QED BY <2>1, <3>1 DEF Goto, TypeOK
  <2> HIDE DEF c, w
  <2>5. UNCHANGED <<peer, sent, rx, shut, fdTab, revent, obj, fdOf, idle, batch,
                    connections, mpc, mconn, todo, tasks, running>>
    BY <1>5 DEF RespondInline
  <2> QED BY <2>1, <2>2, <2>3, <2>4, <2>5, WriteType DEF TypeOK
<1>6. ASSUME NEW keepAlive \in BOOLEAN, DispatchDb(r, keepAlive) PROVE TypeOK'
  <2>1. rcur[r] \in Conns
    BY <1>6 DEF DispatchDb, ThreadsOwn, TypeOK
  <2>2. input' \in [Conns -> Nat] /\ tasks' \in [Conns -> Nat]
    BY <1>6, <2>1 DEF DispatchDb, TypeOK
  <2>3. txFull' \in [Conns -> BOOLEAN]
    <3>1. \/ UNCHANGED txFull
          \/ txFull' = [txFull EXCEPT ![rcur[r]] = TRUE]
      BY <1>6, Zenon DEF DispatchDb, SendHttpResponse
    <3> QED BY <3>1, ZenonT(40) DEF TypeOK
  <2>4. /\ rpc' \in [Subs -> {"loop", "process", "delete", "deleteAndLoop"}]
        /\ rcur' \in [Subs -> Conns \cup {NoConn}]
    <3>1. \E pc \in {"loop", "process"}, d \in {rcur[r], NoConn} : Goto(r, pc, d)
      BY <1>6, Zenon DEF DispatchDb
    <3> QED BY <2>1, <3>1 DEF Goto, TypeOK
  <2> QED BY <1>6, <2>2, <2>3, <2>4 DEF DispatchDb, TypeOK
<1>7. CASE DeleteConnection(r)
  <2>1. rcur[r] \in Conns
    BY <1>7 DEF DeleteConnection, ThreadsOwn, TypeOK
  <2>2. missed' \in [Conns -> BOOLEAN]
    BY <1>7, ZenonT(40) DEF DeleteConnection, TypeOK
  <2>3. /\ rpc' \in [Subs -> {"loop", "process", "delete", "deleteAndLoop"}]
        /\ rcur' \in [Subs -> Conns \cup {NoConn}]
    <3>1. \E pc \in {"loop", "process"}, d \in {rcur[r], NoConn} : Goto(r, pc, d)
      BY <1>7, Zenon DEF DeleteConnection
    <3> QED BY <2>1, <3>1 DEF Goto, TypeOK
  <2>4. connections' \in [Fds -> Conns \cup {NoConn}]
    BY <1>7, ZenonT(40) DEF DeleteConnection, EraseEntry, TypeOK
  <2>5. UNCHANGED <<mpc, mconn, todo, batch, tasks, running>>
    BY <1>7, Zenon DEF DeleteConnection
  <2>6. CASE UNCHANGED <<kernelVars, channelVars, connVars>>
    BY <2>2, <2>3, <2>4, <2>5, <2>6 DEF TypeOK
  <2>7. ASSUME NEW v \in Conns, Destroy(v) PROVE TypeOK'
    <3>1. /\ fdTab' \in [Fds -> Conns \cup {NoConn}]
          /\ interest' \in [Conns -> SUBSET {"IN", "OUT"}]
          /\ events' \in [Conns -> SUBSET {"IN", "OUT"}]
          /\ revent' \in [Conns -> SUBSET {"IN", "OUT"}]
      BY <2>7 DEF Destroy, TypeOK
    <3>2. /\ obj' \in [Conns -> {"none", "alive", "freed"}]
          /\ wbuf' \in [Conns -> {"empty", "keep", "close"}]
          /\ rx' \in [Conns -> Nat]
          /\ input' \in [Conns -> Nat]
      BY <2>7 DEF Destroy, TypeOK
    <3>3. /\ rdy' \in [Conns -> BOOLEAN]
          /\ txFull' \in [Conns -> BOOLEAN]
          /\ shut' \in [Conns -> BOOLEAN]
          /\ inEpoll' \in [Conns -> BOOLEAN]
          /\ idle' \in [Conns -> BOOLEAN]
      BY <2>7 DEF Destroy, TypeOK
    <3> QED BY <2>2, <2>3, <2>4, <2>5, <2>7, <3>1, <3>2, <3>3 DEF Destroy, TypeOK
  <2>8. connections[fdOf[rcur[r]]] \in Conns \cup {NoConn}
    BY <2>1, ZenonT(40) DEF TypeOK
  <2> QED BY <1>7, <2>6, <2>7, <2>8, Zenon DEF DeleteConnection, EraseEntry
<1>8. CASE TouchFreed(r)
  BY <1>8 DEF TouchFreed, Goto, TypeOK
<1> QED BY <1>1, <1>2, <1>3, <1>4, <1>5, <1>6, <1>7, <1>8 DEF Sub

----------------------------------------------------------------------------
(* Ownership.                                                              *)

USE DEF IInv

\* epoll holds channels of live connections only.
EpollAlive == \A c \in Conns : interest[c] # {} \/ rdy[c] => obj[c] = "alive"

\* The types the arguments about ownership use.
LEMMA OwnTypes ==
    ASSUME IInv
    PROVE  /\ NoConn \notin Conns /\ mconn \in Conns \cup {NoConn}
           /\ \A f \in Fds : /\ fdTab[f] \in Conns \cup {NoConn}
                             /\ connections[f] \in Conns \cup {NoConn}
           /\ \A x \in Conns : fdOf[x] \in Fds
           /\ \A q \in Subs : batch[q] \subseteq Conns /\ rcur[q] \in Conns \cup {NoConn}
<1>1. /\ fdTab \in [Fds -> Conns \cup {NoConn}] /\ connections \in [Fds -> Conns \cup {NoConn}]
      /\ fdOf \in [Conns -> Fds] /\ batch \in [Subs -> SUBSET Conns]
      /\ rcur \in [Subs -> Conns \cup {NoConn}] /\ mconn \in Conns \cup {NoConn}
  BY Zenon DEF TypeOK
<1>2. \A q \in Subs : batch[q] \subseteq Conns
  BY ONLY <1>1
<1> QED BY ONLY <1>1, <1>2, ReactorAssumption

\* A step that leaves the objects, the descriptors and the threads alone.
LEMMA FrameOwn ==
    ASSUME IInv, TypeOK', EpollAlive',
           UNCHANGED <<obj, fdOf, fdTab, connections, mpc, mconn, todo, batch, rpc, rcur>>
    PROVE  IInv'
<1>1. FdOwnership'
  BY DEF FdOwnership
<1>2. NoDanglingChannel'
  BY DEF NoDanglingChannel, EpollAlive, SubOf
<1>3. SweepIteratorValid'
  BY DEF SweepIteratorValid, ConnMtxHeld
<1>4. ThreadsOwn'
  BY DEF ThreadsOwn, SubOf
<1> QED BY <1>1, <1>2, <1>3, <1>4

\* A step of a handler of c on the sub-reactor that owns c, after which it goes
\* on at pc, with c or with nothing.
LEMMA HandlerOwn ==
    ASSUME IInv, TypeOK', EpollAlive', NEW r \in Subs, NEW c \in Conns,
           NEW pc \in {"loop", "process", "delete", "deleteAndLoop"},
           NEW d \in {c, NoConn}, Goto(r, pc, d), pc = "loop" <=> d = NoConn,
           obj[c] # "none", SubOf(c) = r, c \notin batch'[r],
           pc \in {"delete", "deleteAndLoop"} => obj[c] = "alive",
           \A q \in Subs : batch'[q] \subseteq batch[q],
           UNCHANGED <<obj, fdOf, fdTab, connections, mpc, mconn, todo>>
    PROVE  IInv'
<1>1. FdOwnership'
  BY DEF FdOwnership
<1>2. /\ rpc'[r] = pc /\ rcur'[r] = d
      /\ \A q \in Subs \ {r} : rpc'[q] = rpc[q] /\ rcur'[q] = rcur[q]
  BY DEF Goto, TypeOK
<1>3. \A x \in Conns : SubOf(x)' = SubOf(x)
  BY Zenon DEF SubOf
<1>4. NoDanglingChannel'
  <2>1. ASSUME NEW q \in Subs, NEW x \in batch'[q]
        PROVE  obj'[x] = "alive" /\ SubOf(x)' = q
    <3>1. x \in batch[q] /\ x \in Conns
      BY <2>1 DEF TypeOK
    <3> QED BY <1>3, <3>1, Zenon DEF NoDanglingChannel
  <2>2. ASSUME NEW q \in Subs, rpc'[q] \in {"delete", "deleteAndLoop"}
        PROVE  rcur'[q] # NoConn /\ obj'[rcur'[q]] = "alive"
    <3>1. CASE q = r
      BY <1>2, <2>2, <3>1, ReactorAssumption, Zenon
    <3>2. CASE q # r
      BY <1>2, <2>2, <3>2, Zenon DEF NoDanglingChannel
    <3> QED BY <3>1, <3>2, Zenon
  <2> QED BY <2>1, <2>2 DEF NoDanglingChannel, EpollAlive
<1>5. SweepIteratorValid'
  BY DEF SweepIteratorValid, ConnMtxHeld
<1>6. ThreadsOwn'
  <2>1. ASSUME NEW q \in Subs
        PROVE  /\ rpc'[q] = "loop" <=> rcur'[q] = NoConn
               /\ rcur'[q] # NoConn => /\ obj[rcur'[q]] # "none" /\ fdOf[rcur'[q]] % NSub = q
                                       /\ rcur'[q] \notin batch'[q]
    <3>1. CASE q = r
      BY <1>2, <3>1 DEF SubOf
    <3>2. CASE q # r
      <4>1. rpc'[q] = rpc[q] /\ rcur'[q] = rcur[q] /\ batch'[q] \subseteq batch[q]
        BY <1>2, <3>2, Zenon
      <4> QED BY <4>1 DEF ThreadsOwn, SubOf
    <3> QED BY <3>1, <3>2, Zenon
  <2>2. /\ mpc' \in {"register", "registered", "insert"} <=> mconn' # NoConn
        /\ mconn' # NoConn => obj'[mconn'] = "alive" /\ connections'[fdOf'[mconn']] = NoConn
    BY DEF ThreadsOwn
  <2> QED BY <2>1, <2>2 DEF ThreadsOwn, SubOf
<1> QED BY <1>1, <1>4, <1>5, <1>6

\* epoll_ctl and the drain of a response touch no registration but that of c.
LEMMA EpollCtlAlive ==
    ASSUME IInv, NEW c \in Conns, NEW ev, NEW full, EpollCtl(c, ev, full),
           obj[c] = "alive", UNCHANGED obj
    PROVE  EpollAlive'
<1>1. /\ interest' = interest \/ interest' = [interest EXCEPT ![c] = ev]
      /\ rdy' = rdy \/ \E b : rdy' = [rdy EXCEPT ![c] = b]
  BY Zenon DEF EpollCtl
<1>2. interest \in [Conns -> SUBSET {"IN", "OUT"}] /\ rdy \in [Conns -> BOOLEAN]
  BY Zenon DEF TypeOK
<1>3. \A x \in Conns : x # c => interest'[x] = interest[x] /\ rdy'[x] = rdy[x]
  BY ONLY <1>1, <1>2, ZenonT(40)
<1>4. \A x \in Conns : interest[x] # {} \/ rdy[x] => obj[x] = "alive"
  BY Zenon DEF NoDanglingChannel
<1> QED BY <1>3, <1>4, Zenon DEF EpollAlive

\* Draining a response leaves registrations to living connections only.
LEMMA WriteAlive ==
    ASSUME IInv, NEW c \in Conns, NEW w, NEW o, WriteFromBuffer(c, w, o),
           obj[c] = "alive", UNCHANGED obj
    PROVE  EpollAlive'
<1>1. \/ \E ev, full : EpollCtl(c, ev, full)
      \/ UNCHANGED <<interest, rdy>>
  BY ZenonT(40) DEF WriteFromBuffer, UpdateChannel
<1>2. CASE UNCHANGED <<interest, rdy>>
  BY <1>2 DEF EpollAlive, NoDanglingChannel
<1> QED BY <1>1, <1>2, EpollCtlAlive

\* Clients and time change no ownership.
LEMMA ClientOwn ==
    ASSUME IInv, NEW c \in Conns, Client(c) \/ IdleElapses(c) \/ RunDbTask(c)
    PROVE  IInv'
<1>1. TypeOK'
  BY ClientType
<1>2. UNCHANGED <<obj, fdOf, fdTab, connections, mpc, mconn, todo, batch, rpc, rcur>>
  <2>1. CASE Client(c)
    BY <2>1, Zenon DEF Client, ClientConnect, ClientSend, ClientClose, ClientDrain
  <2>2. CASE IdleElapses(c)
    BY <2>2, Zenon DEF IdleElapses
  <2>3. CASE RunDbTask(c)
    BY <2>3, Zenon DEF RunDbTask
  <2> QED BY <2>1, <2>2, <2>3, Zenon
<1>3. EpollAlive'
  <2>1. \/ UNCHANGED <<interest, rdy>>
        \/ UNCHANGED interest /\ \E ev : Wake(c, ev)
    BY Zenon DEF Client, ClientConnect, ClientSend, ClientClose, ClientDrain, IdleElapses,
       RunDbTask, kernelVars
  <2>2. rdy \in [Conns -> BOOLEAN]
    BY Zenon DEF TypeOK
  <2>3. \A x \in Conns : rdy'[x] => rdy[x] \/ interest[x] # {}
    BY ONLY <2>1, <2>2, ZenonT(40) DEF Wake
  <2>4. \A x \in Conns : interest[x] # {} \/ rdy[x] => obj[x] = "alive"
    BY Zenon DEF NoDanglingChannel
  <2>5. interest' = interest
    BY <2>1
  <2> QED BY <1>2, <2>3, <2>4, <2>5, Zenon DEF EpollAlive
<1> QED BY <1>1, <1>2, <1>3, FrameOwn

\* accept(): the connection and the descriptor it returns belong to nobody.
LEMMA AcceptOwn ==
    ASSUME IInv, NEW c \in Conns, NEW fd \in Fds, AcceptConnection(c, fd)
    PROVE  IInv'
<1> USE ReactorAssumption
<1>1. TypeOK'
  BY MainType DEF Main
<1>2. /\ obj[c] = "none" /\ fdTab[fd] = NoConn /\ mpc = "accept" /\ mconn = NoConn
      /\ mpc' = "register" /\ mconn' = c
      /\ UNCHANGED <<interest, rdy, connections, batch, rpc, rcur>>
  BY Zenon DEF AcceptConnection, Backlog, FreeFds, ThreadsOwn
<1>3. /\ obj'[c] = "alive" /\ fdOf'[c] = fd /\ fdTab'[fd] = c
      /\ \A x \in Conns \ {c} : obj'[x] = obj[x] /\ fdOf'[x] = fdOf[x]
      /\ \A f \in Fds \ {fd} : fdTab'[f] = fdTab[f]
  BY DEF AcceptConnection, TypeOK
<1>4. connections[fd] = NoConn
  BY <1>2 DEF FdOwnership, TypeOK
<1>5. FdOwnership'
  <2>1. ASSUME NEW f \in Fds, connections'[f] # NoConn
        PROVE  obj'[connections'[f]] = "alive" /\ fdOf'[connections'[f]] = f
    <3>1. connections[f] \in Conns \ {c}
      BY <1>2, <2>1 DEF FdOwnership, TypeOK
    <3>2. connections' = connections /\ connections[f] # NoConn
      BY <1>2, <2>1, Zenon
    <3>3. obj[connections[f]] = "alive" /\ fdOf[connections[f]] = f
      BY <3>2, Zenon DEF FdOwnership
    <3> QED BY ONLY <1>3, <3>1, <3>2, <3>3, Zenon
  <2>2. ASSUME NEW x \in Conns, obj'[x] = "alive"
        PROVE  fdTab'[fdOf'[x]] = x /\ (connections'[fdOf'[x]] = x \/ mconn' = x)
    <3>1. CASE x = c
      BY <1>2, <1>3, <3>1
    <3>2. CASE x # c
      <4>1. obj[x] = "alive" /\ fdOf'[x] = fdOf[x]
        BY <1>3, <2>2, <3>2, Zenon
      <4>2. fdTab[fdOf[x]] = x /\ (connections[fdOf[x]] = x \/ mconn = x)
        BY <4>1, Zenon DEF FdOwnership
      <4>3. fdOf[x] \in Fds /\ x # NoConn
        BY OwnTypes, Zenon
      <4>4. fdOf[x] \in Fds \ {fd} /\ connections[fdOf[x]] = x
        BY ONLY <1>2, <4>2, <4>3, Zenon
      <4>5. fdTab'[fdOf[x]] = fdTab[fdOf[x]]
        BY ONLY <1>3, <4>4, Zenon
      <4> QED BY ONLY <1>2, <4>1, <4>2, <4>4, <4>5, Zenon
    <3> QED BY <3>1, <3>2
  <2>3. ASSUME NEW f \in Fds, fdTab'[f] # NoConn
        PROVE  obj'[fdTab'[f]] = "alive" /\ fdOf'[fdTab'[f]] = f
    <3>1. CASE f = fd
      BY <1>3, <3>1
    <3>2. CASE f # fd
      <4>1. fdTab'[f] = fdTab[f] /\ fdTab[f] # NoConn
        BY <1>3, <2>3, <3>2
      <4>2. fdTab[f] \in Conns /\ obj[fdTab[f]] = "alive" /\ fdOf[fdTab[f]] = f
        BY <4>1, SMTT(30) DEF FdOwnership, TypeOK
      <4> QED BY <1>2, <1>3, <4>1, <4>2
    <3> QED BY <3>1, <3>2
  <2> QED BY <2>1, <2>2, <2>3, Zenon DEF FdOwnership
<1>6. \A x \in Conns \ {c} : SubOf(x)' = SubOf(x)
  BY <1>3 DEF SubOf
<1>7. NoDanglingChannel'
  <2>1. \A q \in Subs : c \notin batch[q] /\ (rpc[q] \in {"delete", "deleteAndLoop"} => rcur[q] # c)
    BY <1>2, Zenon DEF NoDanglingChannel
  <2>2. interest[c] = {} /\ ~rdy[c]
    BY <1>2, Zenon DEF NoDanglingChannel
  <2>3. \A x \in Conns : interest'[x] # {} \/ rdy'[x] => obj'[x] = "alive"
    BY <1>2, <1>3, Zenon DEF NoDanglingChannel
  <2>4. ASSUME NEW q \in Subs, NEW x \in batch'[q] PROVE obj'[x] = "alive" /\ SubOf(x)' = q
    <3>1. x \in batch[q] /\ x \in Conns \ {c}
      BY <1>2, <2>1, <2>4, OwnTypes, Zenon
    <3> QED BY <1>3, <1>6, <3>1, Zenon DEF NoDanglingChannel
  <2>5. ASSUME NEW q \in Subs, rpc'[q] \in {"delete", "deleteAndLoop"}
        PROVE  rcur'[q] # NoConn /\ obj'[rcur'[q]] = "alive"
    <3>1. rcur[q] # NoConn /\ obj[rcur[q]] = "alive" /\ rcur[q] \in Conns \ {c}
      BY <1>2, <2>1, <2>5, OwnTypes, Zenon DEF NoDanglingChannel
    <3> QED BY <1>2, <1>3, <3>1, Zenon
  <2> QED BY <2>3, <2>4, <2>5, Zenon DEF NoDanglingChannel
<1>8. SweepIteratorValid'
  BY <1>2 DEF SweepIteratorValid, ConnMtxHeld
<1>9. ThreadsOwn'
  <2>1. \A q \in Subs : rcur[q] # c
    BY <1>2, Zenon DEF ThreadsOwn
  <2>2. /\ mpc' \in {"register", "registered", "insert"} <=> mconn' # NoConn
        /\ mconn' # NoConn => obj'[mconn'] = "alive" /\ connections'[fdOf'[mconn']] = NoConn
    BY <1>2, <1>3, <1>4, Zenon
  <2>3. ASSUME NEW q \in Subs
        PROVE  /\ rpc'[q] = "loop" <=> rcur'[q] = NoConn
               /\ rcur'[q] # NoConn => /\ obj'[rcur'[q]] # "none" /\ SubOf(rcur[q])' = q
                                       /\ rcur'[q] \notin batch'[q]
    <3>1. /\ rpc[q] = "loop" <=> rcur[q] = NoConn
          /\ rcur[q] # NoConn => /\ obj[rcur[q]] # "none" /\ SubOf(rcur[q]) = q
                                 /\ rcur[q] \notin batch[q]
      BY Zenon DEF ThreadsOwn
    <3>2. rcur[q] # NoConn => rcur[q] \in Conns \ {c}
      BY <2>1, OwnTypes
    <3>3. rcur[q] # NoConn => obj'[rcur[q]] = obj[rcur[q]] /\ fdOf'[rcur[q]] = fdOf[rcur[q]]
      BY ONLY <1>3, <3>2, Zenon
    <3> QED BY <1>2, <3>1, <3>3, Zenon DEF SubOf
  <2> QED BY <2>2, <2>3, Zenon DEF ThreadsOwn
<1> QED BY <1>1, <1>5, <1>7, <1>8, <1>9

\* newConnection and sweepIdle keep the ownership invariant.
LEMMA MainOwn == ASSUME IInv, Main PROVE IInv'
<1> USE ReactorAssumption
<1>1. TypeOK'
  BY MainType
<1>2. ASSUME UNCHANGED <<obj, fdOf, fdTab, connections, mconn, batch, rpc, rcur>>, EpollAlive',
             mpc' \in {"register", "registered", "insert"} <=>
                mpc \in {"register", "registered", "insert"},
             SweepIteratorValid'
      PROVE  IInv'
  <2>1. FdOwnership'
    BY <1>2 DEF FdOwnership
  <2>2. NoDanglingChannel'
    BY <1>2 DEF NoDanglingChannel, EpollAlive, SubOf
  <2>3. ThreadsOwn'
    BY <1>2, Zenon DEF ThreadsOwn, SubOf
  <2> QED BY <1>1, <1>2, <2>1, <2>2, <2>3
<1>3. ASSUME UNCHANGED <<obj, interest, rdy>> PROVE EpollAlive'
  BY <1>3 DEF EpollAlive, NoDanglingChannel
<1>4. CASE RegisterChannel
  <2>1. mconn \in Conns /\ obj[mconn] = "alive" /\ obj' = obj
    BY <1>4, Zenon DEF RegisterChannel, ThreadsOwn, TypeOK
  <2>2. EpollAlive'
    BY <1>4, <2>1, EpollCtlAlive, Zenon DEF RegisterChannel
  <2> QED BY <1>2, <1>4, <2>2, Zenon DEF RegisterChannel, SweepIteratorValid, ConnMtxHeld
<1>5. CASE SetInEpoll
  BY <1>2, <1>3, <1>5 DEF SetInEpoll, SweepIteratorValid, ConnMtxHeld
<1>6. CASE InsertConnection
  <2>1. /\ mconn \in Conns /\ obj[mconn] = "alive" /\ mconn' = NoConn /\ mpc' = "accept"
        /\ connections[fdOf[mconn]] = NoConn
        /\ connections' = [connections EXCEPT ![fdOf[mconn]] = mconn]
        /\ UNCHANGED <<obj, fdOf, fdTab, interest, rdy, batch, rpc, rcur>>
    BY <1>6, Zenon DEF InsertConnection, ThreadsOwn, TypeOK
  <2>2. FdOwnership'
    BY <2>1 DEF FdOwnership, TypeOK
  <2>3. NoDanglingChannel'
    BY <2>1, Zenon DEF NoDanglingChannel, SubOf
  <2>4. ThreadsOwn'
    BY <2>1, Zenon DEF ThreadsOwn, SubOf
  <2>5. SweepIteratorValid'
    BY <2>1, Zenon DEF SweepIteratorValid, ConnMtxHeld
  <2> QED BY <1>1, <2>2, <2>3, <2>4, <2>5
<1>7. CASE AcceptFails
  BY <1>2, <1>3, <1>7 DEF AcceptFails, SweepIteratorValid, ConnMtxHeld
<1>8. CASE SweepIdle
  BY <1>2, <1>3, <1>8 DEF SweepIdle, SweepIteratorValid, ConnMtxHeld
<1>9. ASSUME NEW fd \in Fds, SweepVisit(fd) PROVE IInv'
  BY <1>2, <1>3, <1>9, ZenonT(40) DEF SweepVisit, SweepIteratorValid, ConnMtxHeld
<1>10. ASSUME NEW fd \in Fds, SweepShutdown(fd) PROVE IInv'
  <2>1. EpollAlive'
    <3>1. /\ UNCHANGED interest /\ obj' = obj
          /\ UNCHANGED rdy \/ \E c, ev : Wake(c, ev)
      BY <1>10, Zenon DEF SweepShutdown
    <3>2. rdy \in [Conns -> BOOLEAN]
      BY Zenon DEF TypeOK
    <3>3. \A x \in Conns : rdy'[x] => rdy[x] \/ interest[x] # {}
      BY ONLY <3>1, <3>2, ZenonT(40) DEF Wake
    <3>4. \A x \in Conns : interest[x] # {} \/ rdy[x] => obj[x] = "alive"
      BY Zenon DEF NoDanglingChannel
    <3> QED BY ONLY <3>1, <3>3, <3>4, Zenon DEF EpollAlive
  <2> QED BY <1>2, <1>10, <2>1 DEF SweepShutdown, SweepIteratorValid, ConnMtxHeld
<1>11. CASE SweepDone
  BY <1>2, <1>3, <1>11 DEF SweepDone, SweepIteratorValid, ConnMtxHeld
<1> QED BY <1>4, <1>5, <1>6, <1>7, <1>8, <1>9, <1>10, <1>11, AcceptOwn DEF Main

----------------------------------------------------------------------------
(* The sub-reactors.                                                       *)

\* A connection about to be torn down has nobody else: no other handler, no
\* list of active channels, and not the newConnection call if it is filed.
LEMMA DeleteOwner ==
    ASSUME IInv, NEW r \in Subs, DeleteConnection(r)
    PROVE  /\ rcur[r] \in Conns /\ obj[rcur[r]] = "alive" /\ SubOf(rcur[r]) = r
           /\ connections[fdOf[rcur[r]]] \in {rcur[r], NoConn}
           /\ \A q \in Subs : rcur[r] \notin batch[q]
           /\ \A q \in Subs \ {r} : rcur[q] # rcur[r]
<1> DEFINE c == rcur[r]
<1>1. c \in Conns /\ obj[c] = "alive" /\ SubOf(c) = r
  BY ZenonT(40) DEF DeleteConnection, NoDanglingChannel, ThreadsOwn, TypeOK
<1>2. connections[fdOf[c]] \in {c, NoConn}
  BY <1>1 DEF FdOwnership, TypeOK
<1>3. \A q \in Subs : c \notin batch[q]
  BY <1>1, ReactorAssumption, ZenonT(40) DEF NoDanglingChannel, ThreadsOwn
<1>4. \A q \in Subs \ {r} : rcur[q] # c
  BY <1>1, ReactorAssumption, Zenon DEF ThreadsOwn
<1> QED BY <1>1, <1>2, <1>3, <1>4, Zenon

\* deleteConnection keeps it: what it frees, no other thread has.
LEMMA DeleteOwn == ASSUME IInv, NEW r \in Subs, DeleteConnection(r) PROVE IInv'
<1> USE ReactorAssumption
<1> DEFINE c == rcur[r]
<1>1. TypeOK'
  BY SubType DEF Sub
<1>2. /\ c \in Conns /\ obj[c] = "alive" /\ SubOf(c) = r
      /\ connections[fdOf[c]] \in {c, NoConn}
      /\ \A q \in Subs : c \notin batch[q]
      /\ \A q \in Subs \ {r} : rcur[q] # c
  BY DeleteOwner, Zenon
<1>3. PICK pc \in {"loop", "process"}, d \in {c, NoConn} :
         Goto(r, pc, d) /\ (pc = "loop" <=> d = NoConn)
  BY <1>2, Zenon DEF DeleteConnection
<1>4. CASE connections[fdOf[c]] = NoConn
  <2>1. /\ connections' = connections
        /\ UNCHANGED <<obj, fdOf, fdTab, interest, rdy, batch, mpc, mconn, todo>>
    <3>1. /\ connections' = [connections EXCEPT ![fdOf[c]] = NoConn]
          /\ UNCHANGED <<kernelVars, connVars, mainVars, batch>>
      BY <1>4, Zenon DEF DeleteConnection, EraseEntry
    <3>2. connections \in [Fds -> Conns \cup {NoConn}]
      BY Zenon DEF TypeOK
    <3>3. connections' = connections
      BY ONLY <1>4, <3>1, <3>2, Zenon
    <3> QED BY <3>1, <3>3, Zenon DEF kernelVars, connVars, mainVars
  <2>2. EpollAlive'
    BY <2>1, Zenon DEF EpollAlive, NoDanglingChannel
  <2> HIDE DEF c
  <2> QED BY <1>1, <1>2, <1>3, <2>1, <2>2, HandlerOwn, ZenonT(40)
<1>5. CASE connections[fdOf[c]] = c
  <2>1. Destroy(c) /\ c # NoConn /\ mconn # c /\ mpc \notin {"visit", "shutdown"}
    BY <1>2, <1>5, Zenon DEF DeleteConnection, EraseEntry, ThreadsOwn, ConnMtxHeld
  <2>2. /\ obj'[c] = "freed" /\ interest'[c] = {} /\ rdy'[c] = FALSE
        /\ \A x \in Conns \ {c} : /\ obj'[x] = obj[x] /\ interest'[x] = interest[x]
                                  /\ rdy'[x] = rdy[x]
        /\ fdTab'[fdOf[c]] = NoConn /\ connections'[fdOf[c]] = NoConn
        /\ \A f \in Fds \ {fdOf[c]} : fdTab'[f] = fdTab[f] /\ connections'[f] = connections[f]
    <3>1. /\ obj' = [obj EXCEPT ![c] = "freed"] /\ interest' = [interest EXCEPT ![c] = {}]
          /\ rdy' = [rdy EXCEPT ![c] = FALSE] /\ fdTab' = [fdTab EXCEPT ![fdOf[c]] = NoConn]
      BY <2>1, Zenon DEF Destroy
    <3>2. connections' = [connections EXCEPT ![fdOf[c]] = NoConn]
      BY Zenon DEF DeleteConnection, EraseEntry
    <3>3. fdOf[c] \in Fds
      BY <1>2, Zenon DEF TypeOK
    <3> HIDE DEF c
    <3>4. /\ obj'[c] = "freed" /\ interest'[c] = {}
          /\ \A x \in Conns \ {c} : obj'[x] = obj[x] /\ interest'[x] = interest[x]
      BY <1>2, <3>1, ZenonT(40) DEF TypeOK
    <3>5. rdy'[c] = FALSE /\ \A x \in Conns \ {c} : rdy'[x] = rdy[x]
      BY <1>2, <3>1, ZenonT(40) DEF TypeOK
    <3>6. /\ fdTab'[fdOf[c]] = NoConn /\ connections'[fdOf[c]] = NoConn
          /\ \A f \in Fds \ {fdOf[c]} : fdTab'[f] = fdTab[f] /\ connections'[f] = connections[f]
      BY <3>1, <3>2, <3>3, ZenonT(40) DEF TypeOK
    <3> QED BY <3>4, <3>5, <3>6, Zenon
  <2>3. UNCHANGED <<fdOf, batch, mpc, mconn, todo>>
    BY <2>1, Zenon DEF DeleteConnection, Destroy
  <2>4. /\ rpc'[r] = pc /\ rcur'[r] = d
        /\ \A q \in Subs \ {r} : rpc'[q] = rpc[q] /\ rcur'[q] = rcur[q]
    BY <1>3 DEF Goto, TypeOK
  <2>5. \A x \in Conns : SubOf(x)' = SubOf(x)
    BY <2>3 DEF SubOf
  <2> HIDE DEF c
  <2>6. FdOwnership'
    <3>1. \A x \in Conns \ {c} : obj[x] = "alive" => fdOf[x] # fdOf[c]
      BY <1>2 DEF FdOwnership
    <3>2. ASSUME NEW f \in Fds, connections'[f] # NoConn
          PROVE  obj'[connections'[f]] = "alive" /\ fdOf'[connections'[f]] = f
      <4>1. connections'[f] = connections[f] /\ connections[f] \in Conns \ {c}
        BY ONLY <2>2, <3>2, IInv, OwnTypes, ZenonT(40) DEF FdOwnership
      <4>2. obj[connections[f]] = "alive" /\ fdOf[connections[f]] = f
        BY <4>1, <3>2, Zenon DEF FdOwnership
      <4> QED BY ONLY <2>2, <2>3, <4>1, <4>2, Zenon
    <3>3. ASSUME NEW x \in Conns, obj'[x] = "alive"
          PROVE  fdTab'[fdOf'[x]] = x /\ (connections'[fdOf'[x]] = x \/ mconn' = x)
      <4>1. x # c /\ obj[x] = "alive" /\ fdOf[x] \in Fds \ {fdOf[c]}
        BY <2>2, <3>1, <3>3, Zenon DEF TypeOK
      <4>2. fdTab[fdOf[x]] = x /\ (connections[fdOf[x]] = x \/ mconn = x)
        BY <4>1, Zenon DEF FdOwnership
      <4> QED BY ONLY <2>2, <2>3, <4>1, <4>2, Zenon
    <3>4. ASSUME NEW f \in Fds, fdTab'[f] # NoConn
          PROVE  obj'[fdTab'[f]] = "alive" /\ fdOf'[fdTab'[f]] = f
      <4>1. fdTab'[f] = fdTab[f] /\ fdTab[f] \in Conns \ {c}
        <5>1. f # fdOf[c]
          BY ONLY <2>2, <3>4, Zenon
        <5>2. fdTab'[f] = fdTab[f] /\ fdTab[f] # NoConn
          BY ONLY <2>2, <3>4, <5>1, Zenon
        <5>3. fdOf[fdTab[f]] = f
          BY <5>2, Zenon DEF FdOwnership
        <5> QED BY ONLY <5>1, <5>2, <5>3, IInv, OwnTypes, Zenon
      <4>2. obj[fdTab[f]] = "alive" /\ fdOf[fdTab[f]] = f
        BY <4>1, <3>4, Zenon DEF FdOwnership
      <4> QED BY ONLY <2>2, <2>3, <4>1, <4>2, Zenon
    <3> QED BY <3>2, <3>3, <3>4 DEF FdOwnership
  <2>7. NoDanglingChannel'
    <3>1. ASSUME NEW q \in Subs, NEW x \in batch'[q]
          PROVE  obj'[x] = "alive" /\ SubOf(x)' = q
      <4>1. x \in batch[q] /\ x \in Conns \ {c}
        BY <1>2, <2>3 DEF TypeOK
      <4>2. obj[x] = "alive" /\ SubOf(x) = q
        BY <4>1, Zenon DEF NoDanglingChannel
      <4> QED BY ONLY <2>2, <2>5, <4>1, <4>2, Zenon
    <3>2. ASSUME NEW q \in Subs, rpc'[q] \in {"delete", "deleteAndLoop"}
          PROVE  rcur'[q] # NoConn /\ obj'[rcur'[q]] = "alive"
      <4>1. q # r /\ rpc'[q] = rpc[q] /\ rcur'[q] = rcur[q]
        BY <2>4, <3>2
      <4>2. rcur[q] # NoConn /\ rcur[q] \in Conns \ {c} /\ obj[rcur[q]] = "alive"
        BY <1>2, <3>2, <4>1, OwnTypes, Zenon DEF NoDanglingChannel
      <4> QED BY ONLY <2>2, <4>1, <4>2, Zenon
    <3>3. \A x \in Conns : interest'[x] # {} \/ rdy'[x] => obj'[x] = "alive"
      <4>1. \A x \in Conns : interest[x] # {} \/ rdy[x] => obj[x] = "alive"
        BY Zenon DEF NoDanglingChannel
      <4> QED BY ONLY <2>2, <4>1, Zenon
    <3> QED BY <3>1, <3>2, <3>3, Zenon DEF NoDanglingChannel
  <2>8. SweepIteratorValid'
    BY <2>1, <2>3 DEF SweepIteratorValid, ConnMtxHeld
  <2>9. ThreadsOwn'
    <3>1. mconn # NoConn => obj'[mconn] = "alive" /\ connections'[fdOf'[mconn]] = NoConn
      BY <2>1, <2>2, <2>3, ZenonT(40) DEF ThreadsOwn, TypeOK
    <3>2. ASSUME NEW q \in Subs
          PROVE  /\ rpc'[q] = "loop" <=> rcur'[q] = NoConn
                 /\ rcur'[q] # NoConn => /\ obj'[rcur'[q]] # "none" /\ fdOf[rcur'[q]] % NSub = q
                                         /\ rcur'[q] \notin batch'[q]
      <4>1. CASE q = r
        BY <1>2, <1>3, <2>2, <2>3, <2>4, <4>1, Zenon DEF SubOf
      <4>2. CASE q # r
        <5>1. rpc'[q] = rpc[q] /\ rcur'[q] = rcur[q] /\ rcur[q] # c /\ batch'[q] = batch[q]
          BY <1>2, <2>3, <2>4, <4>2, Zenon
        <5>2. rcur[q] # NoConn => obj'[rcur[q]] = obj[rcur[q]]
          BY <2>2, <5>1, OwnTypes, Zenon
        <5> QED BY <5>1, <5>2, Zenon DEF ThreadsOwn, SubOf
      <4> QED BY <4>1, <4>2, Zenon
    <3> QED BY <2>3, <3>1, <3>2, Zenon DEF ThreadsOwn, SubOf
  <2> QED BY <1>1, <2>6, <2>7, <2>8, <2>9
<1> QED BY <1>2, <1>4, <1>5, Zenon

\* The connection a handler runs for, before and after it is taken.
LEMMA Taken ==
    ASSUME IInv, NEW r \in Subs, NEW c \in Conns, Take(r, c)
    PROVE  /\ obj[c] = "alive" /\ SubOf(c) = r /\ c \notin batch'[r]
           /\ \A q \in Subs : batch'[q] \subseteq batch[q]
<1>1. obj[c] = "alive" /\ SubOf(c) = r
  BY DEF Take, NoDanglingChannel
<1>2. /\ batch'[r] = batch[r] \ {c}
      /\ \A q \in Subs \ {r} : batch'[q] = batch[q]
  BY Zenon DEF Take, TypeOK
<1> QED BY <1>1, <1>2

\* The connection a sub-reactor's handler runs for is alive and its own.
LEMMA Running ==
    ASSUME IInv, NEW r \in Subs, rpc[r] # "loop"
    PROVE  /\ rcur[r] \in Conns /\ obj[rcur[r]] # "none"
           /\ SubOf(rcur[r]) = r /\ rcur[r] \notin batch[r]
BY ReactorAssumption, Zenon DEF ThreadsOwn, TypeOK

\* The list epoll_wait fills holds living connections of this sub-reactor.
LEMMA ActiveOwn == ASSUME IInv, NEW r \in Subs, ActiveChannels(r) PROVE IInv'
<1>1. TypeOK'
  BY SubType DEF Sub
<1>2. PICK S \in SUBSET {c \in Conns : rdy[c] /\ SubOf(c) = r} :
         /\ rdy' = [c \in Conns |-> rdy[c] /\ c \notin S]
         /\ batch' = [batch EXCEPT ![r] = {c \in S : Reported(c) # {}}]
  BY ZenonT(40) DEF ActiveChannels
<1>3. /\ UNCHANGED <<obj, fdOf, fdTab, interest, connections, mpc, mconn, todo, rpc, rcur>>
      /\ rcur[r] = NoConn
  BY Zenon DEF ActiveChannels, Polling
<1>4. /\ batch'[r] \subseteq S
      /\ \A q \in Subs \ {r} : batch'[q] = batch[q]
  BY <1>2, ZenonT(40) DEF TypeOK
<1>5. \A x \in S : x \in Conns /\ obj[x] = "alive" /\ SubOf(x) = r
  BY <1>2, Zenon DEF NoDanglingChannel
<1>6. FdOwnership' /\ SweepIteratorValid'
  BY <1>3, Zenon DEF FdOwnership, SweepIteratorValid, ConnMtxHeld
<1>7. NoDanglingChannel'
  <2>1. \A x \in Conns : interest'[x] # {} \/ rdy'[x] => obj'[x] = "alive"
    BY <1>2, <1>3, ZenonT(40) DEF NoDanglingChannel
  <2>2. ASSUME NEW q \in Subs, NEW x \in batch'[q] PROVE obj'[x] = "alive" /\ SubOf(x)' = q
    <3>1. CASE q = r
      BY <1>3, <1>4, <1>5, <2>2, <3>1 DEF SubOf
    <3>2. CASE q # r
      BY <1>3, <1>4, <2>2, <3>2, Zenon DEF NoDanglingChannel, SubOf
    <3> QED BY <3>1, <3>2, Zenon
  <2> QED BY <1>3, <2>1, <2>2, Zenon DEF NoDanglingChannel
<1>8. ThreadsOwn'
  BY <1>3, <1>4, Zenon DEF ThreadsOwn, SubOf
<1> QED BY <1>1, <1>6, <1>7, <1>8

\* Every step of a sub-reactor keeps the ownership invariant.
LEMMA SubOwn == ASSUME IInv, NEW r \in Subs, Sub(r) PROVE IInv'
<1> USE ReactorAssumption
<1>1. TypeOK'
  BY SubType
<1>2. ASSUME UNCHANGED <<obj, interest, rdy>> PROVE EpollAlive'
  BY <1>2, Zenon DEF EpollAlive, NoDanglingChannel
<1>3. ASSUME NEW c \in Conns, HandleWrite(r, c) PROVE IInv'
  <2>1. Take(r, c) /\ UNCHANGED <<obj, fdOf, fdTab, connections, mpc, mconn, todo>>
    BY <1>3, Zenon DEF HandleWrite
  <2>2. /\ obj[c] = "alive" /\ SubOf(c) = r /\ c \notin batch'[r]
        /\ \A q \in Subs : batch'[q] \subseteq batch[q]
    BY <2>1, Taken, Zenon
  <2>3. EpollAlive'
    <3>1. CASE wbuf[c] = "empty"
      <4>1. EpollCtl(c, events[c] \ {"OUT"}, txFull[c])
        BY <1>3, <3>1 DEF HandleWrite, UpdateChannel
      <4> QED BY <2>1, <2>2, <4>1, EpollCtlAlive, Zenon
    <3>2. CASE wbuf[c] # "empty"
      <4>1. PICK o \in {"full", "again", "error"} : WriteFromBuffer(c, wbuf[c], o)
        BY <1>3, <3>2, Zenon DEF HandleWrite
      <4> QED BY <2>1, <2>2, <4>1, WriteAlive, Zenon
    <3> QED BY <3>1, <3>2
  <2>4. Goto(r, "loop", NoConn) \/ Goto(r, "delete", c)
    BY <1>3, Zenon DEF HandleWrite
  <2> QED BY <1>1, <2>1, <2>2, <2>3, <2>4, HandlerOwn, Zenon
<1>4. ASSUME NEW c \in Conns, HandleMessage(r, c) PROVE IInv'
  <2>1. Take(r, c) /\ UNCHANGED <<obj, fdOf, fdTab, interest, rdy, connections, mpc, mconn, todo>>
    BY <1>4, Zenon DEF HandleMessage
  <2>2. /\ obj[c] = "alive" /\ SubOf(c) = r /\ c \notin batch'[r]
        /\ \A q \in Subs : batch'[q] \subseteq batch[q]
    BY <2>1, Taken, Zenon
  <2>3. Goto(r, "process", c) \/ Goto(r, "delete", c)
    BY <1>4, Zenon DEF HandleMessage
  <2> QED BY <1>1, <1>2, <2>1, <2>2, <2>3, HandlerOwn, Zenon
<1>5. CASE NoRequest(r) \/ TouchFreed(r)
  <2>1. /\ rpc[r] # "loop" /\ Goto(r, "loop", NoConn)
        /\ UNCHANGED <<obj, fdOf, fdTab, interest, rdy, connections, mpc, mconn, todo, batch>>
    BY <1>5, Zenon DEF NoRequest, TouchFreed
  <2>2. EpollAlive'
    BY <1>2, <2>1
  <2> QED BY <1>1, <2>1, <2>2, Running, HandlerOwn, Zenon
<1>6. ASSUME NEW keepAlive \in BOOLEAN, NEW clear \in BOOLEAN,
             RespondInline(r, keepAlive, clear)
      PROVE  IInv'
  <2>1. /\ rpc[r] # "loop" /\ obj[rcur[r]] = "alive"
        /\ UNCHANGED <<obj, fdOf, fdTab, connections, mpc, mconn, todo, batch>>
    BY <1>6 DEF RespondInline
  <2>2. EpollAlive'
    <3>1. PICK w, o : WriteFromBuffer(rcur[r], w, o)
      BY <1>6 DEF RespondInline
    <3> QED BY <2>1, <3>1, Running, WriteAlive, Zenon
  <2>3. \E pc \in {"loop", "process", "delete", "deleteAndLoop"}, d \in {rcur[r], NoConn} :
           Goto(r, pc, d) /\ (pc = "loop" <=> d = NoConn)
    BY <1>6, <2>1, Running, SMTT(30) DEF RespondInline
  <2>4. PICK pc \in {"loop", "process", "delete", "deleteAndLoop"}, d \in {rcur[r], NoConn} :
           Goto(r, pc, d) /\ (pc = "loop" <=> d = NoConn)
    BY <2>3
  <2>5. /\ rcur[r] \in Conns /\ obj[rcur[r]] # "none"
        /\ SubOf(rcur[r]) = r /\ rcur[r] \notin batch[r]
    BY <2>1, Running, Zenon
  <2> QED BY <1>1, <2>1, <2>2, <2>4, <2>5, HandlerOwn, Zenon
<1>7. ASSUME NEW keepAlive \in BOOLEAN, DispatchDb(r, keepAlive) PROVE IInv'
  <2>1. /\ rpc[r] # "loop" /\ (Goto(r, "process", rcur[r]) \/ Goto(r, "loop", NoConn))
        /\ UNCHANGED <<obj, fdOf, fdTab, interest, rdy, connections, mpc, mconn, todo, batch>>
    BY <1>7, Zenon DEF DispatchDb
  <2>2. EpollAlive'
    BY <1>2, <2>1, Zenon
  <2> QED BY <1>1, <2>1, <2>2, Running, HandlerOwn, Zenon
<1> QED BY <1>3, <1>4, <1>5, <1>6, <1>7, ActiveOwn, DeleteOwn, Zenon DEF Sub

----------------------------------------------------------------------------
(* The theorems.                                                           *)

\* With no connection at all, nothing is owned twice.
LEMMA OwnInit == Init => IInv
<1> SUFFICES ASSUME Init PROVE IInv
  OBVIOUS
<1>1. FdOwnership /\ NoDanglingChannel /\ SweepIteratorValid /\ ThreadsOwn
  BY ReactorAssumption, Zenon DEF Init, FdOwnership, NoDanglingChannel, SweepIteratorValid,
     ConnMtxHeld, ThreadsOwn
<1> QED BY <1>1, TypeInit

\* The ownership invariant is inductive.
LEMMA OwnStep == IInv /\ [Next]_vars => IInv'
<1> SUFFICES ASSUME IInv, [Next]_vars PROVE IInv'
  OBVIOUS
<1>1. CASE UNCHANGED vars
  <2>1. TypeOK' /\ EpollAlive'
    BY <1>1, Zenon DEF vars, TypeOK, EpollAlive, NoDanglingChannel
  <2> QED BY <1>1, <2>1, FrameOwn, Zenon DEF vars
<1> QED BY <1>1, ClientOwn, MainOwn, SubOwn DEF Next, Dead

\* The ownership of objects, descriptors and pointers by the three kinds of
\* threads is an invariant, for any number of clients, descriptors and
\* sub-reactors.
THEOREM Ownership == Spec => []IInv
BY OwnInit, OwnStep, PTL DEF Spec

\* Every step of the server keeps the types: no handler takes a request from
\* inputBuffer_ that has not been read.
THEOREM TypeCorrect == Spec => []TypeOK
<1>1. IInv => TypeOK
  OBVIOUS
<1> QED BY <1>1, Ownership, PTL

\* Server::connections_ and the descriptor table agree in every state: no fd
\* leaks, none is reused while an object owns it.
THEOREM FdsOwned == Spec => []FdOwnership
<1>1. IInv => FdOwnership
  OBVIOUS
<1> QED BY <1>1, Ownership, PTL

\* No Channel pointer in epoll, in a list of active channels or in a handler
\* that tears down outlives its connection.
THEOREM ChannelsAlive == Spec => []NoDanglingChannel
<1>1. IInv => NoDanglingChannel
  OBVIOUS
<1> QED BY <1>1, Ownership, PTL

\* connMtx_ keeps the entries a running sweepIdle has yet to visit.
THEOREM SweepSafe == Spec => []SweepIteratorValid
<1>1. IInv => SweepIteratorValid
  OBVIOUS
<1> QED BY <1>1, Ownership, PTL

\* Only the owning sub-reactor destroys a connection, from its own handler.
THEOREM DestroyedByOwner == Spec => OwnerDestroys
<1> DEFINE Owned(c) == obj[c] = "alive" /\ obj'[c] = "freed" =>
                rcur[SubOf(c)] = c /\ rpc[SubOf(c)] \in {"delete", "deleteAndLoop"}
<1>1. ASSUME IInv, [Next]_vars, NEW c \in Conns PROVE Owned(c)
  <2>1. ASSUME obj' = obj PROVE Owned(c)
    BY <2>1
  <2>2. CASE UNCHANGED vars
    BY <2>1, <2>2, Zenon DEF vars
  <2>3. ASSUME NEW x \in Conns, Client(x) \/ IdleElapses(x) \/ RunDbTask(x) PROVE Owned(c)
    BY <2>1, <2>3, Zenon DEF Client, ClientConnect, ClientSend, ClientClose, ClientDrain,
       IdleElapses, RunDbTask
  <2>4. CASE Main
    <3>1. ASSUME NEW x \in Conns, NEW fd \in Fds, AcceptConnection(x, fd) PROVE Owned(c)
      BY <1>1, <3>1, Zenon DEF AcceptConnection, TypeOK
    <3>2. CASE InsertConnection
      <4>1. obj' = obj
        BY <1>1, <3>2, ReactorAssumption, Zenon DEF InsertConnection, ThreadsOwn
      <4> QED BY <2>1, <4>1, Zenon
    <3>3. ASSUME NEW fd \in Fds, SweepVisit(fd) \/ SweepShutdown(fd) PROVE Owned(c)
      BY <2>1, <3>3, Zenon DEF SweepVisit, SweepShutdown
    <3>4. CASE RegisterChannel \/ SetInEpoll \/ AcceptFails \/ SweepIdle \/ SweepDone
      BY <2>1, <3>4, Zenon DEF RegisterChannel, SetInEpoll, AcceptFails, SweepIdle, SweepDone
    <3> QED BY <2>4, <3>1, <3>2, <3>3, <3>4, Zenon DEF Main
  <2>5. ASSUME NEW r \in Subs, Sub(r) PROVE Owned(c)
    <3>1. CASE DeleteConnection(r)
      <4>1. /\ rcur[r] \in Conns /\ SubOf(rcur[r]) = r
            /\ connections[fdOf[rcur[r]]] \in {rcur[r], NoConn}
            /\ rpc[r] \in {"delete", "deleteAndLoop"}
        BY <1>1, <3>1, DeleteOwner, ZenonT(40) DEF DeleteConnection
      <4>2. obj' = obj \/ obj' = [obj EXCEPT ![rcur[r]] = "freed"]
        BY <3>1, <4>1, ReactorAssumption, Zenon DEF DeleteConnection, EraseEntry, Destroy
      <4> QED BY <1>1, <4>1, <4>2 DEF TypeOK
    <3>2. ASSUME NEW x \in Conns, HandleWrite(r, x) \/ HandleMessage(r, x) PROVE Owned(c)
      BY <2>1, <3>2, Zenon DEF HandleWrite, HandleMessage
    <3>3. ASSUME NEW k \in BOOLEAN, NEW l \in BOOLEAN, RespondInline(r, k, l) PROVE Owned(c)
      BY <2>1, <3>3 DEF RespondInline
    <3>4. ASSUME NEW k \in BOOLEAN, DispatchDb(r, k) PROVE Owned(c)
      BY <2>1, <3>4, Zenon DEF DispatchDb
    <3>5. CASE ActiveChannels(r) \/ NoRequest(r) \/ TouchFreed(r)
      BY <2>1, <3>5, Zenon DEF ActiveChannels, NoRequest, TouchFreed
    <3> QED BY <2>5, <3>1, <3>2, <3>3, <3>4, <3>5, Zenon DEF Sub
  <2> QED BY <1>1, <2>2, <2>3, <2>4, <2>5, Zenon DEF Next, Dead
<1>2. IInv /\ [Next]_vars => [\A c \in Conns : Owned(c)]_vars
  BY <1>1, Zenon
<1> QED BY <1>2, Ownership, PTL DEF Spec, OwnerDestroys

----------------------------------------------------------------------------
(* Edge-triggered epoll loses no event of a connection.                    *)

USE DEF IInv

\* Where the handlers of x are: x is in the list its sub-reactor has yet to
\* handle, is the connection it handles, or is being torn down.
InBatch(x) == x \in batch[SubOf(x)]
Current(x) == rcur[SubOf(x)] = x
Deleting(x) == Current(x) /\ rpc[SubOf(x)] \in {"delete", "deleteAndLoop"}

\* x is about to be torn down, or that has missed connections_.
GivenUp(x) == missed[x] \/ Deleting(x)

\* Up to the return of the first epoll_ctl nothing has touched the Channel.
Unregistered(x) ==
    (obj[x] = "none" \/ (mpc = "register" /\ mconn = x)) =>
        interest[x] = {} /\ events[x] = {} /\ wbuf[x] = "empty" /\ ~inEpoll[x]

\* Only a registered connection has events and handlers.
Registered(x) == rdy[x] \/ InBatch(x) \/ (Current(x) /\ obj[x] = "alive") => interest[x] # {}

\* epoll is told what the Channel says, reading included; and writing while a
\* response waits, unless the socket is broken or the connection given up.
Armed(x) ==
    interest[x] # {} =>
        /\ events[x] = interest[x] /\ "IN" \in interest[x]
        /\ wbuf[x] # "empty" => "OUT" \in interest[x] \/ Broken(x) \/ GivenUp(x)

\* What there is to do for x has an event queued, or a handler that will do it.
Awaited(x) ==
    interest[x] # {} =>
        /\ Eof(x) => rdy[x] \/ InBatch(x) \/ GivenUp(x)
        /\ ~Eof(x) /\ rx[x] > 0 => rdy[x] \/ InBatch(x) \/ (wbuf[x] # "empty" /\ GivenUp(x))
        /\ ~Eof(x) /\ wbuf[x] # "empty" /\ ~txFull[x] =>
              rdy[x] \/ (InBatch(x) /\ "OUT" \in revent[x]) \/ GivenUp(x)

\* The strengthening of NoLostWakeup that is inductive.
Wakeful(x) == Unregistered(x) /\ Registered(x) /\ Armed(x) /\ Awaited(x)
WInv == \A x \in Conns : Wakeful(x)

----------------------------------------------------------------------------
(* What a step leaves alone.                                               *)

\* The Channel, the Connection and the socket of x are what they were.
Untouched(x) ==
    /\ obj'[x] = obj[x] /\ interest'[x] = interest[x] /\ events'[x] = events[x]
    /\ revent'[x] = revent[x] /\ inEpoll'[x] = inEpoll[x] /\ wbuf'[x] = wbuf[x]
    /\ rdy'[x] = rdy[x] /\ rx'[x] = rx[x] /\ txFull'[x] = txFull[x]
    /\ peer'[x] = peer[x] /\ shut'[x] = shut[x] /\ missed'[x] = missed[x]

\* The sub-reactor of x has x where it was.
Unmoved(x) ==
    /\ InBatch(x)' <=> InBatch(x)
    /\ Current(x)' <=> Current(x)
    /\ Deleting(x)' <=> Deleting(x)

\* fd % N is a sub-reactor.
LEMMA SubOfType == ASSUME IInv, NEW x \in Conns PROVE SubOf(x) \in Subs
<1>1. fdOf[x] \in Nat /\ NSub \in Nat \ {0}
  BY ReactorAssumption, Zenon DEF TypeOK
<1> QED BY <1>1 DEF SubOf, Subs

\* A step of other connections.
LEMMA Frame ==
    ASSUME NEW x \in Conns, Wakeful(x), Untouched(x), Unmoved(x),
           mpc' = "register" /\ mconn' = x => mpc = "register" /\ mconn = x
    PROVE  Wakeful(x)'
<1>1. (Eof(x)' <=> Eof(x)) /\ (Broken(x)' <=> Broken(x))
  BY Zenon DEF Untouched, Eof, Broken
<1>2. Unregistered(x)'
  BY Zenon DEF Wakeful, Unregistered, Untouched
<1>3. Registered(x)'
  BY Zenon DEF Wakeful, Registered, Untouched, Unmoved
<1>4. Armed(x)'
  BY <1>1, Zenon DEF Wakeful, Armed, GivenUp, Untouched, Unmoved
<1>5. Awaited(x)'
  BY <1>1, Zenon DEF Wakeful, Awaited, GivenUp, Untouched, Unmoved
<1> QED BY <1>2, <1>3, <1>4, <1>5, Zenon DEF Wakeful

\* A step of the handler of c, seen from another connection.
LEMMA OthersUnmoved ==
    ASSUME IInv, NEW r \in Subs, NEW c \in Conns, fdOf' = fdOf,
           \A q \in Subs : batch'[q] \ {c} = batch[q] \ {c},
           \A q \in Subs \ {r} : rpc'[q] = rpc[q] /\ rcur'[q] = rcur[q],
           rcur[r] \in {c, NoConn}, rcur'[r] \in {c, NoConn}
    PROVE  \A x \in Conns \ {c} : Unmoved(x)
<1> SUFFICES ASSUME NEW x \in Conns \ {c} PROVE Unmoved(x)
  OBVIOUS
<1>1. SubOf(x) \in Subs /\ SubOf(x)' = SubOf(x)
  BY SubOfType, Zenon DEF SubOf
<1>2. x # NoConn
  BY ReactorAssumption
<1>3. InBatch(x)' <=> InBatch(x)
  BY <1>1, Zenon DEF InBatch
<1>4. Current(x)' <=> Current(x)
  BY <1>1, <1>2, Zenon DEF Current
<1>5. Deleting(x)' <=> Deleting(x)
  BY <1>1, <1>2, <1>4, Zenon DEF Deleting, Current
<1> QED BY <1>3, <1>4, <1>5, Zenon DEF Unmoved

\* The threads of the server are where they were.
LEMMA AllUnmoved ==
    ASSUME NEW x \in Conns, fdOf'[x] = fdOf[x], UNCHANGED <<batch, rpc, rcur>>
    PROVE  Unmoved(x)
<1>1. SubOf(x)' = SubOf(x)
  BY DEF SubOf
<1> QED BY <1>1 DEF Unmoved, InBatch, Current, Deleting

----------------------------------------------------------------------------
(* What epoll_ctl and writeFromBuffer do to the connection.                *)

\* epoll_ctl on a registered socket, or for the first time.
LEMMA CtlEffect ==
    ASSUME IInv, NEW c \in Conns, NEW ev \in SUBSET {"IN", "OUT"}, NEW full,
           EpollCtl(c, ev, full), interest[c] # {} \/ ~inEpoll[c]
    PROVE  /\ events'[c] = ev /\ interest'[c] = ev
           /\ rdy'[c] <=> rdy[c] \/ PollMask(c, full) \cap ev # {}
           /\ \A x \in Conns \ {c} : /\ events'[x] = events[x] /\ interest'[x] = interest[x]
                                      /\ rdy'[x] = rdy[x]
<1> DEFINE due == PollMask(c, full) \cap ev # {}
<1>1. /\ events' = [events EXCEPT ![c] = ev] /\ interest' = [interest EXCEPT ![c] = ev]
      /\ rdy' = [rdy EXCEPT ![c] = rdy[c] \/ due]
  BY Zenon DEF EpollCtl
<1>2. /\ events \in [Conns -> SUBSET {"IN", "OUT"}] /\ interest \in [Conns -> SUBSET {"IN", "OUT"}]
      /\ rdy \in [Conns -> BOOLEAN]
  BY Zenon DEF TypeOK
<1> HIDE DEF due
<1>3. /\ events'[c] = ev /\ interest'[c] = ev
      /\ \A x \in Conns \ {c} : events'[x] = events[x] /\ interest'[x] = interest[x]
  BY <1>1, <1>2
<1>4. (rdy'[c] <=> rdy[c] \/ due) /\ \A x \in Conns \ {c} : rdy'[x] = rdy[x]
  BY ONLY <1>1, <1>2, Zenon
<1> QED BY <1>3, <1>4, Zenon DEF due

\* writeFromBuffer leaves the registered connection armed for what is left of
\* the response and looks at the socket again, unless it fails.
LEMMA WriteEffect ==
    ASSUME IInv, NEW c \in Conns, Armed(c), interest[c] # {},
           NEW w \in {"keep", "close"}, NEW o, WriteFromBuffer(c, w, o)
    PROVE  /\ events'[c] = interest'[c] /\ "IN" \in interest'[c]
           /\ wbuf'[c] # "empty" => o = "error" \/ ("OUT" \in interest'[c] /\ txFull'[c])
           /\ o # "error" /\ Readable(c) => rdy'[c]
           /\ o = "error" => wbuf'[c] # "empty"
           /\ \A x \in Conns \ {c} :
                 /\ events'[x] = events[x] /\ interest'[x] = interest[x] /\ rdy'[x] = rdy[x]
                 /\ inEpoll'[x] = inEpoll[x] /\ wbuf'[x] = wbuf[x] /\ txFull'[x] = txFull[x]
                 /\ missed'[x] = missed[x]
<1>1. /\ wbuf \in [Conns -> {"empty", "keep", "close"}] /\ txFull \in [Conns -> BOOLEAN]
      /\ inEpoll \in [Conns -> BOOLEAN] /\ events[c] \in SUBSET {"IN", "OUT"}
      /\ missed \in [Conns -> BOOLEAN]
  BY Zenon DEF TypeOK
<1>2. events[c] = interest[c] /\ "IN" \in interest[c]
  BY Zenon DEF Armed
<1>3. ASSUME NEW ev \in SUBSET {"IN", "OUT"}, "IN" \in ev, NEW full, UpdateChannel(c, ev, full)
      PROVE  /\ events'[c] = ev /\ interest'[c] = ev /\ (Readable(c) => rdy'[c])
             /\ \A x \in Conns \ {c} : /\ events'[x] = events[x] /\ interest'[x] = interest[x]
                                        /\ rdy'[x] = rdy[x] /\ inEpoll'[x] = inEpoll[x]
  <2>1. EpollCtl(c, ev, full) /\ inEpoll' = [inEpoll EXCEPT ![c] = TRUE]
    BY <1>3, Zenon DEF UpdateChannel
  <2>2. /\ events'[c] = ev /\ interest'[c] = ev
        /\ rdy'[c] <=> rdy[c] \/ PollMask(c, full) \cap ev # {}
        /\ \A x \in Conns \ {c} : events'[x] = events[x] /\ interest'[x] = interest[x] /\ rdy'[x] = rdy[x]
    BY <2>1, CtlEffect, ZenonT(40)
  <2>3. \A x \in Conns \ {c} : inEpoll'[x] = inEpoll[x]
    BY <1>1, <2>1, Zenon
  <2>4. Readable(c) => PollMask(c, full) \cap ev # {}
    BY <1>3, Zenon DEF PollMask
  <2> QED BY <2>2, <2>3, <2>4, Zenon
<1>4. CASE o = "full"
  <2>1. /\ wbuf' = [wbuf EXCEPT ![c] = "empty"] /\ txFull' = txFull
        /\ UpdateChannel(c, events[c] \ {"OUT"}, FALSE) /\ missed' = [missed EXCEPT ![c] = FALSE]
    BY <1>4, Zenon DEF WriteFromBuffer
  <2>2. /\ wbuf'[c] = "empty"
        /\ \A x \in Conns \ {c} : /\ wbuf'[x] = wbuf[x] /\ txFull'[x] = txFull[x]
                                   /\ missed'[x] = missed[x]
    BY <1>1, <2>1, Zenon
  <2>3. "IN" \in events[c] \ {"OUT"} /\ events[c] \ {"OUT"} \in SUBSET {"IN", "OUT"}
    BY <1>1, <1>2
  <2> QED BY <1>3, <1>4, <2>1, <2>2, <2>3, Zenon
<1>5. CASE o = "again"
  <2>1. /\ wbuf' = [wbuf EXCEPT ![c] = w] /\ txFull' = [txFull EXCEPT ![c] = TRUE]
        /\ UpdateChannel(c, events[c] \cup {"OUT"}, TRUE) /\ missed' = [missed EXCEPT ![c] = FALSE]
    BY <1>5, Zenon DEF WriteFromBuffer
  <2>2. /\ txFull'[c]
        /\ \A x \in Conns \ {c} : /\ wbuf'[x] = wbuf[x] /\ txFull'[x] = txFull[x]
                                   /\ missed'[x] = missed[x]
    BY <1>1, <2>1, Zenon
  <2>3. /\ "IN" \in events[c] \cup {"OUT"} /\ "OUT" \in events[c] \cup {"OUT"}
        /\ events[c] \cup {"OUT"} \in SUBSET {"IN", "OUT"}
    BY <1>1, <1>2
  <2> QED BY <1>3, <1>5, <2>1, <2>2, <2>3, Zenon
<1>6. CASE o = "error"
  <2>1. /\ wbuf' = [wbuf EXCEPT ![c] = w] /\ w # "empty"
        /\ UNCHANGED <<txFull, events, interest, rdy, inEpoll, missed>>
    BY <1>6, Zenon DEF WriteFromBuffer
  <2> QED BY <1>1, <1>2, <1>6, <2>1, Zenon
<1> QED BY <1>4, <1>5, <1>6, Zenon DEF WriteFromBuffer

\* Something happens on the socket, and an item joins the ready list for it.
LEMMA WakeEffect ==
    ASSUME IInv, NEW c \in Conns, NEW ev, Wake(c, ev)
    PROVE  /\ rdy'[c] <=> rdy[c] \/ interest[c] \cap ev # {}
           /\ \A x \in Conns \ {c} : rdy'[x] = rdy[x]
<1> DEFINE due == interest[c] \cap ev # {}
<1>1. rdy' = [rdy EXCEPT ![c] = rdy[c] \/ due] /\ rdy \in [Conns -> BOOLEAN]
  BY Zenon DEF Wake, TypeOK
<1> HIDE DEF due
<1>2. (rdy'[c] <=> rdy[c] \/ due) /\ \A x \in Conns \ {c} : rdy'[x] = rdy[x]
  BY ONLY <1>1, Zenon
<1> QED BY <1>2, Zenon DEF due

\* An event on the socket of x that is queued if x is registered; the end of the
\* stream, once seen, stays.
LEMMA Nudged ==
    ASSUME NEW x \in Conns, Wakeful(x), Unmoved(x),
           obj'[x] = obj[x], interest'[x] = interest[x], events'[x] = events[x],
           revent'[x] = revent[x], inEpoll'[x] = inEpoll[x], wbuf'[x] = wbuf[x],
           missed'[x] = missed[x],
           mpc' = "register" /\ mconn' = x => mpc = "register" /\ mconn = x,
           Eof(x) => Eof(x)', Broken(x) => Broken(x)',
           rdy[x] => rdy'[x], rdy'[x] => rdy[x] \/ interest[x] # {},
           interest[x] # {} /\ ~rdy'[x] =>
              /\ Eof(x)' => Eof(x)
              /\ rx'[x] > 0 => rx[x] > 0
              /\ wbuf[x] # "empty" /\ ~txFull'[x] /\ ~Eof(x)' => ~txFull[x] \/ GivenUp(x)
    PROVE  Wakeful(x)'
<1>2. Unregistered(x)'
  BY Zenon DEF Wakeful, Unregistered
<1>3. Registered(x)'
  BY Zenon DEF Wakeful, Registered, Unmoved
<1>1. GivenUp(x)' <=> GivenUp(x)
  BY Zenon DEF GivenUp, Unmoved
<1>4. Armed(x)'
  BY <1>1, Zenon DEF Wakeful, Armed
<1>5. Awaited(x)'
  BY <1>1, Zenon DEF Wakeful, Awaited, Unmoved
<1> QED BY <1>2, <1>3, <1>4, <1>5, Zenon DEF Wakeful

\* A handler of c that has left an event or its tear-down behind for all there
\* is to do.
LEMMA Handled ==
    ASSUME NEW c \in Conns, Wakeful(c), interest[c] # {}, obj'[c] = obj[c], UNCHANGED <<mpc, mconn>>,
           events'[c] = interest'[c], "IN" \in interest'[c],
           wbuf'[c] # "empty" => "OUT" \in interest'[c] \/ Broken(c)' \/ GivenUp(c)',
           Eof(c)' => rdy'[c] \/ GivenUp(c)',
           ~Eof(c)' /\ rx'[c] > 0 => rdy'[c] \/ (wbuf'[c] # "empty" /\ GivenUp(c)'),
           ~Eof(c)' /\ wbuf'[c] # "empty" /\ ~txFull'[c] => rdy'[c] \/ GivenUp(c)'
    PROVE  Wakeful(c)'
<1>1. interest'[c] # {}
  BY Zenon
<1>2. Unregistered(c)'
  BY Zenon DEF Wakeful, Unregistered
<1>3. Registered(c)' /\ Armed(c)' /\ Awaited(c)'
  BY <1>1, Zenon DEF Registered, Armed, Awaited
<1> QED BY <1>2, <1>3, Zenon DEF Wakeful

\* A handler of x that goes on or returns without touching its Channel.
LEMMA Settled ==
    ASSUME NEW x \in Conns, Wakeful(x), ~Deleting(x), UNCHANGED <<mpc, mconn>>,
           obj'[x] = obj[x], interest'[x] = interest[x], events'[x] = events[x],
           revent'[x] = revent[x], inEpoll'[x] = inEpoll[x], wbuf'[x] = wbuf[x],
           rdy'[x] = rdy[x], rx'[x] = rx[x], peer'[x] = peer[x], shut'[x] = shut[x],
           missed'[x] = missed[x], txFull[x] => txFull'[x],
           InBatch(x)' <=> InBatch(x), Current(x)' => Current(x)
    PROVE  Wakeful(x)'
<1>1. (Eof(x)' <=> Eof(x)) /\ (Broken(x)' <=> Broken(x))
  BY Zenon DEF Eof, Broken
<1>2. Unregistered(x)'
  BY Zenon DEF Wakeful, Unregistered
<1>3. Registered(x)'
  BY Zenon DEF Wakeful, Registered
<1>4. Armed(x)'
  BY <1>1, Zenon DEF Wakeful, Armed, GivenUp
<1>5. Awaited(x)'
  BY <1>1, Zenon DEF Wakeful, Awaited, GivenUp
<1> QED BY <1>2, <1>3, <1>4, <1>5, Zenon DEF Wakeful

----------------------------------------------------------------------------
(* The steps.                                                              *)

\* Clients, time and DB workers.
LEMMA ClientWakes ==
    ASSUME IInv, WInv, NEW c \in Conns, Client(c) \/ IdleElapses(c) \/ RunDbTask(c)
    PROVE  WInv'
<1> SUFFICES ASSUME NEW x \in Conns PROVE Wakeful(x)'
  BY DEF WInv
<1>1. Wakeful(x) /\ UNCHANGED <<obj, interest, events, revent, inEpoll, wbuf, missed, mpc, mconn,
                                fdOf, batch, rpc, rcur, shut>>
  BY Zenon DEF WInv, Client, ClientConnect, ClientSend, ClientClose, ClientDrain, IdleElapses, RunDbTask
<1>2. Unmoved(x)
  BY <1>1, AllUnmoved
<1>3. /\ peer \in [Conns -> {"none", "open", "fin", "rst"}] /\ rx \in [Conns -> Nat]
      /\ txFull \in [Conns -> BOOLEAN] /\ rdy \in [Conns -> BOOLEAN]
  BY Zenon DEF TypeOK
<1>4. CASE ClientConnect(c)
  <2>1. (Eof(x)' <=> Eof(x)) /\ (Broken(x)' <=> Broken(x))
    BY <1>1, <1>3, <1>4, Zenon DEF ClientConnect, Eof, Broken
  <2>2. rx' = rx /\ txFull' = txFull /\ rdy' = rdy
    BY <1>4 DEF ClientConnect
  <2> QED BY <1>1, <1>2, <2>1, <2>2, Nudged, ZenonT(40)
<1>5. CASE ClientSend(c)
  <2>1. (Eof(x)' <=> Eof(x)) /\ (Broken(x)' <=> Broken(x)) /\ txFull' = txFull
    BY <1>1, <1>5, Zenon DEF ClientSend, Eof, Broken
  <2>2. (rdy'[c] <=> rdy[c] \/ interest[c] \cap {"IN"} # {}) /\ \A y \in Conns \ {c} : rdy'[y] = rdy[y]
    BY <1>5, WakeEffect, Zenon DEF ClientSend
  <2>3. x # c => rx'[x] = rx[x]
    BY <1>3, <1>5, Zenon DEF ClientSend
  <2>4. x = c /\ interest[x] # {} => rdy'[x]
    BY <1>1, <2>2, Zenon DEF Wakeful, Armed
  <2> QED BY <1>1, <1>2, <2>1, <2>2, <2>3, <2>4, Nudged, ZenonT(40)
<1>6. ASSUME NEW how \in {"fin", "rst"}, ClientClose(c, how) PROVE Wakeful(x)'
  <2>1. (Eof(x) => Eof(x)') /\ (Broken(x) => Broken(x)') /\ txFull' = txFull /\ rx' = rx
    BY <1>1, <1>3, <1>6, Zenon DEF ClientClose, Eof, Broken
  <2>2. x # c => (Eof(x)' <=> Eof(x))
    BY <1>1, <1>3, <1>6, Zenon DEF ClientClose, Eof
  <2>3. PICK ev : "IN" \in ev /\ Wake(c, ev)
    BY <1>6 DEF ClientClose
  <2>4. (rdy'[c] <=> rdy[c] \/ interest[c] \cap ev # {}) /\ \A y \in Conns \ {c} : rdy'[y] = rdy[y]
    BY <2>3, WakeEffect, Zenon
  <2>5. x = c /\ interest[x] # {} => rdy'[x]
    BY <1>1, <2>3, <2>4, Zenon DEF Wakeful, Armed
  <2> QED BY <1>1, <1>2, <2>1, <2>2, <2>4, <2>5, Nudged, ZenonT(40)
<1>7. CASE ClientDrain(c)
  <2>1. (Eof(x)' <=> Eof(x)) /\ (Broken(x)' <=> Broken(x)) /\ rx' = rx
    BY <1>1, <1>7, Zenon DEF ClientDrain, Eof, Broken
  <2>2. (rdy'[c] <=> rdy[c] \/ interest[c] \cap {"OUT"} # {}) /\ \A y \in Conns \ {c} : rdy'[y] = rdy[y]
    BY <1>7, WakeEffect, Zenon DEF ClientDrain
  <2>3. x # c => txFull'[x] = txFull[x]
    BY <1>3, <1>7 DEF ClientDrain
  <2>4. x = c /\ interest[x] # {} /\ wbuf[x] # "empty" /\ ~Eof(x) => rdy'[x] \/ GivenUp(x)
    BY <1>1, <2>2, Zenon DEF Wakeful, Armed, Eof, Broken
  <2> QED BY <1>1, <1>2, <2>1, <2>2, <2>3, <2>4, Nudged, ZenonT(40)
<1>8. CASE IdleElapses(c) \/ RunDbTask(c)
  <2>1. UNCHANGED <<peer, shut, rx, rdy>>
    BY <1>8, Zenon DEF IdleElapses, RunDbTask
  <2>2. (Eof(x)' <=> Eof(x)) /\ (Broken(x)' <=> Broken(x))
    BY <2>1, Zenon DEF Eof, Broken
  <2>3. txFull[x] => txFull'[x]
    <3>1. txFull' = txFull \/ \E y \in Conns : txFull' = [txFull EXCEPT ![y] = TRUE]
      <4>1. fdTab[fdOf[c]] \in Conns \cup {NoConn}
        BY OwnTypes, Zenon
      <4> QED BY <1>8, <4>1, Zenon DEF IdleElapses, RunDbTask, SendHttpResponse
    <3> QED BY <1>3, <3>1
  <2> QED BY <1>1, <1>2, <2>1, <2>2, <2>3, Nudged, ZenonT(40)
<1> QED BY <1>4, <1>5, <1>6, <1>7, <1>8, Zenon DEF Client

\* The main reactor.
LEMMA MainWakes == ASSUME IInv, WInv, Main PROVE WInv'
<1> SUFFICES ASSUME NEW x \in Conns PROVE Wakeful(x)'
  BY DEF WInv
<1>1. Wakeful(x)
  BY DEF WInv
<1>2. /\ fdOf \in [Conns -> Fds] /\ obj \in [Conns -> {"none", "alive", "freed"}]
      /\ inEpoll \in [Conns -> BOOLEAN] /\ shut \in [Conns -> BOOLEAN]
      /\ events \in [Conns -> SUBSET {"IN", "OUT"}]
  BY Zenon DEF TypeOK
<1>3. ASSUME NEW c \in Conns, NEW fd \in Fds, AcceptConnection(c, fd) PROVE Wakeful(x)'
  <2>1. /\ obj[c] = "none" /\ mpc' = "register" /\ mconn' = c
        /\ obj' = [obj EXCEPT ![c] = "alive"] /\ fdOf' = [fdOf EXCEPT ![c] = fd]
        /\ UNCHANGED <<peer, sent, rx, txFull, shut, interest, rdy, wbuf, channelVars, subVars, missed>>
    BY <1>3, Zenon DEF AcceptConnection, Backlog
  <2>2. CASE x # c
    <3>1. obj'[x] = obj[x] /\ fdOf'[x] = fdOf[x]
      BY <1>2, <2>1, <2>2
    <3>2. Unmoved(x)
      BY <2>1, <3>1, AllUnmoved
    <3>3. Untouched(x)
      BY <2>1, <3>1, Zenon DEF Untouched
    <3> QED BY <1>1, <2>1, <2>2, <3>2, <3>3, Frame, Zenon
  <2>3. CASE x = c
    <3>1. interest[x] = {} /\ events[x] = {} /\ wbuf[x] = "empty" /\ ~inEpoll[x] /\ ~rdy[x]
      BY <1>1, <2>1, <2>3, Zenon DEF Wakeful, Unregistered, NoDanglingChannel
    <3>2. \A q \in Subs : x \notin batch[q] /\ rcur[q] # x
      <4>1. obj[x] = "none"
        BY <2>1, <2>3
      <4>2. \A q \in Subs : x \notin batch[q]
        BY <4>1, Zenon DEF NoDanglingChannel
      <4>3. \A q \in Subs : rcur[q] # x
        BY <4>1, ReactorAssumption, Zenon DEF ThreadsOwn
      <4> QED BY <4>2, <4>3
    <3>3. SubOf(x)' \in Subs
      <4>1. fdOf'[x] \in Nat /\ NSub \in Nat \ {0}
        BY <1>2, <2>1, <2>3, ReactorAssumption, Zenon
      <4> QED BY <4>1 DEF SubOf, Subs
    <3>4. ~InBatch(x)' /\ ~Current(x)'
      BY <2>1, <3>2, <3>3, Zenon DEF InBatch, Current
    <3>5. UNCHANGED <<interest, events, wbuf, inEpoll, rdy>>
      BY <2>1
    <3> QED BY <3>1, <3>4, <3>5, Zenon DEF Wakeful, Unregistered, Registered, Armed, Awaited
  <2> QED BY <2>2, <2>3
<1>4. CASE RegisterChannel
  <2>1. /\ mpc = "register" /\ mpc' = "registered" /\ mconn \in Conns
        /\ EpollCtl(mconn, events[mconn] \cup {"IN"}, txFull[mconn])
        /\ UNCHANGED <<peer, rx, txFull, shut, revent, inEpoll, obj, fdOf, wbuf, batch, rpc, rcur, missed>>
    BY <1>4, Zenon DEF RegisterChannel, ThreadsOwn, TypeOK
  <2>2. Wakeful(mconn)
    BY <2>1, Zenon DEF WInv
  <2>3. interest[mconn] = {} /\ events[mconn] = {} /\ wbuf[mconn] = "empty" /\ ~inEpoll[mconn]
    BY <2>1, <2>2, Zenon DEF Wakeful, Unregistered
  <2>4. EpollCtl(mconn, {"IN"}, txFull[mconn]) /\ {"IN"} \in SUBSET {"IN", "OUT"}
    <3>1. events[mconn] \cup {"IN"} = {"IN"}
      BY <2>3
    <3> QED BY <2>1, <3>1, Zenon
  <2>5. /\ events'[mconn] = {"IN"} /\ interest'[mconn] = {"IN"}
        /\ rdy'[mconn] <=> rdy[mconn] \/ PollMask(mconn, txFull[mconn]) \cap {"IN"} # {}
        /\ \A y \in Conns \ {mconn} : /\ events'[y] = events[y] /\ interest'[y] = interest[y]
                                       /\ rdy'[y] = rdy[y]
    BY <2>1, <2>3, <2>4, CtlEffect, ZenonT(40)
  <2>6. CASE x # mconn
    <3>1. Untouched(x) /\ Unmoved(x)
      BY <2>1, <2>5, <2>6, AllUnmoved, Zenon DEF Untouched
    <3> QED BY <1>1, <2>1, <3>1, Frame, Zenon
  <2>7. CASE x = mconn
    <3>1. obj'[x] # "none" /\ mpc' # "register"
      BY <2>1, <2>7, ReactorAssumption, Zenon DEF ThreadsOwn
    <3>2. wbuf'[x] = "empty" /\ interest'[x] # {} /\ "IN" \in interest'[x] /\ events'[x] = interest'[x]
      BY <2>1, <2>3, <2>5, <2>7, Zenon
    <3>3. Eof(x)' \/ rx'[x] > 0 => rdy'[x]
      <4>1. Eof(x)' \/ rx'[x] > 0 => Readable(x)
        BY <2>1, Zenon DEF Eof, Readable
      <4> QED BY <2>5, <2>7, <4>1, Zenon DEF PollMask
    <3> QED BY <3>1, <3>2, <3>3, Zenon DEF Wakeful, Unregistered, Registered, Armed, Awaited
  <2> QED BY <2>6, <2>7
<1>5. CASE SetInEpoll
  <2>1. /\ mpc = "registered" /\ mpc' = "insert" /\ mconn \in Conns /\ obj[mconn] # "none"
        /\ inEpoll' = [inEpoll EXCEPT ![mconn] = TRUE]
        /\ UNCHANGED <<peer, rx, txFull, shut, revent, events, interest, rdy, obj, fdOf, wbuf, batch, rpc, rcur,
                       missed>>
    BY <1>5, Zenon DEF SetInEpoll, ThreadsOwn, TypeOK
  <2>2. Unmoved(x)
    BY <2>1, AllUnmoved, Zenon
  <2>3. CASE x # mconn
    <3>1. Untouched(x)
      BY <1>2, <2>1, <2>3, Zenon DEF Untouched
    <3> QED BY <1>1, <2>1, <2>2, <3>1, Frame
  <2>4. CASE x = mconn
    <3>1. obj'[x] # "none" /\ mpc' # "register"
      BY <2>1, <2>4
    <3>2. (Eof(x)' <=> Eof(x)) /\ (Broken(x)' <=> Broken(x))
      BY <2>1, SMTT(30) DEF Eof, Broken
    <3>3. Registered(x)' /\ Armed(x)' /\ Awaited(x)'
      BY <1>1, <2>1, <2>2, <3>2, Zenon DEF Wakeful, Registered, Armed, Awaited, GivenUp, Unmoved
    <3> QED BY <3>1, <3>3, Zenon DEF Wakeful, Unregistered
  <2> QED BY <2>3, <2>4
<1>6. CASE InsertConnection \/ AcceptFails \/ SweepIdle \/ SweepDone \/ \E fd \in Fds : SweepVisit(fd)
  <2>1. UNCHANGED <<kernelVars, channelVars, connVars, subVars, missed>> /\ mpc' # "register"
    <3>1. CASE InsertConnection
      BY <3>1, Zenon DEF InsertConnection, ThreadsOwn
    <3>2. CASE AcceptFails \/ SweepIdle \/ SweepDone \/ \E fd \in Fds : SweepVisit(fd)
      BY <3>2, Zenon DEF AcceptFails, SweepIdle, SweepDone, SweepVisit
    <3> QED BY <1>6, <3>1, <3>2, SMTT(30)
  <2>2. Unmoved(x) /\ Untouched(x)
    BY <2>1, AllUnmoved, Zenon DEF Untouched
  <2> QED BY <1>1, <2>1, <2>2, Frame
<1>7. ASSUME NEW fd \in Fds, SweepShutdown(fd) PROVE Wakeful(x)'
  <2>1. /\ mpc' = "visit"
        /\ UNCHANGED <<peer, rx, txFull, interest, channelVars, connVars, subVars, missed>>
    BY <1>7 DEF SweepShutdown
  <2>2. Unmoved(x)
    BY <2>1, AllUnmoved
  <2>3. CASE fdTab[fd] = NoConn
    <3>1. Untouched(x)
      BY <1>7, <2>1, <2>3, Zenon DEF Untouched, SweepShutdown
    <3> QED BY <1>1, <2>1, <2>2, <3>1, Frame
  <2>4. CASE fdTab[fd] # NoConn
    <3> DEFINE v == fdTab[fd]
    <3>1. v \in Conns /\ shut' = [shut EXCEPT ![v] = TRUE] /\ Wake(v, {"IN", "OUT"})
      BY <1>7, <2>4, OwnTypes, Zenon DEF SweepShutdown
    <3> HIDE DEF v
    <3>2. (rdy'[v] <=> rdy[v] \/ interest[v] \cap {"IN", "OUT"} # {}) /\ \A y \in Conns \ {v} : rdy'[y] = rdy[y]
      BY <3>1, WakeEffect, Zenon
    <3>3. (Eof(x) => Eof(x)') /\ (Broken(x) => Broken(x)') /\ (x # v => (Eof(x)' <=> Eof(x)))
      BY <1>2, <2>1, <3>1, Zenon DEF Eof, Broken
    <3>4. x = v /\ interest[x] # {} => rdy'[x]
      BY <1>1, <3>2, Zenon DEF Wakeful, Armed
    <3>5. rdy[x] => rdy'[x]
      BY <3>1, <3>2, SMTT(30)
    <3>6. rdy'[x] => rdy[x] \/ interest[x] # {}
      BY <3>1, <3>2, SMTT(30)
    <3> QED BY <1>1, <2>1, <2>2, <3>3, <3>4, <3>5, <3>6, Nudged, ZenonT(40)
  <2> QED BY <2>3, <2>4
<1> QED BY <1>3, <1>4, <1>5, <1>6, <1>7, Zenon DEF Main

\* A sub-reactor starts on the next active channel.
LEMMA TakenWakes ==
    ASSUME IInv, WInv, NEW r \in Subs, NEW c \in Conns, HandleWrite(r, c) \/ HandleMessage(r, c)
    PROVE  WInv'
<1>1. /\ rcur[r] = NoConn /\ c \in batch[r] /\ SubOf(c) = r /\ c \notin batch'[r]
      /\ \A q \in Subs : batch'[q] \ {c} = batch[q] \ {c}
      /\ UNCHANGED <<peer, shut, obj, fdOf, mainVars>>
      /\ \A x \in Conns \ {c} : revent'[x] = revent[x]
  <2>1. Take(r, c)
    BY Zenon DEF HandleWrite, HandleMessage
  <2>2. batch' = [batch EXCEPT ![r] = batch[r] \ {c}] /\ batch \in [Subs -> SUBSET Conns]
    BY <2>1, Zenon DEF Take, TypeOK
  <2>3. \A q \in Subs : batch'[q] \ {c} = batch[q] \ {c}
    BY <2>2
  <2>4. \A x \in Conns \ {c} : revent'[x] = revent[x]
    BY <2>1, ZenonT(40) DEF Take, TypeOK
  <2> QED BY <2>1, <2>3, <2>4, Taken, Zenon DEF Take, HandleWrite, HandleMessage
<1>2. \E pc : Goto(r, pc, c) \/ Goto(r, pc, NoConn)
  BY Zenon DEF HandleWrite, HandleMessage
<1>3. /\ rcur'[r] \in {c, NoConn}
      /\ \A q \in Subs \ {r} : rpc'[q] = rpc[q] /\ rcur'[q] = rcur[q]
  BY <1>2, ZenonT(40) DEF Goto, TypeOK
<1>4. \A x \in Conns \ {c} : Unmoved(x)
  BY <1>1, <1>3, OthersUnmoved, Zenon
<1>5. Wakeful(c) /\ InBatch(c) /\ interest[c] # {}
  BY <1>1, Zenon DEF WInv, InBatch, Wakeful, Registered
<1>6. ~InBatch(c)' /\ SubOf(c)' = r /\ ~Deleting(c)
  BY <1>1, ReactorAssumption, Zenon DEF InBatch, SubOf, Deleting, Current
<1>7. /\ events[c] = interest[c] /\ "IN" \in interest[c]
      /\ interest[c] \in SUBSET {"IN", "OUT"}
  BY <1>5, Zenon DEF Wakeful, Armed, TypeOK
<1>8. (Eof(c)' <=> Eof(c)) /\ (Broken(c)' <=> Broken(c)) /\ (Broken(c) => Eof(c))
  BY <1>1, Zenon DEF Eof, Broken
<1>9. CASE HandleMessage(r, c)
  <2>1. /\ "OUT" \notin revent[c] /\ rx' = [rx EXCEPT ![c] = 0] /\ rx \in [Conns -> Nat]
        /\ Goto(r, IF Eof(c) THEN "delete" ELSE "process", c)
        /\ UNCHANGED <<txFull, interest, rdy, wbuf, events, inEpoll, missed>>
    BY <1>9, Zenon DEF HandleMessage, TypeOK
  <2>2. rx'[c] = 0 /\ \A x \in Conns \ {c} : rx'[x] = rx[x]
    BY <2>1, Zenon
  <2>3. Eof(c)' => Deleting(c)'
    BY <1>6, <1>8, <2>1, Zenon DEF Deleting, Current, Goto, TypeOK
  <2>4. ~Eof(c)' /\ wbuf'[c] # "empty" /\ ~txFull'[c] => rdy'[c] \/ GivenUp(c)'
    BY <1>5, <1>6, <1>8, <2>1, Zenon DEF Wakeful, Awaited, GivenUp
  <2>5. wbuf'[c] # "empty" => "OUT" \in interest'[c] \/ Broken(c)' \/ GivenUp(c)'
    BY <1>5, <1>6, <1>8, <2>1, Zenon DEF Wakeful, Armed, GivenUp
  <2>6. Wakeful(c)'
    <3>1. events'[c] = interest'[c] /\ "IN" \in interest'[c]
      BY <1>7, <2>1, Zenon
    <3>2. ~(rx'[c] > 0)
      BY ONLY <2>2
    <3> QED BY <1>1, <1>5, <2>3, <2>4, <2>5, <3>1, <3>2, Handled, ZenonT(40) DEF GivenUp
  <2>7. ASSUME NEW x \in Conns \ {c} PROVE Wakeful(x)'
    <3>1. Untouched(x)
      BY <1>1, <2>1, <2>2, Zenon DEF Untouched
    <3> QED BY <1>1, <1>4, <3>1, Frame, Zenon DEF WInv
  <2> QED BY <2>6, <2>7 DEF WInv
<1>10. CASE HandleWrite(r, c) /\ wbuf[c] = "empty"
  <2>1. /\ EpollCtl(c, events[c] \ {"OUT"}, txFull[c]) /\ inEpoll' = [inEpoll EXCEPT ![c] = TRUE]
        /\ UNCHANGED <<txFull, wbuf, rx, missed>>
    BY <1>10, Zenon DEF HandleWrite, UpdateChannel
  <2>2. events[c] \ {"OUT"} \in SUBSET {"IN", "OUT"} /\ "IN" \in events[c] \ {"OUT"}
    BY <1>7, Zenon
  <2>3. /\ events'[c] = events[c] \ {"OUT"} /\ interest'[c] = events[c] \ {"OUT"}
        /\ rdy'[c] <=> rdy[c] \/ PollMask(c, txFull[c]) \cap (events[c] \ {"OUT"}) # {}
        /\ \A x \in Conns \ {c} : events'[x] = events[x] /\ interest'[x] = interest[x] /\ rdy'[x] = rdy[x]
    BY <1>5, <2>1, <2>2, CtlEffect, ZenonT(40)
  <2>4. \A x \in Conns \ {c} : inEpoll'[x] = inEpoll[x]
    BY <2>1, Zenon DEF TypeOK
  <2>5. Readable(c) => rdy'[c]
    BY <2>2, <2>3, Zenon DEF PollMask
  <2>6. Eof(c) \/ rx'[c] > 0 => Readable(c)
    BY <2>1, Zenon DEF Readable
  <2>7. Wakeful(c)'
    <3>1. events'[c] = interest'[c] /\ "IN" \in interest'[c] /\ wbuf'[c] = "empty"
      BY <1>10, <2>1, <2>2, <2>3, Zenon
    <3> QED BY <1>1, <1>5, <1>8, <2>5, <2>6, <3>1, Handled, Zenon
  <2>8. ASSUME NEW x \in Conns \ {c} PROVE Wakeful(x)'
    <3>1. Untouched(x)
      BY <1>1, <2>1, <2>3, <2>4, Zenon DEF Untouched
    <3> QED BY <1>1, <1>4, <3>1, Frame, Zenon DEF WInv
  <2> QED BY <2>7, <2>8 DEF WInv
<1>11. CASE HandleWrite(r, c) /\ wbuf[c] # "empty"
  <2>1. PICK o \in {"full", "again", "error"} :
           /\ WriteFromBuffer(c, wbuf[c], o)
           /\ o = "error" => Goto(r, "delete", c)
    BY <1>11, Zenon DEF HandleWrite
  <2>2. wbuf[c] \in {"keep", "close"} /\ rx' = rx
    BY <1>11, Zenon DEF TypeOK, HandleWrite
  <2>3. Armed(c)
    BY <1>5, Zenon DEF Wakeful
  <2>4. /\ events'[c] = interest'[c] /\ "IN" \in interest'[c]
        /\ wbuf'[c] # "empty" => o = "error" \/ ("OUT" \in interest'[c] /\ txFull'[c])
        /\ o # "error" /\ Readable(c) => rdy'[c]
        /\ o = "error" => wbuf'[c] # "empty"
        /\ \A x \in Conns \ {c} :
              /\ events'[x] = events[x] /\ interest'[x] = interest[x] /\ rdy'[x] = rdy[x]
              /\ inEpoll'[x] = inEpoll[x] /\ wbuf'[x] = wbuf[x] /\ txFull'[x] = txFull[x]
              /\ missed'[x] = missed[x]
    BY <1>5, <2>1, <2>2, <2>3, WriteEffect, ZenonT(40)
  <2>5. Eof(c) \/ rx'[c] > 0 => Readable(c)
    BY <2>2, Zenon DEF Readable
  <2>6. o = "error" => GivenUp(c)'
    BY <1>6, <2>1, Zenon DEF GivenUp, Deleting, Current, Goto, TypeOK
  <2>7. Wakeful(c)'
    BY <1>1, <1>5, <1>8, <2>4, <2>5, <2>6, Handled, ZenonT(40)
  <2>8. ASSUME NEW x \in Conns \ {c} PROVE Wakeful(x)'
    <3>1. Untouched(x)
      BY <1>1, <2>2, <2>4, Zenon DEF Untouched
    <3> QED BY <1>1, <1>4, <3>1, Frame, Zenon DEF WInv
  <2> QED BY <2>7, <2>8 DEF WInv
<1> QED BY <1>9, <1>10, <1>11, Zenon

\* processRequests answers, dispatches or finds nothing to do.
LEMMA ProcessWakes ==
    ASSUME IInv, WInv, NEW r \in Subs,
           \/ NoRequest(r)
           \/ \E keepAlive, clear \in BOOLEAN : RespondInline(r, keepAlive, clear)
           \/ \E keepAlive \in BOOLEAN : DispatchDb(r, keepAlive)
           \/ TouchFreed(r)
    PROVE  WInv'
<1>1. PICK c \in Conns : c = rcur[r] /\ SubOf(c) = r /\ c \notin batch[r]
  BY Running DEF NoRequest, RespondInline, DispatchDb, TouchFreed
<1>2. /\ rpc[r] = "process"
      /\ UNCHANGED <<peer, rx, shut, revent, obj, fdOf, mainVars, batch>>
  BY <1>1 DEF NoRequest, RespondInline, DispatchDb, TouchFreed
<1>3. \E pc, d : Goto(r, pc, d) /\ d \in {c, NoConn}
  BY <1>1 DEF NoRequest, RespondInline, DispatchDb, TouchFreed
<1>4. /\ rcur'[r] \in {c, NoConn}
      /\ \A q \in Subs \ {r} : rpc'[q] = rpc[q] /\ rcur'[q] = rcur[q]
  BY <1>3, ZenonT(40) DEF Goto, TypeOK
<1>5. \A x \in Conns \ {c} : Unmoved(x)
  BY <1>1, <1>2, <1>4, OthersUnmoved, Zenon
<1>6. Wakeful(c) /\ Current(c) /\ ~Deleting(c) /\ SubOf(c)' = r
  BY <1>1, <1>2, Zenon DEF WInv, Current, Deleting, SubOf
<1>7. CASE NoRequest(r) \/ TouchFreed(r) \/ \E keepAlive \in BOOLEAN : DispatchDb(r, keepAlive)
  <2>1. UNCHANGED <<interest, rdy, wbuf, channelVars, missed>>
    BY <1>7, Zenon DEF NoRequest, DispatchDb, TouchFreed
  <2>2. txFull' = txFull \/ txFull' = [txFull EXCEPT ![c] = TRUE]
    BY <1>1, <1>7, Zenon DEF NoRequest, DispatchDb, TouchFreed, SendHttpResponse
  <2>3. (txFull[c] => txFull'[c]) /\ \A x \in Conns \ {c} : txFull'[x] = txFull[x]
    BY <2>2, ZenonT(40) DEF TypeOK
  <2>4. InBatch(c)' <=> InBatch(c)
    BY <1>1, <1>2, <1>6, Zenon DEF InBatch
  <2>5. Wakeful(c)'
    BY <1>2, <1>6, <2>1, <2>3, <2>4, Settled, Zenon
  <2>6. ASSUME NEW x \in Conns \ {c} PROVE Wakeful(x)'
    <3>1. Untouched(x)
      BY <1>2, <2>1, <2>3, Zenon DEF Untouched
    <3> QED BY <1>2, <1>5, <3>1, Frame DEF WInv
  <2> QED BY <2>5, <2>6 DEF WInv
<1>8. ASSUME NEW keepAlive \in BOOLEAN, NEW clear \in BOOLEAN, RespondInline(r, keepAlive, clear)
      PROVE  WInv'
  <2>1. PICK o \in {"full", "again", "error"}, w \in {"keep", "close"} :
           /\ WriteFromBuffer(c, w, o)
           /\ o = "error" => Goto(r, "deleteAndLoop", c) \/ Goto(r, "delete", c)
    <3> DEFINE w == IF keepAlive THEN "keep" ELSE "close"
    <3>1. PICK o \in {"full", "again", "error"} :
             /\ WriteFromBuffer(c, w, o)
             /\ CASE o = "error" /\ keepAlive -> Goto(r, "deleteAndLoop", c)
                  [] o = "error" /\ ~keepAlive -> Goto(r, "delete", c)
                  [] o = "full" /\ ~keepAlive -> Goto(r, "delete", c)
                  [] o = "again" /\ ~keepAlive -> Goto(r, "loop", NoConn)
                  [] OTHER -> Goto(r, "process", c)
      BY <1>1, <1>8, Zenon DEF RespondInline
    <3>2. o = "error" => Goto(r, "deleteAndLoop", c) \/ Goto(r, "delete", c)
      BY <3>1
    <3>3. w \in {"keep", "close"}
      OBVIOUS
    <3> QED BY <3>1, <3>2, <3>3, Zenon
  <2>2. Armed(c) /\ interest[c] # {}
    BY <1>1, <1>6, <1>8 DEF Wakeful, Registered, RespondInline
  <2>3. /\ events'[c] = interest'[c] /\ "IN" \in interest'[c]
        /\ wbuf'[c] # "empty" => o = "error" \/ ("OUT" \in interest'[c] /\ txFull'[c])
        /\ o # "error" /\ Readable(c) => rdy'[c]
        /\ o = "error" => wbuf'[c] # "empty"
        /\ \A x \in Conns \ {c} :
              /\ events'[x] = events[x] /\ interest'[x] = interest[x] /\ rdy'[x] = rdy[x]
              /\ inEpoll'[x] = inEpoll[x] /\ wbuf'[x] = wbuf[x] /\ txFull'[x] = txFull[x]
              /\ missed'[x] = missed[x]
    BY <2>1, <2>2, WriteEffect, ZenonT(40)
  <2>4. (Eof(c)' <=> Eof(c)) /\ (Broken(c)' <=> Broken(c)) /\ (Broken(c) => Eof(c))
    BY <1>2, Zenon DEF Eof, Broken
  <2>5. Eof(c) \/ rx'[c] > 0 => Readable(c)
    BY <1>2 DEF Readable
  <2>6. o = "error" => GivenUp(c)'
    BY <1>6, <2>1, Zenon DEF GivenUp, Deleting, Current, Goto, TypeOK
  <2>7. Wakeful(c)'
    BY <1>2, <1>6, <2>2, <2>3, <2>4, <2>5, <2>6, Handled, ZenonT(40)
  <2>8. ASSUME NEW x \in Conns \ {c} PROVE Wakeful(x)'
    <3>1. Untouched(x)
      BY <1>2, <2>3, Zenon DEF Untouched
    <3> QED BY <1>2, <1>5, <3>1, Frame, Zenon DEF WInv
  <2> QED BY <2>7, <2>8 DEF WInv
<1> QED BY <1>7, <1>8, Zenon

\* deleteConnectionCallback_: the Connection goes, or has no entry to go by.
LEMMA DeleteWakes == ASSUME IInv, WInv, NEW r \in Subs, DeleteConnection(r) PROVE WInv'
<1>1. PICK c \in Conns : c = rcur[r]
  BY DeleteOwner, Zenon
<1>2. /\ obj[c] = "alive" /\ SubOf(c) = r /\ connections[fdOf[c]] \in {c, NoConn}
      /\ \A q \in Subs : c \notin batch[q]
  BY <1>1, DeleteOwner, Zenon
<1>3. /\ EraseEntry(fdOf[c]) /\ missed' = [missed EXCEPT ![c] = connections[fdOf[c]] = NoConn]
      /\ rpc[r] \in {"delete", "deleteAndLoop"}
      /\ UNCHANGED <<mainVars, batch>>
  BY <1>1, Zenon DEF DeleteConnection
<1>4. \E pc, d : Goto(r, pc, d) /\ d \in {c, NoConn}
  BY <1>1, Zenon DEF DeleteConnection
<1>5. /\ rcur'[r] \in {c, NoConn}
      /\ \A q \in Subs \ {r} : rpc'[q] = rpc[q] /\ rcur'[q] = rcur[q]
  BY <1>4, ZenonT(40) DEF Goto, TypeOK
<1>6. fdOf' = fdOf
  BY <1>3, Zenon DEF EraseEntry, Destroy
<1>7. \A x \in Conns \ {c} : Unmoved(x)
  BY <1>1, <1>3, <1>5, <1>6, OthersUnmoved, Zenon
<1>8. \A x \in Conns \ {c} : missed'[x] = missed[x]
  BY <1>3, Zenon DEF TypeOK
<1>9. CASE connections[fdOf[c]] = c
  <2>1. Destroy(c)
    BY <1>3, <1>9, ReactorAssumption, Zenon DEF EraseEntry
  <2>2. ASSUME NEW x \in Conns \ {c} PROVE Wakeful(x)'
    <3>1. /\ obj'[x] = obj[x] /\ interest'[x] = interest[x] /\ events'[x] = events[x]
          /\ revent'[x] = revent[x] /\ inEpoll'[x] = inEpoll[x] /\ wbuf'[x] = wbuf[x]
      BY <2>1, ZenonT(40) DEF Destroy, TypeOK
    <3>2. /\ rdy'[x] = rdy[x] /\ rx'[x] = rx[x] /\ txFull'[x] = txFull[x]
          /\ peer'[x] = peer[x] /\ shut'[x] = shut[x]
      BY <2>1, Zenon DEF Destroy, TypeOK
    <3>3. Untouched(x)
      BY <1>8, <3>1, <3>2, Zenon DEF Untouched
    <3> QED BY <1>3, <1>7, <3>3, Frame, Zenon DEF WInv
  <2>3. Wakeful(c)'
    <3>1. /\ interest'[c] = {} /\ ~rdy'[c] /\ events'[c] = {} /\ wbuf'[c] = "empty" /\ ~inEpoll'[c]
          /\ obj'[c] = "freed"
      BY <2>1, ZenonT(40) DEF Destroy, TypeOK
    <3>2. ~InBatch(c)'
      <4>1. SubOf(c)' = r
        BY <1>2, <1>6 DEF SubOf
      <4> QED BY <1>2, <1>3, <4>1, Zenon DEF InBatch
    <3> QED BY <3>1, <3>2, Zenon DEF Wakeful, Unregistered, Registered, Armed, Awaited
  <2> QED BY <2>2, <2>3 DEF WInv
<1>10. CASE connections[fdOf[c]] = NoConn
  <2>1. UNCHANGED <<kernelVars, channelVars, connVars>> /\ missed'[c]
    BY <1>3, <1>10, ZenonT(40) DEF EraseEntry, TypeOK
  <2>2. ASSUME NEW x \in Conns \ {c} PROVE Wakeful(x)'
    <3>1. Untouched(x)
      BY <1>8, <2>1, Zenon DEF Untouched
    <3> QED BY <1>3, <1>7, <3>1, Frame, Zenon DEF WInv
  <2>3. Wakeful(c)'
    <3>1. Wakeful(c) /\ Current(c) /\ obj[c] = "alive"
      BY <1>1, <1>2, Zenon DEF WInv, Current
    <3>2. interest[c] # {}
      BY <3>1, Zenon DEF Wakeful, Registered
    <3>3. (InBatch(c)' <=> InBatch(c)) /\ (Eof(c)' <=> Eof(c)) /\ (Broken(c)' <=> Broken(c))
      BY <1>3, <2>1, Zenon DEF InBatch, SubOf, Eof, Broken
    <3>4. Unregistered(c)'
      BY <1>3, <2>1, <3>1, Zenon DEF Wakeful, Unregistered
    <3>5. Registered(c)' /\ Armed(c)'
      BY <2>1, <3>1, <3>2, <3>3, Zenon DEF Wakeful, Registered, Armed, GivenUp
    <3>6. Awaited(c)'
      BY <2>1, <3>1, <3>3, Zenon DEF Wakeful, Awaited, GivenUp
    <3> QED BY <3>4, <3>5, <3>6 DEF Wakeful
  <2> QED BY <2>2, <2>3 DEF WInv
<1> QED BY <1>2, <1>9, <1>10, Zenon

\* epoll_wait: what leaves the ready list is reported with all there is to do.
LEMMA ActiveWakes == ASSUME IInv, WInv, NEW r \in Subs, ActiveChannels(r) PROVE WInv'
<1>1. PICK S \in SUBSET {c \in Conns : rdy[c] /\ SubOf(c) = r} :
         /\ rdy' = [c \in Conns |-> rdy[c] /\ c \notin S]
         /\ batch' = [batch EXCEPT ![r] = {c \in S : Reported(c) # {}}]
         /\ revent' = [c \in Conns |-> IF c \in S THEN Reported(c) ELSE revent[c]]
  BY Zenon DEF ActiveChannels
<1>2. /\ batch[r] = {} /\ rcur[r] = NoConn
      /\ UNCHANGED <<peer, rx, txFull, shut, interest, events, inEpoll, rpc, rcur, connVars, mainVars, missed>>
  BY Zenon DEF ActiveChannels, Polling
<1>3. /\ batch'[r] = {c \in S : Reported(c) # {}}
      /\ \A q \in Subs \ {r} : batch'[q] = batch[q]
  BY <1>1, ZenonT(40) DEF TypeOK
<1> SUFFICES ASSUME NEW x \in Conns PROVE Wakeful(x)'
  BY DEF WInv
<1>4. Wakeful(x) /\ SubOf(x) \in Subs /\ SubOf(x)' = SubOf(x)
  BY <1>2, SubOfType, Zenon DEF WInv, SubOf
<1>5. (Eof(x)' <=> Eof(x)) /\ (Broken(x)' <=> Broken(x)) /\ (GivenUp(x)' <=> GivenUp(x))
  BY <1>2, <1>4, Zenon DEF Eof, Broken, GivenUp, Deleting, Current
<1>6. CASE x \notin S
  <2>1. rdy'[x] = rdy[x] /\ revent'[x] = revent[x]
    BY <1>1, <1>6, ZenonT(40) DEF TypeOK
  <2>2. Untouched(x)
    BY <1>2, <2>1, Zenon DEF Untouched
  <2>3. InBatch(x)' <=> InBatch(x)
    BY <1>2, <1>3, <1>4, <1>6, Zenon DEF InBatch
  <2>4. Unmoved(x)
    BY <1>2, <1>4, <2>3, Zenon DEF Unmoved, Current, Deleting
  <2> QED BY <1>2, <1>4, <2>2, <2>4, Frame, Zenon
<1>7. CASE x \in S
  <2>1. SubOf(x) = r /\ rdy[x] /\ ~rdy'[x] /\ revent'[x] = Reported(x)
    BY <1>1, <1>7, Zenon
  <2>2. interest[x] # {} /\ "IN" \in interest[x]
    BY <1>4, <2>1, Zenon DEF Wakeful, Registered, Armed
  <2>3. /\ Eof(x) \/ rx[x] > 0 => "IN" \in Reported(x)
        /\ ~Eof(x) /\ wbuf[x] # "empty" /\ ~txFull[x] => "OUT" \in Reported(x) \/ GivenUp(x)
    <3>1. Eof(x) \/ rx[x] > 0 => "IN" \in Reported(x)
      BY <2>2, Zenon DEF Reported, PollMask, Readable
    <3>2. ~Eof(x) /\ wbuf[x] # "empty" /\ ~txFull[x] => "OUT" \in interest[x] \/ GivenUp(x)
      BY <1>4, <2>2, Zenon DEF Wakeful, Armed, Eof, Broken
    <3>3. ~Eof(x) /\ wbuf[x] # "empty" /\ ~txFull[x] => "OUT" \in Reported(x) \/ GivenUp(x)
      BY <3>2, Zenon DEF Reported, PollMask, Writable
    <3> QED BY <3>1, <3>3, Zenon
  <2>4. Reported(x) # {} => InBatch(x)'
    BY <1>3, <1>4, <1>7, <2>1, Zenon DEF InBatch
  <2>5. UNCHANGED <<obj, interest, events, inEpoll, wbuf, rx, txFull, mpc, mconn>>
    BY <1>2, Zenon
  <2>6. Unregistered(x)' /\ Registered(x)' /\ Armed(x)'
    BY <1>4, <1>5, <2>2, <2>5, Zenon DEF Wakeful, Unregistered, Registered, Armed
  <2>7. Awaited(x)'
    <3>1. Eof(x)' \/ rx'[x] > 0 => InBatch(x)'
      BY <1>5, <2>3, <2>4, <2>5, Zenon
    <3>2. ~Eof(x)' /\ wbuf'[x] # "empty" /\ ~txFull'[x] =>
             (InBatch(x)' /\ "OUT" \in revent'[x]) \/ GivenUp(x)'
      BY <1>5, <2>1, <2>3, <2>4, <2>5, Zenon
    <3> QED BY <3>1, <3>2, Zenon DEF Awaited
  <2> QED BY <2>6, <2>7, Zenon DEF Wakeful
<1> QED BY <1>6, <1>7

----------------------------------------------------------------------------
(* The theorem.                                                            *)

\* No client is connected, no Channel registered.
LEMMA WakeInit == Init => WInv
<1> SUFFICES ASSUME Init, NEW x \in Conns PROVE Wakeful(x)
  BY DEF WInv
<1>1. /\ interest[x] = {} /\ events[x] = {} /\ wbuf[x] = "empty" /\ ~inEpoll[x] /\ ~rdy[x]
      /\ obj[x] = "none"
  BY Zenon DEF Init
<1>2. SubOf(x) \in Subs
  BY OwnInit, SubOfType
<1>3. ~InBatch(x)
  BY <1>2, Zenon DEF Init, InBatch
<1> QED BY <1>1, <1>3, Zenon DEF Wakeful, Unregistered, Registered, Armed, Awaited

\* The wake-up invariant is inductive relative to the ownership of the channels.
LEMMA WakeStep == IInv /\ WInv /\ [Next]_vars => WInv'
<1> SUFFICES ASSUME IInv, WInv, [Next]_vars PROVE WInv'
  OBVIOUS
<1>1. CASE UNCHANGED vars
  <2> SUFFICES ASSUME NEW x \in Conns PROVE Wakeful(x)'
    BY DEF WInv
  <2>1. Untouched(x) /\ Unmoved(x) /\ UNCHANGED <<mpc, mconn>>
    BY <1>1, AllUnmoved, Zenon DEF vars, Untouched
  <2> QED BY <2>1, Frame DEF WInv
<1>2. ASSUME NEW r \in Subs, Sub(r) PROVE WInv'
  BY <1>2, TakenWakes, ProcessWakes, DeleteWakes, ActiveWakes, Zenon DEF Sub
<1> QED BY <1>1, <1>2, ClientWakes, MainWakes, Zenon DEF Next, Dead

\* Whatever the clients and the threads do, a registered connection with input,
\* with the end of its stream reached or with room for a response that waits has
\* an event queued or a handler on its way, unless it was given up by a tear-down
\* that missed connections_, for any number of clients, fds and sub-reactors:
\* Channel::handleEvent may drop the read half of an event, and more channels may
\* be ready than Epoll::activeChannels takes at once.
THEOREM NoWakeupLost == Spec => []NoLostWakeup
<1>1. IInv /\ WInv => NoLostWakeup
  <2> SUFFICES ASSUME IInv, NEW x \in Conns, Wakeful(x), interest[x] # {},
                      Readable(x) \/ (wbuf[x] # "empty" /\ Writable(x, txFull[x])),
                      ~(missed[x] /\ (Eof(x) \/ wbuf[x] # "empty")), ~rdy[x]
               PROVE  InFlight(x)
    BY Zenon DEF NoLostWakeup, WInv
  <2>1. Eof(x) \/ (~Eof(x) /\ rx[x] > 0) \/ (~Eof(x) /\ wbuf[x] # "empty" /\ ~txFull[x])
    BY Zenon DEF Readable, Writable, Eof, Broken
  <2>2. InBatch(x) \/ Deleting(x)
    BY <2>1, Zenon DEF Wakeful, Awaited, GivenUp
  <2>3. SubOf(x) \in Subs
    BY SubOfType, Zenon
  <2> QED BY <2>2, <2>3, Zenon DEF InFlight, InBatch, Deleting, Current
<1> QED BY <1>1, WakeInit, WakeStep, Ownership, PTL DEF Spec
=============================================================================
