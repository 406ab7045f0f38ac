------------------------------ MODULE Reactor ------------------------------
(***************************************************************************)
(* Lifetime of HTTP connections across the threads of the server: the main *)
(* reactor (Acceptor, Server::newConnection, Server::sweepIdle), the       *)
(* sub-reactors (EventLoop, Epoll, Channel, the handlers of Connection)    *)
(* and the DB workers, which hold nothing of a connection but its fd.      *)
(*                                                                         *)
(* Each client is identified with the Connection object that serves it,    *)
(* so c stands for the client, its socket, its Channel and its Connection. *)
(* What a request says is left to the choice made when it is dispatched:   *)
(* only the number of complete requests is kept.  A header block over the  *)
(* limit counts as one request, the one answered with 400.                 *)
(***************************************************************************)
EXTENDS Integers, FiniteSets

CONSTANTS
    Conns,            \* clients, and the Connection objects made for them
    NoConn,           \* no connection
    Fds,              \* descriptor numbers the kernel hands out to sockets
    NSub,             \* subReactors_.size()
    kMaxEvents,       \* events one epoll_wait returns at most
    kIdleTimeoutSec,  \* 0 turns the idle sweep off
    Senders,          \* bound: the clients that send requests
    MaxRequests       \* bound: the requests they send, all together

ASSUME ReactorAssumption ==
    /\ NoConn \notin Conns
    /\ Fds \subseteq Nat /\ Fds # {}
    /\ NSub \in Nat \ {0}
    /\ kMaxEvents \in Nat \ {0}
    /\ kIdleTimeoutSec \in Nat
    /\ Senders \subseteq Conns
    /\ MaxRequests \in Nat

VARIABLES
    \* The kernel and the clients (external).
    peer,         \* what the client did: "none" (not connected), "open", "fin", "rst"
    sent,         \* requests the clients have sent, all together
    rx,           \* requests in the socket's receive buffer
    txFull,       \* the socket's send buffer is full
    shut,         \* shutdown(SHUT_RDWR) was called on the socket
    fdTab,        \* the socket an fd number designates in this process
    interest,     \* the event mask registered with epoll, {} when not registered
    rdy,          \* the socket is on the ready list of its epoll instance
    \* The Connection objects and their Channels.
    obj,          \* "none", "alive" or "freed"
    fdOf,         \* the fd of the connection (and of every copy taken of it)
    events,       \* Channel::events_
    revent,       \* Channel::revent_
    inEpoll,      \* Channel::inEpoll_
    input,        \* complete requests in inputBuffer_
    wbuf,         \* unsent response: "empty", or what follows it: "keep", "close"
    idle,         \* lastActiveSec_ is more than kIdleTimeoutSec ago
    \* Server.
    connections,  \* Server::connections_
    mpc, mconn,   \* the main reactor's step and the connection it is setting up
    todo,         \* the entries of connections_ the running sweep has yet to visit
    batch,        \* per sub-reactor: active channels not handled yet
    rpc, rcur,    \* per sub-reactor: its step and the connection it handles
    tasks,        \* DB tasks submitted for a connection and not run yet
    running,      \* FALSE once the process has died
    missed        \* history: deleteConnection found no entry for the connection, and
                  \* no write of a response has gone through or armed EPOLLOUT since

kernelVars == <<peer, sent, rx, txFull, shut, fdTab, interest, rdy>>
channelVars == <<events, revent, inEpoll>>
connVars == <<obj, fdOf, input, wbuf, idle>>
mainVars == <<mpc, mconn, todo>>
subVars == <<batch, rpc, rcur>>
vars == <<kernelVars, channelVars, connVars, connections, mainVars, subVars,
          tasks, running, missed>>

Subs == 0 .. NSub - 1

\* subReactors_[fd % size]
SubOf(c) == fdOf[c] % NSub

----------------------------------------------------------------------------
(* Sockets and epoll (external), as the code uses them.                    *)

Backlog == {c \in Conns : peer[c] # "none" /\ obj[c] = "none"}
FreeFds == {fd \in Fds : fdTab[fd] = NoConn}

Eof(c) == peer[c] \in {"fin", "rst"} \/ shut[c]
Broken(c) == peer[c] = "rst" \/ shut[c]
Readable(c) == rx[c] > 0 \/ Eof(c)
Writable(c, full) == ~full \/ Broken(c)

\* Conditions epoll sees on the socket when its send buffer is in state full.
\* EPOLLHUP and EPOLLERR come with EPOLLIN, so "IN" stands for them too.
PollMask(c, full) ==
    (IF Readable(c) THEN {"IN"} ELSE {}) \cup
    (IF Writable(c, full) THEN {"OUT"} ELSE {})

\* Something happened on the socket: an edge-triggered item joins the ready
\* list if the mask it is registered with contains the event.
Wake(c, ev) == rdy' = [rdy EXCEPT ![c] = @ \/ interest[c] \cap ev # {}]

----------------------------------------------------------------------------
(* Epoll::updateChannel.                                                   *)

\* A fault: EEXIST is only logged, like every other error of ADD.
EpollCtlNoFallback(c, ev, full) ==
    /\ events' = [events EXCEPT ![c] = ev]
    /\ IF inEpoll[c] = (interest[c] # {})
       THEN /\ interest' = [interest EXCEPT ![c] = ev]
            /\ rdy' = [rdy EXCEPT ![c] = @ \/ PollMask(c, full) \cap ev # {}]
       ELSE UNCHANGED <<interest, rdy>>

\* epoll_ctl with the new event mask ev.  ADD and MOD both look at the socket
\* again and queue an event if one is due.  ADD of a registered socket (the
\* sub-reactor runs before inEpoll_ is set) is EEXIST and repeated as MOD; MOD
\* of a socket that is not registered fails and is logged.
EpollCtl(c, ev, full) ==
    /\ events' = [events EXCEPT ![c] = ev]
    /\ IF inEpoll[c] /\ interest[c] = {}
       THEN UNCHANGED <<interest, rdy>>
       ELSE /\ interest' = [interest EXCEPT ![c] = ev]
            /\ rdy' = [rdy EXCEPT ![c] = @ \/ PollMask(c, full) \cap ev # {}]

\* A fault: a mask without EPOLLOUT is not passed on to epoll_ctl.
UpdateChannelLazy(c, ev, full) ==
    IF "OUT" \in ev
    THEN EpollCtl(c, ev, full) /\ inEpoll' = [inEpoll EXCEPT ![c] = TRUE]
    ELSE events' = [events EXCEPT ![c] = ev] /\ UNCHANGED <<interest, rdy, inEpoll>>

\* updateChannel from the sub-reactor: epoll_ctl, then setInEpoll.
UpdateChannel(c, ev, full) ==
    /\ EpollCtl(c, ev, full)
    /\ inEpoll' = [inEpoll EXCEPT ![c] = TRUE]

\* Connection::writeFromBuffer on a response followed by w ("keep" or
\* "close"), for the outcome o of the last write() or sendfile().  The error is
\* the peer's or the shutdown's, or one of sendfile() on a healthy socket: a file
\* that has become shorter makes it return 0.
WriteFromBuffer(c, w, o) ==
    \/ /\ o = "full"
       /\ ~Broken(c) /\ ~txFull[c]
       /\ wbuf' = [wbuf EXCEPT ![c] = "empty"]
       /\ UpdateChannel(c, events[c] \ {"OUT"}, FALSE)
       /\ missed' = [missed EXCEPT ![c] = FALSE]
       /\ UNCHANGED txFull
    \/ /\ o = "again"
       /\ ~Broken(c)
       /\ wbuf' = [wbuf EXCEPT ![c] = w]
       /\ txFull' = [txFull EXCEPT ![c] = TRUE]
       /\ UpdateChannel(c, events[c] \cup {"OUT"}, TRUE)
       /\ missed' = [missed EXCEPT ![c] = FALSE]
    \/ /\ o = "error"
       /\ wbuf' = [wbuf EXCEPT ![c] = w]
       /\ UNCHANGED <<txFull, events, interest, rdy, inEpoll, missed>>

\* A direct write() of a small response on the socket of c: no Channel, no
\* retry, errors ignored (Connection::sendHttpResponse).
SendHttpResponse(c) ==
    IF c = NoConn \/ Broken(c)
    THEN UNCHANGED txFull
    ELSE \/ UNCHANGED txFull
         \/ txFull' = [txFull EXCEPT ![c] = TRUE]

----------------------------------------------------------------------------
(* The clients.                                                            *)

ClientConnect(c) ==
    /\ peer[c] = "none"
    /\ peer' = [peer EXCEPT ![c] = "open"]
    /\ UNCHANGED <<sent, rx, txFull, shut, fdTab, interest, rdy>>
    /\ UNCHANGED <<channelVars, connVars, connections, mainVars, subVars, tasks, running, missed>>

\* A request arrives complete; the bytes before its last one arm epoll no
\* more than this does.
ClientSend(c) ==
    /\ peer[c] = "open" /\ obj[c] # "freed" /\ ~shut[c]
    /\ c \in Senders /\ sent < MaxRequests
    /\ sent' = sent + 1
    /\ rx' = [rx EXCEPT ![c] = @ + 1]
    /\ Wake(c, {"IN"})
    /\ UNCHANGED <<peer, txFull, shut, fdTab, interest>>
    /\ UNCHANGED <<channelVars, connVars, connections, mainVars, subVars, tasks, running, missed>>

\* The client closes its side ("fin") or resets the connection ("rst").
ClientClose(c, how) ==
    /\ \/ peer[c] = "open"
       \/ peer[c] = "fin" /\ how = "rst"
    /\ obj[c] # "freed"
    /\ peer' = [peer EXCEPT ![c] = how]
    /\ Wake(c, IF how = "rst" THEN {"IN", "OUT"} ELSE {"IN"})
    /\ UNCHANGED <<sent, rx, txFull, shut, fdTab, interest>>
    /\ UNCHANGED <<channelVars, connVars, connections, mainVars, subVars, tasks, running, missed>>

\* The client reads, which makes room in the server's send buffer.
ClientDrain(c) ==
    /\ txFull[c] /\ peer[c] \in {"open", "fin"}
    /\ txFull' = [txFull EXCEPT ![c] = FALSE]
    /\ Wake(c, {"OUT"})
    /\ UNCHANGED <<peer, sent, rx, shut, fdTab, interest>>
    /\ UNCHANGED <<channelVars, connVars, connections, mainVars, subVars, tasks, running, missed>>

\* Time passes without a read event on c.
IdleElapses(c) ==
    /\ obj[c] = "alive" /\ ~idle[c]
    /\ kIdleTimeoutSec > 0
    /\ idle' = [idle EXCEPT ![c] = TRUE]
    /\ UNCHANGED <<obj, fdOf, input, wbuf>>
    /\ UNCHANGED <<kernelVars, channelVars, connections, mainVars, subVars, tasks, running, missed>>

----------------------------------------------------------------------------
(* connections_ and its mutex.  Only the sweep holds connMtx_ over several *)
(* steps; the other two users of it are single steps.                      *)

\* connMtx_ is taken.
ConnMtxHeld == mpc \in {"visit", "shutdown"}

\* A fault: ~Socket leaves the fd open.
DestroyLeaky(v) ==
    /\ obj' = [obj EXCEPT ![v] = "freed"]
    /\ interest' = [interest EXCEPT ![v] = {}]
    /\ rdy' = [rdy EXCEPT ![v] = FALSE]
    /\ UNCHANGED <<peer, sent, rx, txFull, shut, fdTab, fdOf, input, wbuf, idle, channelVars>>

\* ~Connection of v: the Channel goes, then ~Socket closes the fd, which also
\* takes the socket out of its epoll instance.  The fields of a freed object
\* and of a closed socket have no value; they are set back to their first one.
Destroy(v) ==
    /\ obj' = [obj EXCEPT ![v] = "freed"]
    /\ fdTab' = [fdTab EXCEPT ![fdOf[v]] = NoConn]
    /\ interest' = [interest EXCEPT ![v] = {}]
    /\ rdy' = [rdy EXCEPT ![v] = FALSE]
    /\ rx' = [rx EXCEPT ![v] = 0]
    /\ txFull' = [txFull EXCEPT ![v] = FALSE]
    /\ shut' = [shut EXCEPT ![v] = FALSE]
    /\ events' = [events EXCEPT ![v] = {}]
    /\ revent' = [revent EXCEPT ![v] = {}]
    /\ inEpoll' = [inEpoll EXCEPT ![v] = FALSE]
    /\ input' = [input EXCEPT ![v] = 0]
    /\ wbuf' = [wbuf EXCEPT ![v] = "empty"]
    /\ idle' = [idle EXCEPT ![v] = FALSE]
    /\ UNCHANGED <<peer, sent, fdOf>>

\* A fault: deleteConnection does not take connMtx_.
EraseEntryUnlocked(fd) ==
    /\ connections' = [connections EXCEPT ![fd] = NoConn]
    /\ IF connections[fd] = NoConn
       THEN UNCHANGED <<kernelVars, channelVars, connVars>>
       ELSE Destroy(connections[fd])

\* Server::deleteConnection(fd): connections_.erase(fd), under connMtx_.
EraseEntry(fd) ==
    /\ ~ConnMtxHeld
    /\ connections' = [connections EXCEPT ![fd] = NoConn]
    /\ IF connections[fd] = NoConn
       THEN UNCHANGED <<kernelVars, channelVars, connVars>>
       ELSE Destroy(connections[fd])

----------------------------------------------------------------------------
(* The main reactor: one iteration of its loop accepts until accept()      *)
(* fails, then runs the housekeeping callback (the idle sweep).            *)

\* accept() returned fd; newConnection constructs the Connection, up to the
\* registration of its Channel.
AcceptConnection(c, fd) ==
    /\ mpc = "accept"
    /\ c \in Backlog /\ fd \in FreeFds
    /\ fdTab' = [fdTab EXCEPT ![fd] = c]
    /\ fdOf' = [fdOf EXCEPT ![c] = fd]
    /\ obj' = [obj EXCEPT ![c] = "alive"]
    /\ mpc' = "register" /\ mconn' = c
    /\ UNCHANGED <<peer, sent, rx, txFull, shut, interest, rdy, input, wbuf, idle, todo>>
    /\ UNCHANGED <<channelVars, connections, subVars, tasks, running, missed>>

\* channel_->enableReadingET(), up to the return of epoll_ctl: from here on the
\* sub-reactor may run the handlers of a connection connections_ lacks.
RegisterChannel ==
    /\ mpc = "register"
    /\ EpollCtl(mconn, events[mconn] \cup {"IN"}, txFull[mconn])
    /\ mpc' = "registered"
    /\ UNCHANGED <<peer, sent, rx, txFull, shut, fdTab, revent, inEpoll, mconn, todo>>
    /\ UNCHANGED <<connVars, connections, subVars, tasks, running, missed>>

\* channel->setInEpoll(), after epoll_ctl.
SetInEpoll ==
    /\ mpc = "registered"
    /\ inEpoll' = [inEpoll EXCEPT ![mconn] = TRUE]
    /\ mpc' = "insert"
    /\ UNCHANGED <<events, revent, mconn, todo>>
    /\ UNCHANGED <<kernelVars, connVars, connections, subVars, tasks, running, missed>>

\* connections_[fd] = std::move(conn), under connMtx_; an entry already there
\* would be destroyed by the assignment.
InsertConnection ==
    /\ mpc = "insert"
    /\ connections' = [connections EXCEPT ![fdOf[mconn]] = mconn]
    /\ mpc' = "accept" /\ mconn' = NoConn
    /\ IF connections[fdOf[mconn]] = NoConn
       THEN UNCHANGED <<kernelVars, channelVars, connVars>>
       ELSE Destroy(connections[fdOf[mconn]])
    /\ UNCHANGED <<todo, subVars, tasks, running, missed>>

\* accept() fails: the backlog is empty (EAGAIN) or no fd is left (EMFILE).
\* The level-triggered listening socket reports again in the next iteration.
AcceptFails ==
    /\ mpc = "accept"
    /\ Backlog = {} \/ FreeFds = {}
    /\ mpc' = "sweep"
    /\ UNCHANGED <<mconn, todo>>
    /\ UNCHANGED <<kernelVars, channelVars, connVars, connections, subVars, tasks, running, missed>>

\* Server::sweepIdle takes connMtx_ and starts at the first entry.
SweepIdle ==
    /\ mpc = "sweep"
    /\ IF kIdleTimeoutSec = 0
       THEN mpc' = "accept" /\ UNCHANGED todo
       ELSE /\ mpc' = "visit"
            /\ todo' = {fd \in Fds : connections[fd] # NoConn}
    /\ UNCHANGED mconn
    /\ UNCHANGED <<kernelVars, channelVars, connVars, connections, subVars, tasks, running, missed>>

\* A fault: the test on lastActiveSec() never finds a connection idle.
SweepVisitBlind(fd) ==
    /\ mpc = "visit"
    /\ fd \in todo /\ \A other \in todo : fd <= other
    /\ todo' = todo \ {fd}
    /\ UNCHANGED <<mpc, mconn>>
    /\ UNCHANGED <<kernelVars, channelVars, connVars, connections, subVars, tasks, running, missed>>

\* The test on lastActiveSec() of the next entry of the map, in key order.
SweepVisit(fd) ==
    /\ mpc = "visit"
    /\ fd \in todo /\ \A other \in todo : fd <= other
    /\ IF connections[fd] # NoConn /\ idle[connections[fd]]
       THEN mpc' = "shutdown" /\ UNCHANGED todo
       ELSE todo' = todo \ {fd} /\ UNCHANGED mpc
    /\ UNCHANGED mconn
    /\ UNCHANGED <<kernelVars, channelVars, connVars, connections, subVars, tasks, running, missed>>

\* A fault: the sweep erases the entry itself, on the main reactor.
SweepErase(fd) ==
    /\ mpc = "shutdown"
    /\ fd \in todo /\ \A other \in todo : fd <= other
    /\ Destroy(connections[fd])
    /\ connections' = [connections EXCEPT ![fd] = NoConn]
    /\ mpc' = "visit"
    /\ todo' = todo \ {fd}
    /\ UNCHANGED <<mconn, subVars, tasks, running, missed>>

\* shutdown(fd, SHUT_RDWR) wakes every poller of the socket.
SweepShutdown(fd) ==
    /\ mpc = "shutdown"
    /\ fd \in todo /\ \A other \in todo : fd <= other
    /\ IF fdTab[fd] = NoConn
       THEN UNCHANGED <<shut, rdy>>
       ELSE /\ shut' = [shut EXCEPT ![fdTab[fd]] = TRUE]
            /\ Wake(fdTab[fd], {"IN", "OUT"})
    /\ mpc' = "visit"
    /\ todo' = todo \ {fd}
    /\ UNCHANGED <<mconn, peer, sent, rx, txFull, fdTab, interest>>
    /\ UNCHANGED <<channelVars, connVars, connections, subVars, tasks, running, missed>>

\* The end of sweepIdle: connMtx_ is released, the loop starts over.
SweepDone ==
    /\ mpc = "visit" /\ todo = {}
    /\ mpc' = "accept"
    /\ UNCHANGED <<mconn, todo>>
    /\ UNCHANGED <<kernelVars, channelVars, connVars, connections, subVars, tasks, running, missed>>

----------------------------------------------------------------------------
(* A sub-reactor r: epoll_wait, then the handler of each active channel.   *)

Polling(r) == batch[r] = {} /\ rcur[r] = NoConn

\* The event mask epoll_wait reports for an item of the ready list.
Reported(c) == PollMask(c, txFull[c]) \cap interest[c]

\* Epoll::activeChannels: the items taken from the ready list leave it; the
\* ones with nothing to report any more are dropped by the kernel.
ActiveChannels(r) ==
    LET ready == {c \in Conns : rdy[c] /\ SubOf(c) = r}
    IN  /\ Polling(r)
        /\ \E S \in SUBSET ready :
              /\ S # {}
              /\ S = ready \/ Cardinality(S) = kMaxEvents
              /\ Cardinality(S) <= kMaxEvents
              /\ rdy' = [c \in Conns |-> rdy[c] /\ c \notin S]
              /\ batch' = [batch EXCEPT ![r] = {c \in S : Reported(c) # {}}]
              /\ revent' = [c \in Conns |-> IF c \in S THEN Reported(c) ELSE revent[c]]
        /\ UNCHANGED <<peer, sent, rx, txFull, shut, fdTab, interest, events, inEpoll, rpc, rcur>>
        /\ UNCHANGED <<connVars, connections, mainVars, tasks, running, missed>>

\* The loop takes up the next channel.  Its revent_ is of no use any more; it is
\* set back to its first value.
Take(r, c) ==
    /\ rcur[r] = NoConn
    /\ c \in batch[r]
    /\ batch' = [batch EXCEPT ![r] = @ \ {c}]
    /\ revent' = [revent EXCEPT ![c] = {}]

\* The handler of the current channel goes on at step pc with connection c;
\* NoConn when it has returned.
Goto(r, pc, c) ==
    /\ rpc' = [rpc EXCEPT ![r] = pc]
    /\ rcur' = [rcur EXCEPT ![r] = c]

\* handleEvent with EPOLLOUT, and handleWrite: the read part of the event is
\* left to the event the epoll_ctl in writeFromBuffer queues.
HandleWrite(r, c) ==
    /\ Take(r, c)
    /\ "OUT" \in revent[c]
    /\ IF wbuf[c] = "empty"
       THEN /\ UpdateChannel(c, events[c] \ {"OUT"}, txFull[c])
            /\ Goto(r, "loop", NoConn)
            /\ UNCHANGED <<txFull, wbuf, missed>>
       ELSE \E o \in {"full", "again", "error"} :
              /\ WriteFromBuffer(c, wbuf[c], o)
              /\ IF o = "error" \/ (o = "full" /\ wbuf[c] = "close")
                 THEN Goto(r, "delete", c)
                 ELSE Goto(r, "loop", NoConn)
    /\ UNCHANGED <<peer, sent, rx, shut, fdTab, obj, fdOf, input, idle>>
    /\ UNCHANGED <<connections, mainVars, tasks, running>>

\* The call of handleWrite that writes the last of a response.
WriteRest(r, c) == HandleWrite(r, c) /\ wbuf[c] # "empty" /\ wbuf'[c] = "empty"

\* A fault: the end of the stream is taken for EAGAIN.
HandleMessageNoEof(r, c) ==
    /\ Take(r, c)
    /\ "OUT" \notin revent[c]
    /\ idle' = [idle EXCEPT ![c] = FALSE]
    /\ input' = [input EXCEPT ![c] = @ + rx[c]]
    /\ rx' = [rx EXCEPT ![c] = 0]
    /\ Goto(r, "process", c)
    /\ UNCHANGED <<peer, sent, txFull, shut, fdTab, interest, rdy, obj, fdOf, wbuf>>
    /\ UNCHANGED <<events, inEpoll, connections, mainVars, tasks, running, missed>>

\* handleEvent without EPOLLOUT, and handleMessage up to processRequests: the
\* socket is read until EAGAIN, or until the end of the stream or an error.
HandleMessage(r, c) ==
    /\ Take(r, c)
    /\ "OUT" \notin revent[c]
    /\ idle' = [idle EXCEPT ![c] = FALSE]
    /\ input' = [input EXCEPT ![c] = @ + rx[c]]
    /\ rx' = [rx EXCEPT ![c] = 0]
    /\ Goto(r, IF Eof(c) THEN "delete" ELSE "process", c)
    /\ UNCHANGED <<peer, sent, txFull, shut, fdTab, interest, rdy, obj, fdOf, wbuf>>
    /\ UNCHANGED <<events, inEpoll, connections, mainVars, tasks, running, missed>>

\* processRequests finds no complete request and returns.
NoRequest(r) ==
    /\ rpc[r] = "process" /\ obj[rcur[r]] = "alive"
    /\ input[rcur[r]] = 0
    /\ Goto(r, "loop", NoConn)
    /\ UNCHANGED batch
    /\ UNCHANGED <<kernelVars, channelVars, connVars, connections, mainVars, tasks, running, missed>>

\* A response sent by the reactor itself, through sendResponse or sendFile:
\* an inline page or a 429 (keepAlive as requested), or a 400/413 that drops
\* the rest of the input (clear) and closes.
RespondInline(r, keepAlive, clear) ==
    LET c == rcur[r]
        w == IF keepAlive THEN "keep" ELSE "close"
    IN  /\ rpc[r] = "process" /\ obj[c] = "alive"
        /\ input[c] > 0
        /\ clear => ~keepAlive
        /\ input' = [input EXCEPT ![c] = IF clear THEN 0 ELSE @ - 1]
        /\ \E o \in {"full", "again", "error"} :
             /\ WriteFromBuffer(c, w, o)
             /\ CASE o = "error" /\ keepAlive -> Goto(r, "deleteAndLoop", c)
                  [] o = "error" /\ ~keepAlive -> Goto(r, "delete", c)
                  [] o = "full" /\ ~keepAlive -> Goto(r, "delete", c)
                  [] o = "again" /\ ~keepAlive -> Goto(r, "loop", NoConn)
                  [] OTHER -> Goto(r, "process", c)
        /\ UNCHANGED <<peer, sent, rx, shut, fdTab, revent, obj, fdOf, idle, batch>>
        /\ UNCHANGED <<connections, mainVars, tasks, running>>

\* A DB route: handleRegister, handleLogin, handleProfile or handleLogout
\* submits a task that holds the fd, or answers a bad request directly.
DispatchDb(r, keepAlive) ==
    LET c == rcur[r]
    IN  /\ rpc[r] = "process" /\ obj[c] = "alive"
        /\ input[c] > 0
        /\ input' = [input EXCEPT ![c] = @ - 1]
        /\ \/ tasks' = [tasks EXCEPT ![c] = @ + 1] /\ UNCHANGED txFull
           \/ SendHttpResponse(c) /\ UNCHANGED tasks
        /\ IF keepAlive THEN Goto(r, "process", c) ELSE Goto(r, "loop", NoConn)
        /\ UNCHANGED <<peer, sent, rx, shut, fdTab, interest, rdy, obj, fdOf, wbuf, idle, batch>>
        /\ UNCHANGED <<channelVars, connections, mainVars, running, missed>>

\* deleteConnectionCallback_(fd) from a handler of the connection.
DeleteConnection(r) ==
    LET c == rcur[r]
    IN  /\ rpc[r] \in {"delete", "deleteAndLoop"}
        /\ EraseEntry(fdOf[c])
        /\ missed' = [missed EXCEPT ![c] = connections[fdOf[c]] = NoConn]
        /\ IF rpc[r] = "delete" THEN Goto(r, "loop", NoConn) ELSE Goto(r, "process", c)
        /\ UNCHANGED <<mainVars, batch, tasks, running>>

\* processRequests goes round its loop on a freed Connection.  What it finds
\* is undefined: the scan of the freed inputBuffer_ ends the handler, or the
\* process dies.
TouchFreed(r) ==
    /\ rpc[r] = "process" /\ obj[rcur[r]] = "freed"
    /\ running' \in BOOLEAN
    /\ Goto(r, "loop", NoConn)
    /\ UNCHANGED batch
    /\ UNCHANGED <<kernelVars, channelVars, connVars, connections, mainVars, tasks, missed>>

\* A DB worker finishes a task of c: sendHttpResponse on the fd it was given.
RunDbTask(c) ==
    /\ tasks[c] > 0
    /\ tasks' = [tasks EXCEPT ![c] = @ - 1]
    /\ SendHttpResponse(fdTab[fdOf[c]])
    /\ UNCHANGED <<peer, sent, rx, shut, fdTab, interest, rdy>>
    /\ UNCHANGED <<channelVars, connVars, connections, mainVars, subVars, running, missed>>

----------------------------------------------------------------------------

Init ==
    /\ peer = [c \in Conns |-> "none"]
    /\ sent = 0
    /\ rx = [c \in Conns |-> 0]
    /\ txFull = [c \in Conns |-> FALSE]
    /\ shut = [c \in Conns |-> FALSE]
    /\ fdTab = [fd \in Fds |-> NoConn]
    /\ interest = [c \in Conns |-> {}]
    /\ rdy = [c \in Conns |-> FALSE]
    /\ obj = [c \in Conns |-> "none"]
    /\ fdOf = [c \in Conns |-> CHOOSE fd \in Fds : TRUE]
    /\ events = [c \in Conns |-> {}]
    /\ revent = [c \in Conns |-> {}]
    /\ inEpoll = [c \in Conns |-> FALSE]
    /\ input = [c \in Conns |-> 0]
    /\ wbuf = [c \in Conns |-> "empty"]
    /\ idle = [c \in Conns |-> FALSE]
    /\ connections = [fd \in Fds |-> NoConn]
    /\ mpc = "accept" /\ mconn = NoConn /\ todo = {}
    /\ batch = [r \in Subs |-> {}]
    /\ rpc = [r \in Subs |-> "loop"]
    /\ rcur = [r \in Subs |-> NoConn]
    /\ tasks = [c \in Conns |-> 0]
    /\ running = TRUE
    /\ missed = [c \in Conns |-> FALSE]

Client(c) ==
    \/ ClientConnect(c)
    \/ ClientSend(c)
    \/ \E how \in {"fin", "rst"} : ClientClose(c, how)
    \/ ClientDrain(c)

Main ==
    \/ \E c \in Conns, fd \in Fds : AcceptConnection(c, fd)
    \/ RegisterChannel
    \/ SetInEpoll
    \/ InsertConnection
    \/ AcceptFails
    \/ SweepIdle
    \/ \E fd \in Fds : SweepVisit(fd) \/ SweepShutdown(fd)
    \/ SweepDone

Sub(r) ==
    \/ ActiveChannels(r)
    \/ \E c \in Conns : HandleWrite(r, c) \/ HandleMessage(r, c)
    \/ NoRequest(r)
    \/ \E keepAlive, clear \in BOOLEAN : RespondInline(r, keepAlive, clear)
    \/ \E keepAlive \in BOOLEAN : DispatchDb(r, keepAlive)
    \/ DeleteConnection(r)
    \/ TouchFreed(r)

\* The process has died; nothing runs any more.
Dead == ~running /\ UNCHANGED vars

Next ==
    \/ /\ running
       /\ \/ \E c \in Conns : Client(c) \/ IdleElapses(c) \/ RunDbTask(c)
          \/ Main
          \/ \E r \in Subs : Sub(r)
    \/ Dead

Spec == Init /\ [][Next]_vars

\* Each thread keeps running, and a sub-reactor blocked on connMtx_ gets it: the
\* main reactor gives it up after every sweep, as a rule for the whole of an
\* epoll_wait, and while accept() fails with EMFILE for the next call of it
\* only, again and again.  A response is finite, and each write that there is
\* room for takes some of it: it is not written for ever.  Nothing is assumed of
\* the clients and the DB workers.
Fairness ==
    /\ WF_vars(running /\ Main)
    /\ \A r \in Subs : /\ WF_vars(running /\ Sub(r))
                       /\ SF_vars(running /\ DeleteConnection(r))
                       /\ SF_vars(running /\ \E c \in Conns : WriteRest(r, c))

FairSpec == Spec /\ Fairness

\* A connection that is not read from becomes idle.
TimePasses == \A c \in Conns : WF_vars(running /\ IdleElapses(c))

----------------------------------------------------------------------------
(* Properties.                                                             *)

\* Each variable of the threads, the kernel and the objects keeps its type; the
\* handlers never count more requests than have been read.
TypeOK ==
    /\ peer \in [Conns -> {"none", "open", "fin", "rst"}]
    /\ sent \in 0 .. MaxRequests
    /\ rx \in [Conns -> Nat]
    /\ txFull \in [Conns -> BOOLEAN]
    /\ shut \in [Conns -> BOOLEAN]
    /\ fdTab \in [Fds -> Conns \cup {NoConn}]
    /\ interest \in [Conns -> SUBSET {"IN", "OUT"}]
    /\ rdy \in [Conns -> BOOLEAN]
    /\ obj \in [Conns -> {"none", "alive", "freed"}]
    /\ fdOf \in [Conns -> Fds]
    /\ events \in [Conns -> SUBSET {"IN", "OUT"}]
    /\ revent \in [Conns -> SUBSET {"IN", "OUT"}]
    /\ inEpoll \in [Conns -> BOOLEAN]
    /\ input \in [Conns -> Nat]
    /\ wbuf \in [Conns -> {"empty", "keep", "close"}]
    /\ idle \in [Conns -> BOOLEAN]
    /\ connections \in [Fds -> Conns \cup {NoConn}]
    /\ mpc \in {"accept", "register", "registered", "insert", "sweep", "visit", "shutdown"}
    /\ mconn \in Conns \cup {NoConn}
    /\ todo \in SUBSET Fds
    /\ batch \in [Subs -> SUBSET Conns]
    /\ rpc \in [Subs -> {"loop", "process", "delete", "deleteAndLoop"}]
    /\ rcur \in [Subs -> Conns \cup {NoConn}]
    /\ tasks \in [Conns -> Nat]
    /\ running \in BOOLEAN
    /\ missed \in [Conns -> BOOLEAN]

\* Every entry of connections_ is a live connection filed under its own, still
\* open fd, and no live connection is out of reach of both connections_ and
\* the newConnection call that is setting it up: no fd leaks, and no fd is
\* reused while an object still believes it owns it.
FdOwnership ==
    /\ \A fd \in Fds : connections[fd] # NoConn =>
          obj[connections[fd]] = "alive" /\ fdOf[connections[fd]] = fd
    /\ \A c \in Conns : obj[c] = "alive" =>
          /\ fdTab[fdOf[c]] = c
          /\ connections[fdOf[c]] = c \/ mconn = c
    /\ \A fd \in Fds : fdTab[fd] # NoConn =>
          obj[fdTab[fd]] = "alive" /\ fdOf[fdTab[fd]] = fd

\* A Channel pointer held by epoll, by a list of active channels not handled
\* yet, or by a handler that is about to tear its connection down, always
\* belongs to a live connection, on the sub-reactor fd % N.
NoDanglingChannel ==
    /\ \A c \in Conns : interest[c] # {} \/ rdy[c] => obj[c] = "alive"
    /\ \A r \in Subs :
          /\ \A c \in batch[r] : obj[c] = "alive" /\ SubOf(c) = r
          /\ rpc[r] \in {"delete", "deleteAndLoop"} =>
                rcur[r] # NoConn /\ obj[rcur[r]] = "alive"

\* While sweepIdle walks connections_, no entry it has yet to visit is erased
\* under it.
SweepIteratorValid ==
    ConnMtxHeld => \A fd \in todo : connections[fd] # NoConn

\* The handler of c has been handed an event it has not acted on.
InFlight(c) ==
    \E r \in Subs : \/ c \in batch[r]
                    \/ rcur[r] = c /\ rpc[r] \in {"delete", "deleteAndLoop"}

\* Edge-triggered epoll loses nothing: whenever a registered socket has input,
\* has reached the end of its stream or has room for a response that waits, an
\* event is queued for it or its handler is on its way, although handleEvent
\* drops the read half of an event that also says EPOLLOUT.  The one exception
\* is a connection that was given up, at the end of its stream or over a write
\* that failed, by a tear-down that missed connections_.
NoLostWakeup ==
    \A c \in Conns :
        /\ interest[c] # {}
        /\ Readable(c) \/ (wbuf[c] # "empty" /\ Writable(c, txFull[c]))
        /\ ~(missed[c] /\ (Eof(c) \/ wbuf[c] # "empty"))
        => rdy[c] \/ InFlight(c)

\* A connection is destroyed only by the sub-reactor that owns it, from a
\* handler of that connection (sweepIdle: "Don't delete here (wrong thread)").
OwnerDestroys ==
    [][\A c \in Conns : obj[c] = "alive" /\ obj'[c] = "freed" =>
          rcur[SubOf(c)] = c /\ rpc[SubOf(c)] \in {"delete", "deleteAndLoop"}]_vars

\* What the safety of the lifetimes rests on: the connection newConnection is
\* setting up is alive and not filed yet, and a sub-reactor handles a
\* connection of its own, whose channel is not in the rest of its list.
ThreadsOwn ==
    /\ mpc \in {"register", "registered", "insert"} <=> mconn # NoConn
    /\ mconn # NoConn => obj[mconn] = "alive" /\ connections[fdOf[mconn]] = NoConn
    /\ \A r \in Subs :
          /\ rpc[r] = "loop" <=> rcur[r] = NoConn
          /\ rcur[r] # NoConn => /\ obj[rcur[r]] # "none" /\ SubOf(rcur[r]) = r
                                 /\ rcur[r] \notin batch[r]

\* The inductive invariant: ownership of objects and fds, of the pointers to
\* them, and of the map while the sweep walks it.
IInv == TypeOK /\ FdOwnership /\ NoDanglingChannel /\ SweepIteratorValid /\ ThreadsOwn

\* A client that closes or resets its side gets its fd released in the end,
\* whichever thread its events race with: a tear-down that missed connections_
\* is made good by the idle sweep.
ClosedPeerReclaimed ==
    TimePasses => \A c \in Conns :
        (Eof(c) /\ obj[c] = "alive") ~> (obj[c] = "freed" \/ ~running)

\* A request that has arrived on a connection is read in the end without the
\* help of the idle sweep, although an event with EPOLLOUT is spent on writing
\* (Channel::handleEvent); or its connection is torn down, or given up by a
\* tear-down that missed connections_.
RequestsRead ==
    \A c \in Conns :
        (rx[c] > 0 /\ obj[c] = "alive") ~>
            \/ rx[c] = 0 /\ obj[c] = "alive"
            \/ obj[c] = "freed" \/ missed[c] \/ ~running

\* A client in the backlog is accepted in the end, even when it finds all fds
\* taken: the sweep frees those of the clients that went quiet.
BacklogServed ==
    TimePasses => \A c \in Conns : (c \in Backlog) ~> (obj[c] # "none" \/ ~running)

----------------------------------------------------------------------------
(* What comments of the code claim and the code does not keep.             *)

\* Connection.cpp:749 and 758-760: a handler does not touch members of its
\* connection after the send that destroyed it.
NoTouchFreed == \A r \in Subs : rpc[r] = "process" => obj[rcur[r]] # "freed"

\* Connection.cpp:278: the fd a DB worker writes to is the client's, or closed.
ResponseReachesItsClient ==
    [][\A c \in Conns : tasks'[c] < tasks[c] => fdTab[fdOf[c]] \in {c, NoConn}]_vars

============================================================================
