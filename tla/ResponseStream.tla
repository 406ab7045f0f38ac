--------------------------- MODULE ResponseStream ---------------------------
(***************************************************************************)
(* The output of one connection: the write buffer and the file body its    *)
(* sub-reactor drains into the socket (sendResponse, sendFile,             *)
(* writeFromBuffer, handleWrite), and the DB workers, which write to the   *)
(* same socket without them (sendHttpResponse).                            *)
(*                                                                         *)
(* The bytes of a response are UnitsPerResponse units, <<i, j>> being the  *)
(* j-th of the response to the i-th request.  That an armed EPOLLOUT is    *)
(* reported once there is room is NoLostWakeup of module Reactor.  What    *)
(* happens to a handler or a worker after the connection is closed is      *)
(* Reactor's subject, too: here they stop.  A request is read whole; that  *)
(* the rest of a rejected one may come later is the subject of HttpFraming. *)
(***************************************************************************)
EXTENDS Integers, Sequences, SequencesExt

CONSTANTS
    SndBuf,            \* units the socket's send buffer holds
    MaxRequests,       \* bound: requests the client sends
    Pipelining         \* the client sends before it has read the last response

ASSUME ResponseStreamAssumption ==
    /\ SndBuf \in Nat
    /\ MaxRequests \in Nat

VARIABLES
    asked,             \* the requests sent: route and keepAlive of each
    wire,              \* the units written to the socket, in order
    room,              \* free space in the send buffer
    gone,              \* the client closed, or sweepIdle shut the socket down
    closed,            \* the Connection is destroyed
    nread,             \* requests read from the socket
    inputBuffer,       \* inputBuffer_: requests read and not framed yet
    writeBuf,          \* writeBuf_ from writeIndex_ on
    fileRest,          \* the part of the file body [fileOffset_, + fileRemaining_)
    closeAfterWrite,   \* closeAfterWrite_
    writing,           \* EPOLLOUT is armed
    pc,                \* the reactor: "loop", "process", "write", "direct"
    keep,              \* keepAlive of the request being processed
    staticFd,          \* the cached file: "unopened", "open", "absent"
    shrunk,            \* the file is shorter than the size cached with it
    direct             \* per request: what a direct write of its response has left

vars == <<asked, wire, room, gone, closed, nread, inputBuffer, writeBuf, fileRest,
          closeAfterWrite, writing, pc, keep, staticFd, shrunk, direct>>

socketVars == <<wire, room, gone, closed>>
bufferVars == <<writeBuf, fileRest, closeAfterWrite, writing>>
restVars == <<keep, staticFd, shrunk, direct>>

Ids == 1 .. MaxRequests

\* "inline" is getResponse or a 429, "file" is "/", "reject" a 400 or 413 of
\* processRequests, "bad" a DB route refused by its handler, "db" a DB route.
Routes == {"inline", "file", "reject", "bad", "db"}
Requests == {r \in [route : Routes, keepAlive : BOOLEAN] : r.route = "reject" => ~r.keepAlive}

\* The routes the reactor answers through the write buffer.
Buffered(i) == asked[i].route \in {"inline", "file", "reject"}

\* A response: its header, then a body of two units.
UnitsPerResponse == 3
Header(i) == <<<<i, 1>>>>
Body(i) == <<<<i, 2>>, <<i, 3>>>>
Response(i) == Header(i) \o Body(i)

\* The k-th unit of the responses put one after the other.
UnitAt(k) == <<1 + ((k - 1) \div UnitsPerResponse), 1 + ((k - 1) % UnitsPerResponse)>>

\* What the client is to read: the responses to its requests, whole and in order.
Expected == [k \in 1 .. UnitsPerResponse * Len(asked) |-> UnitAt(k)]

----------------------------------------------------------------------------
(* The client, the idle sweep, and write() and sendfile() (external).      *)

\* The client has read the last response to its end and was told to go on.
Caught == /\ Len(wire) = UnitsPerResponse * Len(asked) /\ room = SndBuf
          /\ asked # <<>> => Last(asked).keepAlive

\* The client sends a request; if it does not pipeline, one at a time.
ClientSend(r) ==
    /\ ~closed /\ ~gone
    /\ Len(asked) < MaxRequests
    /\ Pipelining \/ Caught
    /\ asked' = Append(asked, r)
    /\ UNCHANGED <<socketVars, bufferVars, nread, inputBuffer, pc, restVars>>

\* The client reads all there is.
ClientRead ==
    /\ room < SndBuf /\ ~gone
    /\ room' = SndBuf
    /\ UNCHANGED <<asked, wire, gone, closed, nread, inputBuffer, bufferVars, pc, restVars>>

\* The client closes or resets its side, or sweepIdle shuts the socket down: a
\* client that only reads counts as idle.
PeerGone ==
    /\ ~gone /\ ~closed
    /\ gone' = TRUE
    /\ UNCHANGED <<asked, wire, room, closed, nread, inputBuffer, bufferVars, pc, restVars>>

\* Somebody truncates the static file.
FileShrinks ==
    /\ staticFd = "open" /\ ~shrunk
    /\ shrunk' = TRUE
    /\ UNCHANGED <<asked, socketVars, nread, inputBuffer, bufferVars, pc, keep, staticFd, direct>>

\* One write() of the units s takes n of them.
Takes(s, n) ==
    /\ n \in 1 .. Len(s) /\ n <= room
    /\ wire' = wire \o SubSeq(s, 1, n)
    /\ room' = room - n

----------------------------------------------------------------------------
(* Connection, on the sub-reactor.                                         *)

\* deleteConnectionCallback_.
Close == closed' = TRUE /\ pc' = "loop"

\* A fault: EAGAIN does not arm EPOLLOUT.
EagainUnarmed ==
    /\ room = 0
    /\ pc' = IF keep THEN "process" ELSE "loop"
    /\ UNCHANGED <<socketVars, bufferVars>>

\* write() or sendfile() finds no room: EPOLLOUT finishes the rest.
Eagain ==
    /\ room = 0
    /\ writing' = TRUE
    /\ pc' = IF keep THEN "process" ELSE "loop"
    /\ UNCHANGED <<socketVars, writeBuf, fileRest, closeAfterWrite>>

\* write() or sendfile() fails because the peer is gone, or sendfile() finds the
\* end of the file before the size getStaticFd took.
WriteError(fromFile) ==
    /\ gone \/ (fromFile /\ shrunk)
    /\ Close
    /\ UNCHANGED <<wire, room, gone, bufferVars>>

\* One turn of the loops of writeFromBuffer, or its end.
WriteFromBuffer ==
    /\ pc = "write" /\ ~closed
    /\ \/ /\ writeBuf # <<>>
          /\ \/ \E n \in 1 .. Len(writeBuf) :
                   /\ Takes(writeBuf, n)
                   /\ writeBuf' = SubSeq(writeBuf, n + 1, Len(writeBuf))
                   /\ UNCHANGED <<gone, closed, fileRest, closeAfterWrite, writing, pc>>
             \/ Eagain
             \/ WriteError(FALSE)
       \/ /\ writeBuf = <<>> /\ fileRest # <<>>
          /\ \/ \E n \in 1 .. Len(fileRest) :
                   /\ Takes(fileRest, n)
                   /\ fileRest' = SubSeq(fileRest, n + 1, Len(fileRest))
                   /\ UNCHANGED <<gone, closed, writeBuf, closeAfterWrite, writing, pc>>
             \/ Eagain
             \/ WriteError(TRUE)
       \/ /\ writeBuf = <<>> /\ fileRest = <<>>
          /\ writing' = FALSE
          /\ IF closeAfterWrite
             THEN Close
             ELSE pc' = (IF keep THEN "process" ELSE "loop") /\ UNCHANGED closed
          /\ UNCHANGED <<wire, room, gone, writeBuf, fileRest, closeAfterWrite>>
    /\ UNCHANGED <<asked, nread, inputBuffer, restVars>>

\* handleWrite, called when epoll reports EPOLLOUT; keep = FALSE makes
\* writeFromBuffer return to the loop.
HandleWrite ==
    /\ pc = "loop" /\ ~closed
    /\ writing /\ room > 0
    /\ IF writeBuf # <<>> \/ fileRest # <<>>
       THEN pc' = "write" /\ keep' = FALSE /\ UNCHANGED writing
       ELSE writing' = FALSE /\ UNCHANGED <<pc, keep>>
    /\ UNCHANGED <<asked, socketVars, nread, inputBuffer, writeBuf, fileRest, closeAfterWrite, staticFd, shrunk, direct>>

\* handleMessage reads until EAGAIN, or tears the connection down.
HandleMessage ==
    /\ pc = "loop" /\ ~closed
    /\ gone \/ nread < Len(asked)
    /\ inputBuffer' = inputBuffer \o [k \in 1 .. Len(asked) - nread |-> nread + k]
    /\ nread' = Len(asked)
    /\ IF gone THEN Close ELSE pc' = "process" /\ UNCHANGED closed
    /\ UNCHANGED <<asked, wire, room, gone, bufferVars, restVars>>

\* processRequests finds no complete request and returns.
NoRequest ==
    /\ pc = "process" /\ inputBuffer = <<>>
    /\ pc' = "loop"
    /\ UNCHANGED <<asked, socketVars, nread, inputBuffer, bufferVars, restVars>>

\* sendResponse: the buffer is replaced, the file body of an earlier response is not.
SendResponse(i) ==
    /\ writeBuf' = Response(i)
    /\ closeAfterWrite' = ~asked[i].keepAlive
    /\ pc' = "write" /\ keep' = asked[i].keepAlive
    /\ UNCHANGED fileRest

\* A fault: fileFd_ and fileRemaining_ are not set.
SendFileHeaderOnly(i) ==
    /\ writeBuf' = Header(i)
    /\ closeAfterWrite' = ~asked[i].keepAlive
    /\ pc' = "write" /\ keep' = asked[i].keepAlive
    /\ UNCHANGED fileRest

\* A fault: the body goes into the buffer as well.
SendFileTwice(i) ==
    /\ writeBuf' = Response(i)
    /\ fileRest' = Body(i)
    /\ closeAfterWrite' = ~asked[i].keepAlive
    /\ pc' = "write" /\ keep' = asked[i].keepAlive

\* sendFile with the file open: its header in the buffer, its body from the file.
SendFile(i) ==
    /\ writeBuf' = Header(i)
    /\ fileRest' = Body(i)
    /\ closeAfterWrite' = ~asked[i].keepAlive
    /\ pc' = "write" /\ keep' = asked[i].keepAlive

\* getStaticFd opens the file on its first call, once and for all.
GetStaticFd(found) ==
    /\ staticFd = "unopened" \/ staticFd = (IF found THEN "open" ELSE "absent")
    /\ staticFd' = IF found THEN "open" ELSE "absent"

\* processRequests takes the next request: a rejected one clears the input, a
\* DB route submits a task or is refused by a direct write on this thread.
ProcessRequest ==
    /\ pc = "process" /\ inputBuffer # <<>>
    /\ LET i == Head(inputBuffer)
           route == asked[i].route
       IN  /\ inputBuffer' = IF route = "reject" THEN <<>> ELSE Tail(inputBuffer)
           /\ \/ /\ route \in {"inline", "reject"}
                 /\ SendResponse(i)
                 /\ UNCHANGED <<staticFd, direct>>
              \/ /\ route = "file"
                 /\ \E found \in BOOLEAN :
                       /\ GetStaticFd(found)
                       /\ IF found THEN SendFile(i) ELSE SendResponse(i)
                 /\ UNCHANGED direct
              \/ /\ route \in {"bad", "db"}
                 /\ direct' = [direct EXCEPT ![i] = Response(i)]
                 /\ keep' = asked[i].keepAlive
                 /\ pc' = IF route = "bad" THEN "direct"
                          ELSE IF asked[i].keepAlive THEN "process" ELSE "loop"
                 /\ UNCHANGED <<writeBuf, fileRest, closeAfterWrite, staticFd>>
    /\ UNCHANGED <<asked, socketVars, nread, writing, shrunk>>

----------------------------------------------------------------------------
(* sendHttpResponse, on a DB worker or, for a refused request, on the      *)
(* reactor: one write() at a time, given up at the first that takes nothing. *)

\* The loop of sendHttpResponse for request i has rest left to write.
GoOn(i, rest) ==
    /\ direct' = [direct EXCEPT ![i] = rest]
    /\ pc' = IF pc = "direct" /\ asked[i].route = "bad" /\ rest = <<>>
             THEN IF asked[i].keepAlive THEN "process" ELSE "loop"
             ELSE pc

\* A fault: a short write is taken for a full one.
SendHttpResponseOnce(i) ==
    /\ direct[i] # <<>>
    /\ \/ \E n \in 1 .. Len(direct[i]) : ~closed /\ Takes(direct[i], n)
       \/ (room = 0 \/ gone \/ closed) /\ UNCHANGED <<wire, room>>
    /\ GoOn(i, <<>>)
    /\ UNCHANGED <<asked, gone, closed, nread, inputBuffer, bufferVars, keep, staticFd, shrunk>>

SendHttpResponse(i) ==
    /\ direct[i] # <<>>
    /\ \/ \E n \in 1 .. Len(direct[i]) :
             /\ ~closed
             /\ Takes(direct[i], n)
             /\ GoOn(i, SubSeq(direct[i], n + 1, Len(direct[i])))
       \/ /\ room = 0 \/ gone \/ closed
          /\ GoOn(i, <<>>)
          /\ UNCHANGED <<wire, room>>
    /\ UNCHANGED <<asked, gone, closed, nread, inputBuffer, bufferVars, keep, staticFd, shrunk>>

----------------------------------------------------------------------------

Init ==
    /\ asked = <<>> /\ wire = <<>> /\ room = SndBuf
    /\ gone = FALSE /\ closed = FALSE
    /\ nread = 0 /\ inputBuffer = <<>>
    /\ writeBuf = <<>> /\ fileRest = <<>> /\ closeAfterWrite = FALSE /\ writing = FALSE
    /\ pc = "loop" /\ keep = FALSE
    /\ staticFd = "unopened" /\ shrunk = FALSE
    /\ direct = [i \in Ids |-> <<>>]

Reactor ==
    \/ HandleWrite
    \/ HandleMessage
    \/ NoRequest
    \/ ProcessRequest
    \/ WriteFromBuffer

Next ==
    \/ \E r \in Requests : ClientSend(r)
    \/ ClientRead
    \/ PeerGone
    \/ FileShrinks
    \/ Reactor
    \/ \E i \in Ids : SendHttpResponse(i)

Spec == Init /\ [][Next]_vars

\* The reactor and the DB workers keep running and the client keeps reading;
\* it need not send anything, and nobody has to close.
FairSpec ==
    /\ Spec
    /\ WF_vars(Reactor)
    /\ \A i \in Ids : WF_vars(SendHttpResponse(i))
    /\ WF_vars(ClientRead)

----------------------------------------------------------------------------
(* Properties.                                                             *)

\* What the client reads is, at every moment, the beginning of the responses to
\* its requests, whole and in their order: no unit of a response is lost,
\* repeated or mixed with another, whoever writes it and however write() and
\* sendfile() cut it up.
InOrder == IsPrefix(wire, Expected)

\* The connection promises no more than OrderedResponses does.
Promise == INSTANCE OrderedResponses
Implements == Promise!Spec

\* The server closes a connection whose client is still there only when every
\* unit of the last response has been written (closeAfterWrite_), unless the file
\* it was sending is no longer as long as the cached size says.
ClosesWhenSent ==
    [][~closed /\ closed' /\ ~gone /\ ~shrunk => wire = Expected]_vars

\* sendHttpResponse, which gives up at EAGAIN, drops the rest of a response only
\* when what it has written of it fills the whole send buffer, unless the client or
\* the connection is gone: a response that fits is never cut short, because all
\* that was written before it has been read, and nobody else is writing.
CutOnlyWhenFull ==
    [][\A i \in Ids :
          direct[i] # <<>> /\ direct'[i] = <<>> /\ ~gone /\ ~closed =>
              \/ Len(wire') >= UnitsPerResponse * i
              \/ UnitsPerResponse - Len(direct[i]) >= SndBuf]_vars

\* A request the reactor answers through its write buffer is answered in full in
\* the end, and the connection closed if that was asked for, as long as the
\* client goes on reading: EAGAIN at any unit is picked up by EPOLLOUT.
BufferedAnswered ==
    \A i \in Ids :
        (i <= Len(asked) /\ Buffered(i)) ~>
            (closed \/ /\ i <= Len(asked) /\ asked[i].keepAlive
                        /\ Len(wire) >= UnitsPerResponse * i)
=============================================================================
