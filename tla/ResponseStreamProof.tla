------------------------ MODULE ResponseStreamProof ------------------------
(***************************************************************************)
(* A client that does not pipeline is given the responses to its requests, *)
(* whole and in order, for any number of requests and any send buffer.     *)
(***************************************************************************)
EXTENDS ResponseStream, SequenceTheorems, TLAPS

USE ResponseStreamAssumption

----------------------------------------------------------------------------
(* The types, with or without pipelining.                                  *)

Units == Ids \X (1 .. UnitsPerResponse)

\* Every request in the input buffer is one that was read.
Typed ==
    /\ asked \in Seq(Requests) /\ Len(asked) <= MaxRequests
    /\ wire \in Seq(Units) /\ writeBuf \in Seq(Units) /\ fileRest \in Seq(Units)
    /\ direct \in [Ids -> Seq(Units)]
    /\ room \in 0 .. SndBuf
    /\ inputBuffer \in Seq(1 .. nread) /\ nread \in 0 .. Len(asked)
    /\ pc \in {"loop", "process", "write", "direct"}
    /\ closed \in BOOLEAN /\ keep \in BOOLEAN /\ closeAfterWrite \in BOOLEAN

----------------------------------------------------------------------------
(* Where the units the client is still owed are.                           *)

N == Len(asked)
Sent == Len(wire)

\* The units of s are the ones that come after the first n.
From(n, s) == \A j \in 1 .. Len(s) : s[j] = UnitAt(n + j)

\* What is on the wire belongs there; all responses but the last are complete.
Prefix ==
    /\ From(0, wire)
    /\ Sent <= UnitsPerResponse * N
    /\ N > 0 => UnitsPerResponse * (N - 1) <= Sent

NoBuffer == writeBuf = <<>> /\ fileRest = <<>>
NoDirect == \A i \in Ids : direct[i] = <<>>

\* The last request has not been taken out of the input yet.  The reactor may
\* still have to notice that the response before it is complete.
Unanswered ==
    /\ N > 0 /\ Sent = UnitsPerResponse * (N - 1)
    /\ NoBuffer /\ NoDirect
    /\ \/ nread = N - 1 /\ inputBuffer = <<>> /\ pc \in {"loop", "process", "write"}
       \/ nread = N /\ inputBuffer = <<N>> /\ pc = "process"
    /\ pc = "write" => ~closeAfterWrite

AllTaken == nread = N /\ inputBuffer = <<>>

\* The reactor has the rest of the last response, or there is none.
InBuffer ==
    /\ AllTaken /\ NoDirect
    /\ pc \in {"loop", "process", "write"}
    /\ From(Sent, writeBuf) /\ From(Sent + Len(writeBuf), fileRest)
    /\ Sent + Len(writeBuf) + Len(fileRest) = UnitsPerResponse * N
    /\ pc = "write" \/ ~NoBuffer => N > 0 /\ closeAfterWrite = ~asked[N].keepAlive

\* A direct write has it.
InDirect ==
    /\ AllTaken /\ NoBuffer
    /\ pc \in {"loop", "process", "direct"}
    /\ N > 0 /\ direct[N] # <<>> /\ \A i \in Ids \ {N} : direct[i] = <<>>
    /\ From(Sent, direct[N]) /\ Sent + Len(direct[N]) = UnitsPerResponse * N
    /\ pc = "direct" => asked[N].route = "bad"

\* A direct write gave up.
Dropped ==
    /\ AllTaken /\ NoBuffer /\ NoDirect
    /\ pc \in {"loop", "process"}
    /\ Sent < UnitsPerResponse * N

OneSource == closed \/ Unanswered \/ InBuffer \/ InDirect \/ Dropped

IInv == Typed /\ Prefix /\ OneSource

----------------------------------------------------------------------------
(* Sequences: what a write takes, what it leaves, and what it appends to.  *)

\* The first n elements.
LEMMA Taken ==
    ASSUME NEW S, NEW s \in Seq(S), NEW n \in 1 .. Len(s)
    PROVE  /\ SubSeq(s, 1, n) \in Seq(S) /\ Len(SubSeq(s, 1, n)) = n
           /\ \A j \in 1 .. n : SubSeq(s, 1, n)[j] = s[j]
<1>1. Len(s) \in Nat /\ \A j \in 1 .. Len(s) : s[j] \in S
  OBVIOUS
<1>2. /\ SubSeq(s, 1, n) \in Seq(S) /\ Len(SubSeq(s, 1, n)) = IF 1 <= n THEN n - 1 + 1 ELSE 0
      /\ \A j \in 1 .. n - 1 + 1 : SubSeq(s, 1, n)[j] = s[1 + j - 1]
  BY <1>1, SubSeqProperties
<1> QED BY <1>1, <1>2

\* The others.
LEMMA Left ==
    ASSUME NEW S, NEW s \in Seq(S), NEW n \in 1 .. Len(s)
    PROVE  /\ SubSeq(s, n + 1, Len(s)) \in Seq(S)
           /\ Len(SubSeq(s, n + 1, Len(s))) = Len(s) - n
           /\ \A j \in 1 .. Len(s) - n : SubSeq(s, n + 1, Len(s))[j] = s[n + j]
<1>1. Len(s) \in Nat /\ \A j \in 1 .. Len(s) : s[j] \in S
  OBVIOUS
<1>2. /\ SubSeq(s, n + 1, Len(s)) \in Seq(S)
      /\ Len(SubSeq(s, n + 1, Len(s))) = IF n + 1 <= Len(s) THEN Len(s) - (n + 1) + 1 ELSE 0
      /\ \A j \in 1 .. Len(s) - (n + 1) + 1 : SubSeq(s, n + 1, Len(s))[j] = s[n + 1 + j - 1]
  BY <1>1, SubSeqProperties
<1>3. Len(SubSeq(s, n + 1, Len(s))) = Len(s) - n
  BY <1>1, <1>2
<1>4. Len(s) - (n + 1) + 1 = Len(s) - n /\ \A j \in 1 .. Len(s) - n : n + 1 + j - 1 = n + j
  BY <1>1
<1> QED BY <1>2, <1>3, <1>4, Zenon

\* One sequence after the other.
LEMMA Joined ==
    ASSUME NEW S, NEW s \in Seq(S), NEW t \in Seq(S)
    PROVE  /\ s \o t \in Seq(S) /\ Len(s \o t) = Len(s) + Len(t)
           /\ \A j \in 1 .. Len(s) : (s \o t)[j] = s[j]
           /\ \A j \in 1 .. Len(t) : (s \o t)[Len(s) + j] = t[j]
<1>1. Len(s) \in Nat /\ Len(t) \in Nat
  OBVIOUS
<1>2. /\ s \o t \in Seq(S) /\ Len(s \o t) = Len(s) + Len(t)
      /\ \A i \in 1 .. Len(s) + Len(t) : (s \o t)[i] = IF i <= Len(s) THEN s[i] ELSE t[i - Len(s)]
  BY ConcatProperties
<1>3. ASSUME NEW j \in 1 .. Len(s) PROVE (s \o t)[j] = s[j]
  BY <1>1, <1>2
<1>4. ASSUME NEW j \in 1 .. Len(t) PROVE (s \o t)[Len(s) + j] = t[j]
  <2>1. Len(s) + j \in 1 .. Len(s) + Len(t) /\ ~(Len(s) + j <= Len(s)) /\ (Len(s) + j) - Len(s) = j
    BY <1>1
  <2> QED BY <1>2, <2>1
<1> QED BY <1>2, <1>3, <1>4

\* The units of a response, and their places among all.
LEMMA ResponseUnits ==
    ASSUME NEW i \in Ids
    PROVE  /\ Response(i) \in Seq(Units) /\ Len(Response(i)) = 3
           /\ Header(i) \in Seq(Units) /\ Len(Header(i)) = 1
           /\ Body(i) \in Seq(Units) /\ Len(Body(i)) = 2
           /\ From(UnitsPerResponse * (i - 1), Response(i))
           /\ From(UnitsPerResponse * (i - 1), Header(i))
           /\ From(UnitsPerResponse * (i - 1) + 1, Body(i))
<1>1. <<i, 1>> \in Units /\ <<i, 2>> \in Units /\ <<i, 3>> \in Units
  BY DEF Units, UnitsPerResponse
<1>2. Header(i) \in Seq(Units) /\ Len(Header(i)) = 1 /\ Header(i)[1] = <<i, 1>>
  BY <1>1 DEF Header
<1>3. /\ Body(i) \in Seq(Units) /\ Len(Body(i)) = 2
      /\ Body(i)[1] = <<i, 2>> /\ Body(i)[2] = <<i, 3>>
  BY <1>1 DEF Body
<1>4. /\ Response(i) \in Seq(Units) /\ Len(Response(i)) = 3
      /\ Response(i)[1] = <<i, 1>> /\ Response(i)[2] = <<i, 2>> /\ Response(i)[3] = <<i, 3>>
  <2>1. /\ Response(i) \in Seq(Units) /\ Len(Response(i)) = 1 + 2
        /\ \A j \in 1 .. 1 : Response(i)[j] = Header(i)[j]
        /\ \A j \in 1 .. 2 : Response(i)[1 + j] = Body(i)[j]
    BY <1>2, <1>3, Joined DEF Response
  <2> QED BY <1>2, <1>3, <2>1
<1>5. \A j \in 1 .. 3 : UnitAt(3 * (i - 1) + j) = <<i, j>>
  <2> SUFFICES ASSUME NEW j \in 1 .. 3 PROVE UnitAt(3 * (i - 1) + j) = <<i, j>>
    OBVIOUS
  <2>1. i \in Int
    BY DEF Ids
  <2>2. (3 * (i - 1) + j - 1) \div 3 = i - 1 /\ (3 * (i - 1) + j - 1) % 3 = j - 1
    BY <2>1
  <2> QED BY <2>1, <2>2 DEF UnitAt, UnitsPerResponse
<1>6. From(UnitsPerResponse * (i - 1), Response(i))
  BY <1>4, <1>5 DEF From, UnitsPerResponse
<1>7. From(UnitsPerResponse * (i - 1), Header(i))
  BY <1>2, <1>5 DEF From, UnitsPerResponse
<1>8. From(UnitsPerResponse * (i - 1) + 1, Body(i))
  <2>1. i \in Int /\ 3 * (i - 1) + 1 + 1 = 3 * (i - 1) + 2 /\ 3 * (i - 1) + 1 + 2 = 3 * (i - 1) + 3
    BY DEF Ids
  <2>2. UnitAt(3 * (i - 1) + 2) = <<i, 2>> /\ UnitAt(3 * (i - 1) + 3) = <<i, 3>>
    BY <1>5
  <2>3. \A j \in 1 .. 2 : Body(i)[j] = UnitAt(3 * (i - 1) + 1 + j)
    <3>1. \A j \in 1 .. 2 : j = 1 \/ j = 2
      OBVIOUS
    <3> QED BY <1>3, <2>1, <2>2, <3>1, Zenon
  <2> QED BY <1>3, <2>3 DEF From, UnitsPerResponse
<1> QED BY <1>2, <1>3, <1>4, <1>6, <1>7, <1>8

\* Units that come next may be appended.
LEMMA FromJoined ==
    ASSUME NEW w \in Seq(Units), NEW t \in Seq(Units), From(0, w), From(Len(w), t)
    PROVE  /\ w \o t \in Seq(Units) /\ Len(w \o t) = Len(w) + Len(t)
           /\ From(0, w \o t)
<1>1. Len(w) \in Nat /\ Len(t) \in Nat
  OBVIOUS
<1>2. /\ w \o t \in Seq(Units) /\ Len(w \o t) = Len(w) + Len(t)
      /\ \A k \in 1 .. Len(w) + Len(t) : (w \o t)[k] = IF k <= Len(w) THEN w[k] ELSE t[k - Len(w)]
  BY ConcatProperties
<1>3. ASSUME NEW k \in 1 .. Len(w) + Len(t) PROVE (w \o t)[k] = UnitAt(0 + k)
  <2>1. CASE k <= Len(w)
    <3>1. k \in 1 .. Len(w)
      BY <1>1, <2>1
    <3> QED BY <1>2, <2>1, <3>1 DEF From
  <2>2. CASE ~(k <= Len(w))
    <3> DEFINE j == k - Len(w)
    <3>1. j \in 1 .. Len(t) /\ 0 + k = Len(w) + j
      BY <1>1, <2>2
    <3>2. (w \o t)[k] = t[j]
      BY <1>2, <2>2
    <3> HIDE DEF j
    <3>3. t[j] = UnitAt(Len(w) + j)
      BY <3>1 DEF From
    <3> QED BY <3>1, <3>2, <3>3
  <2> QED BY <2>1, <2>2
<1> QED BY <1>2, <1>3 DEF From

\* A write takes the next units and leaves the ones after them.
LEMMA Written ==
    ASSUME NEW w \in Seq(Units), NEW s \in Seq(Units), NEW n \in 1 .. Len(s),
           From(0, w), From(Len(w), s)
    PROVE  /\ w \o SubSeq(s, 1, n) \in Seq(Units)
           /\ Len(w \o SubSeq(s, 1, n)) = Len(w) + n
           /\ From(0, w \o SubSeq(s, 1, n))
           /\ SubSeq(s, n + 1, Len(s)) \in Seq(Units)
           /\ Len(SubSeq(s, n + 1, Len(s))) = Len(s) - n
           /\ From(Len(w) + n, SubSeq(s, n + 1, Len(s)))
<1>1. Len(w) \in Nat /\ Len(s) \in Nat /\ n \in Nat
  OBVIOUS
<1>2. PICK t \in Seq(Units) :
          t = SubSeq(s, 1, n) /\ Len(t) = n /\ \A j \in 1 .. n : t[j] = s[j]
  BY Taken, ZenonT(40)
<1> DEFINE u == SubSeq(s, n + 1, Len(s))
<1>3. u \in Seq(Units) /\ Len(u) = Len(s) - n /\ \A j \in 1 .. Len(s) - n : u[j] = s[n + j]
  BY Left
<1> HIDE DEF u
<1>4. From(Len(w), t)
  BY <1>1, <1>2 DEF From
<1>5. w \o t \in Seq(Units) /\ Len(w \o t) = Len(w) + n /\ From(0, w \o t)
  <2>1. Len(t) = n
    BY <1>2
  <2>2. w \o t \in Seq(Units) /\ Len(w \o t) = Len(w) + Len(t) /\ From(0, w \o t)
    BY <1>4, FromJoined
  <2> QED BY <2>1, <2>2
<1>6. ASSUME NEW j \in 1 .. Len(s) - n PROVE u[j] = UnitAt(Len(w) + n + j)
  <2>1. n + j \in 1 .. Len(s) /\ Len(w) + (n + j) = Len(w) + n + j
    BY <1>1
  <2>2. s[n + j] = UnitAt(Len(w) + (n + j))
    BY <2>1 DEF From
  <2> QED BY <1>3, <2>1, <2>2
<1>7. From(Len(w) + n, u)
  BY <1>3, <1>6 DEF From
<1> QED BY <1>2, <1>3, <1>5, <1>7 DEF u

----------------------------------------------------------------------------
(* Types.                                                                  *)

\* The sequence a partial write leaves, and the wire it leaves, are units.
LEMMA TakesTyped ==
    ASSUME Typed, NEW s \in Seq(Units), NEW n \in 1 .. Len(s), Takes(s, n)
    PROVE  /\ wire' \in Seq(Units) /\ room' \in 0 .. SndBuf
           /\ SubSeq(s, n + 1, Len(s)) \in Seq(Units)
<1>1. SubSeq(s, 1, n) \in Seq(Units) /\ SubSeq(s, n + 1, Len(s)) \in Seq(Units)
  BY Taken, Left
<1>2. wire \in Seq(Units) /\ room \in 0 .. SndBuf
  BY DEF Typed
<1>3. wire \o SubSeq(s, 1, n) \in Seq(Units)
  BY <1>1, <1>2, Joined
<1>4. room' \in 0 .. SndBuf
  BY <1>2 DEF Takes
<1> QED BY <1>1, <1>3, <1>4 DEF Takes

\* The client, the sweep and the file.
LEMMA OutsideTyped ==
    ASSUME Typed,
           (\E r \in Requests : ClientSend(r)) \/ ClientRead \/ PeerGone \/ FileShrinks
    PROVE  Typed'
<1>1. CASE \E r \in Requests : ClientSend(r)
  <2>1. PICK r \in Requests : ClientSend(r)
    BY <1>1
  <2>2. asked \in Seq(Requests) /\ Len(asked) \in Nat /\ Len(asked) < MaxRequests
    BY <2>1 DEF Typed, ClientSend
  <2>3. asked' \in Seq(Requests) /\ Len(asked') = Len(asked) + 1
    BY <2>1, <2>2, AppendProperties DEF ClientSend
  <2>4. Len(asked') <= MaxRequests /\ nread' \in 0 .. Len(asked')
    BY <2>1, <2>2, <2>3 DEF Typed, ClientSend, bufferVars
  <2> QED BY <2>1, <2>3, <2>4 DEF Typed, ClientSend, socketVars, bufferVars, restVars
<1>2. CASE ClientRead
  BY <1>2 DEF Typed, ClientRead, bufferVars, restVars
<1>3. CASE PeerGone
  BY <1>3 DEF Typed, PeerGone, bufferVars, restVars
<1>4. CASE FileShrinks
  BY <1>4 DEF Typed, FileShrinks, socketVars, bufferVars
<1> QED BY <1>1, <1>2, <1>3, <1>4

\* writeFromBuffer.
LEMMA WriteTyped ==
    ASSUME Typed, WriteFromBuffer
    PROVE  Typed'
<1> USE DEF WriteFromBuffer, restVars
<1>1. CASE writeBuf # <<>> /\ \E n \in 1 .. Len(writeBuf) :
               /\ Takes(writeBuf, n)
               /\ writeBuf' = SubSeq(writeBuf, n + 1, Len(writeBuf))
               /\ UNCHANGED <<gone, closed, fileRest, closeAfterWrite, writing, pc>>
  <2>1. writeBuf \in Seq(Units)
    BY DEF Typed
  <2>2. wire' \in Seq(Units) /\ room' \in 0 .. SndBuf /\ writeBuf' \in Seq(Units)
    BY <1>1, <2>1, TakesTyped
  <2> QED BY <1>1, <2>2 DEF Typed
<1>2. CASE fileRest # <<>> /\ \E n \in 1 .. Len(fileRest) :
               /\ Takes(fileRest, n)
               /\ fileRest' = SubSeq(fileRest, n + 1, Len(fileRest))
               /\ UNCHANGED <<gone, closed, writeBuf, closeAfterWrite, writing, pc>>
  <2>1. fileRest \in Seq(Units)
    BY DEF Typed
  <2>2. wire' \in Seq(Units) /\ room' \in 0 .. SndBuf /\ fileRest' \in Seq(Units)
    BY <1>2, <2>1, TakesTyped
  <2> QED BY <1>2, <2>2 DEF Typed
<1>3. CASE Eagain
  BY <1>3 DEF Typed, Eagain, socketVars
<1>4. CASE WriteError(FALSE) \/ WriteError(TRUE)
  BY <1>4, Zenon DEF Typed, WriteError, Close, bufferVars
<1>5. CASE /\ writeBuf = <<>> /\ fileRest = <<>>
           /\ writing' = FALSE
           /\ IF closeAfterWrite
              THEN Close
              ELSE pc' = (IF keep THEN "process" ELSE "loop") /\ UNCHANGED closed
           /\ UNCHANGED <<wire, room, gone, writeBuf, fileRest, closeAfterWrite>>
  BY <1>5, Zenon DEF Typed, Close
<1> QED BY <1>1, <1>2, <1>3, <1>4, <1>5, Zenon

\* handleWrite, handleMessage and processRequests.
LEMMA ReadTyped ==
    ASSUME Typed, HandleWrite \/ HandleMessage \/ NoRequest
    PROVE  Typed'
<1>1. CASE HandleWrite
  BY <1>1, Zenon DEF Typed, HandleWrite, socketVars
<1>2. CASE HandleMessage
  <2>1. inputBuffer \in Seq(1 .. nread) /\ nread \in 0 .. Len(asked) /\ Len(asked) \in Nat
    BY DEF Typed
  <2>2. inputBuffer \in Seq(1 .. Len(asked))
    BY <2>1
  <2>3. [k \in 1 .. Len(asked) - nread |-> nread + k] \in Seq(1 .. Len(asked))
    BY <2>1
  <2>4. inputBuffer' \in Seq(1 .. nread') /\ nread' \in 0 .. Len(asked')
    BY <1>2, <2>1, <2>2, <2>3, Joined DEF HandleMessage
  <2>5. pc' \in {"loop", "process"} /\ closed' \in BOOLEAN
    BY <1>2, Zenon DEF HandleMessage, Close, Typed
  <2> QED BY <1>2, <2>4, <2>5 DEF Typed, HandleMessage, bufferVars, restVars
<1>3. CASE NoRequest
  BY <1>3 DEF Typed, NoRequest, socketVars, bufferVars, restVars
<1> QED BY <1>1, <1>2, <1>3

\* The request processRequests takes is one that was asked.
LEMMA NextRequest ==
    ASSUME Typed, inputBuffer # <<>>
    PROVE  /\ Head(inputBuffer) \in 1 .. Len(asked) /\ Head(inputBuffer) \in Ids
           /\ asked[Head(inputBuffer)] \in Requests
           /\ asked[Head(inputBuffer)].keepAlive \in BOOLEAN
           /\ Tail(inputBuffer) \in Seq(1 .. nread)
<1>1. inputBuffer \in Seq(1 .. nread) /\ nread \in 0 .. Len(asked) /\ asked \in Seq(Requests)
      /\ Len(asked) <= MaxRequests /\ Len(asked) \in Nat
  BY DEF Typed
<1>2. Head(inputBuffer) \in 1 .. nread /\ Tail(inputBuffer) \in Seq(1 .. nread)
  BY <1>1, HeadTailProperties
<1>3. Head(inputBuffer) \in 1 .. Len(asked) /\ Head(inputBuffer) \in Ids
  BY <1>1, <1>2 DEF Ids
<1>4. asked[Head(inputBuffer)] \in Requests
  BY <1>1, <1>3
<1>5. asked[Head(inputBuffer)].keepAlive \in BOOLEAN
  BY <1>4 DEF Requests
<1> QED BY <1>2, <1>3, <1>4, <1>5

\* processRequests takes a request and hands its response to whoever sends it.
LEMMA ProcessTyped ==
    ASSUME Typed, ProcessRequest
    PROVE  Typed'
<1> DEFINE i == Head(inputBuffer)
<1>1. i \in Ids /\ asked[i].keepAlive \in BOOLEAN /\ Tail(inputBuffer) \in Seq(1 .. nread)
  BY NextRequest DEF ProcessRequest
<1>2. Response(i) \in Seq(Units) /\ Header(i) \in Seq(Units) /\ Body(i) \in Seq(Units)
  BY <1>1, ResponseUnits
<1>3. inputBuffer' \in Seq(1 .. nread')
  <2>1. <<>> \in Seq(1 .. nread)
    OBVIOUS
  <2> QED BY <1>1, <2>1, Zenon DEF ProcessRequest
<1>4. /\ writeBuf' \in Seq(Units) /\ fileRest' \in Seq(Units)
      /\ closeAfterWrite' \in BOOLEAN /\ keep' \in BOOLEAN
      /\ pc' \in {"loop", "process", "write", "direct"}
  <2>1. CASE SendResponse(i)
    BY <1>1, <1>2, <2>1 DEF SendResponse, Typed
  <2>2. CASE SendFile(i)
    BY <1>1, <1>2, <2>2 DEF SendFile, Typed
  <2>3. CASE /\ keep' = asked[i].keepAlive
             /\ pc' = IF asked[i].route = "bad" THEN "direct"
                      ELSE IF asked[i].keepAlive THEN "process" ELSE "loop"
             /\ UNCHANGED <<writeBuf, fileRest, closeAfterWrite, staticFd>>
    BY <1>1, <2>3 DEF Typed
  <2> QED BY <2>1, <2>2, <2>3 DEF ProcessRequest
<1>5. direct' \in [Ids -> Seq(Units)]
  <2>1. direct \in [Ids -> Seq(Units)]
    BY DEF Typed
  <2>2. direct' = direct \/ direct' = [direct EXCEPT ![i] = Response(i)]
    BY DEF ProcessRequest
  <2> QED BY <1>1, <1>2, <2>1, <2>2, SMTT(30)
<1> QED BY <1>3, <1>4, <1>5 DEF Typed, ProcessRequest, socketVars

\* sendHttpResponse.
LEMMA DirectTyped ==
    ASSUME Typed, NEW i \in Ids, SendHttpResponse(i)
    PROVE  Typed'
<1>1. direct \in [Ids -> Seq(Units)] /\ direct[i] \in Seq(Units)
  BY DEF Typed
<1>2. PICK rest \in Seq(Units) : GoOn(i, rest) /\ wire' \in Seq(Units) /\ room' \in 0 .. SndBuf
  <2>1. CASE \E n \in 1 .. Len(direct[i]) :
                /\ ~closed
                /\ Takes(direct[i], n)
                /\ GoOn(i, SubSeq(direct[i], n + 1, Len(direct[i])))
    BY <1>1, <2>1, TakesTyped, Zenon
  <2>2. CASE GoOn(i, <<>>) /\ UNCHANGED <<wire, room>>
    <3>1. <<>> \in Seq(Units)
      OBVIOUS
    <3> QED BY <2>2, <3>1, Zenon DEF Typed
  <2> QED BY <2>1, <2>2 DEF SendHttpResponse
<1>3. direct' \in [Ids -> Seq(Units)]
  BY <1>1, <1>2 DEF GoOn
<1>4. pc' \in {"loop", "process", "write", "direct"}
  BY <1>2 DEF GoOn, Typed
<1> QED BY <1>2, <1>3, <1>4 DEF Typed, SendHttpResponse, bufferVars

\* All steps keep the types.
LEMMA NextTyped ==
    ASSUME Typed, [Next]_vars
    PROVE  Typed'
<1>1. CASE UNCHANGED vars
  BY <1>1 DEF Typed, vars
<1>2. CASE Next
  BY <1>2, OutsideTyped, WriteTyped, ReadTyped, ProcessTyped, DirectTyped DEF Next, Reactor
<1> QED BY <1>1, <1>2

\* Nothing has been asked.
LEMMA InitTyped == Init => Typed
<1> SUFFICES ASSUME Init PROVE Typed
  OBVIOUS
<1>1. <<>> \in Seq(Requests) /\ <<>> \in Seq(Units) /\ Len(<<>>) = 0 /\ <<>> \in Seq(1 .. 0)
  OBVIOUS
<1>2. direct \in [Ids -> Seq(Units)]
  BY <1>1 DEF Init
<1>3. Len(asked) <= MaxRequests /\ nread \in 0 .. Len(asked) /\ room \in 0 .. SndBuf
  BY <1>1 DEF Init
<1> QED BY <1>1, <1>2, <1>3, Zenon DEF Init, Typed

----------------------------------------------------------------------------
(* One step of a connection whose client does not pipeline.                *)

\* What the invariant says of an open connection, with the types SMT needs.
LEMMA Facts ==
    ASSUME IInv
    PROVE  /\ N \in Nat /\ Sent \in Nat /\ N <= MaxRequests
           /\ Len(writeBuf) \in Nat /\ Len(fileRest) \in Nat
           /\ N > 0 => N \in Ids
           /\ \A i \in Ids : direct[i] \in Seq(Units) /\ Len(direct[i]) \in Nat
  BY DEF IInv, Typed, N, Sent, Ids

\* Steps that touch nothing the invariant is about: the client reads or goes
\* away, the file is truncated.
LEMMA ElsewhereStep ==
    ASSUME IInv, ClientRead \/ PeerGone \/ FileShrinks
    PROVE  Prefix' /\ OneSource'
<1>1. UNCHANGED <<asked, wire, closed, nread, inputBuffer, writeBuf, fileRest,
                  closeAfterWrite, pc, direct>>
  BY DEF ClientRead, PeerGone, FileShrinks, socketVars, bufferVars, restVars
<1>2. Prefix'
  BY <1>1 DEF IInv, Prefix, N, Sent
<1>3. OneSource'
  BY <1>1 DEF IInv, OneSource, Unanswered, InBuffer, InDirect, Dropped, AllTaken, NoBuffer,
              NoDirect, N, Sent
<1> QED BY <1>2, <1>3

\* A request is sent only when the one before it has been answered in full.
LEMMA ClientSendStep ==
    ASSUME IInv, ~Pipelining, NEW r \in Requests, ClientSend(r)
    PROVE  Prefix' /\ OneSource'
<1>1. N' = N + 1 /\ Sent' = Sent
  BY AppendProperties DEF IInv, Typed, ClientSend, N, Sent, socketVars
<1>2. Sent = 3 * N /\ ~closed /\ (N > 0 => asked[N].keepAlive)
  <2>1. asked \in Seq(Requests) /\ (N > 0 => asked # <<>>)
    BY DEF IInv, Typed, N
  <2> QED BY <2>1 DEF ClientSend, Caught, Sent, N, UnitsPerResponse, Last
<1>3. ~Unanswered /\ ~Dropped
  BY <1>2, Facts DEF Unanswered, Dropped, UnitsPerResponse
<1>4. ~InDirect
  <2> SUFFICES ASSUME InDirect PROVE FALSE
    OBVIOUS
  <2>1. N \in Ids /\ direct[N] \in Seq(Units) /\ direct[N] # <<>> /\ Len(direct[N]) \in Nat
    BY Facts DEF InDirect
  <2>2. Len(direct[N]) # 0
    BY <2>1
  <2> QED BY <1>2, <2>1, <2>2, Facts DEF InDirect, UnitsPerResponse
<1>5. InBuffer
  BY <1>2, <1>3, <1>4 DEF IInv, OneSource
<1>6. NoBuffer
  <2>1. Len(writeBuf) = 0 /\ Len(fileRest) = 0
    BY <1>2, <1>5, Facts DEF InBuffer, UnitsPerResponse
  <2> QED BY <2>1 DEF IInv, Typed, NoBuffer
<1>7. Prefix'
  BY <1>1, <1>2, Facts DEF IInv, Prefix, ClientSend, socketVars, UnitsPerResponse
<1>8. Unanswered'
  <2>1. N' > 0 /\ Sent' = UnitsPerResponse * (N' - 1) /\ nread' = N' - 1
    <3>1. nread' = N
      BY <1>5 DEF ClientSend, InBuffer, AllTaken
    <3> QED BY <1>1, <1>2, <3>1, Facts DEF UnitsPerResponse
  <2>2. NoBuffer' /\ NoDirect'
    BY <1>5, <1>6 DEF InBuffer, NoBuffer, NoDirect, ClientSend, bufferVars, restVars
  <2>3. inputBuffer' = <<>> /\ pc' \in {"loop", "process", "write"}
    BY <1>5 DEF InBuffer, AllTaken, ClientSend
  <2>4. pc' = "write" => ~closeAfterWrite'
    BY <1>2, <1>5, Zenon DEF InBuffer, ClientSend, bufferVars
  <2> QED BY <2>1, <2>2, <2>3, <2>4 DEF Unanswered
<1> QED BY <1>7, <1>8 DEF OneSource

\* handleMessage reads the request that was asked, or tears down.
LEMMA HandleMessageStep ==
    ASSUME IInv, HandleMessage
    PROVE  Prefix' /\ OneSource'
<1>1. Prefix'
  BY DEF IInv, Prefix, HandleMessage, N, Sent
<1>2. CASE gone
  BY <1>1, <1>2 DEF HandleMessage, Close, OneSource
<1>3. CASE ~gone
  <2>1. nread < N /\ ~closed /\ pc = "loop" /\ pc' = "process"
    BY <1>3 DEF HandleMessage, N
  <2>2. Unanswered /\ nread = N - 1 /\ inputBuffer = <<>>
    BY <2>1, Facts DEF IInv, OneSource, Unanswered, InBuffer, InDirect, Dropped, AllTaken
  <2>3. inputBuffer' = <<N>>
    <3>1. inputBuffer' = <<>> \o [k \in 1 .. N - nread |-> nread + k]
      BY <2>2 DEF HandleMessage, N
    <3>2. N - nread = 1 /\ nread + 1 = N
      BY <2>2, Facts
    <3>3. [k \in 1 .. 1 |-> nread + k] = <<N>>
      BY <3>2
    <3> QED BY <3>1, <3>2, <3>3
  <2>4. N' = N /\ nread' = N' /\ Sent' = Sent
    BY DEF HandleMessage, N, Sent
  <2>5. NoBuffer' /\ NoDirect'
    BY <2>2 DEF Unanswered, NoBuffer, NoDirect, HandleMessage, bufferVars, restVars
  <2>6. Unanswered'
    BY <2>1, <2>2, <2>3, <2>4, <2>5 DEF Unanswered
  <2> QED BY <1>1, <2>6 DEF OneSource
<1> QED BY <1>2, <1>3

\* processRequests leaves its loop.
LEMMA NoRequestStep ==
    ASSUME IInv, NoRequest
    PROVE  Prefix' /\ OneSource'
<1>1. /\ inputBuffer = <<>> /\ pc' = "loop"
      /\ UNCHANGED <<asked, wire, closed, nread, inputBuffer, writeBuf, fileRest, closeAfterWrite, direct>>
  BY DEF NoRequest, socketVars, bufferVars, restVars
<1>2. Prefix'
  BY <1>1 DEF IInv, Prefix, N, Sent
<1>3. CASE closed
  BY <1>1, <1>2, <1>3 DEF OneSource
<1>4. CASE Unanswered
  <2>1. nread = N - 1
    BY <1>1, <1>4 DEF Unanswered
  <2> QED BY <1>1, <1>2, <1>4, <2>1 DEF OneSource, Unanswered, NoBuffer, NoDirect, N, Sent
<1>5. CASE InBuffer
  <2>1. pc = "process"
    BY DEF NoRequest
  <2> QED BY <1>1, <1>2, <1>5, <2>1 DEF OneSource, InBuffer, NoBuffer, NoDirect, AllTaken, N, Sent
<1>6. CASE InDirect
  BY <1>1, <1>2, <1>6 DEF OneSource, InDirect, NoBuffer, AllTaken, N, Sent
<1>7. CASE Dropped
  BY <1>1, <1>2, <1>7 DEF OneSource, Dropped, NoBuffer, NoDirect, AllTaken, N, Sent
<1> QED BY <1>2, <1>3, <1>4, <1>5, <1>6, <1>7 DEF IInv, OneSource

\* handleWrite goes on with what EAGAIN left.
LEMMA HandleWriteStep ==
    ASSUME IInv, HandleWrite
    PROVE  Prefix' /\ OneSource'
<1>1. /\ pc = "loop" /\ ~closed /\ pc' = (IF NoBuffer THEN "loop" ELSE "write")
      /\ UNCHANGED <<asked, wire, closed, nread, inputBuffer, writeBuf, fileRest, closeAfterWrite, direct>>
  BY Zenon DEF HandleWrite, socketVars, NoBuffer
<1>2. Prefix'
  BY <1>1 DEF IInv, Prefix, N, Sent
<1>3. CASE NoBuffer
  BY <1>1, <1>2, <1>3 DEF IInv, OneSource, Unanswered, InBuffer, InDirect, Dropped, AllTaken,
                          NoBuffer, NoDirect, N, Sent
<1>4. CASE ~NoBuffer
  <2>1. InBuffer
    BY <1>1, <1>4 DEF IInv, OneSource, Unanswered, InDirect, Dropped
  <2>2. InBuffer'
    BY <1>1, <1>4, <2>1 DEF InBuffer, AllTaken, NoDirect, NoBuffer, N, Sent
  <2> QED BY <1>2, <2>2 DEF OneSource
<1> QED BY <1>3, <1>4

\* processRequests answers the request through the buffer, or hands its response
\* to a direct write.
LEMMA ProcessStep ==
    ASSUME IInv, ProcessRequest
    PROVE  Prefix' /\ OneSource'
<1>1. N' = N /\ Sent' = Sent /\ closed' = closed /\ nread' = nread
  BY DEF ProcessRequest, N, Sent, socketVars
<1>2. Prefix'
  BY DEF IInv, Prefix, ProcessRequest, N, Sent, socketVars
<1>3. CASE closed
  BY <1>1, <1>2, <1>3 DEF OneSource
<1>4. CASE ~closed
  <2>1. Unanswered /\ nread = N /\ inputBuffer = <<N>>
    BY <1>4 DEF ProcessRequest, IInv, OneSource, Unanswered, InBuffer, InDirect, Dropped, AllTaken
  <2>2. N \in Ids /\ N \in Nat /\ Sent = UnitsPerResponse * (N - 1)
    BY <2>1, Facts DEF Unanswered
  <2>3. Head(inputBuffer) = N /\ Tail(inputBuffer) = <<>>
    BY <2>1, <2>2
  <2>4. AllTaken'
    BY <1>1, <2>1, <2>3, SMTT(30) DEF ProcessRequest, AllTaken
  <2>5. /\ From(Sent, Response(N)) /\ Len(Response(N)) = 3 /\ Response(N) # <<>>
        /\ From(Sent, Header(N)) /\ Len(Header(N)) = 1
        /\ From(Sent + 1, Body(N)) /\ Len(Body(N)) = 2
    <3>1. /\ Response(N) \in Seq(Units) /\ Len(Response(N)) = 3
          /\ From(Sent, Response(N)) /\ From(Sent, Header(N)) /\ Len(Header(N)) = 1
          /\ From(Sent + 1, Body(N)) /\ Len(Body(N)) = 2
      BY <2>2, ResponseUnits
    <3> QED BY <3>1
  <2>6. Sent + 3 = UnitsPerResponse * N /\ Sent + 1 + 2 = UnitsPerResponse * N
    BY <2>2 DEF UnitsPerResponse
  <2>7. asked' = asked /\ N > 0
    BY <2>1 DEF ProcessRequest, Unanswered
  <2>8. CASE SendResponse(N) /\ UNCHANGED direct
    <3>1. NoDirect' /\ pc' = "write" /\ writeBuf' = Response(N) /\ fileRest' = <<>>
      BY <2>1, <2>8 DEF Unanswered, NoDirect, NoBuffer, SendResponse
    <3>2. closeAfterWrite' = ~asked'[N'].keepAlive
      BY <1>1, <2>7, <2>8 DEF SendResponse
    <3>3. From(Sent', writeBuf') /\ Len(writeBuf') = 3
      BY <1>1, <2>5, <3>1
    <3>4. From(Sent' + Len(writeBuf'), fileRest') /\ Len(fileRest') = 0
      BY <3>1 DEF From
    <3>5. Sent' + Len(writeBuf') + Len(fileRest') = UnitsPerResponse * N'
      BY <1>1, <2>2, <2>6, <3>3, <3>4, Facts
    <3>6. InBuffer'
      BY <1>1, <2>4, <2>7, <3>1, <3>2, <3>3, <3>4, <3>5 DEF InBuffer
    <3> QED BY <1>2, <3>6 DEF OneSource
  <2>9. CASE SendFile(N) /\ UNCHANGED direct
    <3>1. NoDirect' /\ pc' = "write" /\ writeBuf' = Header(N) /\ fileRest' = Body(N)
      BY <2>1, <2>9 DEF Unanswered, NoDirect, SendFile
    <3>2. closeAfterWrite' = ~asked'[N'].keepAlive
      BY <1>1, <2>7, <2>9 DEF SendFile
    <3>3. From(Sent', writeBuf') /\ Len(writeBuf') = 1
      BY <1>1, <2>5, <3>1
    <3>4. From(Sent' + Len(writeBuf'), fileRest') /\ Len(fileRest') = 2
      BY <1>1, <2>5, <3>1, <3>3, Zenon
    <3>5. Sent' + Len(writeBuf') + Len(fileRest') = UnitsPerResponse * N'
      BY <1>1, <2>2, <2>6, <3>3, <3>4, Facts
    <3>6. InBuffer'
      BY <1>1, <2>4, <2>7, <3>1, <3>2, <3>3, <3>4, <3>5 DEF InBuffer
    <3> QED BY <1>2, <3>6 DEF OneSource
  <2>10. CASE /\ asked[N].route \in {"bad", "db"}
              /\ direct' = [direct EXCEPT ![N] = Response(N)]
              /\ pc' = IF asked[N].route = "bad" THEN "direct"
                       ELSE IF asked[N].keepAlive THEN "process" ELSE "loop"
              /\ UNCHANGED <<writeBuf, fileRest, closeAfterWrite, staticFd>>
    <3>1. direct'[N] = Response(N) /\ \A i \in Ids \ {N} : direct'[i] = <<>>
      BY <2>1, <2>2, <2>10 DEF IInv, Typed, Unanswered, NoDirect
    <3>2. NoBuffer'
      BY <2>1, <2>10 DEF Unanswered, NoBuffer
    <3>3. From(Sent', direct'[N']) /\ Sent' + Len(direct'[N']) = UnitsPerResponse * N' /\ direct'[N'] # <<>>
      BY <1>1, <2>5, <2>6, <3>1, Zenon
    <3>4. pc' \in {"loop", "process", "direct"} /\ (pc' = "direct" => asked'[N'].route = "bad")
      BY <1>1, <2>7, <2>10
    <3>5. InDirect'
      BY <1>1, <2>4, <2>7, <3>1, <3>2, <3>3, <3>4 DEF InDirect
    <3> QED BY <1>2, <3>5 DEF OneSource
  <2> QED BY <2>3, <2>8, <2>9, <2>10 DEF ProcessRequest
<1> QED BY <1>3, <1>4

\* writeFromBuffer sends the next units, and closes only behind the last.
LEMMA WriteStep ==
    ASSUME IInv, WriteFromBuffer
    PROVE  Prefix' /\ OneSource'
<1> DEFINE Same == UNCHANGED <<asked, nread, inputBuffer, direct>>
<1>1. pc = "write" /\ ~closed /\ Same /\ N' = N /\ (Unanswered \/ InBuffer)
  BY Zenon DEF WriteFromBuffer, restVars, N, IInv, OneSource, InDirect, Dropped
<1>2. ~NoBuffer => InBuffer
  BY <1>1 DEF Unanswered
<1>3. From(0, wire) /\ wire \in Seq(Units) /\ writeBuf \in Seq(Units) /\ fileRest \in Seq(Units)
  BY DEF IInv, Typed, Prefix
<1>4. ASSUME wire' = wire PROVE Prefix'
  BY <1>1, <1>4 DEF IInv, Prefix, N, Sent
<1>5. CASE writeBuf # <<>> /\ \E n \in 1 .. Len(writeBuf) :
               /\ Takes(writeBuf, n)
               /\ writeBuf' = SubSeq(writeBuf, n + 1, Len(writeBuf))
               /\ UNCHANGED <<gone, closed, fileRest, closeAfterWrite, writing, pc>>
  <2>1. PICK n \in 1 .. Len(writeBuf) :
               /\ Takes(writeBuf, n)
               /\ writeBuf' = SubSeq(writeBuf, n + 1, Len(writeBuf))
               /\ UNCHANGED <<gone, closed, fileRest, closeAfterWrite, writing, pc>>
    BY <1>5
  <2>2. InBuffer /\ ~NoBuffer
    BY <1>2, <1>5 DEF NoBuffer
  <2>3. From(Len(wire), writeBuf)
    BY <2>2 DEF InBuffer, Sent
  <2>4. /\ From(0, wire') /\ Len(wire') = Len(wire) + n
        /\ Len(writeBuf') = Len(writeBuf) - n /\ From(Len(wire) + n, writeBuf')
    BY <1>3, <2>1, <2>3, Written DEF Takes
  <2>5. Sent' = Sent + n /\ Sent' + Len(writeBuf') = Sent + Len(writeBuf) /\ n \in Nat
    BY <2>4, Facts DEF Sent
  <2>6. Sent' + Len(writeBuf') + Len(fileRest') = UnitsPerResponse * N'
    BY <1>1, <2>1, <2>2, <2>5 DEF InBuffer
  <2>7. Prefix'
    <3>1. Sent' \in Nat /\ Len(writeBuf') \in Nat /\ Len(fileRest') \in Nat
      BY <2>1, <2>4, <2>5, Facts
    <3>2. Sent' <= UnitsPerResponse * N'
      BY <1>1, <2>6, <3>1, Facts, SMTT(30) DEF UnitsPerResponse
    <3>3. N' > 0 => UnitsPerResponse * (N' - 1) <= Sent'
      BY <1>1, <2>5, Facts, SMTT(30) DEF IInv, Prefix, UnitsPerResponse
    <3> QED BY <2>4, <3>2, <3>3 DEF Prefix
  <2>8. From(Sent', writeBuf') /\ From(Sent' + Len(writeBuf'), fileRest')
    BY <2>1, <2>2, <2>4, <2>5, Zenon DEF InBuffer, Sent
  <2>9. N > 0 /\ closeAfterWrite' = ~asked'[N'].keepAlive /\ pc' = "write"
    BY <1>1, <2>1, <2>2 DEF InBuffer
  <2>10. InBuffer'
    BY <1>1, <2>2, <2>6, <2>8, <2>9 DEF InBuffer, AllTaken, NoDirect
  <2> QED BY <2>7, <2>10 DEF OneSource
<1>6. CASE writeBuf = <<>> /\ fileRest # <<>> /\ \E n \in 1 .. Len(fileRest) :
               /\ Takes(fileRest, n)
               /\ fileRest' = SubSeq(fileRest, n + 1, Len(fileRest))
               /\ UNCHANGED <<gone, closed, writeBuf, closeAfterWrite, writing, pc>>
  <2>1. PICK n \in 1 .. Len(fileRest) :
               /\ Takes(fileRest, n)
               /\ fileRest' = SubSeq(fileRest, n + 1, Len(fileRest))
               /\ UNCHANGED <<gone, closed, writeBuf, closeAfterWrite, writing, pc>>
    BY <1>6
  <2>2. InBuffer /\ ~NoBuffer
    BY <1>2, <1>6 DEF NoBuffer
  <2>3. Len(writeBuf) = 0 /\ Len(writeBuf') = 0 /\ writeBuf' = <<>>
    BY <1>6, <2>1
  <2>4. From(Len(wire), fileRest) /\ Sent + Len(fileRest) = UnitsPerResponse * N
    BY <2>2, <2>3, Facts DEF InBuffer, Sent
  <2>5. /\ From(0, wire') /\ Len(wire') = Len(wire) + n
        /\ Len(fileRest') = Len(fileRest) - n /\ From(Len(wire) + n, fileRest')
    BY <1>3, <2>1, <2>4, Written DEF Takes
  <2>6. Sent' = Sent + n /\ Sent' + Len(fileRest') = Sent + Len(fileRest) /\ n \in Nat
    BY <2>5, Facts DEF Sent
  <2>7. Sent' + Len(writeBuf') + Len(fileRest') = UnitsPerResponse * N'
    BY <1>1, <2>3, <2>4, <2>5, <2>6, Facts
  <2>8. Prefix'
    <3>1. Sent' \in Nat /\ Len(fileRest') \in Nat
      BY <2>5, <2>6, Facts
    <3> QED BY <1>1, <2>3, <2>5, <2>6, <2>7, <3>1, Facts, SMTT(30) DEF IInv, Prefix, UnitsPerResponse
  <2>9. From(Sent', writeBuf')
    BY <2>3 DEF From
  <2>10. From(Sent' + Len(writeBuf'), fileRest')
    <3>1. Sent' + Len(writeBuf') = Len(wire) + n
      BY <2>3, <2>6, Facts DEF Sent
    <3> QED BY <2>5, <3>1
  <2>11. N > 0 /\ closeAfterWrite' = ~asked'[N'].keepAlive /\ pc' = "write"
    BY <1>1, <2>1, <2>2 DEF InBuffer
  <2>12. InBuffer'
    BY <1>1, <2>2, <2>7, <2>9, <2>10, <2>11 DEF InBuffer, AllTaken, NoDirect
  <2> QED BY <2>8, <2>12 DEF OneSource
<1>7. CASE Eagain /\ ~NoBuffer
  <2>1. InBuffer /\ UNCHANGED <<wire, writeBuf, fileRest, closeAfterWrite>> /\ pc' \in {"loop", "process"}
    BY <1>2, <1>7 DEF Eagain, socketVars
  <2>2. InBuffer'
    BY <1>1, <2>1 DEF InBuffer, AllTaken, NoDirect, NoBuffer, N, Sent
  <2> QED BY <1>4, <2>1, <2>2 DEF OneSource
<1>8. CASE WriteError(FALSE) \/ WriteError(TRUE)
  BY <1>4, <1>8 DEF WriteError, Close, OneSource
<1>9. CASE /\ writeBuf = <<>> /\ fileRest = <<>>
           /\ writing' = FALSE
           /\ IF closeAfterWrite
              THEN Close
              ELSE pc' = (IF keep THEN "process" ELSE "loop") /\ UNCHANGED closed
           /\ UNCHANGED <<wire, room, gone, writeBuf, fileRest, closeAfterWrite>>
  <2>1. CASE closeAfterWrite
    BY <1>4, <1>9, <2>1 DEF Close, OneSource
  <2>2. CASE ~closeAfterWrite
    <3>1. pc' \in {"loop", "process"} /\ Sent' = Sent /\ NoBuffer /\ NoBuffer' /\ (NoDirect => NoDirect')
      BY <1>1, <1>9, <2>2 DEF Sent, NoBuffer, NoDirect
    <3>2. Unanswered => Unanswered'
      BY <1>1, <3>1 DEF Unanswered
    <3>3. InBuffer => InBuffer'
      BY <1>1, <1>9, <3>1 DEF InBuffer, AllTaken
    <3> QED BY <1>1, <1>4, <1>9, <3>2, <3>3 DEF OneSource
  <2> QED BY <2>1, <2>2
<1> QED BY <1>5, <1>6, <1>7, <1>8, <1>9, Zenon DEF WriteFromBuffer, NoBuffer

\* sendHttpResponse writes the next units, or gives up.
LEMMA DirectStep ==
    ASSUME IInv, NEW i \in Ids, SendHttpResponse(i)
    PROVE  Prefix' /\ OneSource'
<1>1. /\ N' = N /\ closed' = closed
      /\ UNCHANGED <<asked, nread, inputBuffer, writeBuf, fileRest, closeAfterWrite>>
  BY DEF SendHttpResponse, N, bufferVars
<1>2. CASE closed
  <2>1. wire' = wire
    BY <1>2 DEF SendHttpResponse
  <2>2. Prefix'
    BY <1>1, <2>1 DEF IInv, Prefix, N, Sent
  <2> QED BY <1>1, <1>2, <2>2 DEF OneSource
<1>3. CASE ~closed
  <2>1. InDirect /\ i = N
    BY <1>3 DEF SendHttpResponse, IInv, OneSource, Unanswered, InBuffer, InDirect, Dropped, NoDirect
  <2>2. /\ direct \in [Ids -> Seq(Units)] /\ wire \in Seq(Units) /\ From(0, wire)
        /\ N \in Ids /\ N \in Nat /\ Sent \in Nat
    BY <2>1, Facts DEF IInv, Typed, Prefix
  <2>3. PICK s \in Seq(Units) :
           s = direct[N] /\ From(Sent, s) /\ Sent + Len(s) = UnitsPerResponse * N /\ Len(s) \in Nat
    BY <2>1, <2>2 DEF InDirect
  <2>4. NoBuffer' /\ AllTaken'
    BY <1>1, <2>1 DEF InDirect, NoBuffer, AllTaken
  <2>5. \A rest : GoOn(N, rest) => direct'[N] = rest /\ \A k \in Ids \ {N} : direct'[k] = <<>>
    BY <2>1, <2>2 DEF GoOn, InDirect
  <2>6. \A rest : GoOn(N, rest) =>
           /\ pc' \in {"loop", "process", "direct"}
           /\ pc' = "direct" => rest # <<>> /\ asked[N].route = "bad"
    BY <2>1 DEF GoOn, InDirect
  <2>7. CASE \E n \in 1 .. Len(direct[i]) :
                /\ ~closed
                /\ Takes(direct[i], n)
                /\ GoOn(i, SubSeq(direct[i], n + 1, Len(direct[i])))
    <3>1. PICK n \in 1 .. Len(s) : Takes(s, n) /\ GoOn(N, SubSeq(s, n + 1, Len(s)))
      BY <2>1, <2>3, <2>7
    <3>2. From(Len(wire), s)
      BY <2>3 DEF Sent
    <3>3. /\ From(0, wire') /\ Len(wire') = Len(wire) + n
          /\ SubSeq(s, n + 1, Len(s)) \in Seq(Units)
          /\ Len(SubSeq(s, n + 1, Len(s))) = Len(s) - n
          /\ From(Len(wire) + n, SubSeq(s, n + 1, Len(s)))
      BY <2>2, <3>1, <3>2, Written DEF Takes
    <3>4. PICK rest \in Seq(Units) :
             /\ GoOn(N, rest) /\ Len(rest) = Len(s) - n /\ From(Len(wire) + n, rest)
      BY <3>1, <3>3, Zenon
    <3>5. /\ Sent' = Sent + n /\ n \in Nat /\ Len(rest) \in Nat
          /\ Sent' + Len(rest) = UnitsPerResponse * N'
      BY <1>1, <2>2, <2>3, <3>3, <3>4 DEF Sent
    <3>6. Prefix'
      BY <1>1, <2>2, <3>3, <3>5 DEF IInv, Prefix, UnitsPerResponse
    <3>7. From(Sent', rest)
      BY <3>4, <3>5 DEF Sent
    <3>8. direct'[N'] = rest /\ \A k \in Ids \ {N'} : direct'[k] = <<>>
      BY <1>1, <2>5, <3>4
    <3>9. CASE rest = <<>>
      <4>1. NoDirect'
        BY <3>8, <3>9 DEF NoDirect
      <4>2. pc' \in {"loop", "process"}
        BY <2>6, <3>4, <3>9
      <4>3. writeBuf' = <<>> /\ fileRest' = <<>> /\ Len(writeBuf') = 0 /\ Len(fileRest') = 0
        BY <2>4 DEF NoBuffer
      <4>4. Sent' + Len(writeBuf') + Len(fileRest') = UnitsPerResponse * N'
        BY <2>2, <3>5, <3>9, <4>3
      <4>5. From(Sent', writeBuf') /\ From(Sent' + Len(writeBuf'), fileRest')
        BY <4>3 DEF From
      <4>6. InBuffer'
        BY <2>4, <4>1, <4>2, <4>4, <4>5 DEF InBuffer
      <4> QED BY <3>6, <4>6 DEF OneSource
    <3>10. CASE rest # <<>>
      <4>1. InDirect'
        BY <1>1, <2>1, <2>4, <2>6, <3>4, <3>5, <3>7, <3>8, <3>10, Zenon DEF InDirect
      <4> QED BY <3>6, <4>1 DEF OneSource
    <3> QED BY <3>9, <3>10
  <2>8. CASE GoOn(i, <<>>) /\ UNCHANGED <<wire, room>>
    <3>1. NoDirect' /\ pc' \in {"loop", "process"}
      BY <2>1, <2>5, <2>6, <2>8 DEF NoDirect
    <3>2. Sent < UnitsPerResponse * N
      <4>1. s # <<>>
        BY <2>1, <2>3 DEF InDirect
      <4>2. Len(s) # 0
        BY <4>1
      <4> QED BY <2>2, <2>3, <4>2 DEF UnitsPerResponse
    <3>3. Prefix' /\ Sent' = Sent
      BY <1>1, <2>8 DEF IInv, Prefix, N, Sent
    <3>4. Dropped'
      BY <1>1, <2>4, <3>1, <3>2, <3>3 DEF Dropped
    <3> QED BY <3>3, <3>4 DEF OneSource
  <2> QED BY <2>7, <2>8 DEF SendHttpResponse
<1> QED BY <1>2, <1>3

----------------------------------------------------------------------------
(* The theorems on a client that does not pipeline.                        *)

\* Every step leaves the rest of the last response in one place.
LEMMA InvariantStep ==
    ASSUME IInv, ~Pipelining, [Next]_vars
    PROVE  IInv'
<1>1. Typed'
  BY NextTyped DEF IInv
<1>2. Prefix' /\ OneSource'
  <2>1. CASE UNCHANGED vars
    BY <2>1, SMTT(30) DEF vars, IInv, Prefix, OneSource, Unanswered, InBuffer, InDirect, Dropped, AllTaken,
                NoBuffer, NoDirect, N, Sent
  <2>2. CASE Next
    BY <2>2, ElsewhereStep, ClientSendStep, HandleMessageStep, NoRequestStep, HandleWriteStep,
       ProcessStep, WriteStep, DirectStep DEF Next, Reactor
  <2> QED BY <2>1, <2>2
<1> QED BY <1>1, <1>2 DEF IInv

\* Before the first request nothing is owed.
LEMMA InitInvariant == Init => IInv
<1> SUFFICES ASSUME Init PROVE IInv
  OBVIOUS
<1>1. N = 0 /\ Sent = 0 /\ Len(writeBuf) = 0 /\ Len(fileRest) = 0
  BY DEF Init, N, Sent
<1>2. Prefix
  BY <1>1 DEF Prefix, From, UnitsPerResponse, Sent
<1>3. InBuffer
  BY <1>1 DEF Init, InBuffer, AllTaken, NoDirect, NoBuffer, From, UnitsPerResponse
<1> QED BY <1>2, <1>3, InitTyped DEF IInv, OneSource

\* At every moment the units a client that does not pipeline is still owed are in
\* one place, in order, and start where the socket's stream stops: in the input
\* buffer as a request, in the write buffer and the file body of its reactor, or
\* with one direct write; unless a direct write gave up or the connection is closed.
THEOREM OnePlace ==
    ASSUME ~Pipelining
    PROVE  Spec => []IInv
<1>1. ~Pipelining
  OBVIOUS
<1>2. IInv /\ [Next]_vars => IInv'
  BY <1>1, InvariantStep
<1> QED BY <1>2, InitInvariant, PTL DEF Spec

\* What the send buffer holds belongs to the last response, as a client that does
\* not pipeline has read the ones before it.
Unread == N > 0 => /\ UnitsPerResponse * (N - 1) <= Sent
                   /\ SndBuf - room <= Sent - UnitsPerResponse * (N - 1)

\* A write() puts as much on the wire as it takes of the room.
LEMMA TakesRoom ==
    ASSUME Typed, NEW s \in Seq(Units), NEW n \in 1 .. Len(s), Takes(s, n)
    PROVE  Sent' - Sent = room - room' /\ Sent \in Nat /\ Sent' \in Nat /\ Sent <= Sent' /\ room' \in Int
<1>1. wire \in Seq(Units) /\ SubSeq(s, 1, n) \in Seq(Units) /\ Len(SubSeq(s, 1, n)) = n /\ n \in Nat
  BY Taken, SMTT(30) DEF Typed
<1>2. Len(wire') = Len(wire) + n /\ Len(wire) \in Nat
  BY <1>1, Joined DEF Takes
<1>3. room' = room - n /\ room \in Int
  BY DEF Takes, Typed
<1> QED BY <1>1, <1>2, <1>3 DEF Sent

\* Only a write() and a read of the client change the room, and a new request
\* finds it all free.
LEMMA UnreadStep ==
    ASSUME Typed, Unread, ~Pipelining, [Next]_vars
    PROVE  Unread'
<1>1. N \in Nat /\ Sent \in Nat /\ room \in 0 .. SndBuf
  BY DEF Typed, N, Sent
<1>2. CASE UNCHANGED <<asked, wire, room>>
  BY <1>2, Zenon DEF Unread, N, Sent
<1>3. ASSUME NEW r \in Requests, ClientSend(r) PROVE Unread'
  <2>1. N' = N + 1 /\ Sent' = Sent /\ room' = room
    BY <1>3, AppendProperties DEF Typed, ClientSend, N, Sent, socketVars
  <2>2. Sent = UnitsPerResponse * N /\ room = SndBuf
    BY <1>3, Zenon DEF ClientSend, Caught, N, Sent
  <2> QED BY <1>1, <2>1, <2>2 DEF Unread, UnitsPerResponse
<1>4. CASE ClientRead
  <2>1. N' = N /\ Sent' = Sent /\ room' = SndBuf
    BY <1>4, Zenon DEF ClientRead, N, Sent
  <2> QED BY <1>1, <2>1 DEF Unread, UnitsPerResponse
<1>5. ASSUME NEW s \in Seq(Units), NEW n \in 1 .. Len(s), Takes(s, n), asked' = asked PROVE Unread'
  <2>1. N' = N
    BY <1>5 DEF N
  <2>2. Sent' - Sent = room - room' /\ Sent' \in Nat /\ Sent <= Sent' /\ room' \in Int
    BY <1>5, TakesRoom
  <2>3. ASSUME N > 0
        PROVE  /\ UnitsPerResponse * (N - 1) <= Sent'
               /\ SndBuf - room' <= Sent' - UnitsPerResponse * (N - 1)
    <3>1. /\ UnitsPerResponse * (N - 1) <= Sent
          /\ SndBuf - room <= Sent - UnitsPerResponse * (N - 1)
      BY <2>3, Zenon DEF Unread
    <3>2. \A b \in Int, x \in Int, y \in Int, u \in Int, v \in Int :
             y - x = u - v /\ x <= y /\ b <= x /\ SndBuf - u <= x - b =>
                 b <= y /\ SndBuf - v <= y - b
      BY ONLY ResponseStreamAssumption
    <3>3. UnitsPerResponse * (N - 1) \in Int /\ Sent \in Int /\ Sent' \in Int /\ room \in Int /\ room' \in Int
      BY ONLY <1>1, <2>2, ResponseStreamAssumption DEF UnitsPerResponse
    <3> QED BY ONLY <2>2, <3>1, <3>2, <3>3, Zenon
  <2> QED BY <2>1, <2>3, Zenon DEF Unread
<1>6. CASE WriteFromBuffer
  <2>1. writeBuf \in Seq(Units) /\ fileRest \in Seq(Units) /\ asked' = asked
    BY <1>6, Zenon DEF Typed, WriteFromBuffer
  <2>2. \/ UNCHANGED <<wire, room>>
        \/ \E n \in 1 .. Len(writeBuf) : Takes(writeBuf, n)
        \/ \E n \in 1 .. Len(fileRest) : Takes(fileRest, n)
    BY <1>6, ZenonT(40) DEF WriteFromBuffer, Eagain, WriteError, socketVars
  <2> QED BY <1>2, <1>5, <2>1, <2>2
<1>7. ASSUME NEW i \in Ids, SendHttpResponse(i) PROVE Unread'
  <2>1. direct[i] \in Seq(Units) /\ asked' = asked
    BY <1>7, Zenon DEF Typed, SendHttpResponse
  <2>2. UNCHANGED <<wire, room>> \/ \E n \in 1 .. Len(direct[i]) : Takes(direct[i], n)
    BY <1>7, ZenonT(40) DEF SendHttpResponse
  <2> QED BY <1>2, <1>5, <2>1, <2>2
<1>8. CASE PeerGone \/ FileShrinks \/ HandleWrite \/ HandleMessage \/ NoRequest \/ ProcessRequest \/ UNCHANGED vars
  BY <1>2, <1>8, ZenonT(40) DEF PeerGone, FileShrinks, HandleWrite, HandleMessage, NoRequest, ProcessRequest,
     socketVars, vars
<1> QED BY <1>3, <1>4, <1>6, <1>7, <1>8, Zenon DEF Next, Reactor

\* For any send buffer: a direct write to a client that is there and does not
\* pipeline drops nothing of a response, unless as much of that response as the
\* buffer holds has been written before.
THEOREM DirectWritesFit ==
    ASSUME ~Pipelining
    PROVE  Spec => CutOnlyWhenFull
<1> DEFINE Rest(i) ==
      direct[i] # <<>> /\ direct'[i] = <<>> /\ ~gone /\ ~closed =>
          \/ Len(wire') >= UnitsPerResponse * i
          \/ UnitsPerResponse - Len(direct[i]) >= SndBuf
<1>1. Init => Unread
  BY DEF Init, Unread, N
<1>2. Typed /\ Unread /\ [Next]_vars => Unread'
  BY UnreadStep
<1>3. ASSUME IInv, IInv', Unread, [Next]_vars, NEW i \in Ids PROVE Rest(i)
  <2> SUFFICES ASSUME direct[i] # <<>>, direct'[i] = <<>>, ~gone, ~closed
               PROVE  \/ Len(wire') >= UnitsPerResponse * i
                      \/ UnitsPerResponse - Len(direct[i]) >= SndBuf
    OBVIOUS
  <2>1. InDirect /\ i = N
    BY <1>3, Zenon DEF IInv, OneSource, Unanswered, InBuffer, InDirect, Dropped, NoDirect
  <2>2. N \in Nat /\ Sent \in Nat /\ N > 0 /\ Len(direct[i]) \in Nat /\ room \in 0 .. SndBuf
        /\ Sent + Len(direct[i]) = UnitsPerResponse * N
    BY <1>3, <2>1, Facts, Zenon DEF InDirect, IInv, Typed
  <2>3. SendHttpResponse(i)
    <3>1. ASSUME NEW k \in Ids, SendHttpResponse(k) PROVE k = i
      BY <1>3, <2>1, <3>1, Zenon DEF SendHttpResponse, InDirect
    <3>2. ProcessRequest => FALSE
      BY <2>1, Zenon DEF ProcessRequest, InDirect, AllTaken
    <3> QED BY <1>3, <3>1, <3>2, ZenonT(40) DEF Next, Reactor, vars, restVars, ClientSend, ClientRead, PeerGone,
               FileShrinks, HandleWrite, HandleMessage, NoRequest, WriteFromBuffer
  <2>4. CASE UNCHANGED <<wire, room>> /\ room = 0
    BY <1>3, <2>2, <2>4, <2>1 DEF Unread, UnitsPerResponse
  <2>5. CASE \E n \in 1 .. Len(direct[i]) :
                /\ Takes(direct[i], n)
                /\ GoOn(i, SubSeq(direct[i], n + 1, Len(direct[i])))
    <3>1. PICK n \in 1 .. Len(direct[i]) :
             Takes(direct[i], n) /\ GoOn(i, SubSeq(direct[i], n + 1, Len(direct[i])))
      BY <2>5
    <3>2. direct \in [Ids -> Seq(Units)] /\ direct[i] \in Seq(Units) /\ wire \in Seq(Units)
      BY <1>3 DEF IInv, Typed
    <3>3. SubSeq(direct[i], n + 1, Len(direct[i])) = <<>>
      BY <3>1, <3>2, Zenon DEF GoOn
    <3>4. Len(SubSeq(direct[i], n + 1, Len(direct[i]))) = Len(direct[i]) - n
      BY <3>2, Left
    <3>5. n = Len(direct[i])
      <4>1. Len(direct[i]) - n = 0
        BY <3>3, <3>4, Zenon
      <4> QED BY ONLY <2>2, <4>1, n \in 1 .. Len(direct[i])
    <3>6. Len(wire') = Len(wire) + n
      <4>1. SubSeq(direct[i], 1, n) \in Seq(Units) /\ Len(SubSeq(direct[i], 1, n)) = n
        BY <3>2, Taken, SMTT(30)
      <4> QED BY <3>1, <3>2, <4>1, Joined DEF Takes
    <3> QED BY <2>1, <2>2, <3>5, <3>6 DEF Sent
  <2> QED BY <2>3, <2>4, <2>5, Zenon DEF SendHttpResponse
<1> HIDE DEF Rest
<1>4. IInv /\ IInv' /\ Unread /\ [Next]_vars => [\A i \in Ids : Rest(i)]_vars
  BY <1>3
<1>5. IInv => Typed
  BY DEF IInv
<1>6. Spec => [][\A i \in Ids : Rest(i)]_vars
  BY <1>1, <1>2, <1>4, <1>5, OnePlace, PTL DEF Spec
<1> QED BY <1>6 DEF CutOnlyWhenFull, Rest

\* Units that stand in their places are what the client is to read.
LEMMA WholePrefix ==
    ASSUME NEW w \in Seq(Units), From(0, w), Len(w) <= UnitsPerResponse * N, N \in Nat
    PROVE  /\ Len(Expected) = UnitsPerResponse * N
           /\ \A k \in 1 .. Len(w) : w[k] = Expected[k]
<1>1. Len(w) \in Nat /\ UnitsPerResponse * N \in Nat
  BY DEF UnitsPerResponse
<1> DEFINE M == UnitsPerResponse * N
<1>2. Expected = [k \in 1 .. M |-> UnitAt(k)]
  BY DEF Expected, N
<1> HIDE DEF M
<1>3. M \in Nat /\ Len(w) <= M
  BY <1>1 DEF M
<1>4. Len(Expected) = M
  BY <1>2, <1>3
<1>5. ASSUME NEW k \in 1 .. Len(w) PROVE w[k] = Expected[k]
  <2>1. k \in 1 .. M /\ 0 + k = k
    BY <1>1, <1>3
  <2>2. w[k] = UnitAt(0 + k)
    BY DEF From
  <2> QED BY <1>2, <2>1, <2>2
<1> QED BY <1>4, <1>5 DEF M

\* A response asked for with "close" is on the wire in full when the reactor
\* closes behind it (closeAfterWrite_): the connection of a client that is still
\* there, and does not pipeline, is closed only then, or when sendfile() finds the
\* file shorter than its cached size.
THEOREM ClosesBehindTheLast ==
    ASSUME ~Pipelining
    PROVE  Spec => ClosesWhenSent
<1>1. ASSUME IInv, [Next]_vars, ~closed, closed', ~gone, ~shrunk
      PROVE  wire = Expected
  <2>1. WriteFromBuffer
    BY <1>1, Zenon DEF Next, Reactor, vars, ClientSend, ClientRead, PeerGone, FileShrinks, HandleWrite,
                HandleMessage, NoRequest, ProcessRequest, SendHttpResponse, socketVars
  <2>2. closeAfterWrite /\ NoBuffer /\ pc = "write"
    BY <1>1, <2>1, Zenon DEF WriteFromBuffer, WriteError, Eagain, socketVars, NoBuffer, Takes
  <2>3. InBuffer
    BY <1>1, <2>2, SMTT(30) DEF IInv, OneSource, Unanswered, InDirect, Dropped
  <2>4. Len(wire) = UnitsPerResponse * N /\ N \in Nat /\ wire \in Seq(Units) /\ From(0, wire)
    <3>1. Len(writeBuf) = 0 /\ Len(fileRest) = 0
      BY <2>2 DEF NoBuffer
    <3> QED BY <1>1, <2>3, <3>1, Facts DEF InBuffer, Sent, IInv, Typed, Prefix
  <2>5. Len(wire) <= UnitsPerResponse * N
    BY <2>4 DEF UnitsPerResponse
  <2>6. Len(Expected) = Len(wire) /\ \A k \in 1 .. Len(wire) : wire[k] = Expected[k]
    BY <2>4, <2>5, WholePrefix
  <2>7. wire = [k \in 1 .. Len(wire) |-> wire[k]]
    BY <2>4
  <2>8. Expected = [k \in 1 .. Len(wire) |-> Expected[k]]
    BY <2>4 DEF Expected, N
  <2> QED BY <2>6, <2>7, <2>8
<1>2. IInv /\ [Next]_vars => [~closed /\ closed' /\ ~gone /\ ~shrunk => wire = Expected]_vars
  BY <1>1
<1>3. Spec => []IInv
  BY OnePlace
<1> QED BY <1>2, <1>3, PTL DEF Spec, ClosesWhenSent

\* What the client has been given is the beginning of the answers of the abstract
\* specification.
LEMMA GivenAnswers ==
    ASSUME NEW w \in Seq(Units), From(0, w), Len(w) <= UnitsPerResponse * N, N \in Nat
    PROVE  Len(Promise!Answers) = 3 * N /\ w = SubSeq(Promise!Answers, 1, Len(w))
<1>1. Promise!Answers = Expected
  BY DEF Promise!Answers, Expected, UnitAt, UnitsPerResponse
<1>2. /\ Len(Expected) = UnitsPerResponse * N
      /\ \A k \in 1 .. Len(w) : w[k] = Expected[k]
  BY WholePrefix
<1>3. Len(w) \in Nat /\ 3 * N \in Nat /\ Len(w) <= 3 * N
  BY DEF UnitsPerResponse
<1>4. \A k \in 1 .. 3 * N : Expected[k] = UnitAt(k)
  BY <1>3 DEF Expected, N, UnitsPerResponse
<1>5. SubSeq(Expected, 1, Len(w)) = [k \in 1 .. Len(w) |-> Expected[k]]
  <2>1. \A k \in 1 .. Len(w) - 1 + 1 : 1 + k - 1 = k
    OBVIOUS
  <2> QED BY <1>3
<1>6. w = [k \in 1 .. Len(w) |-> w[k]]
  OBVIOUS
<1>7. w = [k \in 1 .. Len(w) |-> Expected[k]]
  BY <1>2, <1>6
<1> QED BY <1>1, <1>2, <1>5, <1>7 DEF UnitsPerResponse

\* The connection of a client that does not pipeline implements OrderedResponses:
\* every step is a request, a further piece of the answers put one after the other,
\* the end of the connection, or nothing the client sees.  Whoever writes a
\* response, and however write() and sendfile() cut it up, the client reads the
\* responses whole and in order.
THEOREM ImplementsOrderedResponses ==
    ASSUME ~Pipelining
    PROVE  Spec => Implements
<1>1. Init => Promise!Init
  BY DEF Init, Promise!Init
<1>2. ASSUME IInv, IInv', [Next]_vars
      PROVE  [Promise!Next]_<<asked, wire, closed>>
  <2>1. CASE asked' = asked /\ wire' = wire /\ closed' = closed
    BY <2>1
  <2>2. CASE \E r \in Requests : ClientSend(r)
    <3>1. PICK r \in Requests : ClientSend(r)
      BY <2>2
    <3>2. r \in [route : {"inline", "file", "reject", "bad", "db"}, keepAlive : BOOLEAN]
      BY DEF Requests, Routes
    <3>3. Promise!Ask
      BY <3>1, <3>2 DEF ClientSend, Promise!Ask, socketVars
    <3> QED BY <3>3 DEF Promise!Next
  <2>3. CASE ~closed /\ closed' /\ asked' = asked /\ wire' = wire
    BY <1>2, <2>3, Zenon DEF Promise!Next, Promise!Close, IInv, Typed
  <2>4. CASE ~closed /\ closed' = closed /\ asked' = asked /\ Len(wire') > Len(wire)
    <3>1. /\ N' = N /\ N \in Nat /\ wire' \in Seq(Units) /\ From(0, wire')
          /\ Len(wire') <= UnitsPerResponse * N /\ Len(wire) \in Nat /\ Len(wire') \in Nat
      BY <1>2, <2>4, Facts, SMTT(30) DEF IInv, Typed, Prefix, N, Sent
    <3>2. Len(Promise!Answers) = 3 * N /\ wire' = SubSeq(Promise!Answers, 1, Len(wire'))
      BY <3>1, GivenAnswers
    <3>3. Len(wire') \in Len(wire) + 1 .. Len(Promise!Answers)
      BY <2>4, <3>1, <3>2 DEF UnitsPerResponse
    <3>4. Promise!Deliver
      BY <2>4, <3>2, <3>3, Zenon DEF Promise!Deliver
    <3> QED BY <3>4 DEF Promise!Next
  <2>5. ASSUME NEW s \in Seq(Units), NEW n \in 1 .. Len(s), Takes(s, n) PROVE Len(wire') > Len(wire)
    <3>1. wire \in Seq(Units) /\ SubSeq(s, 1, n) \in Seq(Units) /\ Len(SubSeq(s, 1, n)) = n
      BY <1>2, Taken, SMTT(30) DEF IInv, Typed
    <3>2. Len(wire') = Len(wire) + Len(SubSeq(s, 1, n)) /\ Len(wire) \in Nat
      BY <2>5, <3>1, Joined DEF Takes
    <3> QED BY <3>1, <3>2
  <2>6. CASE WriteFromBuffer
    <3>1. writeBuf \in Seq(Units) /\ fileRest \in Seq(Units) /\ ~closed /\ asked' = asked /\ closed \in BOOLEAN
      BY <1>2, <2>6 DEF IInv, Typed, WriteFromBuffer
    <3>2. CASE \E n \in 1 .. Len(writeBuf) : Takes(writeBuf, n) /\ UNCHANGED closed
      BY <2>4, <2>5, <3>1, <3>2
    <3>3. CASE \E n \in 1 .. Len(fileRest) : Takes(fileRest, n) /\ UNCHANGED closed
      BY <2>4, <2>5, <3>1, <3>3
    <3>4. CASE wire' = wire /\ closed' = closed
      BY <2>1, <3>1, <3>4
    <3>5. CASE wire' = wire /\ closed'
      BY <2>3, <3>1, <3>5, Zenon
    <3> QED BY <2>6, <3>2, <3>3, <3>4, <3>5 DEF WriteFromBuffer, Eagain, WriteError, Close, socketVars
  <2>7. CASE HandleMessage
    BY <2>1, <2>3, <2>7 DEF HandleMessage, Close
  <2>8. ASSUME NEW i \in Ids, SendHttpResponse(i) PROVE [Promise!Next]_<<asked, wire, closed>>
    <3>1. direct[i] \in Seq(Units) /\ asked' = asked /\ closed' = closed
      BY <1>2, <2>8 DEF IInv, Typed, SendHttpResponse
    <3>2. CASE ~closed /\ \E n \in 1 .. Len(direct[i]) : Takes(direct[i], n)
      BY <2>4, <2>5, <3>1, <3>2
    <3>3. CASE wire' = wire
      BY <2>1, <3>1, <3>3
    <3> QED BY <2>8, <3>2, <3>3 DEF SendHttpResponse
  <2>9. CASE ClientRead \/ PeerGone \/ FileShrinks \/ HandleWrite \/ NoRequest \/ ProcessRequest
             \/ UNCHANGED vars
    BY <2>1, <2>9, SMTT(30) DEF ClientRead, PeerGone, FileShrinks, HandleWrite, NoRequest, ProcessRequest,
                      vars, socketVars
  <2> QED BY <1>2, <2>2, <2>6, <2>7, <2>8, <2>9 DEF Next, Reactor
<1>3. Spec => []IInv
  BY OnePlace
<1> QED BY <1>1, <1>2, <1>3, PTL DEF Spec, Implements, Promise!Spec

\* So, without pipelining, the wire never holds anything but the beginning of the
\* responses to the requests, which with pipelining it may.
THEOREM AnsweredInOrder ==
    ASSUME ~Pipelining
    PROVE  Spec => []InOrder
<1>1. ASSUME IInv PROVE InOrder
  <2>1. /\ wire \in Seq(Units) /\ From(0, wire) /\ N \in Nat
        /\ Len(wire) <= UnitsPerResponse * N
    BY <1>1, Facts DEF IInv, Typed, Prefix, Sent
  <2>2. Len(Promise!Answers) = 3 * N /\ wire = SubSeq(Promise!Answers, 1, Len(wire))
    BY <2>1, GivenAnswers
  <2>3. Promise!Answers = Expected
    BY DEF Promise!Answers, Expected, UnitAt, UnitsPerResponse
  <2>4. SubSeq(wire, 1, Len(wire)) = wire
    BY <2>1, SubSeqFull
  <2> QED BY <2>1, <2>2, <2>3, <2>4 DEF InOrder, IsPrefix, UnitsPerResponse
<1>2. Spec => []IInv
  BY OnePlace
<1> QED BY <1>1, <1>2, PTL
=============================================================================
