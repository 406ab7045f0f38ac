---------------------------- MODULE HttpFraming ----------------------------
(***************************************************************************)
(* How handleMessage and processRequests cut the byte stream of one client *)
(* into requests, whichever way the network cuts it into reads.            *)
(*                                                                         *)
(* "r" and "n" are CR and LF, and "a" any other byte.  At the start of a   *)
(* header line "1" and "2" stand for the field Content-Length with that    *)
(* value, and "c" for Connection: close; elsewhere they are any other byte. *)
(***************************************************************************)
EXTENDS Integers, Sequences, FiniteSetsExt

CONSTANTS
    kMaxHeaderBytes,   \* 0 turns the limit off
    kMaxBodyBytes,     \* 0 turns the limit off
    MaxTokens          \* bound: tokens the client sends

ASSUME HttpFramingAssumption ==
    /\ kMaxHeaderBytes \in Nat
    /\ kMaxBodyBytes \in Nat
    /\ MaxTokens \in Nat

VARIABLES
    sent,         \* what the client has sent
    tokens,       \* tokens the client has sent
    arrived,      \* how much of it the server has read
    inputBuffer,  \* inputBuffer_
    pc,           \* "read", or "process" inside processRequests
    log,          \* history: what was taken from the stream, and how it was answered
    status        \* "open" or "closed"

vars == <<sent, tokens, arrived, inputBuffer, pc, log, status>>

\* What the client puts together its stream from.
Tokens == {<<"a">>, <<"1">>, <<"2">>, <<"c">>, <<"r", "n">>}
Terminator == <<"r", "n", "r", "n">>
Value == [s \in {"1", "2"} |-> IF s = "1" THEN 1 ELSE 2]

----------------------------------------------------------------------------
(* The functions on strings.                                               *)

\* inputBuffer_.find("\r\n\r\n"), and whether it finds anything.
Ends(s) == {i \in 0 .. Len(s) - 4 : SubSeq(s, i + 1, i + 4) = Terminator}
HeaderEnd(s) == Min(Ends(s))

\* headers, the part of s before the terminator.
HeaderOf(s) == SubSeq(s, 1, HeaderEnd(s))

\* findHeader: the first line of the header block that is one of the fields,
\* given by the position it starts at.
Lines(headers, fields) ==
    {p \in DOMAIN headers :
        /\ headers[p] \in fields
        /\ p = 1 \/ (p > 2 /\ headers[p - 2] = "r" /\ headers[p - 1] = "n")}

\* requestContentLength.
ContentLength(headers) ==
    LET found == Lines(headers, {"1", "2"})
    IN  IF found = {} THEN 0 ELSE Value[headers[Min(found)]]

\* wantKeepAlive.  Its other way to FALSE, a request without the field that does
\* not say HTTP/1.1, ends the loop in the same way; "c" stands for both.
WantKeepAlive(headers) == Lines(headers, {"c"}) = {}

----------------------------------------------------------------------------

ClientSend(token) ==
    /\ tokens < MaxTokens
    /\ sent' = sent \o token
    /\ tokens' = tokens + 1
    /\ UNCHANGED <<arrived, inputBuffer, pc, log, status>>

\* handleMessage reads the n bytes that have arrived, and goes on to
\* processRequests.
HandleMessage(n) ==
    /\ pc = "read" /\ status = "open"
    /\ n \in 1 .. Len(sent) - arrived
    /\ inputBuffer' = inputBuffer \o SubSeq(sent, arrived + 1, arrived + n)
    /\ arrived' = arrived + n
    /\ pc' = "process"
    /\ UNCHANGED <<sent, tokens, log, status>>

\* The first n bytes of the buffer are taken, for a request that is dispatched
\* (code "ok") or rejected; the connection is closed if closes holds.
Take(n, code, closes) ==
    /\ log' = Append(log, [at |-> arrived - Len(inputBuffer),
                           text |-> SubSeq(inputBuffer, 1, n),
                           code |-> code])
    /\ status' = IF closes THEN "closed" ELSE status
    /\ UNCHANGED <<sent, tokens, arrived>>

\* inputBuffer_.clear() and sendResponse(code, ..., false).  The response closes
\* the connection, but not while it waits for EPOLLOUT, nor when its tear-down
\* misses connections_: then what is read next is framed from the middle of the
\* rejected request.
Reject(code, closes) ==
    /\ Take(Len(inputBuffer), code, closes)
    /\ inputBuffer' = <<>>
    /\ pc' = "read"

HeaderTooLarge == kMaxHeaderBytes > 0 /\ Len(inputBuffer) > kMaxHeaderBytes

\* A fault: the limit is tested before the terminator is looked for.
RejectHeaderEager(closes) ==
    /\ pc = "process"
    /\ HeaderTooLarge
    /\ Reject("400", closes)

\* A header block that has no end so far and is too large already.
RejectHeader(closes) ==
    /\ pc = "process"
    /\ Ends(inputBuffer) = {}
    /\ HeaderTooLarge
    /\ Reject("400", closes)

\* No terminator yet: wait for the next read.
IncompleteHeader ==
    /\ pc = "process"
    /\ Ends(inputBuffer) = {} /\ ~HeaderTooLarge
    /\ pc' = "read"
    /\ UNCHANGED <<sent, tokens, arrived, inputBuffer, log, status>>

\* The next request of the buffer, whose header block is complete.
headers == HeaderOf(inputBuffer)
bodyLen == ContentLength(headers)
TooLarge == kMaxBodyBytes > 0 /\ bodyLen > kMaxBodyBytes
total == HeaderEnd(inputBuffer) + 4 + bodyLen

RejectBody(closes) ==
    /\ pc = "process"
    /\ Ends(inputBuffer) # {}
    /\ TooLarge
    /\ Reject("413", closes)

\* The body has not arrived in full: wait for the next read.
IncompleteBody ==
    /\ pc = "process"
    /\ Ends(inputBuffer) # {} /\ ~TooLarge
    /\ Len(inputBuffer) < total
    /\ pc' = "read"
    /\ UNCHANGED <<sent, tokens, arrived, inputBuffer, log, status>>

\* The complete request is dispatched and n bytes are erased; the loop goes on if
\* more holds, and the connection is closed if closes does.
Dispatch(n, more, closes) ==
    /\ pc = "process"
    /\ Ends(inputBuffer) # {} /\ ~TooLarge
    /\ Len(inputBuffer) >= total
    /\ closes => ~WantKeepAlive(headers)
    /\ Take(total, "ok", closes)
    /\ inputBuffer' = SubSeq(inputBuffer, n + 1, Len(inputBuffer))
    /\ pc' = IF more THEN "process" ELSE "read"

\* A fault: the body is left in the buffer.
TakeHeaderOnly(closes) == Dispatch(HeaderEnd(inputBuffer) + 4, WantKeepAlive(headers), closes)

\* A fault: one request is taken per read event.
TakeOneRequest(closes) == Dispatch(total, FALSE, closes)

\* A request that asks for "close" ends the loop; an answer of the reactor then
\* closes the connection (unless it waits, as above), the task of a DB route does
\* not.
TakeRequest(closes) == Dispatch(total, WantKeepAlive(headers), closes)

Init ==
    /\ sent = <<>> /\ tokens = 0 /\ arrived = 0
    /\ inputBuffer = <<>> /\ pc = "read"
    /\ log = <<>> /\ status = "open"

Next ==
    \/ \E token \in Tokens : ClientSend(token)
    \/ \E n \in 1 .. 2 * MaxTokens : HandleMessage(n)
    \/ IncompleteHeader
    \/ IncompleteBody
    \/ \E closes \in BOOLEAN : RejectHeader(closes) \/ RejectBody(closes) \/ TakeRequest(closes)

Spec == Init /\ [][Next]_vars

----------------------------------------------------------------------------
(* Properties.                                                             *)

\* Where in the stream an entry of the log ends, and the last of them.
EndOf(entry) == entry.at + Len(entry.text)
Consumed == IF log = <<>> THEN 0 ELSE EndOf(log[Len(log)])

\* s is one request: a header block without a terminator in it, the terminator,
\* and a body of the length the header says.
IsRequest(s) == Ends(s) # {} /\ Len(s) = HeaderEnd(s) + 4 + ContentLength(HeaderOf(s))

\* However the stream is split into reads, processRequests loses no byte of it and
\* takes none twice: each thing it takes begins where the one before it ends, the
\* buffer holds what was read after the last, and what it dispatches is exactly
\* one request.  So the requests before the first rejection are those the stream
\* itself determines.
Framed ==
    /\ \A i \in DOMAIN log :
          /\ log[i].at = IF i = 1 THEN 0 ELSE EndOf(log[i - 1])
          /\ log[i].text = SubSeq(sent, log[i].at + 1, EndOf(log[i]))
          /\ log[i].code = "ok" => IsRequest(log[i].text)
    /\ Consumed <= arrived
    /\ inputBuffer = SubSeq(sent, Consumed + 1, arrived)

\* Between two read events no complete request waits in the buffer, so that none
\* depends on more bytes arriving, except behind a request that asked to close;
\* and what waits for the end of its header block is within the limit.
NoneWaits ==
    pc = "read" /\ status = "open" =>
        \/ IF Ends(inputBuffer) = {} THEN ~HeaderTooLarge ELSE Len(inputBuffer) < total
        \/ /\ log # <<>> /\ log[Len(log)].code = "ok"
           /\ ~WantKeepAlive(HeaderOf(log[Len(log)].text))

\* A rejection has its cause in the stream, not in how it was split: from where the
\* rejected part begins, a 400 means a header block within 3 bytes of the limit or
\* over it (the bytes of a terminator cut in two count), a 413 a declared body over
\* the limit, whatever is sent later.
RejectedForCause ==
    \A i \in DOMAIN log :
        LET rest == SubSeq(sent, log[i].at + 1, Len(sent))
        IN  /\ log[i].code = "400" => /\ kMaxHeaderBytes > 0 /\ Len(rest) > kMaxHeaderBytes
                                      /\ \A e \in Ends(rest) : e > kMaxHeaderBytes - 3
            /\ log[i].code = "413" => /\ kMaxBodyBytes > 0 /\ Ends(rest) # {}
                                      /\ ContentLength(HeaderOf(rest)) > kMaxBodyBytes
=============================================================================
