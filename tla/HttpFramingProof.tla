-------------------------- MODULE HttpFramingProof --------------------------
(***************************************************************************)
(* The requests cut from a byte stream do not depend on how it was split   *)
(* into reads: Framed, NoneWaits and RejectedForCause for any limits and   *)
(* any length of the stream.                                               *)
(***************************************************************************)
EXTENDS HttpFraming, SequenceTheorems, WellFoundedInduction, TLAPS

USE HttpFramingAssumption

----------------------------------------------------------------------------
(* Positions in a sequence.                                                *)

\* std::string::find returns the first of the positions there are.
LEMMA MinOf ==
    ASSUME NEW T, T \subseteq Nat, T # {}
    PROVE  Min(T) \in T /\ \A y \in T : Min(T) <= y
<1>1. \E x \in T : \A y \in T : ~(<<y, x>> \in OpToRel(<, Nat))
  BY NatLessThanWellFounded, WFMin, Zenon
<1>2. PICK x \in T : \A y \in T : ~(<<y, x>> \in OpToRel(<, Nat))
  BY <1>1, Zenon
<1>3. \A y \in T : ~(y < x)
  BY <1>2, Zenon DEF OpToRel
<1>4. \A y \in T : x <= y
  BY <1>3
<1> QED BY <1>4, Zenon DEF Min

Bytes == {"a", "1", "2", "c", "r", "n"}

\* The elements m + 1 to n of s.
Slice(s, m, n) == SubSeq(s, m + 1, n)

\* Its length and its elements.
LEMMA SliceOf ==
    ASSUME NEW s \in Seq(Bytes), NEW m \in Nat, NEW n \in Nat, m <= n, n <= Len(s)
    PROVE  /\ Slice(s, m, n) \in Seq(Bytes) /\ Len(Slice(s, m, n)) = n - m
           /\ \A j \in 1 .. n - m : Slice(s, m, n)[j] = s[m + j]
<1>1. Len(s) \in Nat /\ \A j \in 1 .. Len(s) : s[j] \in Bytes
  OBVIOUS
<1>2. \A j \in m + 1 .. n : s[j] \in Bytes
  BY <1>1
<1>3. /\ SubSeq(s, m + 1, n) \in Seq(Bytes)
      /\ Len(SubSeq(s, m + 1, n)) = IF m + 1 <= n THEN n - (m + 1) + 1 ELSE 0
      /\ \A j \in 1 .. n - (m + 1) + 1 : SubSeq(s, m + 1, n)[j] = s[(m + 1) + j - 1]
  BY <1>2, SubSeqProperties
<1>4. Len(SubSeq(s, m + 1, n)) = n - m
  BY <1>3
<1>5. n - (m + 1) + 1 = n - m /\ \A j \in 1 .. n - m : (m + 1) + j - 1 = m + j
  OBVIOUS
<1> QED BY <1>3, <1>4, <1>5 DEF Slice

\* A slice of a slice is a slice.
LEMMA SliceOfSlice ==
    ASSUME NEW s \in Seq(Bytes), NEW m \in Nat, NEW n \in Nat, m <= n, n <= Len(s),
           NEW a \in Nat, NEW b \in Nat, a <= b, b <= n - m,
           NEW c \in Nat, NEW d \in Nat, c = m + a, d = m + b
    PROVE  Slice(Slice(s, m, n), a, b) = Slice(s, c, d)
<1>1. PICK t \in Seq(Bytes) :
          t = Slice(s, m, n) /\ Len(t) = n - m /\ \A j \in 1 .. n - m : t[j] = s[m + j]
  <2>1. /\ Slice(s, m, n) \in Seq(Bytes) /\ Len(Slice(s, m, n)) = n - m
        /\ \A j \in 1 .. n - m : Slice(s, m, n)[j] = s[m + j]
    BY ONLY s \in Seq(Bytes), m \in Nat, n \in Nat, m <= n, n <= Len(s), SliceOf, Zenon
  <2> QED BY <2>1, Zenon
<1>2. PICK u \in Seq(Bytes) :
          u = Slice(t, a, b) /\ Len(u) = b - a /\ \A j \in 1 .. b - a : u[j] = t[a + j]
  <2>1. b <= Len(t)
    BY <1>1
  <2>2. /\ Slice(t, a, b) \in Seq(Bytes) /\ Len(Slice(t, a, b)) = b - a
        /\ \A j \in 1 .. b - a : Slice(t, a, b)[j] = t[a + j]
    BY ONLY <2>1, t \in Seq(Bytes), a \in Nat, b \in Nat, a <= b, SliceOf, Zenon
  <2> QED BY <2>2, Zenon
<1>3. Len(s) \in Nat /\ d - c = b - a
  OBVIOUS
<1>4. PICK v \in Seq(Bytes) :
          v = Slice(s, c, d) /\ Len(v) = d - c /\ \A j \in 1 .. d - c : v[j] = s[c + j]
  <2>1. c <= d /\ d <= Len(s)
    BY <1>3
  <2>2. /\ Slice(s, c, d) \in Seq(Bytes) /\ Len(Slice(s, c, d)) = d - c
        /\ \A j \in 1 .. d - c : Slice(s, c, d)[j] = s[c + j]
    BY ONLY <2>1, s \in Seq(Bytes), c \in Nat, d \in Nat, SliceOf, ZenonT(40)
  <2> QED BY <2>2
<1>5. ASSUME NEW j \in 1 .. b - a PROVE u[j] = v[j]
  <2>1. a + j \in 1 .. n - m /\ m + (a + j) = c + j
    OBVIOUS
  <2>2. u[j] = t[a + j] /\ t[a + j] = s[m + (a + j)] /\ v[j] = s[c + j]
    BY <1>1, <1>2, <1>3, <1>4, <2>1, Zenon
  <2> QED BY <2>1, <2>2
<1>6. Len(u) = Len(v) /\ \A j \in 1 .. Len(u) : u[j] = v[j]
  BY <1>2, <1>3, <1>4, <1>5
<1>7. u = v
  BY <1>6, SeqEqual
<1> QED BY <1>1, <1>2, <1>4, <1>7

\* What is appended does not change a slice.
LEMMA SliceOfJoin ==
    ASSUME NEW s \in Seq(Bytes), NEW t \in Seq(Bytes),
           NEW m \in Nat, NEW n \in Nat, m <= n, n <= Len(s)
    PROVE  Slice(s \o t, m, n) = Slice(s, m, n)
<1>1. Len(s) \in Nat /\ Len(t) \in Nat
  OBVIOUS
<1>2. /\ s \o t \in Seq(Bytes) /\ Len(s \o t) = Len(s) + Len(t)
      /\ \A i \in 1 .. Len(s) + Len(t) : (s \o t)[i] = IF i <= Len(s) THEN s[i] ELSE t[i - Len(s)]
  BY ConcatProperties
<1>3. PICK w \in Seq(Bytes) : w = s \o t /\ n <= Len(w) /\ \A i \in 1 .. Len(s) : w[i] = s[i]
  <2>1. n <= Len(s) + Len(t) /\ \A i \in 1 .. Len(s) : i \in 1 .. Len(s) + Len(t) /\ i <= Len(s)
    BY <1>1
  <2> QED BY <1>2, <2>1, Zenon
<1>4. PICK u \in Seq(Bytes) :
          u = Slice(w, m, n) /\ Len(u) = n - m /\ \A j \in 1 .. n - m : u[j] = w[m + j]
  <2>1. n <= Len(w)
    BY <1>3
  <2>2. /\ Slice(w, m, n) \in Seq(Bytes) /\ Len(Slice(w, m, n)) = n - m
        /\ \A j \in 1 .. n - m : Slice(w, m, n)[j] = w[m + j]
    BY <2>1, SliceOf, Zenon
  <2> QED BY <2>2
<1>5. PICK v \in Seq(Bytes) :
          v = Slice(s, m, n) /\ Len(v) = n - m /\ \A j \in 1 .. n - m : v[j] = s[m + j]
  <2>1. /\ Slice(s, m, n) \in Seq(Bytes) /\ Len(Slice(s, m, n)) = n - m
        /\ \A j \in 1 .. n - m : Slice(s, m, n)[j] = s[m + j]
    BY SliceOf, ZenonT(40)
  <2> QED BY <2>1, Zenon
<1>6. ASSUME NEW j \in 1 .. n - m PROVE u[j] = v[j]
  <2>1. m + j \in 1 .. Len(s)
    BY <1>1
  <2> QED BY <1>3, <1>4, <1>5, <2>1
<1>7. Len(u) = Len(v) /\ \A j \in 1 .. Len(u) : u[j] = v[j]
  BY <1>4, <1>5, <1>6
<1>8. u = v
  BY <1>7, SeqEqual
<1> QED BY <1>3, <1>4, <1>5, <1>8

\* Slices that adjoin make one.
LEMMA SlicesJoined ==
    ASSUME NEW s \in Seq(Bytes), NEW a \in Nat, NEW b \in Nat, NEW c \in Nat,
           a <= b, b <= c, c <= Len(s)
    PROVE  Slice(s, a, b) \o Slice(s, b, c) = Slice(s, a, c)
<1>1. a + 1 \in 1 .. Len(s) + 1 /\ b \in (a + 1) - 1 .. Len(s) /\ c \in b .. Len(s)
  OBVIOUS
<1> QED BY <1>1, ConcatAdjacentSubSeq DEF Slice

----------------------------------------------------------------------------
(* find("\r\n\r\n") and requestContentLength.                              *)

\* A terminator ends the header block at i.
Stops(s, i) == s[i + 1] = "r" /\ s[i + 2] = "n" /\ s[i + 3] = "r" /\ s[i + 4] = "n"

\* The positions find("\r\n\r\n") may return.
LEMMA EndsOf ==
    ASSUME NEW s \in Seq(Bytes)
    PROVE  \A i : i \in Ends(s) <=> i \in Nat /\ i + 4 <= Len(s) /\ Stops(s, i)
<1>1. Len(s) \in Nat
  OBVIOUS
<1>2. ASSUME NEW i \in Nat, i + 4 <= Len(s)
      PROVE  SubSeq(s, i + 1, i + 4) = Terminator <=> Stops(s, i)
  <2> DEFINE t == SubSeq(s, i + 1, i + 4)
  <2>1. PICK k \in Nat : k = i + 4 /\ i <= k /\ k <= Len(s) /\ k - i = 4
    BY <1>2
  <2>2. Slice(s, i, k) \in Seq(Bytes) /\ Len(Slice(s, i, k)) = k - i
        /\ \A j \in 1 .. k - i : Slice(s, i, k)[j] = s[i + j]
    BY <2>1, SliceOf, Zenon
  <2>3. t \in Seq(Bytes) /\ Len(t) = 4 /\ \A j \in 1 .. 4 : t[j] = s[i + j]
    BY <2>1, <2>2 DEF Slice
  <2> HIDE DEF t
  <2>4. t[1] = s[i + 1] /\ t[2] = s[i + 2] /\ t[3] = s[i + 3] /\ t[4] = s[i + 4]
    BY <2>3
  <2>5. /\ Terminator \in Seq(Bytes) /\ Len(Terminator) = 4
        /\ Terminator[1] = "r" /\ Terminator[2] = "n" /\ Terminator[3] = "r" /\ Terminator[4] = "n"
    BY DEF Terminator, Bytes
  <2>6. t = Terminator => Stops(s, i)
    BY <2>4, <2>5 DEF Stops
  <2>7. ASSUME Stops(s, i) PROVE t = Terminator
    <3>1. \A j \in 1 .. 4 : j = 1 \/ j = 2 \/ j = 3 \/ j = 4
      OBVIOUS
    <3>2. \A j \in 1 .. 4 : t[j] = Terminator[j]
      BY <2>4, <2>5, <2>7, <3>1 DEF Stops
    <3> QED BY <2>3, <2>5, <3>2, SeqEqual, Zenon
  <2> QED BY <2>6, <2>7 DEF t
<1>3. \A i : i \in 0 .. Len(s) - 4 <=> i \in Nat /\ i + 4 <= Len(s)
  BY <1>1
<1> QED BY <1>2, <1>3, Zenon DEF Ends

\* The first terminator.
LEMMA HeaderEndOf ==
    ASSUME NEW s \in Seq(Bytes), Ends(s) # {}
    PROVE  /\ HeaderEnd(s) \in Nat /\ HeaderEnd(s) + 4 <= Len(s)
           /\ HeaderEnd(s) \in Ends(s) /\ \A i \in Ends(s) : HeaderEnd(s) <= i
<1>1. Ends(s) \subseteq Nat
  BY EndsOf
<1>2. HeaderEnd(s) \in Ends(s) /\ \A i \in Ends(s) : HeaderEnd(s) <= i
  BY <1>1, MinOf DEF HeaderEnd
<1> QED BY <1>2, EndsOf

\* A prefix has the terminators that lie in it.
LEMMA EndsOfPrefix ==
    ASSUME NEW s \in Seq(Bytes), NEW n \in Nat, n <= Len(s)
    PROVE  /\ Slice(s, 0, n) \in Seq(Bytes) /\ Len(Slice(s, 0, n)) = n
           /\ \A i : i \in Ends(Slice(s, 0, n)) <=> i \in Ends(s) /\ i + 4 <= n
<1>1. PICK p \in Seq(Bytes) : p = Slice(s, 0, n) /\ Len(p) = n /\ \A j \in 1 .. n : p[j] = s[j]
  <2>1. Slice(s, 0, n) \in Seq(Bytes) /\ Len(Slice(s, 0, n)) = n - 0
        /\ \A j \in 1 .. n - 0 : Slice(s, 0, n)[j] = s[0 + j]
    <3>1. 0 \in Nat /\ 0 <= n
      OBVIOUS
    <3> QED BY <3>1, SliceOf, Zenon
  <2>2. n - 0 = n /\ \A j \in 1 .. n : 0 + j = j
    OBVIOUS
  <2> QED BY <2>1, <2>2
<1>2. Len(s) \in Nat
  OBVIOUS
<1>3. ASSUME NEW i \in Nat, i + 4 <= n PROVE Stops(p, i) <=> Stops(s, i)
  <2>1. i + 1 \in 1 .. n /\ i + 2 \in 1 .. n /\ i + 3 \in 1 .. n /\ i + 4 \in 1 .. n
    BY <1>3
  <2>2. p[i + 1] = s[i + 1] /\ p[i + 2] = s[i + 2] /\ p[i + 3] = s[i + 3] /\ p[i + 4] = s[i + 4]
    BY <1>1, <2>1
  <2> QED BY <2>2 DEF Stops
<1>4. \A i : i \in Ends(p) <=> i \in Nat /\ i + 4 <= n /\ Stops(p, i)
  BY <1>1, EndsOf
<1>5. \A i : i \in Ends(s) <=> i \in Nat /\ i + 4 <= Len(s) /\ Stops(s, i)
  BY EndsOf
<1>6. \A i \in Nat : i + 4 <= n => i + 4 <= Len(s)
  BY <1>2
<1>7. \A i : i \in Ends(p) <=> i \in Ends(s) /\ i + 4 <= n
  BY <1>3, <1>4, <1>5, <1>6
<1> QED BY <1>1, <1>7

\* More bytes do not move the end of a header block that is complete.
LEMMA HeaderEndOfPrefix ==
    ASSUME NEW s \in Seq(Bytes), NEW n \in Nat, n <= Len(s), Ends(Slice(s, 0, n)) # {}
    PROVE  /\ Ends(s) # {} /\ HeaderEnd(s) = HeaderEnd(Slice(s, 0, n))
           /\ SubSeq(s, 1, HeaderEnd(s)) = SubSeq(Slice(s, 0, n), 1, HeaderEnd(s))
<1>1. PICK p \in Seq(Bytes) :
          p = Slice(s, 0, n) /\ Len(p) = n /\ \A i : i \in Ends(p) <=> i \in Ends(s) /\ i + 4 <= n
  BY EndsOfPrefix
<1>2. /\ HeaderEnd(p) \in Nat /\ HeaderEnd(p) + 4 <= n
      /\ HeaderEnd(p) \in Ends(p) /\ \A i \in Ends(p) : HeaderEnd(p) <= i
  BY <1>1, HeaderEndOf
<1>3. Ends(s) # {} /\ HeaderEnd(p) \in Ends(s)
  BY <1>1, <1>2
<1>4. /\ HeaderEnd(s) \in Nat
      /\ HeaderEnd(s) \in Ends(s) /\ \A i \in Ends(s) : HeaderEnd(s) <= i
  BY <1>3, HeaderEndOf
<1>5. HeaderEnd(s) <= HeaderEnd(p)
  BY <1>3, <1>4
<1>6. HeaderEnd(s) + 4 <= n
  BY <1>2, <1>4, <1>5
<1>7. HeaderEnd(p) <= HeaderEnd(s)
  BY <1>1, <1>2, <1>4, <1>6
<1>8. HeaderEnd(s) = HeaderEnd(p)
  BY <1>2, <1>4, <1>5, <1>7
<1>9. PICK e \in Nat : e = HeaderEnd(s) /\ e <= n
  BY <1>4, <1>6
<1>10. Slice(Slice(s, 0, n), 0, e) = Slice(s, 0, e)
  <2>1. 0 \in Nat /\ 0 <= n /\ 0 <= e /\ e <= n - 0 /\ 0 = 0 + 0 /\ e = 0 + e
    BY <1>9
  <2> QED BY <2>1, SliceOfSlice
<1>11. SubSeq(Slice(s, 0, n), 1, e) = SubSeq(s, 1, e)
  <2>1. \A t : Slice(t, 0, e) = SubSeq(t, 1, e)
    BY DEF Slice
  <2> QED BY <1>10, <2>1
<1> QED BY <1>1, <1>3, <1>8, <1>9, <1>11

\* The Content-Length of any header block.
LEMMA ContentLengthOf ==
    ASSUME NEW h \in Seq(Bytes)
    PROVE  ContentLength(h) \in Nat
<1> DEFINE found == Lines(h, {"1", "2"})
<1>1. CASE found = {}
  BY <1>1 DEF ContentLength
<1>2. CASE found # {}
  <2>1. found \subseteq 1 .. Len(h) /\ \A p \in found : h[p] \in {"1", "2"}
    BY DEF Lines
  <2>2. found \subseteq Nat
    BY <2>1
  <2> HIDE DEF found
  <2>3. Min(found) \in found
    BY <1>2, <2>2, MinOf, Zenon
  <2>4. Value[h[Min(found)]] \in {1, 2}
    BY <2>1, <2>3, Zenon DEF Value
  <2> QED BY <1>2, <2>4 DEF ContentLength, found
<1> QED BY <1>1, <1>2

----------------------------------------------------------------------------
(* The inductive invariant.                                                *)

Entries == [at : Nat, text : Seq(Bytes), code : {"ok", "400", "413"}]

Types ==
    /\ sent \in Seq(Bytes) /\ arrived \in Nat /\ arrived <= Len(sent)
    /\ inputBuffer \in Seq(Bytes)
    /\ log \in Seq(Entries)
    /\ pc \in {"read", "process"}
    /\ status \in {"open", "closed"}

\* What was read after the last thing taken.
Window == Slice(sent, Consumed, arrived)

\* Why an entry was answered as it was, said of the bytes there were at that
\* moment: no later byte can change it.
Deserved(entry) ==
    /\ entry.code = "ok" => IsRequest(entry.text)
    /\ entry.code = "400" => /\ kMaxHeaderBytes > 0 /\ Len(entry.text) > kMaxHeaderBytes
                             /\ Ends(entry.text) = {}
    /\ entry.code = "413" => /\ kMaxBodyBytes > 0 /\ Ends(entry.text) # {}
                             /\ ContentLength(HeaderOf(entry.text)) > kMaxBodyBytes

\* An entry begins where the one before it ends, nothing of it was taken before it
\* had been read, and its answer was deserved.
Placed ==
    \A i \in DOMAIN log :
        /\ log[i].at = IF i = 1 THEN 0 ELSE EndOf(log[i - 1])
        /\ log[i].text = Slice(sent, log[i].at, EndOf(log[i]))
        /\ EndOf(log[i]) <= arrived
        /\ Deserved(log[i])

\* The buffer is the window.
Buffered == Consumed <= arrived /\ inputBuffer = Window

IInv == Types /\ Placed /\ Buffered /\ NoneWaits

----------------------------------------------------------------------------
(* The invariant holds initially and is kept by every step.                *)

\* The lengths and positions there are.
LEMMA Positions ==
    ASSUME IInv
    PROVE  /\ Consumed \in Nat /\ Consumed <= arrived
           /\ arrived \in Nat /\ arrived <= Len(sent) /\ Len(sent) \in Nat
           /\ sent \in Seq(Bytes)
           /\ log \in Seq(Entries) /\ Len(log) \in Nat /\ DOMAIN log = 1 .. Len(log)
           /\ \A i \in DOMAIN log : /\ log[i] \in Entries /\ log[i].at \in Nat /\ EndOf(log[i]) \in Nat
                                    /\ log[i].at <= EndOf(log[i]) /\ EndOf(log[i]) <= arrived
           /\ inputBuffer = Slice(sent, Consumed, arrived) /\ inputBuffer \in Seq(Bytes)
           /\ Len(inputBuffer) \in Nat /\ Len(inputBuffer) = arrived - Consumed
<1>1. log \in Seq(Entries) /\ Len(log) \in Nat /\ DOMAIN log = 1 .. Len(log)
  BY DEF IInv, Types
<1>2. ASSUME NEW q \in Entries PROVE q.at \in Nat /\ EndOf(q) \in Nat /\ q.at <= EndOf(q)
  <2>1. q.at \in Nat /\ Len(q.text) \in Nat
    BY DEF Entries
  <2>2. \A i \in Nat, j \in Nat : i + j \in Nat /\ i <= i + j
    OBVIOUS
  <2> QED BY <2>1, <2>2, Zenon DEF EndOf
<1>3. \A i \in DOMAIN log : log[i] \in Entries
  BY <1>1
<1>4. Consumed \in Nat
  <2>1. log # <<>> => Len(log) \in DOMAIN log
    BY <1>1
  <2> QED BY <1>2, <1>3, <2>1 DEF Consumed
<1>5. sent \in Seq(Bytes) /\ arrived \in Nat /\ arrived <= Len(sent) /\ Consumed <= arrived
  BY DEF IInv, Types, Buffered
<1>6. Len(sent) \in Nat
  BY <1>5
<1>7. Window \in Seq(Bytes) /\ Len(Window) = arrived - Consumed
  BY <1>4, <1>5, SliceOf, Zenon DEF Window
<1>8. inputBuffer = Slice(sent, Consumed, arrived) /\ inputBuffer = Window /\ inputBuffer \in Seq(Bytes)
  BY Zenon DEF IInv, Types, Buffered, Window
<1>9. Len(inputBuffer) \in Nat /\ Len(inputBuffer) = arrived - Consumed
  BY <1>7, <1>8
<1> QED BY <1>1, <1>2, <1>3, <1>4, <1>5, <1>6, <1>8, <1>9, Zenon DEF IInv, Placed

\* The client sends: what was read and cut stays what it is.
LEMMA ClientSendStep ==
    ASSUME IInv, NEW token \in Tokens, ClientSend(token)
    PROVE  IInv'
<1>1. token \in Seq(Bytes)
  <2>1. \A b \in Bytes : <<b>> \in Seq(Bytes)
    OBVIOUS
  <2>2. \A b \in Bytes, c \in Bytes : <<b, c>> \in Seq(Bytes)
    OBVIOUS
  <2>3. "a" \in Bytes /\ "1" \in Bytes /\ "2" \in Bytes /\ "c" \in Bytes /\ "r" \in Bytes /\ "n" \in Bytes
    BY DEF Bytes
  <2> QED BY <2>1, <2>2, <2>3, Zenon DEF Tokens
<1>2. sent' = sent \o token /\ UNCHANGED <<arrived, inputBuffer, pc, log, status>>
  BY DEF ClientSend
<1>3. sent' \in Seq(Bytes) /\ Len(sent) <= Len(sent')
  <2>1. sent \o token \in Seq(Bytes) /\ Len(sent \o token) = Len(sent) + Len(token) /\ Len(token) \in Nat
    BY <1>1, Positions, ConcatProperties
  <2> QED BY <1>2, <2>1, Positions
<1>4. ASSUME NEW m \in Nat, NEW n \in Nat, m <= n, n <= arrived
      PROVE  Slice(sent', m, n) = Slice(sent, m, n)
  <2>1. n <= Len(sent) /\ sent \in Seq(Bytes)
    BY <1>4, Positions
  <2>2. Slice(sent \o token, m, n) = Slice(sent, m, n)
    BY ONLY <1>1, <1>4, <2>1, SliceOfJoin
  <2> QED BY <1>2, <2>2
<1>5. Consumed' = Consumed
  BY <1>2 DEF Consumed
<1>6. Buffered'
  <2>1. Slice(sent', Consumed, arrived) = Slice(sent, Consumed, arrived)
    BY <1>4, Positions
  <2> QED BY <1>2, <1>5, <2>1, Zenon DEF IInv, Buffered, Window
<1>7. Types'
  BY <1>2, <1>3, Positions DEF IInv, Types
<1>8. Placed'
  <2>1. ASSUME NEW i \in DOMAIN log
        PROVE  Slice(sent', log[i].at, EndOf(log[i])) = Slice(sent, log[i].at, EndOf(log[i]))
    BY <1>4, Positions
  <2> QED BY <1>2, <2>1, Zenon DEF IInv, Placed
<1>9. NoneWaits'
  BY <1>2, Zenon DEF IInv, NoneWaits, HeaderTooLarge, total, bodyLen, headers
<1> QED BY <1>6, <1>7, <1>8, <1>9 DEF IInv

\* A read appends to the buffer the bytes that follow it in the stream.
LEMMA HandleMessageStep ==
    ASSUME IInv, NEW n, HandleMessage(n)
    PROVE  IInv'
<1>1. /\ pc' = "process" /\ status = "open" /\ arrived' = arrived + n
      /\ n \in 1 .. Len(sent) - arrived /\ UNCHANGED <<sent, log, status>>
  BY DEF HandleMessage
<1>2. PICK a \in Nat : a = arrived + n /\ arrived <= a /\ a <= Len(sent)
  BY <1>1, Positions
<1>3. Consumed' = Consumed /\ Consumed <= a
  BY <1>1, <1>2, Positions DEF Consumed
<1>4. inputBuffer' = Slice(sent, Consumed, arrived) \o Slice(sent, arrived, a)
  BY <1>1, <1>2, Positions, Zenon DEF HandleMessage, Slice
<1>5. inputBuffer' = Slice(sent, Consumed, a)
  <2>1. /\ Consumed \in Nat /\ arrived \in Nat /\ sent \in Seq(Bytes)
        /\ Consumed <= arrived /\ arrived <= a /\ a <= Len(sent)
    BY <1>2, Positions
  <2>2. Slice(sent, Consumed, arrived) \o Slice(sent, arrived, a) = Slice(sent, Consumed, a)
    BY ONLY <2>1, SlicesJoined
  <2> QED BY <1>4, <2>2
<1>6. inputBuffer' \in Seq(Bytes)
  <2>1. Consumed \in Nat /\ sent \in Seq(Bytes) /\ Consumed <= a /\ a <= Len(sent)
    BY <1>2, <1>3, Positions
  <2>2. Slice(sent, Consumed, a) \in Seq(Bytes)
    BY <2>1, SliceOf, Zenon
  <2> QED BY <1>5, <2>2
<1>7. Types'
  BY <1>1, <1>2, <1>6 DEF IInv, Types
<1>8. Buffered'
  BY <1>1, <1>2, <1>3, <1>5, Zenon DEF Buffered, Window
<1>9. Placed'
  <2>1. \A i \in DOMAIN log : EndOf(log[i]) <= a
    BY <1>2, Positions
  <2> QED BY <1>1, <1>2, <2>1, Zenon DEF IInv, Placed
<1>10. NoneWaits'
  BY <1>1 DEF NoneWaits
<1> QED BY <1>7, <1>8, <1>9, <1>10 DEF IInv

\* processRequests leaves what is incomplete for the next read.
LEMMA WaitStep ==
    ASSUME IInv, pc' = "read", UNCHANGED <<sent, tokens, arrived, inputBuffer, log, status>>,
           \/ Ends(inputBuffer) = {} /\ ~HeaderTooLarge
           \/ Ends(inputBuffer) # {} /\ Len(inputBuffer) < total
    PROVE  IInv'
<1>1. Types' /\ Placed' /\ Buffered'
  BY Zenon DEF IInv, Types, Placed, Buffered, Window, Consumed
<1>2. Ends(inputBuffer)' = Ends(inputBuffer) /\ total' = total /\ (HeaderTooLarge' <=> HeaderTooLarge)
  BY Zenon DEF total, bodyLen, headers, HeaderTooLarge
<1>3. NoneWaits'
  BY <1>2, Zenon DEF NoneWaits
<1> QED BY <1>1, <1>3 DEF IInv

\* What is taken from the buffer, g bytes of it, is the slice of the stream from
\* where the last entry ended, and the rest of the buffer is the new window.
LEMMA TakeStep ==
    ASSUME IInv, NEW g \in Nat, g <= Len(inputBuffer),
           NEW code \in {"ok", "400", "413"}, NEW closes \in BOOLEAN, Take(g, code, closes),
           Deserved([at |-> arrived - Len(inputBuffer), text |-> SubSeq(inputBuffer, 1, g), code |-> code]),
           inputBuffer' = SubSeq(inputBuffer, g + 1, Len(inputBuffer)),
           pc' \in {"read", "process"}
    PROVE  Types' /\ Placed' /\ Buffered'
<1> DEFINE q == [at |-> arrived - Len(inputBuffer), text |-> SubSeq(inputBuffer, 1, g), code |-> code]
<1>1. /\ log' = Append(log, q) /\ status' = (IF closes THEN "closed" ELSE status)
      /\ UNCHANGED <<sent, arrived>> /\ Deserved(q)
  BY Zenon DEF Take
<1>2. q.at = Consumed /\ q.text = Slice(inputBuffer, 0, g) /\ q.code = code
  <2>1. arrived - Len(inputBuffer) = Consumed
    BY Positions
  <2>2. 0 + 1 = 1
    OBVIOUS
  <2> QED BY <2>1, <2>2, Zenon DEF Slice
<1>3. q.text \in Seq(Bytes) /\ Len(q.text) = g
  <2>1. inputBuffer \in Seq(Bytes)
    BY Positions
  <2>2. Slice(inputBuffer, 0, g) \in Seq(Bytes) /\ Len(Slice(inputBuffer, 0, g)) = g
    BY ONLY <2>1, g \in Nat, g <= Len(inputBuffer), EndsOfPrefix
  <2> QED BY <1>2, <2>2, Zenon
<1>4. q \in Entries
  <2>1. Consumed \in Nat
    BY Positions
  <2>2. q = [at |-> q.at, text |-> q.text, code |-> q.code]
    OBVIOUS
  <2> HIDE DEF q
  <2>3. q.at \in Nat /\ q.text \in Seq(Bytes) /\ q.code \in {"ok", "400", "413"}
    BY <1>2, <1>3, <2>1, Zenon
  <2> QED BY <2>2, <2>3, Zenon DEF Entries
<1> HIDE DEF q
<1>5. PICK z \in Nat : z = Consumed + g /\ z <= arrived /\ Consumed <= z /\ z = EndOf(q)
  <2>1. Consumed \in Nat /\ arrived \in Nat /\ g <= arrived - Consumed
    BY Positions
  <2>2. EndOf(q) = Consumed + g
    BY <1>2, <1>3, Zenon DEF EndOf
  <2> QED BY <2>1, <2>2
<1>6. Slice(sent, Consumed, z) = q.text
  <2>0. /\ Consumed \in Nat /\ arrived \in Nat /\ sent \in Seq(Bytes)
        /\ Consumed <= arrived /\ arrived <= Len(sent) /\ g <= arrived - Consumed
    BY Positions
  <2>1. 0 \in Nat /\ 0 <= g /\ z = Consumed + g /\ Consumed = Consumed + 0
    BY ONLY <1>5, <2>0, g \in Nat
  <2>2. Slice(Slice(sent, Consumed, arrived), 0, g) = Slice(sent, Consumed, z)
    BY ONLY <2>0, <2>1, g \in Nat, z \in Nat, SliceOfSlice
  <2> QED BY <1>2, <2>2, Positions, Zenon
<1>7. inputBuffer' = Slice(sent, z, arrived) /\ inputBuffer' \in Seq(Bytes)
  <2>1. PICK l \in Nat : l = Len(inputBuffer) /\ g <= l /\ l = arrived - Consumed
    BY Positions
  <2>0. /\ Consumed \in Nat /\ arrived \in Nat /\ sent \in Seq(Bytes)
        /\ Consumed <= arrived /\ arrived <= Len(sent)
    BY Positions, Zenon
  <2>2. g <= l /\ l <= arrived - Consumed /\ z = Consumed + g /\ arrived = Consumed + l
    BY ONLY <1>5, <2>0, <2>1, g \in Nat, l \in Nat
  <2>3. Slice(Slice(sent, Consumed, arrived), g, l) = Slice(sent, z, arrived)
    BY ONLY <2>0, <2>2, g \in Nat, l \in Nat, z \in Nat, SliceOfSlice
  <2>4. inputBuffer' = Slice(inputBuffer, g, l)
    BY <2>1, Zenon DEF Slice
  <2>5. Slice(sent, z, arrived) \in Seq(Bytes)
    <3>1. z <= arrived /\ arrived <= Len(sent) /\ arrived \in Nat /\ sent \in Seq(Bytes)
      BY <1>5, Positions
    <3> QED BY ONLY <3>1, SliceOf
  <2> QED BY <2>3, <2>4, <2>5, Positions, Zenon
\* The log.
<1>8. /\ log' \in Seq(Entries) /\ Len(log') = Len(log) + 1 /\ log' # <<>>
      /\ \A i \in 1 .. Len(log) : log'[i] = log[i]
      /\ log'[Len(log')] = q
  <2>1. log \in Seq(Entries)
    BY Positions
  <2>2. /\ Append(log, q) \in Seq(Entries) /\ Append(log, q) # <<>>
        /\ Len(Append(log, q)) = Len(log) + 1
        /\ \A i \in 1 .. Len(log) : Append(log, q)[i] = log[i]
        /\ Append(log, q)[Len(log) + 1] = q
    BY <1>4, <2>1, AppendProperties
  <2> QED BY <1>1, <2>2
<1>9. Consumed' = z
  BY <1>5, <1>8, Zenon DEF Consumed, EndOf
<1>10. DOMAIN log' = 1 .. Len(log') /\ Len(log) \in Nat /\ DOMAIN log = 1 .. Len(log)
  BY <1>8, Positions
<1>11. ASSUME NEW i \in DOMAIN log'
       PROVE  /\ log'[i].at = IF i = 1 THEN 0 ELSE EndOf(log'[i - 1])
              /\ log'[i].text = Slice(sent, log'[i].at, EndOf(log'[i]))
              /\ EndOf(log'[i]) <= arrived
              /\ Deserved(log'[i])
  <2>1. CASE i \in 1 .. Len(log)
    <3>1. i \in DOMAIN log /\ log'[i] = log[i] /\ (i # 1 => log'[i - 1] = log[i - 1])
      BY <1>8, <1>10, <2>1
    <3> QED BY <3>1, Zenon DEF IInv, Placed
  <2>2. CASE i = Len(log')
    <3>1. log'[i] = q
      BY <1>8, <2>2
    <3>2. q.at = IF i = 1 THEN 0 ELSE EndOf(log'[i - 1])
      <4>1. CASE i = 1
        <5>1. Len(log) = 0
          BY <1>8, <1>10, <2>2, <4>1
        <5>2. log = <<>>
          BY <5>1, Positions
        <5> QED BY <1>2, <4>1, <5>2 DEF Consumed
      <4>2. CASE i # 1
        <5>1. Len(log) # 0 /\ i - 1 = Len(log) /\ Len(log) \in 1 .. Len(log)
          BY <1>8, <1>10, <2>2, <4>2
        <5>2. log'[i - 1] = log[Len(log)] /\ log # <<>>
          BY <1>8, <5>1
        <5> QED BY <1>2, <4>2, <5>2 DEF Consumed
      <4> QED BY <4>1, <4>2
    <3>3. q.text = Slice(sent, q.at, EndOf(q)) /\ EndOf(q) <= arrived
      BY <1>2, <1>5, <1>6, Zenon
    <3> QED BY <1>1, <3>1, <3>2, <3>3, Zenon
  <2>3. i \in 1 .. Len(log) \/ i = Len(log')
    BY <1>8, <1>10
  <2> QED BY <2>1, <2>2, <2>3, Zenon
<1>12. Types'
  BY <1>1, <1>7, <1>8, Zenon DEF IInv, Types
<1>13. Placed'
  BY <1>1, <1>11, Zenon DEF Placed, EndOf, Deserved
<1>14. Buffered'
  BY <1>1, <1>5, <1>7, <1>9, Zenon DEF Buffered, Window
<1> QED BY <1>12, <1>13, <1>14

\* A rejection takes the whole buffer.
LEMMA RejectStep ==
    ASSUME IInv, NEW code \in {"400", "413"}, NEW closes \in BOOLEAN, Reject(code, closes),
           code = "400" => HeaderTooLarge /\ Ends(inputBuffer) = {},
           code = "413" => Ends(inputBuffer) # {} /\ TooLarge
    PROVE  IInv'
<1>1. inputBuffer \in Seq(Bytes) /\ Len(inputBuffer) \in Nat
  BY Positions
<1>2. PICK g \in Nat : g = Len(inputBuffer) /\ g <= Len(inputBuffer)
  BY <1>1
<1>3. SubSeq(inputBuffer, 1, g) = inputBuffer /\ SubSeq(inputBuffer, g + 1, Len(inputBuffer)) = <<>>
  BY <1>1, <1>2
<1>4. Deserved([at |-> arrived - Len(inputBuffer), text |-> SubSeq(inputBuffer, 1, g), code |-> code])
  BY <1>3, Zenon DEF Deserved, HeaderTooLarge, TooLarge, bodyLen, headers
<1>5. Types' /\ Placed' /\ Buffered'
  <2>1. /\ Take(g, code, closes) /\ code \in {"ok", "400", "413"} /\ pc' \in {"read", "process"}
        /\ inputBuffer' = SubSeq(inputBuffer, g + 1, Len(inputBuffer))
    BY <1>2, <1>3, Zenon DEF Reject
  <2> QED BY <1>2, <1>4, <2>1, TakeStep, Zenon
<1>6. NoneWaits'
  <2>1. inputBuffer' = <<>> /\ Len(<<>>) = 0 /\ Ends(<<>>) = {}
    BY DEF Reject, Ends
  <2> QED BY <2>1 DEF NoneWaits, HeaderTooLarge
<1> QED BY <1>5, <1>6 DEF IInv

\* The request that is dispatched is what the buffer starts with.
LEMMA RequestStep ==
    ASSUME IInv, NEW closes \in BOOLEAN, TakeRequest(closes)
    PROVE  IInv'
<1>1. /\ Ends(inputBuffer) # {} /\ Len(inputBuffer) >= total
      /\ Take(total, "ok", closes)
      /\ inputBuffer' = SubSeq(inputBuffer, total + 1, Len(inputBuffer))
      /\ pc' = (IF WantKeepAlive(headers) THEN "process" ELSE "read")
  BY Zenon DEF TakeRequest, Dispatch
<1>2. inputBuffer \in Seq(Bytes) /\ Len(inputBuffer) \in Nat
  BY Positions
<1>3. PICK e \in Nat : e = HeaderEnd(inputBuffer) /\ e \in Ends(inputBuffer) /\ e + 4 <= Len(inputBuffer)
  BY <1>1, <1>2, HeaderEndOf
<1>4. bodyLen \in Nat
  <2>1. headers = Slice(inputBuffer, 0, e)
    BY <1>3 DEF headers, HeaderOf, Slice
  <2>2. e <= Len(inputBuffer)
    BY <1>2, <1>3
  <2>3. Slice(inputBuffer, 0, e) \in Seq(Bytes)
    BY ONLY <1>2, <2>2, EndsOfPrefix
  <2> QED BY <2>1, <2>3, ContentLengthOf, Zenon DEF bodyLen
<1>5. PICK g \in Nat : g = total /\ g = e + 4 + bodyLen /\ e + 4 <= g /\ g <= Len(inputBuffer)
  BY <1>1, <1>2, <1>3, <1>4 DEF total
<1>6. PICK t \in Seq(Bytes) :
         /\ t = Slice(inputBuffer, 0, g) /\ Len(t) = g
         /\ \A i : i \in Ends(t) <=> i \in Ends(inputBuffer) /\ i + 4 <= g
  BY ONLY <1>2, <1>5, EndsOfPrefix
<1>7. Ends(t) # {} /\ HeaderEnd(t) = e /\ HeaderOf(t) = headers
  <2>1. Ends(t) # {}
    BY <1>3, <1>5, <1>6
  <2>2. /\ HeaderEnd(inputBuffer) = HeaderEnd(t)
        /\ SubSeq(inputBuffer, 1, HeaderEnd(inputBuffer)) = SubSeq(t, 1, HeaderEnd(inputBuffer))
    BY <1>2, <1>5, <1>6, <2>1, HeaderEndOfPrefix, Zenon
  <2> QED BY <1>3, <2>1, <2>2, Zenon DEF HeaderOf, headers
<1>8. IsRequest(t) /\ t = SubSeq(inputBuffer, 1, g)
  <2>1. Len(t) = HeaderEnd(t) + 4 + ContentLength(HeaderOf(t))
    BY <1>5, <1>6, <1>7 DEF bodyLen
  <2>2. 0 + 1 = 1
    OBVIOUS
  <2> QED BY <1>6, <1>7, <2>1, <2>2, Zenon DEF IsRequest, Slice
<1>9. Deserved([at |-> arrived - Len(inputBuffer), text |-> SubSeq(inputBuffer, 1, g), code |-> "ok"])
  BY <1>8 DEF Deserved
<1>10. Types' /\ Placed' /\ Buffered'
  <2>1. /\ Take(g, "ok", closes) /\ "ok" \in {"ok", "400", "413"} /\ pc' \in {"read", "process"}
        /\ inputBuffer' = SubSeq(inputBuffer, g + 1, Len(inputBuffer))
    BY <1>1, <1>5, Zenon
  <2> QED BY <1>5, <1>9, <2>1, TakeStep, Zenon
<1>11. NoneWaits'
  <2> DEFINE q == [at |-> arrived - Len(inputBuffer), text |-> SubSeq(inputBuffer, 1, g), code |-> "ok"]
  <2>1. log' = Append(log, q) /\ q.text = t /\ q.code = "ok"
    BY <1>1, <1>5, <1>8, Zenon DEF Take
  <2>2. log' # <<>> /\ log'[Len(log')] = q
    <3> HIDE DEF q
    <3>1. log \in Seq(Entries) /\ Len(log) \in Nat
      BY Positions
    <3>2. Append(log, q) # <<>> /\ Append(log, q)[Len(Append(log, q))] = q
      BY <3>1
    <3> QED BY <2>1, <3>2, Zenon
  <2> HIDE DEF q
  <2>3. log'[Len(log')].code = "ok" /\ HeaderOf(log'[Len(log')].text) = headers
    BY <1>7, <2>1, <2>2, Zenon
  <2> QED BY <1>1, <2>2, <2>3, Zenon DEF NoneWaits, HeaderOf, HeaderEnd, Ends
<1> QED BY <1>10, <1>11 DEF IInv

\* One case for each way out of a turn of processRequests, and for each event outside it.
LEMMA FramingStep ==
    ASSUME IInv, [Next]_vars
    PROVE  IInv'
<1>1. CASE UNCHANGED vars
  BY <1>1, Zenon DEF vars, IInv, Types, Placed, Buffered, NoneWaits, HeaderTooLarge, Window, Consumed,
              total, bodyLen, headers
<1>2. CASE \E token \in Tokens : ClientSend(token)
  BY <1>2, ClientSendStep
<1>3. CASE \E n \in 1 .. 2 * MaxTokens : HandleMessage(n)
  BY <1>3, HandleMessageStep
<1>4. CASE IncompleteHeader
  BY <1>4, WaitStep DEF IncompleteHeader
<1>5. CASE IncompleteBody
  BY <1>5, WaitStep DEF IncompleteBody
<1>6. ASSUME NEW closes \in BOOLEAN, RejectHeader(closes) PROVE IInv'
  BY <1>6, RejectStep DEF RejectHeader
<1>7. ASSUME NEW closes \in BOOLEAN, RejectBody(closes) PROVE IInv'
  BY <1>7, RejectStep DEF RejectBody
<1>8. ASSUME NEW closes \in BOOLEAN, TakeRequest(closes) PROVE IInv'
  BY <1>8, RequestStep
<1> QED BY <1>1, <1>2, <1>3, <1>4, <1>5, <1>6, <1>7, <1>8 DEF Next

\* Nothing has been sent, read or taken.
LEMMA FramingInit == Init => IInv
<1> SUFFICES ASSUME Init PROVE IInv
  OBVIOUS
<1>1. <<>> \in Seq(Bytes) /\ Len(<<>>) = 0 /\ <<>> \in Seq(Entries) /\ DOMAIN <<>> = {}
  OBVIOUS
<1>2. Types /\ Placed
  BY <1>1 DEF Init, Types, Placed
<1>3. Buffered
  <2>1. SubSeq(<<>>, 0 + 1, 0) = <<>>
    OBVIOUS
  <2> QED BY <1>1, <2>1 DEF Init, Buffered, Window, Slice, Consumed
<1>4. NoneWaits
  <2>1. Ends(<<>>) = {}
    BY <1>1 DEF Ends
  <2> QED BY <1>1, <2>1 DEF Init, NoneWaits, HeaderTooLarge
<1> QED BY <1>2, <1>3, <1>4 DEF IInv

\* What handleMessage and processRequests keep between any two steps: the requests
\* dispatched, the parts rejected, the buffer and the stream fit together at known
\* positions, and the reason for each answer stays where it was found, also on a
\* connection that a rejection has failed to close.
THEOREM FramingInvariant == Spec => []IInv
  BY FramingInit, FramingStep, PTL DEF Spec

\* For every stream, every split of it into reads and every limit: what
\* processRequests takes are consecutive slices of the stream, each it dispatches
\* reaching to its first terminator and as many bytes further as its Content-Length
\* says, and the buffer holds what was read after the last of them.
THEOREM FramedAlways == Spec => []Framed
<1>1. IInv => Framed
  BY Zenon DEF IInv, Placed, Buffered, Deserved, Framed, Window, Slice
<1> QED BY <1>1, FramingInvariant, PTL

\* For every stream and limit: when handleMessage returns, no complete request is
\* left in the buffer but behind one that asked to close.
THEOREM NoneWaitsAlways == Spec => []NoneWaits
  BY FramingInvariant, PTL DEF IInv

\* For every stream and limit: a 400 or a 413 answers a part of the stream that
\* deserves it, whatever bytes came with the reads before the reject and whatever
\* comes after.
THEOREM RejectedForCauseAlways == Spec => []RejectedForCause
<1>1. ASSUME IInv, NEW i \in DOMAIN log
      PROVE  LET all == SubSeq(sent, log[i].at + 1, Len(sent))
             IN  /\ log[i].code = "400" => /\ kMaxHeaderBytes > 0 /\ Len(all) > kMaxHeaderBytes
                                           /\ \A e \in Ends(all) : e > kMaxHeaderBytes - 3
                 /\ log[i].code = "413" => /\ kMaxBodyBytes > 0 /\ Ends(all) # {}
                                           /\ ContentLength(HeaderOf(all)) > kMaxBodyBytes
  <2>1. PICK a \in Nat, z \in Nat, l \in Nat, n \in Nat :
           /\ a = log[i].at /\ z = EndOf(log[i]) /\ l = Len(sent) /\ n = z - a
           /\ a <= z /\ z <= l /\ a <= l /\ n <= l - a
    BY <1>1, Positions
  <2>2. sent \in Seq(Bytes) /\ a <= l /\ l <= Len(sent)
    BY <1>1, <2>1, Positions
  <2>3. PICK rest \in Seq(Bytes) : rest = Slice(sent, a, l) /\ Len(rest) = l - a
    BY <2>2, SliceOf, Zenon
  <2>4. PICK t \in Seq(Bytes) :
           /\ t = Slice(rest, 0, n) /\ Len(t) = n
           /\ \A e : e \in Ends(t) <=> e \in Ends(rest) /\ e + 4 <= n
    BY ONLY <2>1, <2>3, EndsOfPrefix
  <2>5. t = log[i].text
    <3>1. 0 \in Nat /\ 0 <= n /\ n <= l - a /\ a = a + 0 /\ z = a + n
      BY <2>1
    <3>2. Slice(Slice(sent, a, l), 0, n) = Slice(sent, a, z)
      BY ONLY <2>2, <3>1, a \in Nat, l \in Nat, n \in Nat, z \in Nat, SliceOfSlice
    <3>3. log[i].text = Slice(sent, a, z)
      BY <1>1, <2>1, Zenon DEF IInv, Placed
    <3> QED BY <2>3, <2>4, <3>2, <3>3, Zenon
  <2>6. Deserved(log[i])
    BY <1>1, Zenon DEF IInv, Placed
  <2>7. ASSUME log[i].code = "400"
        PROVE  /\ kMaxHeaderBytes > 0 /\ Len(rest) > kMaxHeaderBytes
               /\ \A e \in Ends(rest) : e > kMaxHeaderBytes - 3
    <3>1. kMaxHeaderBytes > 0 /\ Len(t) > kMaxHeaderBytes /\ Ends(t) = {}
      BY <2>5, <2>6, <2>7, Zenon DEF Deserved
    <3>2. Len(rest) > kMaxHeaderBytes
      BY <2>1, <2>3, <2>4, <3>1
    <3>3. ASSUME NEW e \in Ends(rest) PROVE e > kMaxHeaderBytes - 3
      <4>1. e \in Nat
        BY <2>3, EndsOf
      <4>2. ~(e + 4 <= n)
        BY <2>4, <3>1
      <4> QED BY <2>4, <3>1, <4>1, <4>2
    <3> QED BY <3>1, <3>2, <3>3
  <2>8. ASSUME log[i].code = "413"
        PROVE  /\ kMaxBodyBytes > 0 /\ Ends(rest) # {}
               /\ ContentLength(HeaderOf(rest)) > kMaxBodyBytes
    <3>1. kMaxBodyBytes > 0 /\ Ends(t) # {} /\ ContentLength(HeaderOf(t)) > kMaxBodyBytes
      BY <2>5, <2>6, <2>8, Zenon DEF Deserved
    <3>2. n \in Nat /\ n <= Len(rest)
      BY <2>1, <2>3
    <3>3. /\ Ends(rest) # {} /\ HeaderEnd(rest) = HeaderEnd(t)
          /\ SubSeq(rest, 1, HeaderEnd(rest)) = SubSeq(t, 1, HeaderEnd(rest))
      BY <2>4, <3>1, <3>2, HeaderEndOfPrefix, Zenon
    <3> QED BY <3>1, <3>3, Zenon DEF HeaderOf
  <2>9. rest = SubSeq(sent, log[i].at + 1, Len(sent))
    BY <2>1, <2>3, Zenon DEF Slice
  <2> QED BY <2>7, <2>8, <2>9, Zenon
<1>2. IInv => RejectedForCause
  BY <1>1, Zenon DEF RejectedForCause
<1> QED BY <1>2, FramingInvariant, PTL
=============================================================================
