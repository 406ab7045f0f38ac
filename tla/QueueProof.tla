----------------------------- MODULE QueueProof -----------------------------
(***************************************************************************)
(* std::queue without duplicates, as the pools use it: push, and front()   *)
(* with pop().                                                             *)
(***************************************************************************)
EXTENDS Naturals, Sequences, TLAPS

\* The members of a queue, a queue without duplicates, push, front() with pop().
Elems(s) == {s[i] : i \in 1 .. Len(s)}
Distinct(s) == \A i, j \in 1 .. Len(s) : s[i] = s[j] => i = j
Pushed(s, q, t) == q = Append(s, t)
Popped(s, q, h) == s # <<>> /\ q = Tail(s) /\ h = Head(s)

\* push of an element that is not queued keeps the queue free of duplicates.
LEMMA QueueAppend ==
    ASSUME NEW S, NEW s \in Seq(S), NEW t \in S, NEW q, Pushed(s, q, t),
           Distinct(s), t \notin Elems(s)
    PROVE  q \in Seq(S) /\ Distinct(q) /\ Elems(q) = Elems(s) \cup {t} /\ Len(q) = Len(s) + 1
<1>1. /\ q \in Seq(S) /\ Len(q) = Len(s) + 1 /\ Len(s) \in Nat
      /\ \A i \in 1 .. Len(s) : q[i] = s[i]
      /\ q[Len(s) + 1] = t
  BY DEF Pushed
<1>2. 1 .. Len(q) = (1 .. Len(s)) \cup {Len(s) + 1}
  BY <1>1
<1>3. Distinct(q)
  BY <1>1, <1>2 DEF Distinct, Elems
<1>4. Elems(q) = Elems(s) \cup {t}
  BY <1>1, <1>2 DEF Elems
<1> QED BY <1>1, <1>3, <1>4

\* pop leaves the others, and the first one is gone.
LEMMA QueueTail ==
    ASSUME NEW S, NEW s \in Seq(S), NEW q, NEW h, Popped(s, q, h), Distinct(s)
    PROVE  /\ q \in Seq(S) /\ h \in S /\ Distinct(q)
           /\ h \in Elems(s) /\ Elems(q) = Elems(s) \ {h}
           /\ Len(s) = Len(q) + 1 /\ Len(q) \in Nat
<1>1. /\ q \in Seq(S) /\ Len(s) \in Nat \ {0} /\ Len(q) = Len(s) - 1
      /\ \A i \in 1 .. Len(q) : q[i] = s[i + 1]
      /\ h = s[1] /\ s[1] \in S
  BY DEF Popped
<1>2. Distinct(q)
  BY <1>1 DEF Distinct
<1>3. \A i \in 1 .. Len(q) : i + 1 \in 1 .. Len(s) /\ i + 1 # 1
  BY <1>1
<1>4. \A i \in 1 .. Len(s) : i # 1 => i - 1 \in 1 .. Len(q) /\ (i - 1) + 1 = i
  BY <1>1
<1>5. 1 \in 1 .. Len(s)
  BY <1>1
<1>6. ASSUME NEW x \in Elems(q)
      PROVE  x \in Elems(s) \ {h}
  BY <1>1, <1>3, <1>5, <1>6 DEF Elems, Distinct
<1>7. ASSUME NEW x \in Elems(s) \ {h}
      PROVE  x \in Elems(q)
  <2>1. PICK i \in 1 .. Len(s) : x = s[i] /\ i # 1
    BY <1>1 DEF Elems
  <2>2. i - 1 \in 1 .. Len(q) /\ (i - 1) + 1 = i
    BY <2>1, <1>4
  <2>3. q[i - 1] = x
    BY <2>1, <2>2, <1>1
  <2> QED BY ONLY <2>2, <2>3, Zenon DEF Elems
<1>8. Elems(q) = Elems(s) \ {h}
  BY ONLY <1>6, <1>7, Zenon
<1>9. h \in Elems(s)
  BY <1>1, <1>5 DEF Elems
<1> QED BY <1>1, <1>2, <1>8, <1>9
=============================================================================
