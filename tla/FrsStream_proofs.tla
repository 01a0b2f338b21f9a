-------------------------- MODULE FrsStream_proofs --------------------------
(***************************************************************************)
(* Proofs about FrsStream, for all data, capacities, timeouts and bounds.  *)
(***************************************************************************)
EXTENDS FrsStream, SequenceTheorems, TLAPS

USE DEF Ends

LEMMA PeerFact == \A e \in Ends : Peer(e) \in Ends /\ Peer(e) # e /\ Peer(Peer(e)) = e
  BY EndsAssumption DEF Peer

\* Updating a function at one point.
LEMMA ExceptFact ==
  ASSUME NEW D, NEW S, NEW f \in [D -> S], NEW x \in D, NEW v
  PROVE  /\ v \in S => [f EXCEPT ![x] = v] \in [D -> S]
         /\ [f EXCEPT ![x] = v][x] = v
         /\ \A y \in D : y # x => [f EXCEPT ![x] = v][y] = f[y]
  OBVIOUS

\* Room for one more. (The provers want it apart from the lengths it is used on.)
LEMMA OneMore == \A u, q, c, w \in Nat : u + q < w /\ c = q + 1 => u + c <= w
  OBVIOUS

LEMMA FewerFit == \A u, w \in Nat : \A k \in 0..u : u <= w => u - k <= w
  OBVIOUS

\* Dropping the first k elements of a sequence.
LEMMA DropFirst ==
  ASSUME NEW S, NEW s \in Seq(S), NEW k \in 0..Len(s)
  PROVE  /\ SubSeq(s, k + 1, Len(s)) \in Seq(S)
         /\ Len(SubSeq(s, k + 1, Len(s))) = Len(s) - k
         /\ \A i \in 1..(Len(s) - k) : SubSeq(s, k + 1, Len(s))[i] = s[k + i]
  <1>1. \A i \in (k + 1)..Len(s) : s[i] \in S
    OBVIOUS
  <1>2. /\ SubSeq(s, k + 1, Len(s)) \in Seq(S)
        /\ Len(SubSeq(s, k + 1, Len(s))) = IF k + 1 <= Len(s) THEN Len(s) - (k + 1) + 1 ELSE 0
        /\ \A i \in 1..(Len(s) - (k + 1) + 1) :
              SubSeq(s, k + 1, Len(s))[i] = s[(k + 1) + i - 1]
    BY <1>1, SubSeqProperties
  <1>3. \A i \in 1..(Len(s) - k) : (k + 1) + i - 1 = k + i
    OBVIOUS
  <1> QED
    BY <1>2, <1>3

\* Appending keeps every element where it is.
LEMMA AppendFact ==
  ASSUME NEW S, NEW s \in Seq(S), NEW v \in S
  PROVE  /\ Append(s, v) \in Seq(S) /\ Len(Append(s, v)) = Len(s) + 1
         /\ \A i \in 1..Len(s) : Append(s, v)[i] = s[i]
         /\ Append(s, v)[Len(s) + 1] = v
  BY AppendProperties

\* What is a piece of s is a piece of s with one more at its end.
LEMMA ContinuesGrow ==
  ASSUME NEW S, NEW s \in Seq(S), NEW q \in Seq(S), NEW n \in Nat, NEW v \in S,
         Continues(q, s, n)
  PROVE  Continues(q, Append(s, v), n)
  <1>1. \A i \in 1..Len(q) : n + i \in 1..Len(s)
    BY DEF Continues
  <1> QED
    BY <1>1, AppendFact DEF Continues

\* One more on both.
LEMMA ContinuesPush ==
  ASSUME NEW S, NEW s \in Seq(S), NEW q \in Seq(S), NEW n \in Nat, NEW v \in S,
         Continues(q, s, n), n + Len(q) = Len(s)
  PROVE  Continues(Append(q, v), Append(s, v), n)
  <1>1. /\ Append(s, v) \in Seq(S) /\ Len(Append(s, v)) = Len(s) + 1
        /\ Append(q, v) \in Seq(S) /\ Len(Append(q, v)) = Len(q) + 1
    BY AppendFact
  <1>2. ASSUME NEW i \in 1..Len(Append(q, v)) PROVE Append(q, v)[i] = Append(s, v)[n + i]
    <2>1. CASE i \in 1..Len(q)
      <3>1. n + i \in 1..Len(s) /\ q[i] = s[n + i]
        BY <2>1 DEF Continues
      <3> QED
        BY <2>1, <3>1, AppendFact
    <2>2. CASE i \notin 1..Len(q)
      <3>1. i = Len(q) + 1 /\ n + i = Len(s) + 1
        BY <1>1, <2>2
      <3> QED
        BY <3>1, AppendFact
    <2> QED
      BY <2>1, <2>2
  <1>3. n + Len(Append(q, v)) <= Len(Append(s, v))
    BY <1>1
  <1> QED
    BY <1>2, <1>3 DEF Continues

\* The next element of s.
LEMMA ContinuesTake ==
  ASSUME NEW S, NEW s \in Seq(S), NEW q \in Seq(S), NEW n \in Nat, NEW v \in S,
         Continues(q, s, n), n + Len(q) + 1 <= Len(s), v = s[n + Len(q) + 1]
  PROVE  Continues(Append(q, v), s, n)
  <1>1. Append(q, v) \in Seq(S) /\ Len(Append(q, v)) = Len(q) + 1
    BY AppendFact
  <1>2. ASSUME NEW i \in 1..Len(Append(q, v)) PROVE Append(q, v)[i] = s[n + i]
    <2>1. CASE i \in 1..Len(q)
      BY <2>1, AppendFact DEF Continues
    <2>2. CASE i \notin 1..Len(q)
      <3>1. i = Len(q) + 1 /\ n + i = n + Len(q) + 1
        BY <1>1, <2>2
      <3> QED
        BY <3>1, AppendFact
    <2> QED
      BY <2>1, <2>2
  <1> QED
    BY <1>1, <1>2 DEF Continues

\* The first k elements are given up.
LEMMA ContinuesDrop ==
  ASSUME NEW S, NEW s \in Seq(S), NEW q \in Seq(S), NEW n \in Nat, NEW k \in 0..Len(q),
         Continues(q, s, n)
  PROVE  Continues(SubSeq(q, k + 1, Len(q)), s, n + k)
  <1>1. /\ SubSeq(q, k + 1, Len(q)) \in Seq(S)
        /\ Len(SubSeq(q, k + 1, Len(q))) = Len(q) - k
        /\ \A i \in 1..(Len(q) - k) : SubSeq(q, k + 1, Len(q))[i] = q[k + i]
    BY DropFirst
  <1>2. \A i \in 1..(Len(q) - k) : k + i \in 1..Len(q) /\ n + (k + i) = n + k + i
    OBVIOUS
  <1>3. n + k + (Len(q) - k) <= Len(s)
    BY DEF Continues
  <1>4. ASSUME NEW i \in 1..(Len(q) - k) PROVE SubSeq(q, k + 1, Len(q))[i] = s[n + k + i]
    BY <1>1, <1>2 DEF Continues
  <1> QED
    BY <1>1, <1>3, <1>4 DEF Continues

\* The first k frames are given up.
LEMMA NumberedDrop ==
  ASSUME NEW S, NEW u \in Seq(S), NEW n \in Nat, NEW k \in 0..Len(u),
         \A f \in S : f.seq \in Nat, Numbered(u, n)
  PROVE  Numbered(SubSeq(u, k + 1, Len(u)), n)
  <1>1. /\ SubSeq(u, k + 1, Len(u)) \in Seq(S)
        /\ Len(SubSeq(u, k + 1, Len(u))) = Len(u) - k
        /\ \A i \in 1..(Len(u) - k) : SubSeq(u, k + 1, Len(u))[i] = u[k + i]
    BY DropFirst
  <1>2. ASSUME NEW i \in 1..(Len(u) - k) PROVE u[k + i].seq + (Len(u) - k) = n + i - 1
    <2>1. k + i \in 1..Len(u) /\ u[k + i].seq \in Nat
      OBVIOUS
    <2>2. u[k + i].seq + Len(u) = n + (k + i) - 1
      BY <2>1 DEF Numbered
    <2>3. Len(u) \in Nat /\ i \in Nat /\ k \in Nat /\ k <= Len(u)
      OBVIOUS
    <2> DEFINE f == u[k + i].seq
               m == Len(u)
    <2>4. f \in Nat /\ m \in Nat /\ k <= m /\ f + m = n + (k + i) - 1
      BY <2>1, <2>2, <2>3
    <2> HIDE DEF f, m
    <2>5. f + (m - k) = n + i - 1
      BY <2>3, <2>4
    <2> QED
      BY <2>5 DEF f, m
  <1> QED
    BY <1>1, <1>2 DEF Numbered

\* Frames with the next numbers are added.
LEMMA NumberedPush ==
  ASSUME NEW S, NEW u \in Seq(S), NEW w \in Seq(S), NEW n \in Nat,
         \A f \in S : f.seq \in Nat, Numbered(u, n),
         \A i \in 1..Len(w) : w[i].seq = n + i - 1
  PROVE  Numbered(u \o w, n + Len(w))
  <1>1. /\ u \o w \in Seq(S) /\ Len(u \o w) = Len(u) + Len(w)
        /\ \A i \in 1..(Len(u) + Len(w)) :
              (u \o w)[i] = IF i <= Len(u) THEN u[i] ELSE w[i - Len(u)]
    BY ConcatProperties
  <1>2. ASSUME NEW i \in 1..(Len(u) + Len(w))
        PROVE  (u \o w)[i].seq + (Len(u) + Len(w)) = n + Len(w) + i - 1
    <2>1. CASE i <= Len(u)
      <3>1. i \in 1..Len(u) /\ u[i].seq \in Nat
        BY <2>1
      <3>2. u[i].seq + Len(u) = n + i - 1
        BY <3>1 DEF Numbered
      <3> DEFINE f == u[i].seq
                 a == Len(u)
                 b == Len(w)
      <3>3. f \in Nat /\ a \in Nat /\ b \in Nat /\ i \in Nat /\ f + a = n + i - 1
        BY <1>1, <3>1, <3>2
      <3> HIDE DEF f, a, b
      <3>4. f + (a + b) = n + b + i - 1
        BY <3>3
      <3>5. (u \o w)[i].seq = f
        BY <1>1, <2>1 DEF f
      <3> QED
        BY <3>4, <3>5 DEF a, b
    <2>2. CASE ~(i <= Len(u))
      <3>1. i - Len(u) \in 1..Len(w)
        BY <2>2
      <3>2. w[i - Len(u)].seq = n + (i - Len(u)) - 1
        BY <3>1
      <3> QED
        BY <1>1, <2>2, <3>1, <3>2
    <2> QED
      BY <2>1, <2>2
  <1> QED
    BY <1>1, <1>2 DEF Numbered

LEMMA ContinuesTail ==
  ASSUME NEW S, NEW s \in Seq(S), NEW q \in Seq(S), NEW n \in Nat, q # <<>>,
         Continues(q, s, n)
  PROVE  Continues(Tail(q), s, n + 1)
  <1>1. /\ Tail(q) \in Seq(S) /\ Len(Tail(q)) = Len(q) - 1 /\ Len(q) >= 1
        /\ \A i \in 1..(Len(q) - 1) : Tail(q)[i] = q[i + 1]
    BY HeadTailProperties
  <1>2. n + 1 + (Len(q) - 1) <= Len(s)
    BY DEF Continues
  <1>3. ASSUME NEW i \in 1..(Len(q) - 1) PROVE Tail(q)[i] = s[n + 1 + i]
    <2>1. i + 1 \in 1..Len(q) /\ n + (i + 1) = n + 1 + i
      BY <1>1
    <2> QED
      BY <1>1, <2>1 DEF Continues
  <1> QED
    BY <1>1, <1>2, <1>3 DEF Continues
-----------------------------------------------------------------------------
(* Type correctness *)

\* TypeOK, read at one end.
LEMMA TypeAt ==
  ASSUME TypeOK, NEW e \in Ends
  PROVE  /\ rxBuf[e] \in Seq(Data) /\ Len(rxBuf[e]) \in Nat /\ rxClosed[e] \in BOOLEAN
         /\ nextExpected[e] \in Nat
         /\ outQ[e] \in Seq(Data) /\ Len(outQ[e]) \in Nat
         /\ unacked[e] \in Seq(Frame) /\ Len(unacked[e]) \in Nat
         /\ nextSeq[e] \in Nat /\ finSeq[e] \in Nat
         /\ finSent[e] \in BOOLEAN /\ finAcked[e] \in BOOLEAN
         /\ net[e] \in SUBSET Frame
         /\ sent[e] \in Seq(Data) /\ Len(sent[e]) \in Nat
         /\ got[e] \in Seq(Data) /\ Len(got[e]) \in Nat
  BY SMTT(30) DEF TypeOK

LEMMA Sizes == Window \in Nat /\ OutCap \in Nat /\ RxCap \in Nat /\ MaxSeq \in Nat
  BY SizesAssumption DEF SizesAssumption

LEMMA CarriedFact ==
  ASSUME NEW e, NEW F, NEW N \in Carried(e, F)
  PROVE  N \subseteq net[e] \cup F
  BY DEF Carried

LEMMA PostType ==
  ASSUME TypeOK, NEW e \in Ends, NEW F \in SUBSET Frame, Post(e, F)
  PROVE  net' \in [Ends -> SUBSET Frame]
  BY SMTT(30), CarriedFact DEF Post, TypeOK

LEMMA DeliveredType ==
  ASSUME TypeOK, NEW e \in Ends, NEW f, NEW R \in SUBSET Frame, Delivered(e, f, R)
  PROVE  net' \in [Ends -> SUBSET Frame]
  BY SMTT(30), CarriedFact, PeerFact DEF Delivered, TypeOK

LEMMA FrameType ==
  ASSUME TypeOK, NEW e \in Ends, NEW n \in Nat
  PROVE  /\ \A v \in Data : DataFrame(e, n, v) \in Frame
         /\ FinFrame(e, n) \in Frame
         /\ \A k \in {"ack", "ping"} : AckFrame(k, n) \in Frame
  BY DEF TypeOK, DataFrame, FinFrame, AckFrame, Frame

\* What one pass of flush_out turns into frames.
LEMMA FlushFact ==
  ASSUME TypeOK, NEW e \in Ends, Len(unacked[e]) <= Window, nextSeq[e] <= MaxSeq
  PROVE  /\ Flushable(e) \in 0..Len(outQ[e])
         /\ NewCount(e) \in Nat
         /\ NewCount(e) = IF FlushesFin(e) THEN Flushable(e) + 1 ELSE Flushable(e)
         /\ FlushesFin(e) => Flushable(e) = Len(outQ[e])
         /\ Len(unacked[e]) + NewCount(e) <= Window
         /\ nextSeq[e] + NewCount(e) <= MaxSeq
         /\ NewFrames(e) \in Seq(Frame) /\ Len(NewFrames(e)) = NewCount(e)
         /\ \A i \in 1..NewCount(e) : NewFrames(e)[i] =
               IF i <= Flushable(e) THEN DataFrame(e, nextSeq[e] + i - 1, outQ[e][i])
                                    ELSE FinFrame(e, nextSeq[e] + i - 1)
  <1>0. /\ Len(outQ[e]) \in Nat /\ Len(unacked[e]) \in Nat /\ nextSeq[e] \in Nat
        /\ Window \in Nat /\ MaxSeq \in Nat /\ nextExpected[e] \in Nat
    BY TypeAt, Sizes
  <1>1. /\ Flushable(e) \in 0..Len(outQ[e])
        /\ Flushable(e) <= Window - Len(unacked[e]) /\ Flushable(e) <= MaxSeq - nextSeq[e]
    BY SMTT(30), <1>0 DEF Flushable, NumbersLeft
  <1>2. /\ NewCount(e) \in Nat
        /\ NewCount(e) = IF FlushesFin(e) THEN Flushable(e) + 1 ELSE Flushable(e)
        /\ FlushesFin(e) => Flushable(e) = Len(outQ[e])
        /\ Len(unacked[e]) + NewCount(e) <= Window
        /\ nextSeq[e] + NewCount(e) <= MaxSeq
    <2>1. CASE FlushesFin(e)
      <3>1. /\ Flushable(e) = Len(outQ[e])
            /\ Len(unacked[e]) + Len(outQ[e]) < Window
            /\ nextSeq[e] + Len(outQ[e]) < MaxSeq
        <4>1. /\ Flushable(e) = Len(outQ[e])
              /\ Len(unacked[e]) + Len(outQ[e]) < Window
              /\ Len(outQ[e]) < MaxSeq - nextSeq[e]
          BY <2>1 DEF FlushesFin, NumbersLeft
        <4> DEFINE q == Len(outQ[e])
        <4>2. q \in Nat /\ nextSeq[e] \in Nat /\ MaxSeq \in Nat /\ q < MaxSeq - nextSeq[e]
          BY <4>1, <1>0
        <4> HIDE DEF q
        <4>3. nextSeq[e] + q < MaxSeq
          BY <4>2
        <4> USE DEF q
        <4> QED
          BY <4>1, <4>3
      <3>2. NewCount(e) = Flushable(e) + 1
        BY <2>1 DEF NewCount
      <3>3. NewCount(e) \in Nat /\ Flushable(e) \in Nat
        BY <1>0, <3>1, <3>2
      <3>4. NewCount(e) = Len(outQ[e]) + 1
        BY <3>1, <3>2
      <3>5. /\ Len(unacked[e]) + NewCount(e) <= Window
            /\ nextSeq[e] + NewCount(e) <= MaxSeq
        BY <1>0, <3>1, <3>3, <3>4, OneMore
      <3> QED
        BY <2>1, <3>1, <3>2, <3>3, <3>5
    <2>2. CASE ~FlushesFin(e)
      BY <1>0, <1>1, <2>2 DEF NewCount
    <2> QED
      BY <2>1, <2>2
  <1>3. \A i \in 1..NewCount(e) : NewFrames(e)[i] =
               IF i <= Flushable(e) THEN DataFrame(e, nextSeq[e] + i - 1, outQ[e][i])
                                    ELSE FinFrame(e, nextSeq[e] + i - 1)
    BY DEF NewFrames
  <1>4. ASSUME NEW i \in 1..NewCount(e) PROVE NewFrames(e)[i] \in Frame
    <2>1. nextSeq[e] + i - 1 \in Nat /\ i \in Nat /\ 1 <= i
      BY SMTT(30), <1>0, <1>2
    <2>2. i <= Flushable(e) => outQ[e][i] \in Data
      <3>1. ASSUME i <= Flushable(e) PROVE i \in 1..Len(outQ[e])
        BY <3>1, <2>1, <1>1, <1>0
      <3> QED
        BY <3>1, TypeAt, ElementOfSeq
    <2> QED
      BY <1>3, <2>1, <2>2, FrameType
  <1>5. NewFrames(e) \in Seq(Frame) /\ Len(NewFrames(e)) = NewCount(e)
    <2> DEFINE n == NewCount(e)
               F(i) == IF i <= Flushable(e) THEN DataFrame(e, nextSeq[e] + i - 1, outQ[e][i])
                                            ELSE FinFrame(e, nextSeq[e] + i - 1)
    <2>1. NewFrames(e) = [i \in 1..n |-> F(i)]
      BY DEF NewFrames
    <2>2. \A i \in 1..n : F(i) \in Frame
      BY <1>3, <1>4
    <2>3. n \in Nat
      BY <1>2
    <2> HIDE DEF n, F
    <2> QED
      BY <2>1, <2>2, <2>3 DEF n
  <1> QED
    BY <1>1, <1>2, <1>3, <1>5

\* The window and the sequence space bound what a stream has in flight.
Bounded == \A e \in Ends : Len(unacked[e]) <= Window /\ nextSeq[e] <= MaxSeq

LEMMA FlushType ==
  ASSUME TypeOK, Bounded, NEW e \in Ends, FlushOut(e)
  PROVE  /\ outQ' \in [Ends -> Seq(Data)] /\ unacked' \in [Ends -> Seq(Frame)]
         /\ nextSeq' \in [Ends -> Nat] /\ finSeq' \in [Ends -> Nat]
         /\ finSent' \in [Ends -> BOOLEAN]
         /\ Bounded'
  <1>1. /\ Flushable(e) \in 0..Len(outQ[e])
        /\ NewCount(e) \in Nat
        /\ Len(unacked[e]) + NewCount(e) <= Window
        /\ nextSeq[e] + NewCount(e) <= MaxSeq
        /\ NewFrames(e) \in Seq(Frame) /\ Len(NewFrames(e)) = NewCount(e)
    BY FlushFact DEF Bounded
  <1>t. /\ unacked[e] \in Seq(Frame) /\ Len(unacked[e]) \in Nat
        /\ nextSeq[e] \in Nat /\ Flushable(e) \in Nat
    <2>1. Len(outQ[e]) \in Nat
      BY TypeAt
    <2>2. Flushable(e) \in Nat
      BY <1>1, <2>1
    <2> QED
      BY <2>2, TypeAt
  <1>2. SubSeq(outQ[e], Flushable(e) + 1, Len(outQ[e])) \in Seq(Data)
    BY <1>1, TypeAt, DropFirst
  <1>3. /\ unacked[e] \o NewFrames(e) \in Seq(Frame)
        /\ Len(unacked[e] \o NewFrames(e)) = Len(unacked[e]) + NewCount(e)
    BY ZenonT(60), <1>1, <1>t, ConcatProperties
  <1>4. nextSeq[e] + NewCount(e) \in Nat /\ nextSeq[e] + Flushable(e) \in Nat
    BY <1>1, <1>t
  <1>a. outQ \in [Ends -> Seq(Data)] /\ unacked \in [Ends -> Seq(Frame)]
    BY DEF TypeOK
  <1>b. /\ outQ' = [outQ EXCEPT ![e] = SubSeq(outQ[e], Flushable(e) + 1, Len(outQ[e]))]
        /\ unacked' = [unacked EXCEPT ![e] = unacked[e] \o NewFrames(e)]
    BY DEF FlushOut
  <1>5. outQ' \in [Ends -> Seq(Data)]
    BY <1>2, <1>a, <1>b, ExceptFact
  <1>6. unacked' \in [Ends -> Seq(Frame)]
    BY <1>3, <1>a, <1>b, ExceptFact
  <1>7. nextSeq' \in [Ends -> Nat] /\ finSeq' \in [Ends -> Nat] /\ finSent' \in [Ends -> BOOLEAN]
    BY <1>4 DEF FlushOut, TypeOK, FlushesFin
  <1>8. ASSUME NEW x \in Ends PROVE Len(unacked'[x]) <= Window /\ nextSeq'[x] <= MaxSeq
    <2>1. CASE x = e
      <3>1. unacked'[e] = unacked[e] \o NewFrames(e) /\ nextSeq'[e] = nextSeq[e] + NewCount(e)
        BY DEF FlushOut, TypeOK
      <3> QED
        BY <2>1, <3>1, <1>1, <1>3
    <2>2. CASE x # e
      <3>1. unacked'[x] = unacked[x] /\ nextSeq'[x] = nextSeq[x]
        BY <2>2 DEF FlushOut, TypeOK
      <3> QED
        BY <3>1 DEF Bounded
    <2> QED
      BY <2>1, <2>2
  <1> QED
    BY <1>5, <1>6, <1>7, <1>8 DEF Bounded

LEMMA InFlightType ==
  ASSUME NEW e \in Ends, unacked[e] \in Seq(Frame)
  PROVE  InFlight(e) \subseteq Frame
  BY DEF InFlight

LEMMA HeardType ==
  ASSUME TypeOK, Bounded, NEW e \in Ends, NEW f, Heard(e, f)
  PROVE  /\ f \in Frame
         /\ unacked' \in [Ends -> Seq(Frame)] /\ finAcked' \in [Ends -> BOOLEAN]
         /\ quiet' \in [Ends -> 0..MaxQuiet] /\ hadRx' \in [Ends -> BOOLEAN]
         /\ parked' \in [Ends -> BOOLEAN]
         /\ Bounded'
  <1>1. f \in Frame
    BY PeerFact DEF Heard, TypeOK
  <1>2. PICK k \in 0..Len(unacked[e]) :
           unacked' = [unacked EXCEPT ![e] = SubSeq(@, k + 1, Len(@))]
    BY DEF Heard
  <1>3. /\ SubSeq(unacked[e], k + 1, Len(unacked[e])) \in Seq(Frame)
        /\ Len(SubSeq(unacked[e], k + 1, Len(unacked[e]))) = Len(unacked[e]) - k
    <2>1. unacked[e] \in Seq(Frame)
      BY TypeAt
    <2> QED
      BY <2>1, DropFirst
  <1>a. unacked \in [Ends -> Seq(Frame)]
    BY DEF TypeOK
  <1>b. unacked' = [unacked EXCEPT ![e] = SubSeq(unacked[e], k + 1, Len(unacked[e]))]
    BY <1>2
  <1>c. Len(unacked[e]) \in Nat
    BY TypeAt
  <1>4. unacked' \in [Ends -> Seq(Frame)]
    BY <1>3, <1>a, <1>b, ExceptFact
  <1>5. MaxQuiet \in Nat
    BY TimeAssumption DEF TimeAssumption, MaxQuiet
  <1>6. quiet' \in [Ends -> 0..MaxQuiet] /\ hadRx' \in [Ends -> BOOLEAN]
    <2>1. quiet \in [Ends -> 0..MaxQuiet] /\ hadRx \in [Ends -> BOOLEAN]
      BY DEF TypeOK
    <2>2. quiet' = [quiet EXCEPT ![e] = 0] /\ hadRx' = [hadRx EXCEPT ![e] = TRUE]
      BY DEF Heard
    <2>3. 0 \in 0..MaxQuiet
      BY <1>5
    <2> QED
      BY <2>1, <2>2, <2>3, ExceptFact
  <1>7. finAcked' \in [Ends -> BOOLEAN] /\ parked' \in [Ends -> BOOLEAN]
    <2>1. finAcked \in [Ends -> BOOLEAN] /\ parked \in [Ends -> BOOLEAN]
      BY DEF TypeOK
    <2>2. /\ \E v \in BOOLEAN : finAcked' = [finAcked EXCEPT ![e] = v]
          /\ \E v \in BOOLEAN : parked' = [parked EXCEPT ![e] = v]
      BY <2>1, Zenon DEF Heard
    <2> QED
      BY <2>1, <2>2
  <1>8. ASSUME NEW x \in Ends PROVE Len(unacked'[x]) <= Window /\ nextSeq'[x] <= MaxSeq
    <2>1. nextSeq'[x] <= MaxSeq
      BY DEF Heard, Bounded
    <2>2. CASE x = e
      <3>1. Len(unacked'[e]) = Len(unacked[e]) - k
        BY <1>3, <1>a, <1>b, ExceptFact
      <3>2. Len(unacked[e]) <= Window
        BY DEF Bounded
      <3> QED
        BY <2>1, <2>2, <3>1, <3>2, <1>c, Sizes, FewerFit
    <2>3. CASE x # e
      <3>1. unacked'[x] = unacked[x]
        BY <1>a, <1>b, <2>3, ExceptFact
      <3> QED
        BY <2>1, <3>1 DEF Bounded
    <2> QED
      BY <2>2, <2>3
  <1> QED
    BY <1>1, <1>4, <1>6, <1>7, <1>8 DEF Bounded

LEMMA TimerType ==
  ASSUME TypeOK, NEW e \in Ends, TimerRound(e)
  PROVE  quiet' \in [Ends -> 0..MaxQuiet]
  <1>1. MaxQuiet \in Nat /\ MaxLate \in Nat
    BY TimeAssumption DEF TimeAssumption, MaxQuiet
  <1>2. PICK d \in 1..MaxLate : quiet' = [quiet EXCEPT ![e] = Later(@, d)]
    BY DEF TimerRound
  <1>0. quiet[e] \in 0..MaxQuiet
    BY DEF TypeOK
  <1>3. Later(quiet[e], d) \in 0..MaxQuiet
    BY <1>0, <1>1 DEF Later
  <1> QED
    BY <1>2, <1>3 DEF TypeOK

LEMMA InitType == Init => TypeOK /\ Bounded
  <1> SUFFICES ASSUME Init PROVE TypeOK /\ Bounded
    OBVIOUS
  <1>1. MaxQuiet \in Nat
    BY TimeAssumption DEF TimeAssumption, MaxQuiet
  <1>2. TypeOK
    BY <1>1 DEF Init, TypeOK
  <1>3. Bounded
    BY SizesAssumption DEF Init, Bounded, SizesAssumption
  <1> QED
    BY <1>2, <1>3

LEMMA UserType ==
  ASSUME TypeOK, Bounded, NEW e \in Ends, User(e)
  PROVE  TypeOK' /\ Bounded'
  <1> USE DEF rcvVars, sndVars, ackVars, liveVars, userVars
  <1>1. CASE Write(e)
    <2>1. PICK v \in Data : /\ outQ' = [outQ EXCEPT ![e] = Append(outQ[e], v)]
                            /\ sent' = [sent EXCEPT ![e] = Append(sent[e], v)]
      BY <1>1 DEF Write
    <2>2. Append(outQ[e], v) \in Seq(Data) /\ Append(sent[e], v) \in Seq(Data)
      BY TypeAt, AppendProperties
    <2>3. outQ \in [Ends -> Seq(Data)] /\ sent \in [Ends -> Seq(Data)]
      BY DEF TypeOK
    <2>4. outQ' \in [Ends -> Seq(Data)] /\ sent' \in [Ends -> Seq(Data)]
      BY <2>1, <2>2, <2>3, ExceptFact
    <2> QED
      BY <1>1, <2>4 DEF Write, TypeOK, Bounded
  <1>2. CASE WriteParks(e)
    BY <1>2 DEF WriteParks, TypeOK, Bounded
  <1>3. CASE Shutdown(e)
    BY <1>3 DEF Shutdown, TypeOK, Bounded
  <1>4. CASE ShutdownPoll(e)
    <2>1. CASE finAcked[e]
      BY SMTT(30), <1>4, <2>1 DEF ShutdownPoll, TypeOK, Bounded
    <2>2. CASE ~finAcked[e]
      BY <1>4, <2>2 DEF ShutdownPoll, TypeOK, Bounded
    <2> QED
      BY <2>1, <2>2
  <1>w. CASE ShutdownWaits(e)
    <2>1. CASE finAcked[e]
      BY SMTT(30), <1>w, <2>1 DEF ShutdownWaits, TypeOK, Bounded
    <2>2. CASE ~finAcked[e]
      <3>1. /\ parked' = [parked EXCEPT ![e] = TRUE]
            /\ \E v \in {"no", "missed"} : look' = [look EXCEPT ![e] = v]
            /\ UNCHANGED <<rcvVars, sndVars, ackVars, liveVars, rd, sent, got, writeClosed,
                           running, net, wr>>
        BY <1>w, <2>2 DEF ShutdownWaits
      <3> QED
        BY <3>1 DEF TypeOK, Bounded
    <2> QED
      BY <2>1, <2>2
  <1>5. CASE WriteFails(e)
    BY <1>5 DEF WriteFails, TypeOK, Bounded
  <1>6. CASE Read(e)
    <2>1. Append(got[e], Head(rxBuf[e])) \in Seq(Data) /\ Tail(rxBuf[e]) \in Seq(Data)
      <3>1. rxBuf[e] \in Seq(Data) /\ rxBuf[e] # <<>>
        BY <1>6, TypeAt DEF Read
      <3>2. Head(rxBuf[e]) \in Data /\ Tail(rxBuf[e]) \in Seq(Data)
        BY <3>1, HeadTailProperties
      <3> QED
        BY <3>2, TypeAt, AppendProperties
    <2>2. /\ got \in [Ends -> Seq(Data)] /\ rxBuf \in [Ends -> Seq(Data)]
          /\ got' = [got EXCEPT ![e] = Append(got[e], Head(rxBuf[e]))]
          /\ rxBuf' = [rxBuf EXCEPT ![e] = Tail(rxBuf[e])]
      BY <1>6 DEF Read, TypeOK
    <2>3. got' \in [Ends -> Seq(Data)] /\ rxBuf' \in [Ends -> Seq(Data)]
      BY <2>1, <2>2, ExceptFact
    <2>4. UNCHANGED <<rxClosed, nextExpected, sndVars, ackVars, liveVars, wr, rd, sent,
                      writeClosed, look, parked, running, net>>
      BY <1>6 DEF Read
    <2>5. TypeOK'
      BY <2>3, <2>4 DEF TypeOK
    <2>6. Bounded'
      BY <2>4 DEF Bounded
    <2> QED
      BY <2>5, <2>6
  <1>7. CASE ReadEnds(e)
    BY SMTT(30), <1>7 DEF ReadEnds, TypeOK, Bounded
  <1>8. CASE DropHandle(e)
    BY <1>8 DEF DropHandle, TypeOK, Bounded
  <1> QED
    BY <1>1, <1>2, <1>3, <1>4, <1>w, <1>5, <1>6, <1>7, <1>8 DEF User

LEMMA TimerCase ==
  ASSUME TypeOK, Bounded, NEW e \in Ends, Timer(e) \/ Flush(e)
  PROVE  TypeOK' /\ Bounded'
  <1> USE DEF rcvVars, sndVars, ackVars, liveVars, userVars
  <1>1. FlushOut(e)
    BY DEF Timer, Flush, TimerGivesUp, TimerFails, TimerRetransmits, TimerIdles, TimerRound
  <1>2. /\ outQ' \in [Ends -> Seq(Data)] /\ unacked' \in [Ends -> Seq(Frame)]
        /\ nextSeq' \in [Ends -> Nat] /\ finSeq' \in [Ends -> Nat]
        /\ finSent' \in [Ends -> BOOLEAN]
        /\ Bounded'
    BY <1>1, FlushType
  <1>3. quiet' \in [Ends -> 0..MaxQuiet]
    <2>1. CASE Flush(e)
      BY <2>1 DEF Flush, TypeOK
    <2>2. CASE Timer(e)
      BY <2>2, TimerType DEF Timer, TimerGivesUp, TimerFails, TimerRetransmits, TimerIdles
    <2> QED
      BY <2>1, <2>2
  <1>4. net' \in [Ends -> SUBSET Frame]
    <2>1. InFlight(e)' \subseteq Frame /\ FirstSent(e) \subseteq Frame
      BY SMTT(30), <1>2 DEF InFlight, FirstSent
    <2>2. {AckFrame("ping", nextExpected[e])} \subseteq Frame
      BY FrameType, TypeAt
    <2>3. \E F \in SUBSET Frame : Post(e, F)
      BY <2>1, <2>2 DEF Timer, Flush, TimerGivesUp, TimerFails, TimerRetransmits, TimerIdles
    <2> QED
      BY <2>3, PostType
  <1>5. /\ err' \in [Ends -> {"none", "lost", "exhausted"}] /\ parked' \in [Ends -> BOOLEAN]
        /\ finAcked' \in [Ends -> BOOLEAN] /\ gaveUp' \in [Ends -> BOOLEAN]
    <2>1. CASE Flush(e)
      <3>1. Fail(e, "exhausted") \/ UNCHANGED <<err, parked>>
        BY <2>1 DEF Flush
      <3>2. UNCHANGED ackVars
        BY <2>1 DEF Flush
      <3>3. CASE Fail(e, "exhausted")
        BY <3>2, <3>3 DEF Fail, TypeOK
      <3>4. CASE UNCHANGED <<err, parked>>
        BY <3>2, <3>4 DEF TypeOK
      <3> QED
        BY <3>1, <3>3, <3>4
    <2>2. CASE TimerGivesUp(e)
      BY <2>2 DEF TimerGivesUp, TypeOK
    <2>3. CASE TimerFails(e)
      <3>1. /\ \E why \in {"exhausted", "lost"} : Fail(e, why)
            /\ UNCHANGED ackVars
        BY <2>3 DEF TimerFails
      <3> QED
        BY SMTT(30), <3>1 DEF Fail, TypeOK
    <2>4. CASE TimerRetransmits(e)
      BY <2>4 DEF TimerRetransmits, TypeOK
    <2>5. CASE TimerIdles(e)
      BY <2>5 DEF TimerIdles, TypeOK
    <2> QED
      BY <2>1, <2>2, <2>3, <2>4, <2>5 DEF Timer
  <1>6. UNCHANGED <<rcvVars, hadRx, userVars, running>>
    BY DEF Timer, Flush, TimerGivesUp, TimerFails, TimerRetransmits, TimerIdles, TimerRound
  <1> QED
    BY <1>2, <1>3, <1>4, <1>5, <1>6 DEF TypeOK

LEMMA RecvType ==
  ASSUME TypeOK, Bounded, NEW e \in Ends, Recv(e)
  PROVE  TypeOK' /\ Bounded'
  <1> USE DEF rcvVars, sndVars, ackVars, liveVars, userVars
  <1>1. PICK f \in net[Peer(e)] :
           RecvNext(e, f) \/ RecvFull(e, f) \/ RecvOther(e, f) \/ RecvAck(e, f)
    BY DEF Recv
  <1>2. Heard(e, f)
    BY <1>1 DEF RecvNext, RecvFull, RecvOther, RecvAck
  <1>3. /\ f \in Frame
        /\ unacked' \in [Ends -> Seq(Frame)] /\ finAcked' \in [Ends -> BOOLEAN]
        /\ quiet' \in [Ends -> 0..MaxQuiet] /\ hadRx' \in [Ends -> BOOLEAN]
        /\ parked' \in [Ends -> BOOLEAN]
        /\ Bounded'
    BY <1>2, HeardType
  <1>4. UNCHANGED <<outQ, nextSeq, finSent, finSeq, gaveUp, err, userVars, running>>
    BY <1>2 DEF Heard
  <1>5. nextExpected[e] \in Nat /\ nextExpected[e] + 1 \in Nat
    BY SMTT(30), TypeAt
  <1>6. \E R \in SUBSET Frame : Delivered(e, f, R)
    <2>1. AckFrame("ack", nextExpected[e]) \in Frame /\ AckFrame("ack", nextExpected[e] + 1) \in Frame
      BY <1>5, FrameType
    <2>2. \/ Delivered(e, f, {})
          \/ Delivered(e, f, {AckFrame("ack", nextExpected[e])})
          \/ Delivered(e, f, {AckFrame("ack", nextExpected[e] + 1)})
      BY <1>1 DEF RecvNext, RecvFull, RecvOther, RecvAck
    <2> QED
      BY <2>1, <2>2
  <1>7. net' \in [Ends -> SUBSET Frame]
    BY <1>6, DeliveredType
  <1>8. /\ rxBuf' \in [Ends -> Seq(Data)] /\ rxClosed' \in [Ends -> BOOLEAN]
        /\ nextExpected' \in [Ends -> Nat]
    <2>1. CASE RecvNext(e, f)
      <3>1. /\ rxBuf \in [Ends -> Seq(Data)] /\ rxClosed \in [Ends -> BOOLEAN]
            /\ nextExpected \in [Ends -> Nat]
        BY DEF TypeOK
      <3>2. rxBuf' \in [Ends -> Seq(Data)]
        <4>1. CASE f.kind = "data"
          <5>1. f.data \in Data
            BY <4>1, <1>3 DEF Frame
          <5>2. Append(rxBuf[e], f.data) \in Seq(Data)
            BY <5>1, TypeAt, AppendProperties
          <5>3. rxBuf' = [rxBuf EXCEPT ![e] = Append(rxBuf[e], f.data)]
            BY <2>1, <4>1 DEF RecvNext
          <5> QED
            BY <3>1, <5>2, <5>3, ExceptFact
        <4>2. CASE f.kind # "data"
          BY <2>1, <3>1, <4>2 DEF RecvNext
        <4> QED
          BY <4>1, <4>2
      <3>3. rxClosed' \in [Ends -> BOOLEAN] /\ nextExpected' \in [Ends -> Nat]
        BY <2>1, <3>1, <1>5 DEF RecvNext
      <3> QED
        BY <3>2, <3>3
    <2>2. CASE ~RecvNext(e, f)
      BY <1>1, <2>2 DEF RecvFull, RecvOther, RecvAck, TypeOK
    <2> QED
      BY <2>1, <2>2
  <1> QED
    BY <1>3, <1>4, <1>7, <1>8 DEF TypeOK

LEMMA NextType ==
  ASSUME TypeOK, Bounded, [Next]_vars
  PROVE  TypeOK' /\ Bounded'
  <1> USE DEF rcvVars, sndVars, ackVars, liveVars, userVars
  <1>1. ASSUME NEW e \in Ends, User(e)
        PROVE  TypeOK' /\ Bounded'
    BY <1>1, UserType
  <1>2. ASSUME NEW e \in Ends, Exit(e)
        PROVE  TypeOK' /\ Bounded'
    BY <1>2 DEF Exit, TypeOK, Bounded
  <1>3. ASSUME NEW e \in Ends, Timer(e) \/ Flush(e)
        PROVE  TypeOK' /\ Bounded'
    BY <1>3, TimerCase
  <1>4. ASSUME NEW e \in Ends, Recv(e)
        PROVE  TypeOK' /\ Bounded'
    BY <1>4, RecvType
  <1>5. CASE UNCHANGED vars
    BY <1>5 DEF vars, TypeOK, Bounded
  <1> QED
    BY <1>1, <1>2, <1>3, <1>4, <1>5 DEF Next, Task

\* Every variable keeps its type; the window and the sequence space are respected.
THEOREM TypeCorrect == Spec => [](TypeOK /\ Bounded)
  <1>1. Init => TypeOK /\ Bounded
    BY InitType
  <1>2. TypeOK /\ Bounded /\ [Next]_vars => (TypeOK /\ Bounded)'
    BY NextType
  <1> QED
    BY <1>1, <1>2, PTL DEF Spec
-----------------------------------------------------------------------------
(* The inductive invariant *)

LEMMA InitInv == Init => StreamInv
  <1> SUFFICES ASSUME Init PROVE StreamInv
    OBVIOUS
  <1> SUFFICES ASSUME NEW e \in Ends
               PROVE  SendInv(e) /\ FrameInv(e) /\ WindowInv(e) /\ RecvInv(e) /\ AckInv(e)
    BY DEF StreamInv
  <1>1. SendInv(e) /\ AckInv(e)
    BY DEF Init, SendInv, AckInv, Framed, Continues
  <1>2. FrameInv(e)
    BY DEF Init, FrameInv
  <1>3. WindowInv(e) /\ RecvInv(e)
    BY PeerFact DEF Init, WindowInv, RecvInv, Numbered, Continues
  <1> QED
    BY <1>1, <1>2, <1>3

\* Steps that only move the users' flags.
LEMMA FlagStep ==
  ASSUME StreamInv,
         UNCHANGED <<rcvVars, sndVars, net, sent, got, gaveUp, finAcked>>,
         \A e \in Ends : /\ wr'[e] = "open" => ~writeClosed'[e]
                         /\ wr'[e] = "ok" => finAcked[e]
                         /\ rd'[e] = "eof" => rxClosed[e] /\ rxBuf[e] = <<>>
                         /\ writeClosed[e] => writeClosed'[e]
  PROVE  StreamInv'
  <1> USE DEF rcvVars, sndVars
  <1> SUFFICES ASSUME NEW e \in Ends
               PROVE  (SendInv(e) /\ FrameInv(e) /\ WindowInv(e) /\ RecvInv(e) /\ AckInv(e))'
    BY DEF StreamInv
  <1>0. SendInv(e) /\ FrameInv(e) /\ WindowInv(e) /\ RecvInv(e) /\ AckInv(e)
    BY DEF StreamInv
  <1>1. SendInv(e)'
    BY <1>0 DEF SendInv, Framed, Continues
  <1>2. FrameInv(e)'
    BY <1>0 DEF FrameInv, Truthful
  <1>3. WindowInv(e)' /\ AckInv(e)'
    BY <1>0 DEF WindowInv, AckInv
  <1>4. RecvInv(e)'
    BY <1>0 DEF RecvInv
  <1> QED
    BY <1>1, <1>2, <1>3, <1>4

LEMMA UserFlags ==
  ASSUME TypeOK, StreamInv, NEW x \in Ends,
         \/ WriteParks(x) \/ Shutdown(x) \/ ShutdownPoll(x) \/ ShutdownWaits(x) \/ WriteFails(x)
         \/ ReadEnds(x) \/ DropHandle(x) \/ Exit(x)
  PROVE  StreamInv'
  <1> USE DEF rcvVars, sndVars, ackVars, liveVars, userVars
  <1>1. UNCHANGED <<rcvVars, sndVars, net, sent, got, gaveUp, finAcked>>
    BY DEF WriteParks, Shutdown, ShutdownPoll, ShutdownWaits, WriteFails, ReadEnds, DropHandle, Exit
  <1>2. ASSUME NEW e \in Ends
        PROVE  /\ wr'[e] = "open" => ~writeClosed'[e]
               /\ wr'[e] = "ok" => finAcked[e]
               /\ rd'[e] = "eof" => rxClosed[e] /\ rxBuf[e] = <<>>
               /\ writeClosed[e] => writeClosed'[e]
    <2>1. /\ wr[e] = "open" => ~writeClosed[e]
          /\ wr[e] = "ok" => finAcked[e]
          /\ rd[e] = "eof" => rxClosed[e] /\ rxBuf[e] = <<>>
      BY DEF StreamInv, SendInv, RecvInv
    <2>2. CASE WriteParks(x) \/ Exit(x)
      BY <2>1, <2>2 DEF WriteParks, Exit
    <2>3. CASE Shutdown(x)
      BY <2>1, <2>3 DEF Shutdown, TypeOK
    <2>4. CASE ShutdownPoll(x)
      <3>1. UNCHANGED <<writeClosed, rd>>
        BY <2>4 DEF ShutdownPoll
      <3>2. CASE finAcked[x]
        BY <2>1, <2>4, <3>1, <3>2 DEF ShutdownPoll, TypeOK
      <3>3. CASE ~finAcked[x]
        BY <2>1, <2>4, <3>1, <3>3 DEF ShutdownPoll
      <3> QED
        BY <3>2, <3>3
    <2>w. CASE ShutdownWaits(x)
      <3>1. UNCHANGED <<writeClosed, rd>>
        BY <2>w DEF ShutdownWaits
      <3>2. CASE finAcked[x]
        BY <2>1, <2>w, <3>1, <3>2 DEF ShutdownWaits, TypeOK
      <3>3. CASE ~finAcked[x]
        BY <2>1, <2>w, <3>1, <3>3 DEF ShutdownWaits
      <3> QED
        BY <3>2, <3>3
    <2>5. CASE WriteFails(x)
      BY <2>1, <2>5 DEF WriteFails, TypeOK
    <2>6. CASE ReadEnds(x)
      BY SMTT(30), <2>1, <2>6 DEF ReadEnds, AtEof, TypeOK
    <2>7. CASE DropHandle(x)
      BY <2>1, <2>7 DEF DropHandle, TypeOK
    <2> QED
      BY <2>2, <2>3, <2>4, <2>w, <2>5, <2>6, <2>7
  <1> QED
    BY <1>1, <1>2, FlagStep DEF rcvVars, sndVars

\* What an end knows of itself and of its peer.
LEMMA InvAt ==
  ASSUME StreamInv, NEW e \in Ends
  PROVE  /\ SendInv(e) /\ FrameInv(e) /\ WindowInv(e) /\ RecvInv(e) /\ AckInv(e)
         /\ SendInv(Peer(e)) /\ FrameInv(Peer(e)) /\ WindowInv(Peer(e))
         /\ RecvInv(Peer(e)) /\ AckInv(Peer(e))
  BY PeerFact DEF StreamInv

\* A frame stays truthful while its end sends more and receives more.
LEMMA TruthStays ==
  ASSUME TypeOK, NEW e \in Ends, NEW f \in Frame, Truthful(e, f),
         nextSeq'[e] \in Nat, nextSeq[e] <= nextSeq'[e],
         nextExpected'[e] \in Nat, nextExpected[e] <= nextExpected'[e],
         finSent[e] => finSent'[e] /\ finSeq'[e] = finSeq[e],
         sent'[e] = sent[e] \/ \E v \in Data : sent'[e] = Append(sent[e], v)
  PROVE  Truthful(e, f)'
  <1>1. f.seq \in Nat /\ f.ack \in Nat
    BY DEF Frame
  <1>2. nextSeq[e] \in Nat /\ nextExpected[e] \in Nat /\ sent[e] \in Seq(Data)
    BY TypeAt
  <1>3. ASSUME f.kind = "data"
        PROVE  f.seq <= Len(sent'[e]) /\ f.data = sent'[e][f.seq]
    <2>1. f.seq \in 1..Len(sent[e]) /\ f.data = sent[e][f.seq]
      BY <1>1, <1>2, <1>3 DEF Truthful
    <2>2. CASE sent'[e] = sent[e]
      BY <2>1, <2>2
    <2>3. CASE sent'[e] # sent[e]
      <3>1. PICK v \in Data : sent'[e] = Append(sent[e], v)
        BY <2>3
      <3>2. Len(Append(sent[e], v)) = Len(sent[e]) + 1 /\ Append(sent[e], v)[f.seq] = sent[e][f.seq]
        BY <1>2, <2>1, AppendFact
      <3>3. Len(sent[e]) \in Nat
        BY TypeAt
      <3> QED
        BY <2>1, <3>1, <3>2, <3>3
    <2> QED
      BY <2>2, <2>3
  <1>4. f.kind = "data" => f.seq < nextSeq'[e]
    BY <1>1, <1>2 DEF Truthful
  <1>5. f.ack <= nextExpected'[e]
    BY <1>1, <1>2 DEF Truthful
  <1> QED
    BY <1>3, <1>4, <1>5 DEF Truthful

\* What an end holds of its peer's data stays right while the peer writes more
\* and makes more frames, unless it had already sent its FIN.
LEMMA ReceiverStays ==
  ASSUME TypeOK, StreamInv, NEW e \in Ends,
         rxBuf'[e] = rxBuf[e], rxClosed'[e] = rxClosed[e],
         nextExpected'[e] = nextExpected[e], got'[e] = got[e], rd'[e] = rd[e],
         nextSeq'[Peer(e)] \in Nat, nextSeq[Peer(e)] <= nextSeq'[Peer(e)],
         finSent[Peer(e)] => /\ finSent'[Peer(e)] /\ finSeq'[Peer(e)] = finSeq[Peer(e)]
                             /\ sent'[Peer(e)] = sent[Peer(e)],
         ~finSent[Peer(e)] /\ finSent'[Peer(e)] => /\ finSeq'[Peer(e)] \in Nat
                                                   /\ finSeq'[Peer(e)] >= nextSeq[Peer(e)],
         sent'[Peer(e)] = sent[Peer(e)] \/ \E v \in Data : sent'[Peer(e)] = Append(sent[Peer(e)], v)
  PROVE  RecvInv(e)'
  <1>1. RecvInv(e) /\ Peer(e) \in Ends
    BY InvAt, PeerFact
  <1>2. /\ nextExpected[e] \in Nat /\ nextSeq[Peer(e)] \in Nat /\ finSeq[Peer(e)] \in Nat
        /\ Len(got[e]) \in Nat /\ Len(rxBuf[e]) \in Nat
        /\ rxClosed[e] \in BOOLEAN /\ finSent[Peer(e)] \in BOOLEAN
    BY <1>1, TypeAt
  <1>3. /\ sent[Peer(e)] \in Seq(Data) /\ got[e] \in Seq(Data) /\ rxBuf[e] \in Seq(Data)
    BY <1>1, TypeAt
  <1>4. /\ Continues(got[e], sent'[Peer(e)], 0)
        /\ Continues(rxBuf[e], sent'[Peer(e)], Len(got[e]))
    <2>1. /\ Continues(got[e], sent[Peer(e)], 0)
          /\ Continues(rxBuf[e], sent[Peer(e)], Len(got[e]))
      BY <1>1 DEF RecvInv
    <2>2. CASE sent'[Peer(e)] = sent[Peer(e)]
      BY <2>1, <2>2
    <2>3. CASE sent'[Peer(e)] # sent[Peer(e)]
      <3>1. PICK v \in Data : sent'[Peer(e)] = Append(sent[Peer(e)], v)
        BY <2>3
      <3> QED
        BY <1>2, <1>3, <2>1, <3>1, ContinuesGrow
    <2> QED
      BY <2>2, <2>3
  <1>5. nextExpected[e] >= 1 /\ nextExpected[e] <= nextSeq'[Peer(e)]
    BY <1>1, <1>2 DEF RecvInv
  <1>6. rxClosed[e] <=> finSent'[Peer(e)] /\ nextExpected[e] = finSeq'[Peer(e)] + 1
    <2>1. CASE finSent[Peer(e)]
      BY <1>1, <2>1 DEF RecvInv
    <2>2. CASE ~finSent[Peer(e)]
      <3>1. ~rxClosed[e] /\ nextExpected[e] <= nextSeq[Peer(e)]
        BY <1>1, <2>2 DEF RecvInv
      <3> QED
        BY <1>2, <2>2, <3>1
    <2> QED
      BY <2>1, <2>2
  <1>7. rxClosed[e] => Len(got[e]) + Len(rxBuf[e]) = Len(sent'[Peer(e)])
    BY <1>1 DEF RecvInv
  <1>8. Peer(e)' = Peer(e)
    BY DEF Peer
  <1> QED
    BY <1>1, <1>4, <1>5, <1>6, <1>7, <1>8 DEF RecvInv

\* A write: more is sent and more is queued, and nothing else changes.
LEMMA WriteInv ==
  ASSUME TypeOK, StreamInv, NEW x \in Ends, Write(x)
  PROVE  StreamInv'
  <1> USE DEF rcvVars
  <1>1. PICK v \in Data : /\ outQ' = [outQ EXCEPT ![x] = Append(outQ[x], v)]
                          /\ sent' = [sent EXCEPT ![x] = Append(sent[x], v)]
    BY DEF Write
  <1>2. /\ UNCHANGED <<rcvVars, unacked, nextSeq, finSent, finSeq, finAcked, gaveUp, net>>
        /\ UNCHANGED <<wr, rd, got, writeClosed>>
        /\ wr[x] = "open"
    BY DEF Write, Accepts, ackVars
  <1>3. /\ outQ \in [Ends -> Seq(Data)] /\ sent \in [Ends -> Seq(Data)]
        /\ outQ[x] \in Seq(Data) /\ sent[x] \in Seq(Data)
    BY DEF TypeOK
  <1>4. /\ outQ'[x] = Append(outQ[x], v) /\ sent'[x] = Append(sent[x], v)
        /\ \A e \in Ends : e # x => outQ'[e] = outQ[e] /\ sent'[e] = sent[e]
    BY <1>1, <1>3, AppendFact, ExceptFact
  <1>5. ~finSent[x] /\ ~writeClosed[x]
    BY <1>2, InvAt DEF SendInv
  <1>6. ASSUME NEW e \in Ends
        PROVE  sent'[e] = sent[e] \/ \E u \in Data : sent'[e] = Append(sent[e], u)
    BY <1>4
  <1>m. \A n \in Nat : n <= n
    OBVIOUS
  <1> SUFFICES ASSUME NEW e \in Ends
               PROVE  (SendInv(e) /\ FrameInv(e) /\ WindowInv(e) /\ RecvInv(e) /\ AckInv(e))'
    BY DEF StreamInv
  <1>7. WindowInv(e)' /\ AckInv(e)'
    BY <1>2, InvAt DEF WindowInv, AckInv, Numbered
  <1>8. FrameInv(e)'
    <2>1. ASSUME NEW f \in Frame, Truthful(e, f) PROVE Truthful(e, f)'
      BY <1>2, <1>6, <1>m, <2>1, TypeAt, TruthStays
    <2>2. \A f \in net[e] : f \in Frame
      BY TypeAt
    <2>3. \A i \in 1..Len(unacked[e]) : unacked[e][i] \in Frame
      BY SMTT(30), TypeAt
    <2> QED
      BY <1>2, <2>1, <2>2, <2>3, InvAt DEF FrameInv
  <1>9. SendInv(e)'
    <2>1. Framed(e)' = Framed(e)
      BY <1>2 DEF Framed
    <2>2. CASE e # x
      <3>1. SendInv(e) /\ outQ'[e] = outQ[e] /\ sent'[e] = sent[e]
        BY <1>4, <2>2, InvAt
      <3>2. Continues(outQ[e], sent[e], Framed(e))'
        BY <2>1, <3>1 DEF SendInv, Continues
      <3> QED
        BY <1>2, <2>1, <3>1, <3>2 DEF SendInv
    <2>3. CASE e = x
      <3>1. SendInv(x)
        BY InvAt
      <3>2. Continues(Append(outQ[x], v), Append(sent[x], v), Framed(x))
        BY <1>3, <3>1, ContinuesPush DEF SendInv
      <3>3. Framed(x) + Len(Append(outQ[x], v)) = Len(Append(sent[x], v))
        <4>1. Framed(x) \in Nat /\ Framed(x) + Len(outQ[x]) = Len(sent[x])
          BY <3>1 DEF SendInv
        <4> DEFINE q == outQ[x]
                   t == sent[x]
                   n == Framed(x)
        <4>2. q \in Seq(Data) /\ t \in Seq(Data) /\ n \in Nat /\ n + Len(q) = Len(t)
          BY <1>3, <4>1
        <4> HIDE DEF q, t, n
        <4>3. n + Len(Append(q, v)) = Len(Append(t, v))
          BY <4>2, AppendFact
        <4> QED
          BY <4>3 DEF q, t, n
      <3>4. Continues(outQ[x], sent[x], Framed(x))'
        BY <1>4, <2>1, <2>3, <3>2 DEF Continues
      <3> QED
        BY <1>2, <1>4, <1>5, <2>1, <2>3, <3>1, <3>3, <3>4 DEF SendInv
    <2> QED
      BY <2>2, <2>3
  <1>10. RecvInv(e)'
    <2>1. Peer(e) \in Ends
      BY PeerFact
    <2>2. finSent[Peer(e)] => sent'[Peer(e)] = sent[Peer(e)]
      BY <1>4, <1>5, <2>1
    <2>3. nextSeq[Peer(e)] \in Nat
      BY <2>1, TypeAt
    <2> QED
      BY <1>2, <1>6, <1>m, <2>1, <2>2, <2>3, ReceiverStays
  <1> QED
    BY <1>7, <1>8, <1>9, <1>10

\* A read: one chunk moves from the buffer to the reader.
LEMMA ReadInv ==
  ASSUME TypeOK, StreamInv, NEW x \in Ends, Read(x)
  PROVE  StreamInv'
  <1> USE DEF sndVars, ackVars
  <1>1. /\ got' = [got EXCEPT ![x] = Append(got[x], Head(rxBuf[x]))]
        /\ rxBuf' = [rxBuf EXCEPT ![x] = Tail(rxBuf[x])]
        /\ rxBuf[x] # <<>> /\ rd[x] = "open"
        /\ UNCHANGED <<rxClosed, nextExpected, sndVars, finAcked, gaveUp, wr, rd, sent,
                       writeClosed, net>>
    BY DEF Read
  <1>2. /\ got \in [Ends -> Seq(Data)] /\ rxBuf \in [Ends -> Seq(Data)]
        /\ got[x] \in Seq(Data) /\ rxBuf[x] \in Seq(Data)
        /\ Len(got[x]) \in Nat /\ Len(rxBuf[x]) \in Nat
    BY TypeAt DEF TypeOK
  <1>3. /\ Head(rxBuf[x]) \in Data /\ Head(rxBuf[x]) = rxBuf[x][1]
        /\ Tail(rxBuf[x]) \in Seq(Data) /\ Len(Tail(rxBuf[x])) = Len(rxBuf[x]) - 1
        /\ Len(rxBuf[x]) >= 1
    BY <1>1, <1>2, HeadTailProperties
  <1>4. /\ Append(got[x], Head(rxBuf[x])) \in Seq(Data)
        /\ Len(Append(got[x], Head(rxBuf[x]))) = Len(got[x]) + 1
    BY <1>2, <1>3, AppendFact
  <1>5. /\ got'[x] = Append(got[x], Head(rxBuf[x])) /\ rxBuf'[x] = Tail(rxBuf[x])
        /\ \A e \in Ends : e # x => got'[e] = got[e] /\ rxBuf'[e] = rxBuf[e]
    BY <1>1, <1>2, <1>3, <1>4, ExceptFact
  <1> SUFFICES ASSUME NEW e \in Ends
               PROVE  (SendInv(e) /\ FrameInv(e) /\ WindowInv(e) /\ RecvInv(e) /\ AckInv(e))'
    BY DEF StreamInv
  <1>6. WindowInv(e)' /\ AckInv(e)'
    BY <1>1, InvAt DEF WindowInv, AckInv, Numbered
  <1>7. SendInv(e)'
    <2>1. Framed(e)' = Framed(e)
      BY <1>1 DEF Framed
    <2>2. Continues(outQ[e], sent[e], Framed(e))'
      BY ZenonT(60), <1>1, <2>1, InvAt DEF SendInv, Continues
    <2> QED
      BY <1>1, <2>1, <2>2, InvAt DEF SendInv
  <1>8. FrameInv(e)'
    BY <1>1, InvAt DEF FrameInv, Truthful
  <1>9. RecvInv(e)'
    <2>1. CASE e # x
      <3>1. RecvInv(e) /\ got'[e] = got[e] /\ rxBuf'[e] = rxBuf[e]
        BY <1>5, <2>1, InvAt
      <3> QED
        BY ZenonT(60), <1>1, <3>1 DEF RecvInv, Continues
    <2>2. CASE e = x
      <3> DEFINE s == sent[Peer(x)]
                 g == got[x]
                 r == rxBuf[x]
                 h == Append(got[x], Head(rxBuf[x]))
                 t == Tail(rxBuf[x])
      <3>1. RecvInv(x) /\ Peer(x) \in Ends
        BY InvAt, PeerFact
      <3>2. /\ s \in Seq(Data) /\ g \in Seq(Data) /\ r \in Seq(Data)
            /\ Len(s) \in Nat /\ Len(g) \in Nat /\ Len(r) \in Nat
            /\ Len(h) = Len(g) + 1 /\ Len(t) = Len(r) - 1 /\ Len(r) >= 1
        BY <1>2, <1>3, <1>4, <3>1, TypeAt
      <3>3. Continues(g, s, 0) /\ Continues(r, s, Len(g))
        BY <3>1 DEF RecvInv
      <3>4. Continues(h, s, 0)
        <4>1. Head(r) \in Data /\ Head(r) = r[1] /\ 1 \in 1..Len(r) /\ h = Append(g, Head(r))
          BY <1>3, <3>2
        <4> HIDE DEF s, g, r, h, t
        <4>2. r[1] = s[Len(g) + 1] /\ Len(g) + 1 <= Len(s)
          <5>1. r[1] = s[Len(g) + 1]
            BY <3>3, <4>1 DEF Continues
          <5>2. Len(g) + Len(r) <= Len(s)
            BY <3>3 DEF Continues
          <5> QED
            BY <3>2, <5>1, <5>2
        <4>3. 0 + Len(g) + 1 = Len(g) + 1
          BY <3>2
        <4>4. Continues(Append(g, Head(r)), s, 0)
          BY <3>2, <3>3, <4>1, <4>2, <4>3, ContinuesTake
        <4> QED
          BY <4>1, <4>4
      <3>5. Continues(t, s, Len(h))
        <4>1. t = Tail(r) /\ r # <<>>
          BY <1>1
        <4> HIDE DEF s, g, r, h, t
        <4> QED
          BY <3>2, <3>3, <4>1, ContinuesTail
      <3>6. Len(h) + Len(t) = Len(g) + Len(r)
        <4> HIDE DEF s, g, r, h, t
        <4> QED
          BY <3>2
      <3>7. got'[x] = h /\ rxBuf'[x] = t /\ Peer(x)' = Peer(x) /\ sent' = sent
        BY <1>1, <1>5 DEF Peer
      <3>8. Continues(got[x], sent[Peer(x)], 0)' /\ Continues(rxBuf[x], sent[Peer(x)], Len(got[x]))'
        BY <3>4, <3>5, <3>7 DEF Continues
      <3>9. Len(got'[x]) + Len(rxBuf'[x]) = Len(got[x]) + Len(rxBuf[x])
        BY <3>6, <3>7
      <3> QED
        BY <1>1, <2>2, <3>1, <3>7, <3>8, <3>9 DEF RecvInv
    <2> QED
      BY <2>1, <2>2
  <1> QED
    BY <1>6, <1>7, <1>8, <1>9

\* One pass of flush_out, end by end.
LEMMA FlushAt ==
  ASSUME TypeOK, Bounded, NEW e \in Ends, FlushOut(e)
  PROVE  /\ Flushable(e) \in Nat /\ NewCount(e) \in Nat
         /\ outQ'[e] = SubSeq(outQ[e], Flushable(e) + 1, Len(outQ[e]))
         /\ unacked'[e] = unacked[e] \o NewFrames(e)
         /\ nextSeq'[e] = nextSeq[e] + NewCount(e)
         /\ FlushesFin(e) => /\ ~finSent[e] /\ writeClosed[e] /\ finSent'[e]
                             /\ finSeq'[e] = nextSeq[e] + Flushable(e)
                             /\ Flushable(e) = Len(outQ[e])
                             /\ nextSeq'[e] = nextSeq[e] + Flushable(e) + 1
         /\ ~FlushesFin(e) => /\ finSent'[e] = finSent[e] /\ finSeq'[e] = finSeq[e]
                              /\ nextSeq'[e] = nextSeq[e] + Flushable(e)
         /\ \A y \in Ends : y # e =>
               /\ outQ'[y] = outQ[y] /\ unacked'[y] = unacked[y] /\ nextSeq'[y] = nextSeq[y]
               /\ finSent'[y] = finSent[y] /\ finSeq'[y] = finSeq[y]
  <1>0. Len(unacked[e]) <= Window /\ nextSeq[e] <= MaxSeq
    BY DEF Bounded
  <1>1. /\ Flushable(e) \in 0..Len(outQ[e]) /\ NewCount(e) \in Nat
        /\ NewCount(e) = IF FlushesFin(e) THEN Flushable(e) + 1 ELSE Flushable(e)
        /\ FlushesFin(e) => Flushable(e) = Len(outQ[e])
    BY <1>0, FlushFact
  <1>2. Len(outQ[e]) \in Nat /\ nextSeq[e] \in Nat
    BY TypeAt
  <1>3. Flushable(e) \in Nat
    BY <1>1, <1>2
  <1>4. /\ outQ'[e] = SubSeq(outQ[e], Flushable(e) + 1, Len(outQ[e]))
        /\ unacked'[e] = unacked[e] \o NewFrames(e)
        /\ nextSeq'[e] = nextSeq[e] + NewCount(e)
        /\ finSent'[e] = (finSent[e] \/ FlushesFin(e))
        /\ finSeq'[e] = IF FlushesFin(e) THEN nextSeq[e] + Flushable(e) ELSE finSeq[e]
        /\ \A y \in Ends : y # e =>
               /\ outQ'[y] = outQ[y] /\ unacked'[y] = unacked[y] /\ nextSeq'[y] = nextSeq[y]
               /\ finSent'[y] = finSent[y] /\ finSeq'[y] = finSeq[y]
    BY DEF FlushOut, TypeOK
  <1>5. CASE FlushesFin(e)
    <2>1. ~finSent[e] /\ writeClosed[e] /\ finSent'[e]
      BY <1>4, <1>5 DEF FlushesFin, NumbersLeft
    <2> QED
      BY <1>1, <1>2, <1>3, <1>4, <1>5, <2>1
  <1>6. CASE ~FlushesFin(e)
    <2>1. finSent'[e] = finSent[e]
      <3>1. finSent[e] \in BOOLEAN
        BY TypeAt
      <3> QED
        BY <1>4, <1>6, <3>1
    <2> QED
      BY <1>1, <1>2, <1>3, <1>4, <1>6, <2>1
  <1> QED
    BY <1>5, <1>6

\* The sending side after flush_out.
LEMMA FlushSend ==
  ASSUME TypeOK, Bounded, StreamInv, NEW x \in Ends, FlushOut(x),
         UNCHANGED <<sent, writeClosed, wr>>, \A e \in Ends : finAcked[e] => finAcked'[e],
         NEW e \in Ends
  PROVE  SendInv(e)'
  <1>1. SendInv(e)
    BY InvAt
  <1>2. CASE e # x
    <2>1. /\ outQ'[e] = outQ[e] /\ nextSeq'[e] = nextSeq[e]
          /\ finSent'[e] = finSent[e] /\ finSeq'[e] = finSeq[e]
      BY <1>2, FlushAt
    <2>2. Framed(e)' = Framed(e)
      BY <2>1 DEF Framed
    <2>3. Continues(outQ[e], sent[e], Framed(e))'
      BY <1>1, <2>1, <2>2 DEF SendInv, Continues
    <2> QED
      BY <1>1, <2>1, <2>2, <2>3 DEF SendInv
  <1>3. CASE e = x
    <2> DEFINE q == outQ[e]
               s == sent[e]
               n == Framed(e)
               m == Flushable(e)
               r == SubSeq(outQ[e], Flushable(e) + 1, Len(outQ[e]))
    <2>1. /\ q \in Seq(Data) /\ s \in Seq(Data) /\ Len(q) \in Nat /\ Len(s) \in Nat
          /\ n \in Nat /\ n + Len(q) = Len(s) /\ Continues(q, s, n)
      BY <1>1, TypeAt DEF SendInv
    <2>2. m \in 0..Len(q)
      BY FlushFact DEF Bounded
    <2>3. r \in Seq(Data) /\ Len(r) = Len(q) - m
      BY <2>1, <2>2, DropFirst
    <2>4. Continues(r, s, n + m)
      BY <2>1, <2>2, ContinuesDrop
    <2>5. n + m \in Nat /\ (n + m) + Len(r) = Len(s)
      <3> HIDE DEF q, s, n, m, r
      <3> QED
        BY <2>1, <2>2, <2>3
    <2>6. outQ'[e] = r /\ sent'[e] = s
      BY <1>3, FlushAt
    <2>7. Framed(e)' = n + m
      <3>1. nextSeq[e] \in Nat /\ finSeq[e] \in Nat /\ m \in Nat
        BY TypeAt, <1>3, FlushAt
      <3>2. CASE FlushesFin(e)
        <4>0. ~finSent[e] /\ finSent'[e] /\ finSeq'[e] = nextSeq[e] + m
          BY <1>3, <3>2, FlushAt
        <4>1. Framed(e) = nextSeq[e] - 1 /\ Framed(e)' = finSeq'[e] - 1
          BY <4>0 DEF Framed
        <4> HIDE DEF q, s, m, r
        <4> QED
          BY <3>1, <4>0, <4>1 DEF n
      <3>3. CASE ~FlushesFin(e)
        <4>1. CASE finSent[e]
          <5>1. Framed(e)' = Framed(e)
            BY <1>3, <3>3, <4>1, FlushAt DEF Framed
          <5>2. q = <<>>
            BY <1>1, <4>1 DEF SendInv
          <5>3. m = 0
            BY <2>2, <5>2
          <5> HIDE DEF q, s, m, r
          <5> QED
            BY <2>1, <5>1, <5>3
        <4>2. CASE ~finSent[e]
          <5>0. ~finSent'[e] /\ nextSeq'[e] = nextSeq[e] + m
            BY <1>3, <3>3, <4>2, FlushAt
          <5>1. Framed(e) = nextSeq[e] - 1 /\ Framed(e)' = nextSeq'[e] - 1
            BY <4>2, <5>0 DEF Framed
          <5> HIDE DEF q, s, m, r
          <5> QED
            BY <3>1, <5>0, <5>1 DEF n
        <4> QED
          BY <4>1, <4>2
      <3> QED
        BY <3>2, <3>3
    <2>8. Continues(outQ[e], sent[e], Framed(e))'
      BY <2>4, <2>6, <2>7 DEF Continues
    <2>9. Framed(e)' \in Nat /\ Framed(e)' + Len(outQ'[e]) = Len(sent'[e])
      <3> HIDE DEF q, s, n, m, r
      <3> QED
        BY <2>5, <2>6, <2>7
    <2>10. finSent'[e] => /\ writeClosed'[e] /\ outQ'[e] = <<>>
                          /\ nextSeq'[e] = finSeq'[e] + 1
      <3>1. CASE FlushesFin(e)
        <4>1. /\ m = Len(q) /\ writeClosed[e] /\ nextSeq'[e] = finSeq'[e] + 1
          BY <1>3, <3>1, FlushAt
        <4>2. r = <<>>
          BY <2>1, <2>3, <4>1
        <4> QED
          BY <2>6, <4>1, <4>2
      <3>2. CASE ~FlushesFin(e)
        <4>1. SUFFICES ASSUME finSent[e]
                       PROVE  /\ writeClosed[e] /\ outQ'[e] = <<>>
                              /\ nextSeq'[e] = finSeq'[e] + 1
          BY <1>3, <3>2, FlushAt
        <4>2. q = <<>> /\ writeClosed[e] /\ nextSeq[e] = finSeq[e] + 1
          BY <1>1, <4>1 DEF SendInv
        <4>3. m = 0
          BY <2>2, <4>2
        <4>4. r = <<>>
          BY <2>1, <2>3, <4>2, <4>3
        <4>5. nextSeq'[e] = nextSeq[e] + m /\ finSeq'[e] = finSeq[e]
          BY <1>3, <3>2, FlushAt
        <4>6. nextSeq[e] + 0 = nextSeq[e]
          BY SMTT(30), TypeAt
        <4> QED
          BY <2>6, <4>2, <4>3, <4>4, <4>5, <4>6
      <3> QED
        BY <3>1, <3>2
    <2>11. (wr'[e] = "open" => ~writeClosed'[e]) /\ (wr'[e] = "ok" => finAcked'[e])
      BY <1>1 DEF SendInv
    <2> QED
      BY <2>8, <2>9, <2>10, <2>11 DEF SendInv
  <1> QED
    BY <1>2, <1>3

\* The frames kept after flush_out.
LEMMA FlushFrames ==
  ASSUME TypeOK, Bounded, StreamInv, NEW x \in Ends, FlushOut(x),
         UNCHANGED <<sent, nextExpected>>, NEW e \in Ends
  PROVE  /\ Numbered(unacked'[e], nextSeq'[e])
         /\ nextSeq'[e] <= nextExpected'[Peer(e)] + Len(unacked'[e])
         /\ (\A i \in 1..Len(unacked[e]) : Truthful(e, unacked[e][i]))'
         /\ \A f \in Frame : Truthful(e, f) => Truthful(e, f)'
         /\ nextSeq'[e] \in Nat /\ nextSeq[e] <= nextSeq'[e]
  <1>1. SendInv(e) /\ FrameInv(e) /\ WindowInv(e) /\ Peer(e) \in Ends
    BY InvAt, PeerFact
  <1>2. /\ nextSeq[e] \in Nat /\ nextExpected[e] \in Nat /\ unacked[e] \in Seq(Frame)
        /\ nextExpected[Peer(e)] \in Nat
    BY <1>1, TypeAt
  <1>3. \A f \in Frame : f.seq \in Nat
    BY DEF Frame
  <1>4. nextSeq'[e] \in Nat /\ nextSeq[e] <= nextSeq'[e]
    <2>1. CASE e # x
      BY <1>2, <2>1, FlushAt
    <2>2. CASE e = x
      <3>1. NewCount(e) \in Nat /\ nextSeq'[e] = nextSeq[e] + NewCount(e)
        BY <2>2, FlushAt
      <3> QED
        BY <1>2, <3>1
    <2> QED
      BY <2>1, <2>2
  <1>5. finSent[e] => finSent'[e] /\ finSeq'[e] = finSeq[e]
    BY FlushAt
  <1>6. ASSUME NEW f \in Frame, Truthful(e, f) PROVE Truthful(e, f)'
    <2>1. nextExpected'[e] \in Nat /\ nextExpected[e] <= nextExpected'[e]
      BY <1>2
    <2> QED
      BY <1>4, <1>5, <1>6, <2>1, TruthStays
  <1>7. CASE e # x
    <2>1. unacked'[e] = unacked[e] /\ nextSeq'[e] = nextSeq[e]
      BY <1>7, FlushAt
    <2>2. \A i \in 1..Len(unacked[e]) : unacked[e][i] \in Frame /\ Truthful(e, unacked[e][i])
      BY <1>1, <1>2 DEF FrameInv
    <2>3. (\A i \in 1..Len(unacked[e]) : Truthful(e, unacked[e][i]))'
      <3>1. SUFFICES ASSUME NEW i \in 1..Len(unacked'[e])
                     PROVE  Truthful(e, unacked[e][i])'
        OBVIOUS
      <3>2. PICK f \in Frame : f = unacked[e][i] /\ Truthful(e, f)
        BY <2>1, <2>2
      <3>3. Truthful(e, f)' /\ f = unacked'[e][i]
        BY <1>6, <2>1, <3>2
      <3> QED
        BY <3>3 DEF Truthful
    <2>4. Numbered(unacked'[e], nextSeq'[e])
      BY <1>1, <2>1 DEF WindowInv
    <2> QED
      BY <1>1, <1>4, <1>6, <2>1, <2>3, <2>4 DEF WindowInv
  <1>8. CASE e = x
    <2> DEFINE u == unacked[e]
               w == NewFrames(e)
               n == nextSeq[e]
               c == NewCount(e)
    <2>1. /\ u \in Seq(Frame) /\ w \in Seq(Frame) /\ Len(w) = c /\ n \in Nat /\ c \in Nat
          /\ unacked'[e] = u \o w /\ nextSeq'[e] = n + c
          /\ \A i \in 1..c : w[i] =
                IF i <= Flushable(e) THEN DataFrame(e, n + i - 1, outQ[e][i])
                                     ELSE FinFrame(e, n + i - 1)
      BY <1>2, <1>8, FlushAt, FlushFact DEF Bounded
    <2>2. \A i \in 1..Len(w) : w[i].seq = n + i - 1
      BY <2>1 DEF DataFrame, FinFrame
    <2>3. Numbered(u, n)
      BY <1>1 DEF WindowInv
    <2>4. Numbered(u \o w, n + c)
      BY <1>3, <2>1, <2>2, <2>3, NumberedPush
    <2>5. ASSUME NEW i \in 1..c, NEW f \in Frame, f = w[i] PROVE Truthful(e, f)'
      <3>1. Flushable(e) \in 0..Len(outQ[e]) /\ i \in Nat /\ 1 <= i /\ Len(outQ[e]) \in Nat
        <4>1. Flushable(e) \in 0..Len(outQ[e])
          BY FlushFact DEF Bounded
        <4>2. i \in Nat /\ 1 <= i
          BY <2>1
        <4> QED
          BY <4>1, <4>2, TypeAt
      <3>2. n + i - 1 < nextSeq'[e]
        BY <2>1
      <3>3. CASE i <= Flushable(e)
        <4>1. /\ f.kind = "data" /\ f.seq = n + i - 1 /\ f.data = outQ[e][i]
              /\ f.ack = nextExpected[e]
          BY SMTT(30), <2>1, <2>5, <3>3 DEF DataFrame
        <4>2. i \in 1..Len(outQ[e])
          BY <3>1, <3>3
        <4>3. ~finSent[e]
          BY <1>1, <4>2 DEF SendInv
        <4>4. Framed(e) = n - 1 /\ Framed(e) \in Nat
          BY <1>1, <4>3 DEF Framed, SendInv
        <4>5. /\ outQ[e][i] = sent[e][Framed(e) + i]
              /\ Framed(e) + Len(outQ[e]) = Len(sent[e])
          BY <1>1, <4>2 DEF SendInv, Continues
        <4>6. Framed(e) + i = n + i - 1 /\ n + i - 1 >= 1 /\ n + i - 1 <= Len(sent[e])
          <5> DEFINE k == Framed(e)
                     lq == Len(outQ[e])
                     ls == Len(sent[e])
          <5>1. /\ k = n - 1 /\ k \in Nat /\ lq \in Nat /\ ls \in Nat /\ k + lq = ls
                /\ i \in 1..lq
            BY <4>2, <4>4, <4>5, TypeAt
          <5>2. n \in Nat
            BY <2>1
          <5> HIDE DEF k, lq, ls, n
          <5> QED
            <6>1. k + i = n + i - 1 /\ n + i - 1 >= 1 /\ n + i - 1 <= ls
              BY <5>1, <5>2
            <6> QED
              BY <6>1 DEF k, lq, ls
        <4> QED
          BY <1>2, <3>2, <4>1, <4>5, <4>6 DEF Truthful
      <3>4. CASE ~(i <= Flushable(e))
        <4>1. FlushesFin(e) /\ i = Flushable(e) + 1
          <5>1. /\ NewCount(e) = IF FlushesFin(e) THEN Flushable(e) + 1 ELSE Flushable(e)
                /\ Flushable(e) \in Nat
            BY <1>8, FlushAt, FlushFact DEF Bounded
          <5>2. i <= NewCount(e)
            BY <2>1
          <5> QED
            BY <3>1, <3>4, <5>1, <5>2
        <4>2. f.kind = "fin" /\ f.seq = n + i - 1 /\ f.ack = nextExpected[e]
          BY <2>1, <2>5, <3>4 DEF FinFrame
        <4>3. finSent'[e] /\ finSeq'[e] = n + Flushable(e)
          BY <1>8, <4>1, FlushAt
        <4>4. n + i - 1 = n + Flushable(e)
          BY <2>1, <3>1, <4>1
        <4> QED
          BY <1>2, <4>2, <4>3, <4>4 DEF Truthful
      <3> QED
        BY <3>3, <3>4
    <2>6. ASSUME NEW i \in 1..Len(unacked'[e]) PROVE Truthful(e, unacked[e][i])'
      <3>1. /\ Len(u \o w) = Len(u) + Len(w) /\ i \in 1..Len(u \o w)
            /\ (u \o w)[i] = IF i <= Len(u) THEN u[i] ELSE w[i - Len(u)]
        <4>1. i \in 1..Len(u \o w) /\ u \in Seq(Frame) /\ w \in Seq(Frame)
          BY <2>1
        <4> HIDE DEF u, w, c, n
        <4>2. /\ Len(u \o w) = Len(u) + Len(w)
              /\ \A k \in 1..(Len(u) + Len(w)) :
                    (u \o w)[k] = IF k <= Len(u) THEN u[k] ELSE w[k - Len(u)]
          BY <4>1, ConcatProperties
        <4> QED
          BY <4>1, <4>2
      <3>2. PICK f \in Frame : f = unacked'[e][i] /\ Truthful(e, f)'
        <4>1. CASE i <= Len(u)
          <5>1. i \in 1..Len(u)
            BY <4>1
          <5>2. u[i] \in Frame /\ Truthful(e, u[i]) /\ unacked'[e][i] = u[i]
            BY <1>1, <2>1, <3>1, <4>1, <5>1 DEF FrameInv
          <5>3. PICK f \in Frame : f = u[i] /\ Truthful(e, f)
            BY <5>2
          <5> QED
            BY <1>6, <5>2, <5>3
        <4>2. CASE ~(i <= Len(u))
          <5>1. i - Len(u) \in 1..c /\ unacked'[e][i] = w[i - Len(u)]
            <6>1. u \in Seq(Frame) /\ w \in Seq(Frame) /\ Len(w) = c /\ unacked'[e] = u \o w
              BY <2>1
            <6> HIDE DEF u, w, c, n
            <6> QED
              BY <3>1, <4>2, <6>1
          <5>2. w[i - Len(u)] \in Frame
            BY <2>1, <5>1
          <5>3. PICK f \in Frame : f = w[i - Len(u)]
            BY <5>2
          <5> QED
            BY <2>5, <5>1, <5>3
        <4> QED
          BY <4>1, <4>2
      <3> QED
        BY <3>2 DEF Truthful
    <2>7. nextSeq'[e] <= nextExpected'[Peer(e)] + Len(unacked'[e])
      <3>1. nextSeq[e] <= nextExpected[Peer(e)] + Len(u)
        BY <1>1 DEF WindowInv
      <3>2. Len(u \o w) = Len(u) + c
        <4>1. u \in Seq(Frame) /\ w \in Seq(Frame) /\ Len(w) = c
          BY <2>1
        <4> HIDE DEF u, w, c
        <4> QED
          BY <4>1, ConcatProperties
      <3> DEFINE a == nextExpected[Peer(e)]
                 b == Len(u)
      <3>3. a \in Nat /\ b \in Nat /\ n <= a + b
        BY <1>2, <2>1, <3>1
      <3>4. nextExpected'[Peer(e)] = a
        OBVIOUS
      <3>5. n + c <= a + (b + c)
        <4> HIDE DEF a, b, n, c
        <4> QED
          BY <2>1, <3>3
      <3> QED
        BY <2>1, <3>2, <3>4, <3>5
    <2>8. Numbered(unacked'[e], nextSeq'[e])
      BY <2>1, <2>4
    <2>9. (\A i \in 1..Len(unacked[e]) : Truthful(e, unacked[e][i]))'
      BY <2>6
    <2> QED
      BY <1>4, <1>6, <2>7, <2>8, <2>9
  <1> QED
    BY <1>7, <1>8

\* The task makes and sends frames.
LEMMA SendStepInv ==
  ASSUME TypeOK, Bounded, StreamInv, NEW x \in Ends, Timer(x) \/ Flush(x)
  PROVE  StreamInv'
  <1> USE DEF rcvVars, userVars
  <1>1. FlushOut(x) /\ UNCHANGED <<rcvVars, userVars>>
    BY DEF Timer, Flush, TimerGivesUp, TimerFails, TimerRetransmits, TimerIdles, TimerRound
  <1>2. ASSUME NEW e \in Ends
        PROVE  /\ finAcked[e] => finAcked'[e]
               /\ finAcked'[e] /\ ~gaveUp'[e] => finAcked[e] /\ ~gaveUp[e]
    <2>1. CASE TimerGivesUp(x)
      BY <2>1 DEF TimerGivesUp, TypeOK
    <2>2. CASE ~TimerGivesUp(x)
      <3>1. UNCHANGED ackVars
        BY <2>2 DEF Timer, Flush, TimerFails, TimerRetransmits, TimerIdles
      <3> QED
        BY <3>1 DEF ackVars
    <2> QED
      BY <2>1, <2>2
  <1>3. \E F \in {FirstSent(x), InFlight(x)', {AckFrame("ping", nextExpected[x])}} : Post(x, F)
    BY DEF Timer, Flush, TimerGivesUp, TimerFails, TimerRetransmits, TimerIdles
  <1>4. ASSUME NEW e \in Ends, NEW f \in net'[e]
        PROVE  \/ f \in net[e]
               \/ e = x /\ f \in InFlight(x)'
               \/ e = x /\ f = AckFrame("ping", nextExpected[x])
    <2>1. PICK F \in {FirstSent(x), InFlight(x)', {AckFrame("ping", nextExpected[x])}} : Post(x, F)
      BY <1>3
    <2>2. PICK N \in Carried(x, F) : net' = [net EXCEPT ![x] = N]
      BY <2>1 DEF Post
    <2>3. N \subseteq net[x] \cup F
      BY CarriedFact
    <2> QED
      BY <1>4, <2>2, <2>3 DEF TypeOK, FirstSent
  <1> SUFFICES ASSUME NEW e \in Ends
               PROVE  (SendInv(e) /\ FrameInv(e) /\ WindowInv(e) /\ RecvInv(e) /\ AckInv(e))'
    BY DEF StreamInv
  <1>5. /\ Numbered(unacked'[e], nextSeq'[e])
        /\ nextSeq'[e] <= nextExpected'[Peer(e)] + Len(unacked'[e])
        /\ (\A i \in 1..Len(unacked[e]) : Truthful(e, unacked[e][i]))'
        /\ \A f \in Frame : Truthful(e, f) => Truthful(e, f)'
        /\ nextSeq'[e] \in Nat /\ nextSeq[e] <= nextSeq'[e]
    BY <1>1, FlushFrames
  <1>6. SendInv(e)'
    BY <1>1, <1>2, FlushSend
  <1>7. WindowInv(e)'
    BY <1>5 DEF WindowInv, Peer
  <1>8. FrameInv(e)'
    <2>1. ASSUME NEW f \in net'[e] PROVE Truthful(e, f)'
      <3>1. CASE f \in net[e]
        <4>1. f \in Frame /\ Truthful(e, f)
          BY <3>1, InvAt, TypeAt DEF FrameInv
        <4> QED
          BY <1>5, <4>1
      <3>2. CASE e = x /\ f \in InFlight(x)'
        <4>1. PICK i \in 1..Len(unacked'[e]) : f = unacked'[e][i]
          BY <3>2 DEF InFlight
        <4>2. Truthful(e, unacked[e][i])'
          BY <1>5
        <4> QED
          BY <4>1, <4>2 DEF Truthful
      <3>3. CASE e = x /\ f = AckFrame("ping", nextExpected[x])
        <4>1. f.kind = "ping" /\ f.ack = nextExpected'[e]
          BY <1>1, <3>3 DEF AckFrame
        <4>2. nextExpected'[e] <= nextExpected'[e]
          <5>1. nextExpected[e] \in Nat
            BY TypeAt
          <5> QED
            BY <1>1, <5>1
        <4> QED
          BY <4>1, <4>2 DEF Truthful
      <3> QED
        BY <1>4, <3>1, <3>2, <3>3
    <2> QED
      BY <1>5, <2>1 DEF FrameInv
  <1>9. RecvInv(e)'
    <2>1. Peer(e) \in Ends
      BY PeerFact
    <2>2. nextSeq'[Peer(e)] \in Nat /\ nextSeq[Peer(e)] <= nextSeq'[Peer(e)]
      BY <1>1, <2>1, FlushFrames
    <2>3. finSent[Peer(e)] => finSent'[Peer(e)] /\ finSeq'[Peer(e)] = finSeq[Peer(e)]
      BY <1>1, <2>1, FlushAt
    <2>4. ~finSent[Peer(e)] /\ finSent'[Peer(e)] =>
              finSeq'[Peer(e)] \in Nat /\ finSeq'[Peer(e)] >= nextSeq[Peer(e)]
      <3>1. SUFFICES ASSUME ~finSent[Peer(e)], finSent'[Peer(e)]
                     PROVE  finSeq'[Peer(e)] \in Nat /\ finSeq'[Peer(e)] >= nextSeq[Peer(e)]
        OBVIOUS
      <3>2. Peer(e) = x /\ FlushesFin(x)
        BY <1>1, <2>1, <3>1, FlushAt
      <3>3. finSeq'[x] = nextSeq[x] + Flushable(x) /\ Flushable(x) \in Nat /\ nextSeq[x] \in Nat
        BY <1>1, <3>2, FlushAt, TypeAt
      <3> QED
        BY <3>2, <3>3
    <2> QED
      BY <1>1, <2>2, <2>3, <2>4, ReceiverStays
  <1>10. AckInv(e)'
    <2>1. SUFFICES ASSUME finAcked[e], ~gaveUp[e]
                   PROVE  finSent'[e] /\ nextExpected'[Peer(e)] = finSeq'[e] + 1
      BY <1>2 DEF AckInv, Peer
    <2>2. finSent[e] /\ nextExpected[Peer(e)] = finSeq[e] + 1
      BY <2>1, InvAt DEF AckInv
    <2>3. finSent'[e] /\ finSeq'[e] = finSeq[e]
      BY <1>1, <2>2, FlushAt
    <2> QED
      BY <1>1, <2>2, <2>3
  <1> QED
    BY <1>6, <1>7, <1>8, <1>9, <1>10

\* A frame from the peer: what it can do to its receiver.
LEMMA RecvAt ==
  ASSUME TypeOK, StreamInv, NEW x \in Ends, NEW f \in net[Peer(x)],
         RecvNext(x, f) \/ RecvFull(x, f) \/ RecvOther(x, f) \/ RecvAck(x, f)
  PROVE  /\ Heard(x, f) /\ f \in Frame /\ Truthful(Peer(x), f)
         /\ nextExpected'[x] \in Nat /\ nextExpected[x] <= nextExpected'[x]
         /\ \A y \in Ends : y # x => /\ rxBuf'[y] = rxBuf[y] /\ rxClosed'[y] = rxClosed[y]
                                     /\ nextExpected'[y] = nextExpected[y]
         /\ Delivered(x, f, {}) \/ Delivered(x, f, {AckFrame("ack", nextExpected'[x])})
  <1>1. Heard(x, f)
    BY DEF RecvNext, RecvFull, RecvOther, RecvAck
  <1>2. f \in Frame /\ Truthful(Peer(x), f)
    BY PeerFact, TypeAt, InvAt DEF FrameInv
  <1>3. nextExpected[x] \in Nat /\ nextExpected \in [Ends -> Nat]
    BY DEF TypeOK
  <1>4. CASE UNCHANGED rcvVars
    <2>1. nextExpected' = nextExpected /\ rxBuf' = rxBuf /\ rxClosed' = rxClosed
      BY <1>4 DEF rcvVars
    <2>2. Delivered(x, f, {}) \/ Delivered(x, f, {AckFrame("ack", nextExpected'[x])})
      <3>1. CASE RecvNext(x, f)
        <4>1. CASE nextExpected[x] < MaxSeq
          <5>1. nextExpected'[x] = nextExpected[x] + 1
            BY <1>3, <3>1, <4>1 DEF RecvNext
          <5> QED
            BY <1>3, <2>1, <5>1
        <4>2. CASE ~(nextExpected[x] < MaxSeq)
          BY <3>1, <4>2 DEF RecvNext
        <4> QED
          BY <4>1, <4>2
      <3>2. CASE ~RecvNext(x, f)
        BY <2>1, <3>2 DEF RecvFull, RecvOther, RecvAck
      <3> QED
        BY <3>1, <3>2
    <2> QED
      BY <1>1, <1>2, <1>3, <2>1, <2>2
  <1>5. CASE ~UNCHANGED rcvVars
    <2>1. RecvNext(x, f)
      BY <1>5 DEF RecvFull, RecvOther, RecvAck
    <2>2. /\ rxBuf \in [Ends -> Seq(Data)] /\ rxClosed \in [Ends -> BOOLEAN]
      BY DEF TypeOK
    <2>3. \A y \in Ends : y # x => rxBuf'[y] = rxBuf[y]
      BY <2>1, <2>2 DEF RecvNext
    <2>4. CASE nextExpected[x] < MaxSeq
      <3>1. /\ nextExpected' = [nextExpected EXCEPT ![x] = nextExpected[x] + 1]
            /\ rxClosed' = [rxClosed EXCEPT ![x] = rxClosed[x] \/ f.kind = "fin"]
            /\ Delivered(x, f, {AckFrame("ack", nextExpected[x] + 1)})
        BY <2>1, <2>4 DEF RecvNext
      <3>2. nextExpected'[x] = nextExpected[x] + 1
        BY <1>3, <3>1
      <3>3. nextExpected'[x] \in Nat /\ nextExpected[x] <= nextExpected'[x]
        BY <1>3, <3>2
      <3>4. \A y \in Ends : y # x => rxClosed'[y] = rxClosed[y] /\ nextExpected'[y] = nextExpected[y]
        BY <1>3, <2>2, <3>1
      <3>5. Delivered(x, f, {AckFrame("ack", nextExpected'[x])})
        BY <3>1, <3>2
      <3> QED
        BY <1>1, <1>2, <2>3, <3>3, <3>4, <3>5
    <2>5. CASE ~(nextExpected[x] < MaxSeq)
      <3>1. nextExpected' = nextExpected /\ rxClosed' = rxClosed /\ Delivered(x, f, {})
        BY <2>1, <2>5 DEF RecvNext
      <3> QED
        BY <1>1, <1>2, <1>3, <2>3, <3>1
    <2> QED
      BY <2>4, <2>5
  <1> QED
    BY <1>4, <1>5

\* The ACK field of a frame takes nothing from the window that the peer lacks.
LEMMA HeardWindow ==
  ASSUME TypeOK, StreamInv, NEW x \in Ends, NEW f \in Frame,
         Heard(x, f), Truthful(Peer(x), f)
  PROVE  /\ Numbered(unacked'[x], nextSeq[x])
         /\ nextSeq[x] <= nextExpected[Peer(x)] + Len(unacked'[x])
         /\ \A i \in 1..Len(unacked'[x]) : \E j \in 1..Len(unacked[x]) :
               unacked'[x][i] = unacked[x][j]
         /\ \A y \in Ends : y # x => unacked'[y] = unacked[y]
  <1> DEFINE u == unacked[x]
             n == nextSeq[x]
             a == nextExpected[Peer(x)]
  <1>1. PICK k \in 0..Len(unacked[x]) :
           /\ Confirms(x, f.ack, k)
           /\ unacked' = [unacked EXCEPT ![x] = SubSeq(unacked[x], k + 1, Len(unacked[x]))]
    BY DEF Heard
  <1>2. /\ unacked \in [Ends -> Seq(Frame)] /\ u \in Seq(Frame) /\ Len(u) \in Nat
        /\ n \in Nat /\ a \in Nat
    BY TypeAt, PeerFact DEF TypeOK
  <1>3. /\ SubSeq(u, k + 1, Len(u)) \in Seq(Frame)
        /\ Len(SubSeq(u, k + 1, Len(u))) = Len(u) - k
        /\ \A i \in 1..(Len(u) - k) : SubSeq(u, k + 1, Len(u))[i] = u[k + i]
    BY <1>2, DropFirst
  <1>4. /\ unacked'[x] = SubSeq(u, k + 1, Len(u))
        /\ \A y \in Ends : y # x => unacked'[y] = unacked[y]
    BY <1>1, <1>2, <1>3, ExceptFact
  <1>5. Numbered(u, n) /\ n <= a + Len(u)
    BY InvAt DEF WindowInv
  <1>6. Numbered(unacked'[x], n)
    <2>1. \A g \in Frame : g.seq \in Nat
      BY DEF Frame
    <2> QED
      BY <1>2, <1>4, <1>5, <2>1, NumberedDrop
  <1>7. n <= a + Len(unacked'[x])
    <2>1. CASE k = 0
      <3>1. Len(unacked'[x]) = Len(u)
        BY <1>2, <1>3, <1>4, <2>1
      <3> QED
        BY <1>5, <3>1
    <2>2. CASE k # 0
      <3>1. k \in 1..Len(u) /\ k \in 1..k
        BY <1>2, <2>2
      <3>2. u[k].seq < f.ack
        BY <1>1, <2>2, <3>1 DEF Confirms
      <3>3. u[k].seq \in Nat /\ f.ack \in Nat /\ f.ack <= a
        BY <1>2, <3>1 DEF Frame, Truthful
      <3>4. u[k].seq + Len(u) = n + k - 1
        BY <1>5, <3>1 DEF Numbered
      <3> DEFINE q == u[k].seq
                 l == Len(u)
      <3>5. /\ q \in Nat /\ l \in Nat /\ k \in Nat /\ k <= l /\ q < a /\ q + l = n + k - 1
        BY <1>2, <3>1, <3>2, <3>3, <3>4
      <3>6. n <= a + (l - k)
        <4>1. n \in Nat /\ a \in Nat
          BY <1>2
        <4> HIDE DEF q, l, n, a, u
        <4> QED
          BY <3>5, <4>1
      <3> QED
        BY <1>3, <1>4, <3>6
    <2> QED
      BY <2>1, <2>2
  <1>8. \A i \in 1..Len(unacked'[x]) : \E j \in 1..Len(u) : unacked'[x][i] = u[j]
    <2>1. SUFFICES ASSUME NEW i \in 1..Len(unacked'[x])
                   PROVE  \E j \in 1..Len(u) : unacked'[x][i] = u[j]
      OBVIOUS
    <2>2. i \in 1..(Len(u) - k)
      BY <1>3, <1>4
    <2>3. k + i \in 1..Len(u)
      BY <1>2, <2>2
    <2> QED
      BY <1>3, <1>4, <2>2, <2>3
  <1> QED
    BY <1>4, <1>6, <1>7, <1>8

\* What the receiver holds after a frame.
LEMMA RecvReceiver ==
  ASSUME TypeOK, Bounded, StreamInv, NEW x \in Ends, NEW f \in Frame,
         RecvNext(x, f), Truthful(Peer(x), f)
  PROVE  /\ RecvInv(x)'
         /\ nextExpected[x] < nextSeq[Peer(x)]
  <1> DEFINE p == Peer(x)
             s == sent[p]
             g == got[x]
             r == rxBuf[x]
  <1>0. p \in Ends /\ RecvInv(x) /\ SendInv(p)
    BY InvAt, PeerFact
  <1>1. /\ nextExpected[x] \in Nat /\ nextSeq[p] \in Nat /\ finSeq[p] \in Nat
        /\ s \in Seq(Data) /\ g \in Seq(Data) /\ r \in Seq(Data)
        /\ Len(s) \in Nat /\ Len(g) \in Nat /\ Len(r) \in Nat
        /\ finSent[p] \in BOOLEAN /\ rxClosed[x] \in BOOLEAN
    BY <1>0, TypeAt
  <1>2. f.seq = nextExpected[x] /\ f.kind \in {"data", "fin"}
    BY DEF RecvNext, Carries, InOrder
  <1>3. f.kind = "data" => f.seq < nextSeq[p]
    BY DEF Truthful
  <1>4. f.kind = "fin" => finSent[p] /\ f.seq = finSeq[p] /\ nextSeq[p] = finSeq[p] + 1
    BY <1>0 DEF Truthful, SendInv
  <1>5. nextExpected[x] < nextSeq[p]
    <2>1. CASE f.kind = "data"
      BY <1>2, <1>3, <2>1
    <2>2. CASE f.kind = "fin"
      BY <1>1, <1>2, <1>4, <2>2
    <2> QED
      BY <1>2, <2>1, <2>2
  <1>6. nextExpected[x] < MaxSeq
    <2>1. nextSeq[p] <= MaxSeq
      BY <1>0 DEF Bounded
    <2> QED
      BY <1>1, <1>5, <2>1, Sizes
  <1>7. ~rxClosed[x]
    <2>1. SUFFICES ASSUME rxClosed[x] PROVE FALSE
      OBVIOUS
    <2>2. finSent[p] /\ nextExpected[x] = finSeq[p] + 1 /\ nextSeq[p] = finSeq[p] + 1
      BY <1>0, <2>1 DEF RecvInv, SendInv
    <2> QED
      BY <1>1, <1>5, <2>2
  <1>8. Len(g) + Len(r) + 1 = nextExpected[x]
    BY <1>0, <1>7 DEF RecvInv
  <1>9. Continues(g, s, 0) /\ Continues(r, s, Len(g))
    BY <1>0 DEF RecvInv
  <1>10. /\ nextExpected'[x] = nextExpected[x] + 1
         /\ rxClosed'[x] = (f.kind = "fin")
         /\ rxBuf'[x] = IF f.kind = "data" THEN Append(r, f.data) ELSE r
    BY <1>6, <1>7 DEF RecvNext, TypeOK
  <1>11. UNCHANGED <<got, rd, sent, finSent, finSeq, nextSeq>>
    BY DEF RecvNext, Heard, userVars
  <1>12. rd[x] = "eof" => rxClosed[x]
    BY <1>0 DEF RecvInv
  <1>13. Peer(x)' = p
    BY DEF Peer
  <1>14. nextExpected'[x] >= 1 /\ nextExpected'[x] <= nextSeq'[p]
    BY <1>1, <1>5, <1>10, <1>11
  <1>15. CASE f.kind = "data"
    <2>1. /\ f.seq \in Nat /\ f.seq <= Len(s) /\ f.data = s[f.seq] /\ f.data \in Data
      BY <1>15 DEF Truthful, Frame
    <2>2. rxClosed'[x] = FALSE /\ rxBuf'[x] = Append(r, f.data)
      BY <1>10, <1>15
    <2>3. Len(g) + Len(r) + 1 <= Len(s) /\ f.data = s[Len(g) + Len(r) + 1]
      BY <1>2, <1>8, <2>1
    <2>4. Continues(Append(r, f.data), s, Len(g))
      <3> HIDE DEF p, s, g, r
      <3> QED
        BY <1>1, <1>9, <2>1, <2>3, ContinuesTake
    <2>5. Len(g) + Len(Append(r, f.data)) + 1 = nextExpected'[x]
      <3> HIDE DEF p, s, g, r
      <3>1. Len(Append(r, f.data)) = Len(r) + 1
        BY <1>1, <2>1, AppendFact
      <3> QED
        BY <1>1, <1>8, <1>10, <3>1
    <2>6. finSent[p] => nextExpected'[x] # finSeq[p] + 1
      <3>1. SUFFICES ASSUME finSent[p] PROVE nextExpected[x] # finSeq[p]
        BY <1>1, <1>10
      <3>2. Len(outQ[p]) = 0 /\ Framed(p) = finSeq[p] - 1 /\ Framed(p) \in Nat
            /\ Framed(p) + Len(outQ[p]) = Len(s)
        BY <1>0, <3>1 DEF SendInv, Framed
      <3>3. Len(s) = finSeq[p] - 1 /\ nextExpected[x] <= Len(s)
        <4> HIDE DEF p, s, g, r
        <4> QED
          BY <1>1, <1>2, <2>1, <3>2
      <3> QED
        <4> HIDE DEF p, s, g, r
        <4> QED
          BY <1>1, <3>3
    <2>7. /\ Continues(got[x], sent[Peer(x)], 0)'
          /\ Continues(rxBuf[x], sent[Peer(x)], Len(got[x]))'
      BY <1>9, <1>11, <1>13, <2>2, <2>4 DEF Continues
    <2>8. ~rxClosed'[x] => Len(got'[x]) + Len(rxBuf'[x]) + 1 = nextExpected'[x]
      BY <1>11, <2>2, <2>5
    <2>9. rxClosed'[x] <=> finSent'[p] /\ nextExpected'[x] = finSeq'[p] + 1
      BY <1>11, <2>2, <2>6
    <2>10. rd'[x] = "eof" => rxClosed'[x] /\ rxBuf'[x] = <<>>
      BY <1>7, <1>11, <1>12
    <2>11. rxClosed'[x] => Len(got'[x]) + Len(rxBuf'[x]) = Len(sent'[p])
      BY <2>2
    <2> QED
      BY <1>5, <1>13, <1>14, <2>7, <2>8, <2>9, <2>10, <2>11 DEF RecvInv
  <1>16. CASE f.kind = "fin"
    <2>1. rxClosed'[x] = TRUE /\ rxBuf'[x] = r
      BY <1>10, <1>16
    <2>2. finSent[p] /\ nextExpected[x] = finSeq[p]
      BY <1>2, <1>4, <1>16
    <2>3. Len(g) + Len(r) = Len(s)
      <3>1. Len(outQ[p]) = 0 /\ Framed(p) = finSeq[p] - 1 /\ Framed(p) \in Nat
            /\ Framed(p) + Len(outQ[p]) = Len(s)
        BY <1>0, <2>2 DEF SendInv, Framed
      <3> HIDE DEF p, s, g, r
      <3>2. Len(s) = finSeq[p] - 1
        BY <1>1, <3>1
      <3> QED
        BY <1>1, <1>8, <2>2, <3>2
    <2>4. /\ Continues(got[x], sent[Peer(x)], 0)'
          /\ Continues(rxBuf[x], sent[Peer(x)], Len(got[x]))'
      BY <1>9, <1>11, <1>13, <2>1 DEF Continues
    <2>5. rxClosed'[x] <=> finSent'[p] /\ nextExpected'[x] = finSeq'[p] + 1
      BY <1>10, <1>11, <2>1, <2>2
    <2>6. rd'[x] = "eof" => rxClosed'[x] /\ rxBuf'[x] = <<>>
      BY <1>7, <1>11, <1>12
    <2>7. Len(got'[x]) + Len(rxBuf'[x]) = Len(sent'[p])
      BY <1>11, <2>1, <2>3
    <2> QED
      BY <1>5, <1>13, <1>14, <2>1, <2>4, <2>5, <2>6, <2>7 DEF RecvInv
  <1> QED
    BY <1>2, <1>15, <1>16

\* A frame is received.
LEMMA RecvStepInv ==
  ASSUME TypeOK, Bounded, StreamInv, NEW x \in Ends, Recv(x)
  PROVE  StreamInv'
  <1> DEFINE p == Peer(x)
  <1>1. PICK f \in net[Peer(x)] :
           RecvNext(x, f) \/ RecvFull(x, f) \/ RecvOther(x, f) \/ RecvAck(x, f)
    BY DEF Recv
  <1>2. /\ Heard(x, f) /\ f \in Frame /\ Truthful(p, f)
        /\ nextExpected'[x] \in Nat /\ nextExpected[x] <= nextExpected'[x]
        /\ \A y \in Ends : y # x => /\ rxBuf'[y] = rxBuf[y] /\ rxClosed'[y] = rxClosed[y]
                                    /\ nextExpected'[y] = nextExpected[y]
        /\ Delivered(x, f, {}) \/ Delivered(x, f, {AckFrame("ack", nextExpected'[x])})
    BY <1>1, RecvAt
  <1>3. /\ UNCHANGED <<outQ, nextSeq, finSent, finSeq, gaveUp, sent, got, wr, rd, writeClosed>>
        /\ finAcked' = [finAcked EXCEPT ![x] = finAcked[x] \/ FinConfirmed(x, f.ack)]
    BY <1>2 DEF Heard, userVars
  <1>4. /\ Numbered(unacked'[x], nextSeq[x])
        /\ nextSeq[x] <= nextExpected[p] + Len(unacked'[x])
        /\ \A i \in 1..Len(unacked'[x]) : \E j \in 1..Len(unacked[x]) :
               unacked'[x][i] = unacked[x][j]
        /\ \A y \in Ends : y # x => unacked'[y] = unacked[y]
    BY <1>2, HeardWindow
  <1>5. p \in Ends /\ p # x /\ Peer(p) = x
    BY PeerFact
  <1>6. ASSUME NEW e \in Ends
        PROVE  nextExpected'[e] \in Nat /\ nextExpected[e] <= nextExpected'[e]
    <2>1. nextExpected[e] \in Nat
      BY TypeAt
    <2> QED
      BY <1>2, <2>1
  <1>7. ASSUME NEW e \in Ends, NEW g \in Frame, Truthful(e, g) PROVE Truthful(e, g)'
    <2>1. nextSeq'[e] \in Nat /\ nextSeq[e] <= nextSeq'[e]
      BY SMTT(30), <1>3, TypeAt
    <2> QED
      BY <1>3, <1>6, <1>7, <2>1, TruthStays
  <1>8. ASSUME NEW e \in Ends, NEW g \in net'[e]
        PROVE  g \in net[e] \/ (e = x /\ g = AckFrame("ack", nextExpected'[x]))
    <2>1. PICK R \in {{}, {AckFrame("ack", nextExpected'[x])}} : Delivered(x, f, R)
      BY <1>2
    <2>2. PICK D \in SUBSET {f}, N \in Carried(x, R) :
             net' = [net EXCEPT ![p] = net[p] \ D, ![x] = N]
      BY <2>1 DEF Delivered
    <2>3. N \subseteq net[x] \cup R
      BY CarriedFact
    <2>4. net'[x] = N /\ net'[p] = net[p] \ D
      BY <1>5, <2>2 DEF TypeOK
    <2>5. e = x \/ e = p
      BY <1>5 DEF Peer
    <2> QED
      BY <1>8, <2>3, <2>4, <2>5
  <1> SUFFICES ASSUME NEW e \in Ends
               PROVE  (SendInv(e) /\ FrameInv(e) /\ WindowInv(e) /\ RecvInv(e) /\ AckInv(e))'
    BY DEF StreamInv
  <1>9. SendInv(e)'
    <2>1. SendInv(e)
      BY InvAt
    <2>2. finAcked[e] => finAcked'[e]
      BY <1>3 DEF TypeOK
    <2>3. Framed(e)' = Framed(e)
      BY <1>3 DEF Framed
    <2>4. Continues(outQ[e], sent[e], Framed(e))'
      BY <1>3, <2>1, <2>3 DEF SendInv, Continues
    <2> QED
      BY <1>3, <2>1, <2>2, <2>3, <2>4 DEF SendInv
  <1>10. WindowInv(e)'
    <2>1. CASE e = x
      <3>1. nextExpected'[p] = nextExpected[p]
        BY <1>2, <1>5
      <3> QED
        BY <1>3, <1>4, <2>1, <3>1 DEF WindowInv, Peer
    <2>2. CASE e # x
      <3>1. unacked'[e] = unacked[e] /\ Peer(e) = x
        BY <1>4, <2>2 DEF Peer
      <3>2. Numbered(unacked[e], nextSeq[e]) /\ nextSeq[e] <= nextExpected[x] + Len(unacked[e])
        BY <3>1, InvAt DEF WindowInv
      <3>3. /\ nextSeq[e] \in Nat /\ nextExpected[x] \in Nat /\ Len(unacked[e]) \in Nat
        BY TypeAt
      <3> DEFINE l == Len(unacked[e])
      <3>4. nextSeq[e] <= nextExpected'[x] + l
        <4> l \in Nat /\ nextSeq[e] <= nextExpected[x] + l
          BY <3>2, <3>3
        <4> HIDE DEF l
        <4> QED
          BY <1>6, <3>3
      <3>5. Peer(e)' = x
        BY <3>1 DEF Peer
      <3> QED
        BY <1>3, <3>1, <3>2, <3>4, <3>5 DEF WindowInv
    <2> QED
      BY <2>1, <2>2
  <1>11. FrameInv(e)'
    <2>1. ASSUME NEW g \in net'[e] PROVE Truthful(e, g)'
      <3>1. CASE g \in net[e]
        <4>1. g \in Frame /\ Truthful(e, g)
          BY <3>1, InvAt, TypeAt DEF FrameInv
        <4> QED
          BY <1>7, <4>1
      <3>2. CASE g \notin net[e]
        <4>1. e = x /\ g.kind = "ack" /\ g.ack = nextExpected'[x]
          BY <1>8, <3>2 DEF AckFrame
        <4>2. g.ack <= nextExpected'[e]
          BY <1>6, <4>1
        <4> QED
          BY <4>1, <4>2 DEF Truthful
      <3> QED
        BY <3>1, <3>2
    <2>2. ASSUME NEW i \in 1..Len(unacked'[e]) PROVE Truthful(e, unacked[e][i])'
      <3>1. \E j \in 1..Len(unacked[e]) : unacked'[e][i] = unacked[e][j]
        BY <1>4
      <3>2. PICK g \in Frame : g = unacked'[e][i] /\ Truthful(e, g)
        <4>1. PICK j \in 1..Len(unacked[e]) : unacked'[e][i] = unacked[e][j]
          BY <3>1
        <4>2. unacked[e][j] \in Frame
          <5>1. unacked[e] \in Seq(Frame)
            BY TypeAt
          <5> QED
            BY <5>1, ElementOfSeq
        <4>3. Truthful(e, unacked[e][j])
          BY InvAt DEF FrameInv
        <4> QED
          BY <4>1, <4>2, <4>3
      <3>3. Truthful(e, g)'
        BY <1>7, <3>2
      <3> QED
        BY <3>2, <3>3 DEF Truthful
    <2> QED
      BY <2>1, <2>2 DEF FrameInv
  <1>12. RecvInv(e)'
    <2>1. CASE e = x /\ RecvNext(x, f)
      BY <1>2, <2>1, RecvReceiver
    <2>2. CASE ~(e = x /\ RecvNext(x, f))
      <3>1. /\ rxBuf'[e] = rxBuf[e] /\ rxClosed'[e] = rxClosed[e]
            /\ nextExpected'[e] = nextExpected[e]
        <4>1. CASE e # x
          BY <1>2, <4>1
        <4>2. CASE e = x
          BY <1>1, <2>2, <4>2 DEF RecvFull, RecvOther, RecvAck, rcvVars
        <4> QED
          BY <4>1, <4>2
      <3>2. nextSeq[Peer(e)] \in Nat /\ nextSeq[Peer(e)] <= nextSeq[Peer(e)] /\ Peer(e) \in Ends
        BY SMTT(30), PeerFact, TypeAt
      <3> QED
        BY <1>3, <3>1, <3>2, ReceiverStays
    <2> QED
      BY <2>1, <2>2
  <1>13. AckInv(e)'
    <2>1. SUFFICES ASSUME finAcked'[e], ~gaveUp[e]
                   PROVE  finSent[e] /\ nextExpected'[Peer(e)] = finSeq[e] + 1
      BY <1>3 DEF AckInv, Peer
    <2>2. CASE e = x
      <3>1. nextExpected'[p] = nextExpected[p]
        BY <1>2, <1>5
      <3>2. CASE finAcked[x]
        BY <2>1, <2>2, <3>1, <3>2, InvAt DEF AckInv
      <3>3. CASE ~finAcked[x]
        <4>1. FinConfirmed(x, f.ack)
          BY <1>3, <2>1, <2>2, <3>3 DEF TypeOK
        <4>2. finSent[x] /\ f.ack > finSeq[x]
          BY <4>1 DEF FinConfirmed
        <4>3. f.ack <= nextExpected[p] /\ f.ack \in Nat
          BY <1>2 DEF Truthful, Frame
        <4>4. nextExpected[p] <= nextSeq[x] /\ nextSeq[x] = finSeq[x] + 1
          BY <1>5, <4>2, InvAt DEF RecvInv, SendInv
        <4>5. nextExpected[p] \in Nat /\ nextSeq[x] \in Nat /\ finSeq[x] \in Nat
          BY <1>5, TypeAt
        <4>6. nextExpected[p] = finSeq[x] + 1
          BY <4>2, <4>3, <4>4, <4>5
        <4> QED
          BY <2>2, <3>1, <4>2, <4>6
      <3> QED
        BY <3>2, <3>3
    <2>3. CASE e # x
      <3>1. Peer(e) = x /\ Peer(x) = e /\ finAcked[e]
        BY <1>3, <2>1, <2>3 DEF Peer, TypeOK
      <3>2. finSent[e] /\ nextExpected[x] = finSeq[e] + 1 /\ nextSeq[e] = finSeq[e] + 1
        BY <2>1, <3>1, InvAt DEF AckInv, SendInv
      <3>3. nextExpected'[x] = nextExpected[x]
        <4>1. CASE RecvNext(x, f)
          <5>1. nextExpected[x] < nextSeq[e]
            BY <1>2, <3>1, <4>1, RecvReceiver
          <5>2. nextExpected[x] \in Nat
            BY TypeAt
          <5> QED
            BY <3>2, <5>1, <5>2
        <4>2. CASE ~RecvNext(x, f)
          BY <1>1, <4>2 DEF RecvFull, RecvOther, RecvAck, rcvVars
        <4> QED
          BY <4>1, <4>2
      <3> QED
        BY <3>1, <3>2, <3>3
    <2> QED
      BY <2>2, <2>3
  <1> QED
    BY <1>9, <1>10, <1>11, <1>12, <1>13

LEMMA NextInv ==
  ASSUME TypeOK, Bounded, StreamInv, [Next]_vars
  PROVE  StreamInv'
  <1>1. ASSUME NEW x \in Ends, User(x) \/ Exit(x)
        PROVE  StreamInv'
    BY <1>1, WriteInv, ReadInv, UserFlags DEF User
  <1>2. ASSUME NEW x \in Ends, Timer(x) \/ Flush(x)
        PROVE  StreamInv'
    BY <1>2, SendStepInv
  <1>3. ASSUME NEW x \in Ends, Recv(x)
        PROVE  StreamInv'
    BY <1>3, RecvStepInv
  <1>4. CASE UNCHANGED vars
    <2>1. /\ UNCHANGED <<rcvVars, sndVars, net, sent, got, gaveUp, finAcked>>
          /\ UNCHANGED <<wr, rd, writeClosed, rxClosed, rxBuf>>
      BY <1>4 DEF vars, ackVars, userVars, rcvVars
    <2>2. \A e \in Ends : /\ wr[e] = "open" => ~writeClosed[e]
                          /\ wr[e] = "ok" => finAcked[e]
                          /\ rd[e] = "eof" => rxClosed[e] /\ rxBuf[e] = <<>>
      BY DEF StreamInv, SendInv, RecvInv
    <2> QED
      BY <2>1, <2>2, FlagStep
  <1> QED
    BY <1>1, <1>2, <1>3, <1>4 DEF Next, Task

\* The inductive invariant holds of every behaviour of the two streams.
THEOREM StreamCorrect == Spec => []StreamInv
  <1>1. Init => StreamInv
    BY InitInv
  <1>2. TypeOK /\ Bounded /\ StreamInv /\ [Next]_vars => StreamInv'
    BY NextInv
  <1> QED
    BY <1>1, <1>2, TypeCorrect, PTL DEF Spec

\* For all data, capacities and timeouts and whatever the network does, a reader
\* gets a prefix of what the other side wrote.
THEOREM PrefixDelivered == Spec => []DeliveredPrefix
  <1>1. TypeOK /\ StreamInv => DeliveredPrefix
    <2>1. SUFFICES ASSUME TypeOK, StreamInv, NEW e \in Ends
                   PROVE  /\ Len(got[e]) <= Len(sent[Peer(e)])
                          /\ \A i \in 1..Len(got[e]) : got[e][i] = sent[Peer(e)][i]
      BY DEF DeliveredPrefix
    <2>2. Continues(got[e], sent[Peer(e)], 0)
      BY <2>1, InvAt DEF RecvInv
    <2>3. 0 + Len(got[e]) = Len(got[e]) /\ \A i \in 1..Len(got[e]) : 0 + i = i
      BY <2>1, TypeAt
    <2> QED
      BY <2>2, <2>3 DEF Continues
  <1> QED
    BY <1>1, TypeCorrect, StreamCorrect, PTL

\* The FIN's number comes after those of all data.
LEMMA FinNumber ==
  ASSUME TypeOK, StreamInv, NEW e \in Ends, finSent[e]
  PROVE  finSeq[e] = Len(sent[e]) + 1
  <1>1. /\ Framed(e) = finSeq[e] - 1 /\ Framed(e) \in Nat
        /\ Framed(e) + Len(outQ[e]) = Len(sent[e]) /\ Len(outQ[e]) = 0
    BY SMTT(30), InvAt DEF SendInv, Framed
  <1> DEFINE l == Len(sent[e])
             n == Framed(e)
  <1>2. n = finSeq[e] - 1 /\ n \in Nat /\ n + 0 = l /\ l \in Nat /\ finSeq[e] \in Nat
    BY <1>1, TypeAt
  <1> HIDE DEF l, n
  <1>3. finSeq[e] = l + 1
    BY SMTT(30), <1>2
  <1> QED
    BY <1>3 DEF l

\* What an end knows that has drained its closed receiving side.
LEMMA EofFact ==
  ASSUME TypeOK, StreamInv, NEW e \in Ends, rxClosed[e], rxBuf[e] = <<>>
  PROVE  /\ writeClosed[Peer(e)] /\ got[e] = sent[Peer(e)]
         /\ nextExpected[e] = Len(sent[Peer(e)]) + 2
  <1>1. finSent[Peer(e)] /\ nextExpected[e] = finSeq[Peer(e)] + 1
    BY InvAt DEF RecvInv
  <1>2. writeClosed[Peer(e)]
    BY <1>1, InvAt DEF SendInv
  <1>3. Len(got[e]) + Len(rxBuf[e]) = Len(sent[Peer(e)])
    BY InvAt DEF RecvInv
  <1>4. finSeq[Peer(e)] = Len(sent[Peer(e)]) + 1
    BY <1>1, FinNumber, PeerFact
  <1> DEFINE g == got[e]
             s == sent[Peer(e)]
  <1>5. g \in Seq(Data) /\ s \in Seq(Data) /\ Len(g) \in Nat /\ Len(s) \in Nat
    BY TypeAt, PeerFact
  <1>6. Len(g) = Len(s)
    <2>1. Len(rxBuf[e]) = 0
      OBVIOUS
    <2>2. Len(g) + 0 = Len(s)
      BY <1>3, <2>1
    <2> HIDE DEF g, s
    <2> QED
      BY <1>5, <2>2
  <1>7. \A i \in 1..Len(g) : g[i] = s[i]
    <2>1. Continues(g, s, 0)
      BY InvAt DEF RecvInv
    <2>2. \A i \in 1..Len(g) : 0 + i = i
      OBVIOUS
    <2> QED
      BY <2>1, <2>2 DEF Continues
  <1>8. nextExpected[e] = Len(s) + 2
    <2>1. nextExpected[e] = Len(s) + 1 + 1
      BY <1>1, <1>4
    <2> HIDE DEF s
    <2> QED
      BY <1>5, <2>1
  <1>9. g = s
    <2> HIDE DEF g, s
    <2> QED
      BY <1>5, <1>6, <1>7, SeqEqual
  <1> QED
    BY <1>2, <1>8, <1>9

\* A confirmed shutdown: the peer has taken everything, and the end of it.
LEMMA ConfirmedFact ==
  ASSUME TypeOK, StreamInv, NEW e \in Ends, finAcked[e], ~gaveUp[e]
  PROVE  rxClosed[Peer(e)] /\ nextExpected[Peer(e)] = Len(sent[e]) + 2
  <1>1. finSent[e] /\ nextExpected[Peer(e)] = finSeq[e] + 1
    BY InvAt DEF AckInv
  <1>2. rxClosed[Peer(e)]
    <2>1. Peer(Peer(e)) = e /\ RecvInv(Peer(e))
      BY InvAt, PeerFact
    <2> QED
      BY <1>1, <2>1 DEF RecvInv
  <1>3. nextExpected[Peer(e)] = Len(sent[e]) + 1 + 1
    BY <1>1, FinNumber
  <1> DEFINE l == Len(sent[e])
  <1>4. nextExpected[Peer(e)] = l + 2
    <2>1. l \in Nat /\ nextExpected[Peer(e)] = l + 1 + 1
      BY <1>3, TypeAt
    <2> HIDE DEF l
    <2> QED
      BY <2>1
  <1> QED
    BY <1>2, <1>4

\* What is read next is what the peer wrote next.
LEMMA ReadFact ==
  ASSUME TypeOK, StreamInv, NEW x \in Ends, Read(x)
  PROVE  /\ Head(rxBuf[x]) = sent[Peer(x)][Len(got[x]) + 1]
         /\ Len(got[x]) < Len(sent[Peer(x)]) /\ Len(got[x]) < nextExpected[x] - 1
  <1> DEFINE s == sent[Peer(x)]
             g == got[x]
             r == rxBuf[x]
  <1>1. /\ r # <<>> /\ r \in Seq(Data) /\ Len(r) \in Nat /\ Len(g) \in Nat /\ Len(s) \in Nat
        /\ nextExpected[x] \in Nat
    BY TypeAt, PeerFact DEF Read
  <1>2. Continues(r, s, Len(g))
    BY InvAt DEF RecvInv
  <1>3. rxClosed[x] => nextExpected[x] = Len(s) + 2
    <2>1. SUFFICES ASSUME rxClosed[x] PROVE nextExpected[x] = Len(s) + 2
      OBVIOUS
    <2>2. finSent[Peer(x)] /\ nextExpected[x] = finSeq[Peer(x)] + 1
      BY <2>1, InvAt DEF RecvInv
    <2>3. nextExpected[x] = Len(s) + 1 + 1
      BY <2>2, FinNumber, PeerFact
    <2> HIDE DEF s
    <2> QED
      BY <1>1, <2>3
  <1>4. ~rxClosed[x] => Len(g) + Len(r) + 1 = nextExpected[x]
    BY InvAt DEF RecvInv
  <1> HIDE DEF s, g, r
  <1>5. Len(r) >= 1 /\ Head(r) = r[1]
    BY <1>1, HeadTailProperties
  <1>6. r[1] = s[Len(g) + 1] /\ Len(g) + Len(r) <= Len(s)
    BY <1>1, <1>2, <1>5 DEF Continues
  <1>7. Len(g) < Len(s) /\ Len(g) < nextExpected[x] - 1
    BY <1>1, <1>3, <1>4, <1>5, <1>6
  <1> QED
    BY <1>5, <1>6, <1>7 DEF s, g, r

\* What is taken next is the peer's next chunk, or its end.
LEMMA TakeFact ==
  ASSUME TypeOK, Bounded, StreamInv, NEW x \in Ends, NEW f \in Frame,
         RecvNext(x, f), Truthful(Peer(x), f)
  PROVE  /\ nextExpected' = [nextExpected EXCEPT ![x] = nextExpected[x] + 1]
         /\ \/ nextExpected[x] - 1 < Len(sent[Peer(x)])
            \/ nextExpected[x] - 1 = Len(sent[Peer(x)]) /\ writeClosed[Peer(x)]
  <1> DEFINE l == Len(sent[Peer(x)])
  <1>0. /\ Peer(x) \in Ends /\ nextExpected[x] \in Nat /\ nextExpected[x] >= 1
        /\ nextSeq[Peer(x)] \in Nat /\ l \in Nat /\ nextSeq[Peer(x)] <= MaxSeq
    BY PeerFact, TypeAt, InvAt DEF RecvInv, Bounded
  <1>1. nextExpected[x] < MaxSeq
    <2>1. nextExpected[x] < nextSeq[Peer(x)]
      BY RecvReceiver
    <2> HIDE DEF l
    <2> QED
      BY <1>0, <2>1, Sizes
  <1>2. nextExpected' = [nextExpected EXCEPT ![x] = nextExpected[x] + 1]
    BY <1>1 DEF RecvNext
  <1>3. f.seq = nextExpected[x] /\ f.kind \in {"data", "fin"}
    BY DEF RecvNext, Carries, InOrder
  <1>4. CASE f.kind = "data"
    <2>1. nextExpected[x] <= l
      BY <1>3, <1>4 DEF Truthful
    <2> HIDE DEF l
    <2>2. nextExpected[x] - 1 < l
      BY <1>0, <2>1
    <2> QED
      BY <1>2, <2>2 DEF l
  <1>5. CASE f.kind = "fin"
    <2>1. finSent[Peer(x)] /\ nextExpected[x] = finSeq[Peer(x)]
      BY <1>3, <1>5 DEF Truthful
    <2>2. nextExpected[x] = l + 1
      BY <1>0, <2>1, FinNumber
    <2>3. writeClosed[Peer(x)]
      BY <2>1, InvAt DEF SendInv
    <2> HIDE DEF l
    <2>4. nextExpected[x] - 1 = l
      BY <1>0, <2>2
    <2> QED
      BY <1>2, <2>3, <2>4 DEF l
  <1> QED
    BY <1>3, <1>4, <1>5

\* "End of file" is only ever reported after everything the peer wrote was read.
THEOREM EofIsComplete == Spec => []EofComplete
  <1>1. TypeOK /\ StreamInv => EofComplete
    <2>1. SUFFICES ASSUME TypeOK, StreamInv, NEW e \in Ends, rd[e] = "eof"
                   PROVE  writeClosed[Peer(e)] /\ got[e] = sent[Peer(e)]
      BY DEF EofComplete
    <2>2. rxClosed[e] /\ rxBuf[e] = <<>>
      BY <2>1, InvAt DEF RecvInv
    <2> QED
      BY <2>1, <2>2, EofFact
  <1> QED
    BY <1>1, TypeCorrect, StreamCorrect, PTL

\* A shutdown that returns Ok without giving the peer up was fully received.
THEOREM ShutdownIsDelivered == Spec => []ShutdownMeansDelivered
  <1>1. TypeOK /\ StreamInv => ShutdownMeansDelivered
    <2>1. SUFFICES ASSUME TypeOK, StreamInv, NEW e \in Ends, wr[e] = "ok", ~gaveUp[e]
                   PROVE  rxClosed[Peer(e)] /\ nextExpected[Peer(e)] = Len(sent[e]) + 2
      BY DEF ShutdownMeansDelivered
    <2>2. finAcked[e]
      BY <2>1, InvAt DEF SendInv
    <2> QED
      BY <2>1, <2>2, ConfirmedFact
  <1> QED
    BY <1>1, TypeCorrect, StreamCorrect, PTL

\* The retransmission queue holds every frame the peer may still need.
THEOREM WindowIsComplete == Spec => []WindowCoversGap
  <1>1. TypeOK /\ Bounded /\ StreamInv => WindowCoversGap
    <2>1. SUFFICES ASSUME TypeOK, Bounded, StreamInv, NEW e \in Ends
                   PROVE  /\ Len(unacked[e]) <= Window
                          /\ Numbered(unacked[e], nextSeq[e])
                          /\ nextSeq[e] <= nextExpected[Peer(e)] + Len(unacked[e])
                          /\ nextExpected[Peer(e)] <= nextSeq[e]
      BY DEF WindowCoversGap
    <2>2. Peer(e) \in Ends /\ Peer(Peer(e)) = e
      BY PeerFact
    <2> QED
      BY <2>1, <2>2, InvAt DEF Bounded, WindowInv, RecvInv
  <1> QED
    BY <1>1, TypeCorrect, StreamCorrect, PTL

\* No sequence number beyond u32::MAX is ever needed.
THEOREM SequenceIsBounded == Spec => []SequenceBounded
  <1>1. Bounded /\ StreamInv => SequenceBounded
    BY InvAt DEF Bounded, SequenceBounded, RecvInv
  <1> QED
    BY <1>1, TypeCorrect, StreamCorrect, PTL

\* A closed receiving side stays as it is, but for the reader.
THEOREM ClosedIsFinal == Spec => ClosedStaysClosed
  <1>1. ASSUME TypeOK, Bounded, StreamInv, [Next]_vars, NEW e \in Ends, rxClosed[e]
        PROVE  /\ rxClosed'[e] /\ nextExpected'[e] = nextExpected[e]
               /\ Len(rxBuf'[e]) <= Len(rxBuf[e])
    <2>0. Len(rxBuf[e]) \in Nat /\ rxBuf[e] \in Seq(Data) /\ rxBuf \in [Ends -> Seq(Data)]
      BY <1>1, TypeAt DEF TypeOK
    <2>1. CASE rxBuf'[e] = rxBuf[e] /\ rxClosed'[e] = rxClosed[e] /\ nextExpected'[e] = nextExpected[e]
      BY <1>1, <2>0, <2>1
    <2>2. CASE Read(e)
      <3>1. UNCHANGED <<rxClosed, nextExpected>> /\ rxBuf'[e] = Tail(rxBuf[e]) /\ rxBuf[e] # <<>>
        BY <2>0, <2>2 DEF Read
      <3>2. Len(Tail(rxBuf[e])) = Len(rxBuf[e]) - 1 /\ Len(rxBuf[e]) >= 1
        BY <2>0, <3>1, HeadTailProperties
      <3> DEFINE l == Len(rxBuf[e])
      <3>3. l - 1 <= l
        <4> l \in Nat
          BY <2>0
        <4> HIDE DEF l
        <4> QED
          OBVIOUS
      <3> QED
        BY <1>1, <3>1, <3>2, <3>3
    <2>3. ASSUME NEW f \in net[Peer(e)], RecvNext(e, f)
          PROVE  FALSE
      <3>1. f \in Frame /\ Truthful(Peer(e), f)
        BY <1>1, <2>3, RecvAt
      <3>2. nextExpected[e] < nextSeq[Peer(e)]
        BY <1>1, <2>3, <3>1, RecvReceiver
      <3>3. finSent[Peer(e)] /\ nextExpected[e] = finSeq[Peer(e)] + 1
        BY <1>1, InvAt DEF RecvInv
      <3>4. nextSeq[Peer(e)] = finSeq[Peer(e)] + 1
        BY <1>1, <3>3, InvAt DEF SendInv
      <3>5. nextExpected[e] \in Nat
        BY <1>1, TypeAt
      <3> QED
        BY <3>2, <3>3, <3>4, <3>5
    <2>4. ASSUME NEW x \in Ends, Next, x # e, Recv(x) \/ Read(x)
          PROVE  rxBuf'[e] = rxBuf[e] /\ rxClosed'[e] = rxClosed[e] /\ nextExpected'[e] = nextExpected[e]
      <3>1. CASE Recv(x)
        BY <1>1, <2>4, <3>1, RecvAt DEF Recv
      <3>2. CASE Read(x)
        BY <2>0, <2>4, <3>2 DEF Read
      <3> QED
        BY <2>4, <3>1, <3>2
    <2>5. ASSUME NEW x \in Ends, User(x) \/ Task(x), ~Recv(x), ~Read(x)
          PROVE  UNCHANGED rcvVars
      <3>1. CASE User(x)
        BY <2>5, <3>1 DEF User, Write, WriteParks, Shutdown, ShutdownPoll, ShutdownWaits,
                             WriteFails, ReadEnds, DropHandle
      <3>2. CASE Task(x)
        BY <2>5, <3>2 DEF Task, Exit, Timer, Flush, TimerGivesUp, TimerFails, TimerRetransmits, TimerIdles, TimerRound
      <3> QED
        BY <2>5, <3>1, <3>2
    <2>6. CASE UNCHANGED rcvVars
      BY <2>1, <2>6 DEF rcvVars
    <2>7. CASE Next
      <3>1. PICK x \in Ends : User(x) \/ Task(x)
        BY <2>7 DEF Next
      <3>2. CASE x = e /\ Recv(x)
        <4>1. PICK f \in net[Peer(e)] :
                 RecvNext(e, f) \/ RecvFull(e, f) \/ RecvOther(e, f) \/ RecvAck(e, f)
          BY <3>2 DEF Recv
        <4>2. UNCHANGED rcvVars
          BY <2>3, <4>1 DEF RecvFull, RecvOther, RecvAck
        <4> QED
          BY <2>6, <4>2
      <3> QED
        BY <2>1, <2>2, <2>4, <2>5, <2>6, <2>7, <3>1, <3>2
    <2> QED
      BY <1>1, <2>6, <2>7 DEF vars
  <1>2. TypeOK /\ Bounded /\ StreamInv /\ [Next]_vars => [StaysClosed]_vars
    <2>1. SUFFICES ASSUME TypeOK, Bounded, StreamInv, [Next]_vars
                   PROVE  StaysClosed
      OBVIOUS
    <2> QED
      BY <1>1, <2>1, Zenon DEF StaysClosed
  <1> QED
    BY <1>2, TypeCorrect, StreamCorrect, PTL DEF Spec, ClosedStaysClosed
-----------------------------------------------------------------------------
(* Nobody waits on a stream whose task is gone *)

\* What ParkInv says of one end.
ParkAt(e) ==
    /\ err[e] # "none" \/ finAcked[e] \/ rd[e] = "dropped" => ~parked[e] \/ look[e] = "missed"
    /\ ~running[e] => err[e] # "none" \/ finAcked[e] \/ rd[e] = "dropped"
    /\ rd[e] = "dropped" => wr[e] = "dropped" /\ look[e] = "no"
    /\ finAcked[e] => finSent[e]
    /\ look[e] # "no" => wr[e] = "closing"
    /\ look[e] = "missed" => err[e] # "none"

LEMMA ParkStep ==
  ASSUME TypeOK, Bounded, StreamInv, ParkInv, [Next]_vars
  PROVE  ParkInv'
  <1> USE DEF rcvVars, sndVars, ackVars, liveVars, userVars
  <1> SUFFICES ASSUME NEW e \in Ends
               PROVE  ParkAt(e)'
    BY DEF ParkInv, ParkAt
  <1>0. ParkAt(e)
    BY DEF ParkInv, ParkAt
  <1>t. /\ parked \in [Ends -> BOOLEAN] /\ running \in [Ends -> BOOLEAN]
        /\ finAcked \in [Ends -> BOOLEAN] /\ finSent \in [Ends -> BOOLEAN]
        /\ err \in [Ends -> {"none", "lost", "exhausted"}]
        /\ wr \in [Ends -> {"open", "closing", "ok", "err", "dropped"}]
        /\ rd \in [Ends -> {"open", "eof", "err", "dropped"}]
        /\ look \in [Ends -> {"no", "between", "missed"}]
    BY DEF TypeOK
  <1>1. ASSUME NEW x \in Ends, Write(x) \/ Read(x)
        PROVE  UNCHANGED <<err, finAcked, finSent, rd, wr, look, parked, running>>
    BY <1>1 DEF Write, Read
  <1>2. ASSUME NEW x \in Ends, WriteParks(x)
        PROVE  ParkInv'
    <2>1. /\ UNCHANGED <<err, finAcked, finSent, rd, wr, look, running>>
          /\ parked' = [parked EXCEPT ![x] = TRUE] /\ wr[x] = "open" /\ err[x] = "none"
      BY <1>2 DEF WriteParks, Accepts
    <2>2. rd[x] # "dropped" /\ ~finAcked[x]
      BY <2>1, InvAt DEF ParkInv, SendInv
    <2> QED
      BY <1>t, <2>1, <2>2 DEF ParkInv
  <1>3. ASSUME NEW x \in Ends, Shutdown(x)
        PROVE  ParkInv'
    <2>1. /\ UNCHANGED <<err, finAcked, finSent, rd, running>>
          /\ wr' = [wr EXCEPT ![x] = "closing"] /\ look' = [look EXCEPT ![x] = "between"]
          /\ UNCHANGED parked /\ wr[x] = "open" /\ err[x] = "none"
      BY <1>3 DEF Shutdown
    <2>2. rd[x] # "dropped" /\ ~finAcked[x]
      BY <2>1, InvAt DEF ParkInv, SendInv
    <2> QED
      BY <1>t, <2>1, <2>2 DEF ParkInv
  <1>4. ASSUME NEW x \in Ends, ShutdownPoll(x)
        PROVE  ParkInv'
    <2>1. /\ UNCHANGED <<err, finAcked, finSent, rd, running, parked>>
          /\ wr[x] = "closing" /\ err[x] = "none" /\ look[x] = "no" /\ ~parked[x]
      BY <1>4 DEF ShutdownPoll
    <2>2. rd[x] # "dropped"
      BY <2>1 DEF ParkInv
    <2>3. CASE finAcked[x]
      <3>1. wr' = [wr EXCEPT ![x] = "ok"] /\ UNCHANGED look
        BY <1>4, <2>3 DEF ShutdownPoll
      <3> QED
        BY <1>t, <2>1, <2>2, <3>1 DEF ParkInv
    <2>4. CASE ~finAcked[x]
      <3>1. look' = [look EXCEPT ![x] = "between"] /\ UNCHANGED wr
        BY <1>4, <2>4 DEF ShutdownPoll
      <3> QED
        BY <1>t, <2>1, <2>2, <2>4, <3>1 DEF ParkInv
    <2> QED
      BY <2>3, <2>4
  <1>w. ASSUME NEW x \in Ends, ShutdownWaits(x)
        PROVE  ParkInv'
    <2>1. UNCHANGED <<err, finAcked, finSent, rd, running>> /\ look[x] = "between"
      BY <1>w DEF ShutdownWaits
    <2>2. wr[x] = "closing" /\ rd[x] # "dropped"
      BY <2>1 DEF ParkInv
    <2>3. CASE finAcked[x]
      <3>1. /\ wr' = [wr EXCEPT ![x] = "ok"] /\ look' = [look EXCEPT ![x] = "no"]
            /\ UNCHANGED parked
        BY <1>w, <2>3 DEF ShutdownWaits
      <3>2. ~parked[x]
        BY <2>1, <2>3 DEF ParkInv
      <3> QED
        BY <1>t, <2>1, <2>2, <3>1, <3>2 DEF ParkInv
    <2>4. CASE ~finAcked[x]
      <3>1. /\ parked' = [parked EXCEPT ![x] = TRUE] /\ UNCHANGED wr
            /\ look' = [look EXCEPT ![x] = IF err[x] = "none" THEN "no" ELSE "missed"]
        BY <1>w, <2>4 DEF ShutdownWaits
      <3>2. CASE err[x] = "none"
        <4>1. look' = [look EXCEPT ![x] = "no"]
          BY <3>1, <3>2
        <4> QED
          BY <1>t, <2>1, <2>2, <2>4, <3>1, <3>2, <4>1 DEF ParkInv
      <3>3. CASE err[x] # "none"
        <4>1. look' = [look EXCEPT ![x] = "missed"]
          BY <3>1, <3>3
        <4> QED
          BY <1>t, <2>1, <2>2, <2>4, <3>1, <3>3, <4>1 DEF ParkInv
      <3> QED
        BY <3>2, <3>3
    <2> QED
      BY <2>3, <2>4
  <1>5. ASSUME NEW x \in Ends, WriteFails(x)
        PROVE  ParkInv'
    <2>1. /\ UNCHANGED <<err, finAcked, finSent, rd, running, parked, look>>
          /\ wr' = [wr EXCEPT ![x] = "err"] /\ wr[x] \in {"open", "closing"} /\ look[x] = "no"
      BY <1>5 DEF WriteFails
    <2>2. rd[x] # "dropped"
      BY <2>1 DEF ParkInv
    <2> QED
      BY <1>t, <2>1, <2>2 DEF ParkInv
  <1>6. ASSUME NEW x \in Ends, ReadEnds(x)
        PROVE  ParkInv'
    <2>1. /\ UNCHANGED <<err, finAcked, finSent, wr, look, running, parked>>
          /\ rd[x] = "open" /\ \E v \in {"err", "eof"} : rd' = [rd EXCEPT ![x] = v]
      BY <1>6 DEF ReadEnds
    <2> QED
      BY <1>t, <2>1 DEF ParkInv
  <1>7. ASSUME NEW x \in Ends, DropHandle(x)
        PROVE  ParkInv'
    <2>1. /\ UNCHANGED <<err, finAcked, finSent, running>>
          /\ wr' = [wr EXCEPT ![x] = "dropped"] /\ rd' = [rd EXCEPT ![x] = "dropped"]
          /\ parked' = [parked EXCEPT ![x] = FALSE] /\ look' = [look EXCEPT ![x] = "no"]
      BY <1>7 DEF DropHandle
    <2> QED
      BY <1>t, <2>1 DEF ParkInv
  <1>8. ASSUME NEW x \in Ends, Exit(x)
        PROVE  ParkInv'
    <2>1. /\ UNCHANGED <<err, finAcked, finSent, rd, wr, look, parked>>
          /\ running' = [running EXCEPT ![x] = FALSE]
          /\ err[x] # "none" \/ finAcked[x] \/ rd[x] = "dropped"
      BY <1>8 DEF Exit, Done
    <2> QED
      BY <1>t, <2>1 DEF ParkInv
  <1>9. ASSUME NEW x \in Ends, Timer(x) \/ Flush(x)
        PROVE  ParkInv'
    <2>1. UNCHANGED <<rd, wr, look, running>> /\ FlushOut(x)
      BY <1>9 DEF Timer, Flush, TimerGivesUp, TimerFails, TimerRetransmits, TimerIdles, TimerRound
    <2>2. \A y \in Ends : finSent[y] => finSent'[y]
      BY <2>1, FlushAt
    <2>3. CASE UNCHANGED <<err, finAcked, parked>>
      BY <1>t, <2>1, <2>2, <2>3 DEF ParkInv
    <2>4. CASE UNCHANGED finAcked /\ \E why \in {"lost", "exhausted"} : Fail(x, why)
      <3>1. PICK why \in {"lost", "exhausted"} :
               err' = [err EXCEPT ![x] = why] /\ parked' = [parked EXCEPT ![x] = FALSE]
        BY <2>4 DEF Fail
      <3> QED
        BY <1>t, <2>1, <2>2, <2>4, <3>1 DEF ParkInv
    <2>5. CASE TimerGivesUp(x)
      <3>1. /\ finSent'[x] /\ finAcked' = [finAcked EXCEPT ![x] = TRUE]
            /\ parked' = [parked EXCEPT ![x] = FALSE]
            /\ \A y \in Ends : err[y] # "none" => err'[y] # "none"
            /\ \A y \in Ends : y # x => err'[y] = err[y]
        BY <1>t, <2>5 DEF TimerGivesUp, CloseOverdue
      <3> QED
        BY <1>t, <2>1, <2>2, <3>1 DEF ParkInv
    <2>6. CASE Flush(x)
      <3>1. UNCHANGED finAcked /\ (Fail(x, "exhausted") \/ UNCHANGED <<err, parked>>)
        BY <2>6 DEF Flush
      <3> QED
        BY <2>3, <2>4, <3>1
    <2>7. CASE TimerFails(x)
      <3>1. UNCHANGED finAcked /\ (Fail(x, "exhausted") \/ Fail(x, "lost"))
        BY <2>7 DEF TimerFails
      <3> QED
        BY <2>4, <3>1
    <2>8. CASE TimerRetransmits(x) \/ TimerIdles(x)
      BY <2>3, <2>8 DEF TimerRetransmits, TimerIdles
    <2> QED
      BY <1>9, <2>5, <2>6, <2>7, <2>8 DEF Timer
  <1>10. ASSUME NEW x \in Ends, Recv(x)
         PROVE  ParkInv'
    <2>1. PICK f \in net[Peer(x)] : Heard(x, f)
      BY <1>10 DEF Recv, RecvNext, RecvFull, RecvOther, RecvAck
    <2>2. UNCHANGED <<err, rd, wr, look, running, finSent>>
      BY <2>1 DEF Heard
    <2>3. PICK k \in 0..Len(unacked[x]) :
             parked' = [parked EXCEPT ![x] = parked[x] /\ ~Wakes(x, f.ack, k)]
      BY <2>1 DEF Heard
    <2>4. finAcked' = [finAcked EXCEPT ![x] = finAcked[x] \/ FinConfirmed(x, f.ack)]
      BY <2>1 DEF Heard
    <2>5. FinConfirmed(x, f.ack) => finSent[x] /\ Wakes(x, f.ack, k)
      BY DEF FinConfirmed, Wakes
    <2>6. \A y \in Ends : y # x => parked'[y] = parked[y] /\ finAcked'[y] = finAcked[y]
      BY <1>t, <2>3, <2>4
    <2>7. /\ parked'[x] => parked[x] /\ ~FinConfirmed(x, f.ack)
          /\ finAcked'[x] => finAcked[x] \/ FinConfirmed(x, f.ack)
          /\ finAcked[x] => finAcked'[x]
      BY <1>t, <2>3, <2>4, <2>5
    <2> QED
      BY <2>2, <2>5, <2>6, <2>7 DEF ParkInv
  <1>11. CASE UNCHANGED vars
    BY <1>0, <1>11 DEF vars, ParkAt
  <1>12. CASE Next
    <2>1. PICK x \in Ends : User(x) \/ Task(x)
      BY <1>12 DEF Next
    <2>2. CASE Write(x) \/ Read(x)
      BY <1>0, <1>1, <2>2 DEF ParkAt
    <2>3. CASE ~(Write(x) \/ Read(x))
      <3>1. ParkInv'
        BY <1>2, <1>3, <1>4, <1>w, <1>5, <1>6, <1>7, <1>8, <1>9, <1>10, <2>1, <2>3 DEF User, Task
      <3> QED
        BY <3>1 DEF ParkInv, ParkAt
    <2> QED
      BY <2>2, <2>3
  <1> QED
    BY <1>11, <1>12

\* A task that is gone leaves nobody behind but a shutdown that missed its failure.
LEMMA ParkCorrect == Spec => []ParkInv
  <1>1. Init => ParkInv
    BY DEF Init, ParkInv
  <1>2. TypeOK /\ Bounded /\ StreamInv /\ ParkInv /\ [Next]_vars => ParkInv'
    BY ParkStep
  <1> QED
    BY <1>1, <1>2, TypeCorrect, StreamCorrect, PTL DEF Spec

\* Of the users of a stream whose task is gone only a shutdown between whose two looks
\* the stream failed is parked.
THEOREM OnlyTheLateAreParked == Spec => []NobodyParkedAfterExit
  <1>1. ParkInv => NobodyParkedAfterExit
    BY DEF ParkInv, NobodyParkedAfterExit
  <1> QED
    BY <1>1, ParkCorrect, PTL

-----------------------------------------------------------------------------
(* The stream implements the pair of pipes *)

\* What an end has taken, and whether it is gone, in terms of the stream.
Taken == [e \in Ends |-> nextExpected[e] - 1]
Gone == [e \in Ends |-> err[e] # "none" \/ gaveUp[e]]

LEMMA OtherFact == \A e \in Ends : Pipe!Other(e) = Peer(e)
  BY DEF Pipe!Other, Peer

\* Steps the abstract specification does not see.
LEMMA PipeStutter ==
  ASSUME UNCHANGED <<sent, got, nextExpected, writeClosed, err, gaveUp, wr, rd>>
  PROVE  UNCHANGED Pipe!pipeVars
  BY DEF Pipe!pipeVars

\* A stream that fails or gives up is gone, if it was not before.
LEMMA PipeGoneStep ==
  ASSUME TypeOK, NEW x \in Ends,
         UNCHANGED <<sent, got, nextExpected, writeClosed, wr, rd>>,
         \A e \in Ends : e # x => err'[e] = err[e] /\ gaveUp'[e] = gaveUp[e],
         err[x] # "none" => err'[x] # "none", gaveUp[x] => gaveUp'[x]
  PROVE  [Pipe!PipeNext]_(Pipe!pipeVars)
  <1>1. UNCHANGED Taken
    BY DEF Taken
  <1>2. CASE Gone'[x] = Gone[x]
    <2>1. UNCHANGED Gone
      BY <1>2 DEF Gone
    <2>2. UNCHANGED Pipe!pipeVars
      BY <1>1, <2>1 DEF Pipe!pipeVars, Taken, Gone
    <2> QED
      BY <2>2
  <1>3. CASE Gone'[x] # Gone[x]
    <2>1. ~Gone[x] /\ Gone'[x]
      BY <1>3 DEF Gone
    <2>2. Gone' = [Gone EXCEPT ![x] = TRUE]
      BY <2>1 DEF Gone
    <2>3. Pipe!PipeGone(x)
      BY <1>1, <2>1, <2>2 DEF Pipe!PipeGone, Taken, Gone
    <2> QED
      BY <2>3 DEF Pipe!PipeNext, Pipe!Ends
  <1> QED
    BY <1>2, <1>3

LEMMA PipeInitFact == Init => Pipe!PipeInit
  <1> SUFFICES ASSUME Init PROVE Pipe!PipeInit
    OBVIOUS
  <1>1. Taken = [e \in Ends |-> 0]
    BY DEF Taken, Init
  <1>2. Gone = [e \in Ends |-> FALSE]
    BY DEF Gone, Init
  <1> QED
    BY <1>1, <1>2 DEF Init, Pipe!PipeInit, Pipe!Ends, Taken, Gone

LEMMA PipeUser ==
  ASSUME TypeOK, Bounded, StreamInv, ParkInv, NEW x \in Ends, User(x)
  PROVE  [Pipe!PipeNext]_(Pipe!pipeVars)
  <1>0. UNCHANGED <<nextExpected, err, gaveUp>>
    BY DEF User, Write, WriteParks, Shutdown, ShutdownPoll, ShutdownWaits, WriteFails, Read, ReadEnds,
           DropHandle, rcvVars, ackVars, liveVars
  <1>u. UNCHANGED <<Taken, Gone>>
    BY <1>0 DEF Taken, Gone
  <1>c. wr[x] = "open" => ~writeClosed[x]
    BY InvAt DEF SendInv
  <1>1. CASE Write(x)
    <2>1. Pipe!PipeWrite(x)
      BY <1>1, <1>u, <1>c DEF Write, Accepts, Pipe!PipeWrite, Taken, Gone
    <2> QED
      BY <2>1 DEF Pipe!PipeNext, Pipe!Ends
  <1>2. CASE WriteParks(x)
    BY <1>2, PipeStutter DEF WriteParks, rcvVars, ackVars, liveVars, userVars
  <1>3. CASE Shutdown(x)
    <2>1. Pipe!PipeClose(x)
      BY <1>3, <1>u, <1>c DEF Shutdown, Pipe!PipeClose, Taken, Gone
    <2> QED
      BY <2>1 DEF Pipe!PipeNext, Pipe!Ends
  <1>a. ASSUME finAcked[x], wr[x] = "closing", wr' = [wr EXCEPT ![x] = "ok"],
               UNCHANGED <<sent, got, writeClosed, rd>>
        PROVE  [Pipe!PipeNext]_(Pipe!pipeVars)
    <2>1. gaveUp[x] \/ nextExpected[Peer(x)] - 1 = Len(sent[x]) + 1
      <3>1. gaveUp[x] \/ nextExpected[Peer(x)] = Len(sent[x]) + 2
        BY <1>a, ConfirmedFact
      <3> DEFINE l == Len(sent[x])
      <3>2. l \in Nat /\ l + 2 - 1 = l + 1
        <4> l \in Nat
          BY TypeAt
        <4> HIDE DEF l
        <4> QED
          OBVIOUS
      <3> QED
        BY <3>1, <3>2
    <2>2. Gone[x] \/ Taken[Pipe!Other(x)] = Len(sent[x]) + 1
      BY <2>1, OtherFact, PeerFact DEF Gone, Taken
    <2>3. Pipe!PipeShutdownOk(x)
      BY <1>u, <1>a, <2>2 DEF Pipe!PipeShutdownOk, Taken, Gone
    <2> QED
      BY <2>3 DEF Pipe!PipeNext, Pipe!Ends
  <1>4. CASE ShutdownPoll(x)
    <2>1. CASE finAcked[x]
      BY <1>4, <1>a, <2>1 DEF ShutdownPoll
    <2>2. CASE ~finAcked[x]
      BY <1>4, <2>2, PipeStutter DEF ShutdownPoll, rcvVars, ackVars, liveVars, userVars
    <2> QED
      BY <2>1, <2>2
  <1>w. CASE ShutdownWaits(x)
    <2>1. CASE finAcked[x]
      <3>1. wr[x] = "closing"
        BY <1>w DEF ShutdownWaits, ParkInv
      <3> QED
        BY <1>w, <1>a, <2>1, <3>1 DEF ShutdownWaits
    <2>2. CASE ~finAcked[x]
      BY <1>w, <2>2, PipeStutter DEF ShutdownWaits, rcvVars, ackVars, liveVars, userVars
    <2> QED
      BY <2>1, <2>2
  <1>5. CASE WriteFails(x)
    <2>1. Gone[x]
      BY <1>5 DEF WriteFails, Gone
    <2>2. Pipe!PipeError(x)
      BY <1>5, <1>u, <2>1 DEF WriteFails, Pipe!PipeError, Taken, Gone
    <2> QED
      BY <2>2 DEF Pipe!PipeNext, Pipe!Ends
  <1>6. CASE Read(x)
    <2>1. /\ Head(rxBuf[x]) = sent[Peer(x)][Len(got[x]) + 1]
          /\ Len(got[x]) < Len(sent[Peer(x)]) /\ Len(got[x]) < nextExpected[x] - 1
      BY <1>6, ReadFact
    <2>2. /\ rd[x] = "open" /\ got' = [got EXCEPT ![x] = Append(got[x], sent[Peer(x)][Len(got[x]) + 1])]
          /\ UNCHANGED <<sent, writeClosed, wr, rd>>
      BY <1>6, <2>1 DEF Read
    <2>3. Pipe!PipeRead(x)
      BY <1>u, <2>1, <2>2, OtherFact DEF Pipe!PipeRead, Taken, Gone
    <2> QED
      BY <2>3 DEF Pipe!PipeNext, Pipe!Ends
  <1>7. CASE ReadEnds(x)
    <2>1. CASE err[x] # "none"
      <3>1. Gone[x]
        BY <2>1 DEF Gone
      <3>2. Pipe!PipeError(x)
        BY <1>7, <1>u, <2>1, <3>1 DEF ReadEnds, Pipe!PipeError, Taken, Gone
      <3> QED
        BY <3>2 DEF Pipe!PipeNext, Pipe!Ends
    <2>2. CASE err[x] = "none"
      <3>1. rxClosed[x] /\ rxBuf[x] = <<>> /\ rd[x] = "open" /\ rd' = [rd EXCEPT ![x] = "eof"]
        BY <1>7, <2>2 DEF ReadEnds, AtEof
      <3>2. /\ writeClosed[Peer(x)] /\ got[x] = sent[Peer(x)]
            /\ nextExpected[x] - 1 = Len(sent[Peer(x)]) + 1
        <4>1. /\ writeClosed[Peer(x)] /\ got[x] = sent[Peer(x)]
              /\ nextExpected[x] = Len(sent[Peer(x)]) + 2
          BY <3>1, EofFact
        <4> DEFINE l == Len(sent[Peer(x)])
        <4>2. l \in Nat /\ l + 2 - 1 = l + 1
          <5> l \in Nat
            BY TypeAt, PeerFact
          <5> HIDE DEF l
          <5> QED
            OBVIOUS
        <4> QED
          BY <4>1, <4>2
      <3>3. Taken[x] = Len(sent[Pipe!Other(x)]) + 1
        BY <3>2, OtherFact DEF Taken
      <3>4. UNCHANGED <<sent, got, writeClosed, wr>>
        BY <1>7 DEF ReadEnds
      <3>5. Pipe!PipeEof(x)
        BY <1>u, <3>1, <3>2, <3>3, <3>4, OtherFact DEF Pipe!PipeEof, Taken, Gone
      <3> QED
        BY <3>5 DEF Pipe!PipeNext, Pipe!Ends
    <2> QED
      BY <2>1, <2>2
  <1>8. CASE DropHandle(x)
    <2>1. Pipe!PipeDrop(x)
      BY <1>8, <1>u DEF DropHandle, Pipe!PipeDrop, Taken, Gone
    <2> QED
      BY <2>1 DEF Pipe!PipeNext, Pipe!Ends
  <1> QED
    BY <1>1, <1>2, <1>3, <1>4, <1>w, <1>5, <1>6, <1>7, <1>8 DEF User

LEMMA PipeTask ==
  ASSUME TypeOK, Bounded, StreamInv, NEW x \in Ends, Task(x)
  PROVE  [Pipe!PipeNext]_(Pipe!pipeVars)
  <1> USE DEF rcvVars, ackVars, liveVars, userVars
  <1>0. UNCHANGED <<sent, got, writeClosed, wr, rd>>
    BY DEF Task, Exit, Timer, Flush, TimerGivesUp, TimerFails, TimerRetransmits, TimerIdles,
           TimerRound, Recv, RecvNext, RecvFull, RecvOther, RecvAck, Heard
  <1>1. CASE Exit(x)
    BY <1>1, PipeStutter DEF Exit
  <1>2. CASE Timer(x) \/ Flush(x)
    <2>1. UNCHANGED nextExpected
      BY <1>2 DEF Timer, Flush, TimerGivesUp, TimerFails, TimerRetransmits, TimerIdles, TimerRound
    <2>2. /\ \A e \in Ends : e # x => err'[e] = err[e] /\ gaveUp'[e] = gaveUp[e]
          /\ err[x] # "none" => err'[x] # "none"
          /\ gaveUp[x] => gaveUp'[x]
      <3>1. CASE Flush(x)
        <4>1. (Fail(x, "exhausted") \/ UNCHANGED <<err, parked>>) /\ UNCHANGED gaveUp
          BY <3>1 DEF Flush
        <4>2. CASE Fail(x, "exhausted")
          BY <4>1, <4>2 DEF Fail, TypeOK
        <4> QED
          BY <4>1, <4>2
      <3>2. CASE TimerGivesUp(x)
        BY <3>2 DEF TimerGivesUp, TypeOK
      <3>3. CASE TimerFails(x)
        <4>1. (Fail(x, "exhausted") \/ Fail(x, "lost")) /\ UNCHANGED gaveUp
          BY <3>3 DEF TimerFails
        <4> QED
          BY <4>1 DEF Fail, TypeOK
      <3>4. CASE TimerRetransmits(x) \/ TimerIdles(x)
        BY <3>4 DEF TimerRetransmits, TimerIdles
      <3> QED
        BY <1>2, <3>1, <3>2, <3>3, <3>4 DEF Timer
    <2> QED
      BY <1>0, <2>1, <2>2, PipeGoneStep
  <1>3. CASE Recv(x)
    <2>1. PICK f \in net[Peer(x)] :
             RecvNext(x, f) \/ RecvFull(x, f) \/ RecvOther(x, f) \/ RecvAck(x, f)
      BY <1>3 DEF Recv
    <2>2. UNCHANGED <<err, gaveUp>>
      BY <2>1 DEF RecvNext, RecvFull, RecvOther, RecvAck, Heard
    <2>3. CASE RecvNext(x, f)
      <3>1. f \in Frame /\ Truthful(Peer(x), f)
        BY <2>1, RecvAt
      <3>2. /\ nextExpected' = [nextExpected EXCEPT ![x] = nextExpected[x] + 1]
            /\ \/ nextExpected[x] - 1 < Len(sent[Peer(x)])
               \/ nextExpected[x] - 1 = Len(sent[Peer(x)]) /\ writeClosed[Peer(x)]
        BY <2>3, <3>1, TakeFact
      <3>3. Taken' = [Taken EXCEPT ![x] = Taken[x] + 1] /\ UNCHANGED Gone
        <4>1. nextExpected \in [Ends -> Nat]
          BY DEF TypeOK
        <4>2. nextExpected[x] + 1 - 1 = nextExpected[x] - 1 + 1
          BY <4>1
        <4>3. \A e \in Ends : nextExpected'[e] - 1 = [Taken EXCEPT ![x] = Taken[x] + 1][e]
          BY <3>2, <4>1, <4>2 DEF Taken
        <4>4. Taken' = [Taken EXCEPT ![x] = Taken[x] + 1]
          BY <4>3 DEF Taken
        <4> QED
          BY <2>2, <4>4 DEF Gone
      <3>4. Pipe!PipeTake(x)
        BY <1>0, <3>2, <3>3, OtherFact DEF Pipe!PipeTake, Taken, Gone
      <3> QED
        BY <3>4 DEF Pipe!PipeNext, Pipe!Ends
    <2>4. CASE ~RecvNext(x, f)
      <3>1. UNCHANGED nextExpected
        BY <2>1, <2>4 DEF RecvFull, RecvOther, RecvAck
      <3> QED
        BY <1>0, <2>2, <3>1, PipeStutter
    <2> QED
      BY <2>3, <2>4
  <1> QED
    BY <1>1, <1>2, <1>3 DEF Task

\* Every behaviour of the two streams is a behaviour of the pair of pipes.
THEOREM ImplementsPipe == Spec => PipeSpec
  <1>1. Init => Pipe!PipeInit
    BY PipeInitFact
  <1>2. TypeOK /\ Bounded /\ StreamInv /\ ParkInv /\ [Next]_vars => [Pipe!PipeNext]_(Pipe!pipeVars)
    <2>1. SUFFICES ASSUME TypeOK, Bounded, StreamInv, ParkInv, [Next]_vars
                   PROVE  [Pipe!PipeNext]_(Pipe!pipeVars)
      OBVIOUS
    <2>2. CASE UNCHANGED vars
      <3>1. UNCHANGED <<sent, got, nextExpected, writeClosed, err, gaveUp, wr, rd>>
        BY <2>2 DEF vars, rcvVars, ackVars, liveVars, userVars
      <3> QED
        BY <3>1, PipeStutter
    <2> QED
      BY <2>1, <2>2, PipeUser, PipeTask DEF Next
  <1> QED
    BY <1>1, <1>2, TypeCorrect, StreamCorrect, ParkCorrect, PTL DEF Spec, PipeSpec, Pipe!PipeSpec

\* What a user is told about the end of its stream is the truth.
THEOREM EndsAreTrue == Spec => []UserIsToldTheTruth
  <1>1. EofComplete /\ ShutdownMeansDelivered /\ NobodyParkedAfterExit => UserIsToldTheTruth
    BY DEF UserIsToldTheTruth
  <1> QED
    BY <1>1, EofIsComplete, ShutdownIsDelivered, OnlyTheLateAreParked, PTL

\* The two ends agree on what was sent, received and confirmed, for all data,
\* capacities and timeouts and whatever the network does.
THEOREM StreamsAgree == Spec => []StreamIsSound
  <1>1. /\ TypeOK /\ StreamInv /\ DeliveredPrefix /\ WindowCoversGap /\ SequenceBounded
        => StreamIsSound
    BY DEF StreamIsSound
  <1> QED
    BY <1>1, TypeCorrect, StreamCorrect, PrefixDelivered, WindowIsComplete,
       SequenceIsBounded, PTL
=============================================================================
