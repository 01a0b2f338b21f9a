----------------------------- MODULE Secured_proofs -----------------------------
(***************************************************************************)
(* Proofs about what crosses the network under a key.                      *)
(*                                                                         *)
(* EncStream, for any data and capacities: the counters a user sees are    *)
(* true, and the two ends are a pair of reliable pipes.                    *)
(*                                                                         *)
(* SignedCall, for any devices, requests, capacities and bounds: a         *)
(* signature is good for one run and a request is carried out once.        *)
(***************************************************************************)
EXTENDS EncStream, SignedCall, Integers, SequenceTheorems, FiniteSetTheorems, TLAPS

Buffers == [q : Seq(Data), shut : BOOLEAN]
Reports == [accepted : Nat, flushed : Nat, closed : BOOLEAN, error : BOOLEAN, parked : BOOLEAN]
Plain == [kind : {"challenge", "tag", "last", "none", "written", "end"}]
Blocks == [kind : {"data"}, data : Data]
Msgs == Plain \cup Blocks

EncType ==
    /\ sent \in [Ends -> Seq(Data)] /\ got \in [Ends -> Seq(Data)]
    /\ wr \in [Ends -> {"open", "flushing", "closing", "ok", "err", "dropped"}]
    /\ rd \in [Ends -> {"open", "reading", "eof", "err", "dropped"}]
    /\ progress \in [Ends -> Reports]
    /\ up \in [Ends -> Buffers] /\ down \in [Ends -> Buffers]
    /\ task \in [Ends -> {"new", "hello", "heard", "confirm", "on", "over", "failed", "aborted"}]
    /\ sending \in [Ends -> Msgs]
    /\ seq \in [Ends -> Nat] /\ heard \in [Ends -> BOOLEAN]
    /\ wire \in [Ends -> Seq(Msgs)]
    /\ broken \in BOOLEAN /\ samePassword \in BOOLEAN
    /\ \A x \in Ends : Len(up[x].q) <= IoCap /\ Len(down[x].q) <= IoCap /\ Len(wire[x]) <= WireCap

Running(x) == Handshaking(x) \/ task[x] = "on"
\* The signals an end has put on the connection, and those it has taken from it.
Given(x) == IF task[x] = "new" THEN 0 ELSE IF task[x] \in {"hello", "heard"} THEN 1 ELSE 2
Took(x) ==
    IF task[x] \in {"new", "hello"} THEN 0 ELSE IF task[x] \in {"heard", "confirm"} THEN 1 ELSE 2
\* What it has opened, the last block included; and all it has taken.
Ended(x) == IF heard[x] THEN 1 ELSE 0
Opened(x) == Len(got[x]) + Len(down[x].q) + Ended(x)
Behind(x) == Took(x) + Opened(x)
\* What the sealing half holds, and has written and not yet counted.
InHand(x) == IF sending[x].kind = "data" THEN 1 ELSE 0
AtEnd(x) == IF sending[x].kind = "end" THEN 1 ELSE 0
Uncounted(x) == IF sending[x].kind \in {"written", "end"} THEN 1 ELSE 0

\* q is what comes in s after its first k.
Follows(q, s, k) == \A i \in 1 .. Len(q) : q[i] = s[k + i]

\* What a task does and what its user sees go together.
TasksInv(x) ==
    /\ Running(x) => ~Failed(x) /\ rd[x] # "dropped"
    /\ Handshaking(x) => seq[x] = 0 /\ Opened(x) = 0 /\ sending[x].kind = "none"
    /\ task[x] = "failed" => Failed(x)
    /\ task[x] = "aborted" => rd[x] = "dropped"
    /\ task[x] = "over" => heard[x] /\ progress[x].closed
    /\ wr[x] = "dropped" <=> rd[x] = "dropped"
    /\ up[x].shut => wr[x] \in {"closing", "ok", "err", "dropped"}
    /\ down[x].shut = heard[x]
    /\ rd[x] = "eof" => heard[x] \/ task[x] = "failed"
    /\ ~samePassword => task[x] \notin {"on", "over"} /\ seq[x] = 0 /\ Opened(x) = 0

\* What is written and not on the connection is at hand, in order; what counts is out.
SenderInv(x) ==
    /\ progress[x].accepted = Len(sent[x])
    /\ progress[x].flushed <= seq[x] /\ seq[x] <= Len(sent[x]) + 1
    /\ progress[x].closed => progress[x].flushed = Len(sent[x]) /\ seq[x] = Len(sent[x]) + 1
    /\ seq[x] = Len(sent[x]) + 1 => up[x].shut
    /\ Running(x) =>
          /\ Len(sent[x]) + AtEnd(x) = seq[x] + InHand(x) + Len(up[x].q)
          /\ Follows(up[x].q, sent[x], seq[x] + InHand(x))
          /\ sending[x].kind = "data" => sending[x].data = sent[x][seq[x] + 1]
          /\ sending[x].kind \in {"last", "end"} => up[x].q = <<>> /\ up[x].shut
          /\ progress[x].flushed + Uncounted(x) = seq[x]

\* What is opened is what was written, in order, and the end is the end.
ReceiverInv(x) ==
    rd[x] # "dropped" =>
        /\ Opened(x) <= seq[Peer(x)]
        /\ Len(got[x]) + Len(down[x].q) <= Len(sent[Peer(x)])
        /\ Follows(got[x], sent[Peer(x)], 0)
        /\ Follows(down[x].q, sent[Peer(x)], Len(got[x]))
        /\ heard[x] => /\ up[Peer(x)].shut /\ seq[Peer(x)] = Len(sent[Peer(x)]) + 1
                       /\ Len(got[x]) + Len(down[x].q) = Len(sent[Peer(x)])

\* m is the n-th block of e, the one after its data being the last.
Carries(e, m, n) ==
    /\ m.kind = "data" => n <= Len(sent[e]) /\ m.data = sent[e][n]
    /\ m.kind = "last" => n = Len(sent[e]) + 1 /\ up[e].shut

\* While both ends run, nothing is lost between them; and what is on the way to x are the
\* blocks that follow those it has, whatever became of the sender.
WireInv(x) ==
    Running(x) /\ ~broken =>
        /\ Running(Peer(x)) => Len(wire[x]) + Behind(x) = Given(Peer(x)) + seq[Peer(x)]
        /\ Len(wire[x]) + Behind(x) <= 2 + seq[Peer(x)]
        /\ \A j \in 1 .. Len(wire[x]) :
              Behind(x) + j > 2 => Carries(Peer(x), wire[x][j], Behind(x) + j - 2)

\* The inductive invariant.
EncInv ==
    /\ EncType
    /\ \A x \in Ends : TasksInv(x) /\ SenderInv(x) /\ ReceiverInv(x) /\ WireInv(x)

-----------------------------------------------------------------------------
(* Ends, records and sequences *)

LEMMA PeerFact ==
  ASSUME NEW x \in Ends
  PROVE  /\ Peer(x) \in Ends /\ Peer(x) # x /\ Peer(Peer(x)) = x
         /\ \A y \in Ends : y = x \/ y = Peer(x)
  BY EndsAssumption DEF EndsAssumption, Ends, Peer

LEMMA AppendFact ==
  ASSUME NEW S, NEW q \in Seq(S), NEW v \in S
  PROVE  /\ Append(q, v) \in Seq(S) /\ Len(Append(q, v)) = Len(q) + 1 /\ Len(q) \in Nat
         /\ \A i \in 1 .. Len(q) : Append(q, v)[i] = q[i]
         /\ Append(q, v)[Len(q) + 1] = v
  OBVIOUS

LEMMA TailFact ==
  ASSUME NEW S, NEW q \in Seq(S), q # <<>>
  PROVE  /\ Tail(q) \in Seq(S) /\ Len(Tail(q)) = Len(q) - 1 /\ Len(q) \in Nat /\ Len(q) > 0
         /\ \A i \in 1 .. Len(q) - 1 : Tail(q)[i] = q[i + 1]
         /\ Head(q) = q[1] /\ Head(q) \in S
  OBVIOUS

LEMMA EmptyFact == Len(<<>>) = 0 /\ \A S : <<>> \in Seq(S)
  OBVIOUS

\* What follows still does when more is written, taken or added.
LEMMA FollowsBoth ==
  ASSUME NEW s \in Seq(Data), NEW q \in Seq(Data), NEW v \in Data, NEW k \in Nat,
         Follows(q, s, k), Len(s) = k + Len(q)
  PROVE  /\ Follows(Append(q, v), Append(s, v), k)
         /\ Len(Append(s, v)) = k + Len(Append(q, v))
  <1>1. /\ Len(Append(s, v)) = Len(s) + 1 /\ Append(s, v)[Len(s) + 1] = v
        /\ Len(Append(q, v)) = Len(q) + 1 /\ Append(q, v)[Len(q) + 1] = v
        /\ \A i \in 1 .. Len(s) : Append(s, v)[i] = s[i]
        /\ \A i \in 1 .. Len(q) : Append(q, v)[i] = q[i]
        /\ Len(q) \in Nat /\ Len(s) \in Nat
    BY AppendFact
  <1>2. ASSUME NEW i \in 1 .. Len(q) + 1 PROVE Append(q, v)[i] = Append(s, v)[k + i]
    <2>1. CASE i \in 1 .. Len(q)
      <3>1. k + i \in 1 .. Len(s)
        BY <1>1, <2>1
      <3> QED
        BY <1>1, <2>1, <3>1 DEF Follows
    <2>2. CASE i = Len(q) + 1
      <3>1. k + i = Len(s) + 1
        BY <1>1, <2>2
      <3> QED
        BY <1>1, <2>2, <3>1
    <2> QED
      BY <1>1, <1>2, <2>1, <2>2
  <1>3. Len(Append(s, v)) = k + Len(Append(q, v))
    BY <1>1
  <1>4. Follows(Append(q, v), Append(s, v), k)
    <2>1. Len(Append(q, v)) = Len(q) + 1
      BY <1>1
    <2> QED
      BY <1>2, <2>1 DEF Follows
  <1> QED
    BY <1>3, <1>4

LEMMA FollowsMore ==
  ASSUME NEW s \in Seq(Data), NEW q \in Seq(Data), NEW v \in Data, NEW k \in Nat,
         Follows(q, s, k), k + Len(q) <= Len(s)
  PROVE  /\ Follows(q, Append(s, v), k) /\ k + Len(q) <= Len(Append(s, v))
  <1>1. /\ Len(Append(s, v)) = Len(s) + 1
        /\ \A i \in 1 .. Len(s) : Append(s, v)[i] = s[i]
        /\ Len(q) \in Nat /\ Len(s) \in Nat
    BY AppendFact
  <1>2. ASSUME NEW i \in 1 .. Len(q) PROVE q[i] = Append(s, v)[k + i]
    <2>1. k + i \in 1 .. Len(s)
      BY <1>1
    <2> QED
      BY <1>1, <2>1 DEF Follows
  <1> QED
    BY <1>1, <1>2 DEF Follows

LEMMA FollowsTail ==
  ASSUME NEW s \in Seq(Data), NEW q \in Seq(Data), NEW k \in Nat, Follows(q, s, k), q # <<>>
  PROVE  /\ Follows(Tail(q), s, k + 1) /\ Head(q) = s[k + 1]
         /\ Len(Tail(q)) + 1 = Len(q) /\ Tail(q) \in Seq(Data) /\ Head(q) \in Data
         /\ Len(q) \in Nat /\ Len(Tail(q)) \in Nat
  <1>1. /\ Tail(q) \in Seq(Data) /\ Len(Tail(q)) = Len(q) - 1 /\ Len(q) \in Nat /\ Len(q) > 0
        /\ \A i \in 1 .. Len(q) - 1 : Tail(q)[i] = q[i + 1]
        /\ Head(q) = q[1] /\ Head(q) \in Data
    BY TailFact
  <1>2. ASSUME NEW i \in 1 .. Len(q) - 1 PROVE Tail(q)[i] = s[(k + 1) + i]
    <2>1. i + 1 \in 1 .. Len(q) /\ k + (i + 1) = (k + 1) + i
      BY <1>1
    <2> QED
      BY <1>1, <2>1 DEF Follows
  <1>3. q[1] = s[k + 1]
    BY <1>1 DEF Follows
  <1> QED
    BY <1>1, <1>2, <1>3 DEF Follows

LEMMA FollowsNext ==
  ASSUME NEW s \in Seq(Data), NEW q \in Seq(Data), NEW k \in Nat, Follows(q, s, k),
         NEW v \in Data, v = s[k + Len(q) + 1]
  PROVE  /\ Follows(Append(q, v), s, k) /\ Append(q, v) \in Seq(Data)
         /\ Len(Append(q, v)) = Len(q) + 1
  <1>1. /\ Len(Append(q, v)) = Len(q) + 1 /\ Append(q, v)[Len(q) + 1] = v
        /\ \A i \in 1 .. Len(q) : Append(q, v)[i] = q[i]
        /\ Len(q) \in Nat /\ Append(q, v) \in Seq(Data)
    BY AppendFact
  <1>2. ASSUME NEW i \in 1 .. Len(q) + 1 PROVE Append(q, v)[i] = s[k + i]
    <2>1. CASE i \in 1 .. Len(q)
      BY <1>1, <2>1 DEF Follows
    <2>2. CASE i = Len(q) + 1
      <3>1. k + i = k + Len(q) + 1
        BY <1>1, <2>2
      <3> QED
        BY <1>1, <2>2, <3>1
    <2> QED
      BY <1>1, <1>2, <2>1, <2>2
  <1> QED
    BY <1>1, <1>2 DEF Follows

\* What follows the beginning, and is as long, is the whole.
LEMMA FollowsAll ==
  ASSUME NEW s \in Seq(Data), NEW q \in Seq(Data), Follows(q, s, 0), Len(q) = Len(s)
  PROVE  q = s
  <1>1. \A i \in 1 .. Len(q) : q[i] = s[i]
    BY DEF Follows
  <1> QED
    BY <1>1, SeqEqual

LEMMA FollowsNothing ==
  ASSUME NEW s, NEW k
  PROVE  Follows(<<>>, s, k)
  BY DEF Follows

\* One buffer, or one end's report, changes.
LEMMA UpQueue ==
  ASSUME EncType, NEW x \in Ends, NEW s \in Seq(Data), up' = [up EXCEPT ![x].q = s]
  PROVE  /\ up' \in [Ends -> Buffers] /\ up'[x].q = s /\ up'[x].shut = up[x].shut
         /\ \A y \in Ends : y # x => up'[y] = up[y]
  <1> DEFINE r == [up[x] EXCEPT !.q = s]
  <1>1. up \in [Ends -> Buffers] /\ up[x] \in Buffers
    BY DEF EncType
  <1>2. r \in Buffers /\ r.q = s /\ r.shut = up[x].shut
    BY <1>1 DEF Buffers
  <1>3. up' = [up EXCEPT ![x] = r]
    OBVIOUS
  <1> HIDE DEF r
  <1> QED
    BY <1>1, <1>2, <1>3

LEMMA UpShut ==
  ASSUME EncType, NEW x \in Ends, up' = [up EXCEPT ![x].shut = TRUE]
  PROVE  /\ up' \in [Ends -> Buffers] /\ up'[x].q = up[x].q /\ up'[x].shut
         /\ \A y \in Ends : y # x => up'[y] = up[y]
  <1> DEFINE r == [up[x] EXCEPT !.shut = TRUE]
  <1>1. up \in [Ends -> Buffers] /\ up[x] \in Buffers
    BY DEF EncType
  <1>2. r \in Buffers /\ r.q = up[x].q /\ r.shut
    BY <1>1 DEF Buffers
  <1>3. up' = [up EXCEPT ![x] = r]
    OBVIOUS
  <1> HIDE DEF r
  <1> QED
    BY <1>1, <1>2, <1>3

LEMMA DownQueue ==
  ASSUME EncType, NEW x \in Ends, NEW s \in Seq(Data), down' = [down EXCEPT ![x].q = s]
  PROVE  /\ down' \in [Ends -> Buffers] /\ down'[x].q = s /\ down'[x].shut = down[x].shut
         /\ \A y \in Ends : y # x => down'[y] = down[y]
  <1> DEFINE r == [down[x] EXCEPT !.q = s]
  <1>1. down \in [Ends -> Buffers] /\ down[x] \in Buffers
    BY DEF EncType
  <1>2. r \in Buffers /\ r.q = s /\ r.shut = down[x].shut
    BY <1>1 DEF Buffers
  <1>3. down' = [down EXCEPT ![x] = r]
    OBVIOUS
  <1> HIDE DEF r
  <1> QED
    BY <1>1, <1>2, <1>3

LEMMA DownShut ==
  ASSUME EncType, NEW x \in Ends, down' = [down EXCEPT ![x].shut = TRUE]
  PROVE  /\ down' \in [Ends -> Buffers] /\ down'[x].q = down[x].q /\ down'[x].shut
         /\ \A y \in Ends : y # x => down'[y] = down[y]
  <1> DEFINE r == [down[x] EXCEPT !.shut = TRUE]
  <1>1. down \in [Ends -> Buffers] /\ down[x] \in Buffers
    BY DEF EncType
  <1>2. r \in Buffers /\ r.q = down[x].q /\ r.shut
    BY <1>1 DEF Buffers
  <1>3. down' = [down EXCEPT ![x] = r]
    OBVIOUS
  <1> HIDE DEF r
  <1> QED
    BY <1>1, <1>2, <1>3

LEMMA Accepts ==
  ASSUME EncType, NEW x \in Ends,
         progress' = [progress EXCEPT ![x].accepted = @ + 1]
  PROVE  /\ progress' \in [Ends -> Reports]
         /\ progress'[x].accepted = progress[x].accepted + 1
         /\ progress'[x].flushed = progress[x].flushed /\ progress'[x].closed = progress[x].closed
         /\ progress'[x].error = progress[x].error
         /\ \A y \in Ends : y # x => progress'[y] = progress[y]
  <1> DEFINE r == [progress[x] EXCEPT !.accepted = progress[x].accepted + 1]
  <1>1. progress \in [Ends -> Reports] /\ progress[x] \in Reports
    BY DEF EncType
  <1>2. /\ r \in Reports /\ r.accepted = progress[x].accepted + 1
        /\ r.flushed = progress[x].flushed /\ r.closed = progress[x].closed
        /\ r.error = progress[x].error
    BY <1>1 DEF Reports
  <1>3. progress' = [progress EXCEPT ![x] = r]
    OBVIOUS
  <1> HIDE DEF r
  <1> QED
    BY <1>1, <1>2, <1>3

LEMMA Parks ==
  ASSUME EncType, NEW x \in Ends, NEW b \in BOOLEAN,
         progress' = [progress EXCEPT ![x].parked = b]
  PROVE  /\ progress' \in [Ends -> Reports]
         /\ progress'[x].accepted = progress[x].accepted
         /\ progress'[x].flushed = progress[x].flushed /\ progress'[x].closed = progress[x].closed
         /\ progress'[x].error = progress[x].error
         /\ \A y \in Ends : y # x => progress'[y] = progress[y]
  <1> DEFINE r == [progress[x] EXCEPT !.parked = b]
  <1>1. progress \in [Ends -> Reports] /\ progress[x] \in Reports
    BY DEF EncType
  <1>2. /\ r \in Reports /\ r.accepted = progress[x].accepted
        /\ r.flushed = progress[x].flushed /\ r.closed = progress[x].closed
        /\ r.error = progress[x].error
    BY <1>1 DEF Reports
  <1>3. progress' = [progress EXCEPT ![x] = r]
    OBVIOUS
  <1> HIDE DEF r
  <1> QED
    BY <1>1, <1>2, <1>3

LEMMA ReportType ==
  ASSUME NEW r \in Reports
  PROVE  /\ r.accepted \in Nat /\ r.flushed \in Nat /\ r.closed \in BOOLEAN
         /\ r.error \in BOOLEAN /\ r.parked \in BOOLEAN
         /\ r = [accepted |-> r.accepted, flushed |-> r.flushed, closed |-> r.closed,
                 error |-> r.error, parked |-> r.parked]
  BY DEF Reports

\* What is said of an end's types, one field at a time.
LEMMA TypeAt ==
  ASSUME EncType, NEW x \in Ends
  PROVE  /\ sent[x] \in Seq(Data) /\ got[x] \in Seq(Data) /\ up[x] \in Buffers
         /\ down[x] \in Buffers /\ progress[x] \in Reports /\ sending[x] \in Msgs
         /\ seq[x] \in Nat /\ heard[x] \in BOOLEAN /\ wire[x] \in Seq(Msgs)
         /\ up[x].q \in Seq(Data) /\ down[x].q \in Seq(Data)
         /\ up[x].shut \in BOOLEAN /\ down[x].shut \in BOOLEAN
         /\ Len(sent[x]) \in Nat /\ Len(got[x]) \in Nat /\ Len(up[x].q) \in Nat
         /\ Len(down[x].q) \in Nat /\ Len(wire[x]) \in Nat
         /\ Opened(x) \in Nat /\ Took(x) \in Nat /\ Given(x) \in 0 .. 2 /\ Behind(x) \in Nat
         /\ Took(x) \in 0 .. 2 /\ InHand(x) \in 0 .. 1 /\ AtEnd(x) \in 0 .. 1
         /\ Uncounted(x) \in 0 .. 1
  <1>1. /\ sent[x] \in Seq(Data) /\ got[x] \in Seq(Data) /\ up[x] \in Buffers
        /\ down[x] \in Buffers /\ progress[x] \in Reports /\ sending[x] \in Msgs
        /\ seq[x] \in Nat /\ heard[x] \in BOOLEAN /\ wire[x] \in Seq(Msgs)
    BY DEF EncType
  <1>2. /\ up[x].q \in Seq(Data) /\ down[x].q \in Seq(Data)
        /\ up[x].shut \in BOOLEAN /\ down[x].shut \in BOOLEAN
    BY <1>1 DEF Buffers
  <1>3. /\ Len(sent[x]) \in Nat /\ Len(got[x]) \in Nat /\ Len(up[x].q) \in Nat
        /\ Len(down[x].q) \in Nat /\ Len(wire[x]) \in Nat
    BY <1>1, <1>2
  <1>4. /\ Opened(x) \in Nat /\ Took(x) \in 0 .. 2 /\ Given(x) \in 0 .. 2
        /\ InHand(x) \in 0 .. 1 /\ AtEnd(x) \in 0 .. 1 /\ Uncounted(x) \in 0 .. 1
    <2>1. Opened(x) \in Nat
      <3>1. Ended(x) \in 0 .. 1
        BY DEF Ended
      <3> DEFINE a == Len(got[x])
                 b == Len(down[x].q)
                 c == Ended(x)
      <3>2. a \in Nat /\ b \in Nat /\ c \in 0 .. 1
        BY <1>3, <3>1
      <3>3. Opened(x) = a + b + c
        BY DEF Opened
      <3> HIDE DEF a, b, c
      <3> QED
        BY <3>2, <3>3
    <2>2. Took(x) \in 0 .. 2 /\ Given(x) \in 0 .. 2
      BY DEF Took, Given
    <2>3. InHand(x) \in 0 .. 1 /\ AtEnd(x) \in 0 .. 1 /\ Uncounted(x) \in 0 .. 1
      BY DEF InHand, AtEnd, Uncounted
    <2> QED
      BY <2>1, <2>2, <2>3
  <1> QED
    BY <1>1, <1>2, <1>3, <1>4 DEF Behind

LEMMA SignalFact ==
  ASSUME NEW k \in {"challenge", "tag", "last", "none", "written", "end"}
  PROVE  Signal(k) \in Msgs /\ Signal(k).kind = k
  BY DEF Signal, Msgs, Plain

LEMMA BlockFact ==
  ASSUME NEW v \in Data
  PROVE  Block(v) \in Msgs /\ Block(v).kind = "data" /\ Block(v).data = v
  BY DEF Block, Msgs, Blocks

-----------------------------------------------------------------------------
(* What does not change *)

LEMMA TasksSame ==
  ASSUME NEW x \in Ends, TasksInv(x),
         task'[x] = task[x], progress'[x].error = progress[x].error,
         progress'[x].closed = progress[x].closed, rd'[x] = rd[x], wr'[x] = wr[x],
         seq'[x] = seq[x], got'[x] = got[x], down'[x] = down[x], heard'[x] = heard[x],
         sending'[x] = sending[x], up'[x].shut = up[x].shut, samePassword' = samePassword
  PROVE  TasksInv(x)'
  BY DEF TasksInv, Running, Handshaking, Failed, Opened, Ended

LEMMA SenderSame ==
  ASSUME NEW x \in Ends, SenderInv(x),
         Running(x)' => Running(x), progress'[x].accepted = progress[x].accepted,
         progress'[x].flushed = progress[x].flushed, progress'[x].closed = progress[x].closed,
         sent'[x] = sent[x], seq'[x] = seq[x], up'[x] = up[x], sending'[x] = sending[x]
  PROVE  SenderInv(x)'
  <1>1. AtEnd(x)' = AtEnd(x) /\ InHand(x)' = InHand(x) /\ Uncounted(x)' = Uncounted(x)
    BY DEF AtEnd, InHand, Uncounted
  <1> QED
    BY <1>1 DEF SenderInv

LEMMA ReceiverSame ==
  ASSUME NEW x \in Ends, ReceiverInv(x),
         rd'[x] # "dropped" => rd[x] # "dropped", got'[x] = got[x], down'[x].q = down[x].q,
         heard'[x] = heard[x], sent'[Peer(x)] = sent[Peer(x)], seq'[Peer(x)] = seq[Peer(x)],
         up'[Peer(x)].shut = up[Peer(x)].shut
  PROVE  ReceiverInv(x)'
  BY DEF ReceiverInv, Opened, Ended

LEMMA WireSame ==
  ASSUME NEW x \in Ends, WireInv(x), ~broken' => ~broken,
         Running(x)' => Running(x) /\ Behind(x)' = Behind(x),
         Running(Peer(x))' => Running(Peer(x)) /\ Given(Peer(x))' = Given(Peer(x)),
         wire'[x] = wire[x], sent'[Peer(x)] = sent[Peer(x)], seq'[Peer(x)] = seq[Peer(x)],
         up'[Peer(x)].shut = up[Peer(x)].shut
  PROVE  WireInv(x)'
  BY DEF WireInv, Carries

-----------------------------------------------------------------------------
(* The connection *)

\* The end takes what is first on its way to it.
LEMMA WireTakes ==
  ASSUME EncType, NEW x \in Ends, WireInv(x), ~broken, broken' = broken, wire[x] # <<>>,
         Running(x), Running(Peer(x))' => Running(Peer(x)),
         wire'[x] = Tail(wire[x]), Behind(x)' = Behind(x) + 1,
         Given(Peer(x))' = Given(Peer(x)), sent'[Peer(x)] = sent[Peer(x)],
         seq'[Peer(x)] = seq[Peer(x)], up'[Peer(x)].shut = up[Peer(x)].shut
  PROVE  WireInv(x)'
  <1>9. PICK e \in Ends, b \in Nat, l \in Nat, w \in Seq(Msgs), v \in Seq(Msgs) :
            /\ e = Peer(x) /\ b = Behind(x) /\ v = wire[x] /\ l = Len(v) /\ w = Tail(v)
    <2>1. wire[x] \in Seq(Msgs) /\ Len(wire[x]) \in Nat /\ Behind(x) \in Nat /\ Peer(x) \in Ends
      BY TypeAt, PeerFact
    <2>2. Tail(wire[x]) \in Seq(Msgs)
      BY <2>1, TailFact
    <2> QED
      BY <2>1, <2>2
  <1>2. Len(w) = l - 1 /\ l > 0 /\ \A i \in 1 .. l - 1 : w[i] = v[i + 1]
    BY <1>9, TailFact
  <1>3. /\ Running(e) => l + b = Given(e) + seq[e]
        /\ l + b <= 2 + seq[e]
        /\ \A j \in 1 .. l : b + j > 2 => Carries(e, v[j], b + j - 2)
    BY <1>9 DEF WireInv
  <1>4. seq[e] \in Nat /\ Given(e) \in 0 .. 2
    BY TypeAt
  <1>5. \A m, n : Carries(e, m, n) => Carries(e, m, n)'
    BY <1>9 DEF Carries
  <1>6. Running(e) => (l - 1) + (b + 1) = Given(e) + seq[e]
    BY <1>3, <1>4
  <1>7. (l - 1) + (b + 1) <= 2 + seq[e]
    BY <1>3, <1>4
  <1>8. ASSUME NEW j \in 1 .. l - 1, (b + 1) + j > 2
        PROVE  Carries(e, w[j], (b + 1) + j - 2)'
    <2>1. j + 1 \in 1 .. l /\ b + (j + 1) > 2 /\ b + (j + 1) - 2 = (b + 1) + j - 2
      BY <1>8
    <2>2. Carries(e, v[j + 1], b + (j + 1) - 2)
      BY <1>3, <2>1
    <2> QED
      BY <1>2, <1>5, <2>1, <2>2
  <1>10. /\ wire'[x] = w /\ Behind(x)' = b + 1 /\ Given(e)' = Given(e) /\ seq'[e] = seq[e]
         /\ Running(e)' => Running(e)
    BY <1>9
  <1> QED
    BY <1>2, <1>6, <1>7, <1>8, <1>9, <1>10 DEF WireInv

\* The other end puts one more on the way to x.
LEMMA WireGives ==
  ASSUME EncType, NEW x \in Ends, NEW m \in Msgs, WireInv(x), ~broken,
         Running(x)' => Running(x), Running(Peer(x)),
         wire'[x] = Append(wire[x], m), Behind(x)' = Behind(x), seq'[Peer(x)] \in Nat,
         Given(Peer(x))' + seq'[Peer(x)] = Given(Peer(x)) + seq[Peer(x)] + 1,
         Given(Peer(x))' \in 0 .. 2,
         sent'[Peer(x)] = sent[Peer(x)], up'[Peer(x)].shut = up[Peer(x)].shut,
         seq'[Peer(x)] = 0 \/ (Carries(Peer(x), m, seq[Peer(x)] + 1) /\ Given(Peer(x))' = 2
                                /\ seq'[Peer(x)] = seq[Peer(x)] + 1)
  PROVE  WireInv(x)'
  <1> SUFFICES ASSUME Running(x) PROVE WireInv(x)'
    BY DEF WireInv
  <1>1. PICK e \in Ends, b \in Nat, l \in Nat, w \in Seq(Msgs), v \in Seq(Msgs), s \in Nat,
             k \in 0 .. 2 :
            /\ e = Peer(x) /\ b = Behind(x) /\ v = wire[x] /\ l = Len(v) /\ w = Append(v, m)
            /\ s = seq'[e] /\ k = Given(e)'
    <2>1. wire[x] \in Seq(Msgs) /\ Len(wire[x]) \in Nat /\ Behind(x) \in Nat /\ Peer(x) \in Ends
      BY TypeAt, PeerFact
    <2>2. Append(wire[x], m) \in Seq(Msgs)
      BY <2>1, AppendFact
    <2> QED
      BY <2>1, <2>2
  <1>2. Len(w) = l + 1 /\ (\A i \in 1 .. l : w[i] = v[i]) /\ w[l + 1] = m
    <2>1. v \in Seq(Msgs) /\ m \in Msgs /\ w = Append(v, m) /\ l = Len(v)
      BY <1>1
    <2>2. /\ Len(Append(v, m)) = Len(v) + 1 /\ (\A i \in 1 .. Len(v) : Append(v, m)[i] = v[i])
          /\ Append(v, m)[Len(v) + 1] = m
      BY <2>1, AppendFact
    <2> QED
      BY <2>1, <2>2
  <1>3. /\ l + b = Given(e) + seq[e]
        /\ \A j \in 1 .. l : b + j > 2 => Carries(e, v[j], b + j - 2)
    BY <1>1 DEF WireInv
  <1>4. k + s = Given(e) + seq[e] + 1
    BY <1>1
  <1>5. s = 0 \/ (Carries(e, m, seq[e] + 1) /\ k = 2 /\ s = seq[e] + 1)
    BY <1>1
  <1>6. \A u, n : Carries(e, u, n) => Carries(e, u, n)'
    BY <1>1 DEF Carries
  <1>0. seq[e] \in Nat /\ Given(e) \in 0 .. 2
    BY TypeAt
  <1>7. l + 1 + b = k + s /\ l + 1 + b <= 2 + s
    BY <1>0, <1>3, <1>4
  <1>8. ASSUME NEW j \in 1 .. l + 1, b + j > 2
        PROVE  Carries(e, w[j], b + j - 2)'
    <2>1. CASE j \in 1 .. l
      BY <1>2, <1>3, <1>6, <1>8, <2>1
    <2>2. CASE j = l + 1
      <3>1. s # 0
        BY <1>7, <1>8, <2>2
      <3>2. b + j - 2 = s /\ s = seq[e] + 1 /\ Carries(e, m, s)
        BY <1>5, <1>7, <2>2, <3>1
      <3>3. Carries(e, m, s)'
        BY <1>6, <3>2
      <3> QED
        BY <1>2, <2>2, <3>2, <3>3
    <2> QED
      BY SMTT(30), <1>8, <2>1, <2>2
  <1>9. wire'[x] = w /\ Behind(x)' = b
    BY <1>1
  <1> QED
    BY <1>1, <1>2, <1>7, <1>8, <1>9 DEF WireInv

-----------------------------------------------------------------------------
(* The initial states *)

LEMMA InitEnc == Init => EncInv
  <1> SUFFICES ASSUME Init PROVE EncInv
    OBVIOUS
  <1>1. /\ \A x \in Ends : /\ sent[x] = <<>> /\ got[x] = <<>> /\ wr[x] = "open" /\ rd[x] = "open"
                           /\ up[x] = [q |-> <<>>, shut |-> FALSE] /\ down[x] = up[x]
                           /\ task[x] = "new" /\ sending[x] = Signal("none") /\ seq[x] = 0
                           /\ heard[x] = FALSE /\ wire[x] = <<>>
                           /\ progress[x] = [accepted |-> 0, flushed |-> 0, closed |-> FALSE,
                                             error |-> FALSE, parked |-> FALSE]
    BY DEF Init
  <1>2. Signal("none") \in Msgs /\ Signal("none").kind = "none"
    BY SignalFact
  <1>3. EncType
    <2>1. /\ sent \in [Ends -> Seq(Data)] /\ got \in [Ends -> Seq(Data)]
          /\ wr \in [Ends -> {"open", "flushing", "closing", "ok", "err", "dropped"}]
          /\ rd \in [Ends -> {"open", "reading", "eof", "err", "dropped"}]
          /\ task \in [Ends -> {"new", "hello", "heard", "confirm", "on", "over", "failed",
                                "aborted"}]
          /\ seq \in [Ends -> Nat] /\ heard \in [Ends -> BOOLEAN]
          /\ wire \in [Ends -> Seq(Msgs)] /\ broken \in BOOLEAN /\ samePassword \in BOOLEAN
      BY EmptyFact DEF Init
    <2>2. sending \in [Ends -> Msgs]
      BY <1>2 DEF Init
    <2>3. up \in [Ends -> Buffers] /\ down \in [Ends -> Buffers]
      BY EmptyFact DEF Init, Buffers
    <2>4. progress \in [Ends -> Reports]
      BY DEF Init, Reports
    <2>5. \A x \in Ends : Len(up[x].q) <= IoCap /\ Len(down[x].q) <= IoCap
                          /\ Len(wire[x]) <= WireCap
      BY <1>1, EmptyFact, CapsAssumption DEF CapsAssumption
    <2> QED
      BY <2>1, <2>2, <2>3, <2>4, <2>5 DEF EncType
  <1>4. ASSUME NEW x \in Ends
        PROVE  TasksInv(x) /\ SenderInv(x) /\ ReceiverInv(x) /\ WireInv(x)
    <2>1. Ended(x) = 0 /\ Opened(x) = 0
      <3>1. got[x] = <<>> /\ down[x].q = <<>> /\ ~heard[x]
        BY <1>1
      <3> QED
        BY <3>1, EmptyFact DEF Opened, Ended
    <2>2. AtEnd(x) = 0 /\ InHand(x) = 0 /\ Uncounted(x) = 0
      BY <1>1, <1>2 DEF AtEnd, InHand, Uncounted
    <2>3. Took(x) = 0 /\ Given(Peer(x)) = 0 /\ Behind(x) = 0
      BY <1>1, <2>1, PeerFact DEF Took, Given, Behind
    <2>4. TasksInv(x)
      <3>1. /\ up[x].shut = FALSE /\ down[x].shut = FALSE /\ heard[x] = FALSE
            /\ progress[x].error = FALSE /\ progress[x].closed = FALSE
            /\ task[x] = "new" /\ rd[x] = "open" /\ wr[x] = "open" /\ seq[x] = 0
            /\ sending[x].kind = "none"
        BY <1>1, <1>2
      <3>2. ~Failed(x)
        BY <3>1 DEF Failed
      <3> QED
        BY <2>1, <3>1, <3>2 DEF TasksInv
    <2>5. SenderInv(x)
      <3>1. ~progress[x].closed /\ progress[x].accepted = 0 /\ progress[x].flushed = 0
            /\ up[x].q = <<>> /\ ~up[x].shut
        BY <1>1
      <3> QED
        BY <1>1, <1>2, <2>2, <3>1, EmptyFact, FollowsNothing DEF SenderInv
    <2>6. ReceiverInv(x)
      <3>1. got[x] = <<>> /\ down[x].q = <<>> /\ ~heard[x] /\ sent[Peer(x)] = <<>>
            /\ seq[Peer(x)] = 0
        BY <1>1, PeerFact
      <3> QED
        BY <2>1, <3>1, EmptyFact, FollowsNothing DEF ReceiverInv
    <2>7. WireInv(x)
      BY <1>1, <2>3, PeerFact, EmptyFact DEF WireInv
    <2> QED
      BY <2>4, <2>5, <2>6, <2>7
  <1> QED
    BY <1>3, <1>4 DEF EncInv

-----------------------------------------------------------------------------
(* The user *)

\* What each step starts from.
LEMMA Start ==
  ASSUME EncInv, NEW x \in Ends
  PROVE  /\ EncType /\ Peer(x) \in Ends /\ Peer(x) # x /\ Peer(Peer(x)) = x
         /\ TasksInv(x) /\ SenderInv(x) /\ ReceiverInv(x) /\ WireInv(x)
         /\ TasksInv(Peer(x)) /\ SenderInv(Peer(x)) /\ ReceiverInv(Peer(x)) /\ WireInv(Peer(x))
  BY PeerFact DEF EncInv

LEMMA Finished ==
  ASSUME EncType', NEW x \in Ends,
         TasksInv(x)', SenderInv(x)', ReceiverInv(x)', WireInv(x)',
         TasksInv(Peer(x))', SenderInv(Peer(x))', ReceiverInv(Peer(x))', WireInv(Peer(x))'
  PROVE  EncInv'
  <1>1. \A y \in Ends : TasksInv(y)' /\ SenderInv(y)' /\ ReceiverInv(y)' /\ WireInv(y)'
    BY PeerFact
  <1> QED
    BY <1>1 DEF EncInv

\* An end whose user has neither closed nor been refused has a task that runs.
LEMMA OpenRuns ==
  ASSUME EncInv, NEW x \in Ends, wr[x] = "open", ~Failed(x)
  PROVE  /\ Running(x) /\ ~up[x].shut /\ ~progress[x].closed /\ seq[x] <= Len(sent[x])
         /\ ~heard[Peer(x)] \/ rd[Peer(x)] = "dropped"
  <1>1. EncType /\ TasksInv(x) /\ SenderInv(x) /\ ReceiverInv(Peer(x)) /\ Peer(Peer(x)) = x
    BY Start
  <1>2. ~up[x].shut
    BY <1>1 DEF TasksInv
  <1>3. seq[x] # Len(sent[x]) + 1 /\ seq[x] <= Len(sent[x]) + 1
        /\ seq[x] \in Nat /\ Len(sent[x]) \in Nat
    BY <1>1, <1>2, TypeAt DEF SenderInv
  <1>4. ~progress[x].closed /\ seq[x] <= Len(sent[x])
    BY <1>1, <1>3 DEF SenderInv
  <1>5. Running(x)
    <2>1. task[x] \in {"new", "hello", "heard", "confirm", "on", "over", "failed", "aborted"}
      BY <1>1 DEF EncType
    <2> QED
      BY <1>1, <1>4, <2>1 DEF TasksInv, Running, Handshaking
  <1>6. ~heard[Peer(x)] \/ rd[Peer(x)] = "dropped"
    BY <1>1, <1>2 DEF ReceiverInv
  <1> QED
    BY <1>2, <1>4, <1>5, <1>6

\* What a step at one end leaves to the other.
LEMMA Elsewhere ==
  ASSUME EncInv, NEW x \in Ends, samePassword' = samePassword,
         \A y \in Ends : y # x =>
            /\ task'[y] = task[y] /\ progress'[y] = progress[y] /\ rd'[y] = rd[y] /\ wr'[y] = wr[y]
            /\ seq'[y] = seq[y] /\ sent'[y] = sent[y] /\ got'[y] = got[y] /\ down'[y] = down[y]
            /\ heard'[y] = heard[y] /\ sending'[y] = sending[y] /\ up'[y] = up[y]
  PROVE  /\ TasksInv(Peer(x))' /\ SenderInv(Peer(x))'
         /\ Running(Peer(x))' = Running(Peer(x)) /\ Behind(Peer(x))' = Behind(Peer(x))
         /\ Given(Peer(x))' = Given(Peer(x))
  <1>1. PICK p \in Ends : p = Peer(x) /\ p # x
    BY PeerFact
  <1>2. /\ task'[p] = task[p] /\ progress'[p] = progress[p] /\ rd'[p] = rd[p] /\ wr'[p] = wr[p]
        /\ seq'[p] = seq[p] /\ sent'[p] = sent[p] /\ got'[p] = got[p] /\ down'[p] = down[p]
        /\ heard'[p] = heard[p] /\ sending'[p] = sending[p] /\ up'[p] = up[p]
    BY <1>1
  <1>3. Running(p)' = Running(p)
    BY <1>2 DEF Running, Handshaking
  <1>4. Behind(p)' = Behind(p) /\ Given(p)' = Given(p)
    BY <1>2 DEF Behind, Took, Opened, Ended, Given
  <1>5. TasksInv(p) /\ SenderInv(p)
    BY DEF EncInv
  <1>6. TasksInv(p)'
    BY <1>2, <1>5, TasksSame
  <1>7. SenderInv(p)'
    BY <1>2, <1>3, <1>5, SenderSame
  <1> QED
    BY <1>1, <1>3, <1>4, <1>6, <1>7

\* A step that writes nothing, puts nothing on the connection and does not close.
LEMMA ElsewhereToo ==
  ASSUME EncInv, NEW x \in Ends, samePassword' = samePassword, ~broken' => ~broken,
         \A y \in Ends : y # x =>
            /\ task'[y] = task[y] /\ progress'[y] = progress[y] /\ rd'[y] = rd[y] /\ wr'[y] = wr[y]
            /\ seq'[y] = seq[y] /\ sent'[y] = sent[y] /\ got'[y] = got[y] /\ down'[y] = down[y]
            /\ heard'[y] = heard[y] /\ sending'[y] = sending[y] /\ up'[y] = up[y]
            /\ wire'[y] = wire[y],
         sent'[x] = sent[x], seq'[x] = seq[x], up'[x].shut = up[x].shut,
         Running(x)' => Running(x) /\ Given(x)' = Given(x)
  PROVE  /\ TasksInv(Peer(x))' /\ SenderInv(Peer(x))' /\ ReceiverInv(Peer(x))' /\ WireInv(Peer(x))'
  <1>1. PICK p \in Ends : p = Peer(x) /\ p # x /\ Peer(p) = x
    BY PeerFact
  <1>2. /\ rd'[p] = rd[p] /\ got'[p] = got[p] /\ down'[p] = down[p] /\ heard'[p] = heard[p]
        /\ wire'[p] = wire[p]
    BY <1>1
  <1>3. TasksInv(p)' /\ SenderInv(p)' /\ Running(p)' = Running(p) /\ Behind(p)' = Behind(p)
    BY <1>1, Elsewhere
  <1>4. ReceiverInv(p) /\ WireInv(p)
    BY DEF EncInv
  <1>5. ReceiverInv(p)'
    BY <1>1, <1>2, <1>4, ReceiverSame
  <1>6. WireInv(p)'
    BY <1>1, <1>2, <1>3, <1>4, WireSame
  <1> QED
    BY <1>1, <1>3, <1>5, <1>6

LEMMA WriteKeeps ==
  ASSUME EncInv, NEW x \in Ends, Write(x)
  PROVE  EncInv'
  <1>1. /\ EncType /\ TasksInv(x) /\ SenderInv(x) /\ ReceiverInv(x) /\ WireInv(x)
        /\ ReceiverInv(Peer(x)) /\ WireInv(Peer(x))
    BY Start
  <1>2. /\ Running(x) /\ ~up[x].shut /\ ~progress[x].closed /\ seq[x] <= Len(sent[x])
        /\ ~heard[Peer(x)] \/ rd[Peer(x)] = "dropped"
    BY OpenRuns DEF Write
  <1>3. PICK p \in Ends : p = Peer(x) /\ p # x /\ Peer(p) = x
    BY PeerFact
  <1>4. PICK v \in Data : /\ sent' = [sent EXCEPT ![x] = Append(@, v)]
                          /\ up' = [up EXCEPT ![x].q = Append(@, v)]
    BY DEF Write
  <1>5. PICK s \in Seq(Data), q \in Seq(Data), s1 \in Seq(Data), q1 \in Seq(Data) :
           s = sent[x] /\ q = up[x].q /\ s1 = Append(s, v) /\ q1 = Append(q, v)
    <2>1. sent[x] \in Seq(Data) /\ up[x].q \in Seq(Data)
      BY <1>1, TypeAt
    <2>2. Append(sent[x], v) \in Seq(Data) /\ Append(up[x].q, v) \in Seq(Data)
      BY <2>1, AppendFact
    <2> QED
      BY <2>1, <2>2
  <1>6. /\ Len(s1) = Len(s) + 1 /\ Len(q1) = Len(q) + 1 /\ Len(s) \in Nat /\ Len(q) \in Nat
        /\ \A i \in 1 .. Len(s) : s1[i] = s[i]
    BY <1>5, AppendFact
  <1>7. /\ UNCHANGED <<got, wr, rd, down, task, sending, seq, heard, wire, broken, samePassword>>
        /\ progress' = [progress EXCEPT ![x].accepted = @ + 1] /\ Len(q) < IoCap
    BY <1>5 DEF Write
  <1>8. /\ up' \in [Ends -> Buffers] /\ up'[x].q = q1 /\ up'[x].shut = up[x].shut
        /\ \A y \in Ends : y # x => up'[y] = up[y]
    <2>1. up' = [up EXCEPT ![x].q = q1]
      BY <1>4, <1>5
    <2> QED
      BY <1>1, <2>1, UpQueue
  <1>9. /\ progress' \in [Ends -> Reports]
        /\ progress'[x].accepted = progress[x].accepted + 1
        /\ progress'[x].flushed = progress[x].flushed /\ progress'[x].closed = progress[x].closed
        /\ progress'[x].error = progress[x].error
        /\ \A y \in Ends : y # x => progress'[y] = progress[y]
    BY <1>1, <1>7, Accepts
  <1>10. /\ sent' \in [Ends -> Seq(Data)] /\ sent'[x] = s1
         /\ \A y \in Ends : y # x => sent'[y] = sent[y]
    BY <1>1, <1>4, <1>5 DEF EncType
  <1>11. EncType'
    <2>1. \A y \in Ends : Len(up'[y].q) <= IoCap
      <3>1. Len(q1) <= IoCap
        BY <1>6, <1>7, CapsAssumption DEF CapsAssumption
      <3> QED
        BY <1>1, <1>8, <3>1 DEF EncType
    <2> QED
      BY <1>1, <1>7, <1>8, <1>9, <1>10, <2>1 DEF EncType
  <1>12. TasksInv(x)'
    BY <1>1, <1>7, <1>8, <1>9, TasksSame
  <1>13. SenderInv(x)'
    <2>1. PICK k \in Nat, f \in Nat : k = seq[x] + InHand(x) /\ f = seq[x]
      BY SMTT(30), <1>1, TypeAt
    <2>2. /\ Len(s) = k + Len(q) /\ Follows(q, s, k) /\ AtEnd(x) = 0
          /\ sending[x].kind = "data" => sending[x].data = s[f + 1] /\ f + 1 <= k
          /\ sending[x].kind \notin {"last", "end"}
          /\ progress[x].flushed + Uncounted(x) = f
      <3>1. sending[x].kind \notin {"last", "end"}
        BY <1>1, <1>2 DEF SenderInv
      <3>2. AtEnd(x) = 0
        BY <3>1 DEF AtEnd
      <3>3. Len(s) + 0 = k + Len(q)
        BY <1>1, <1>2, <1>5, <2>1, <3>2 DEF SenderInv
      <3>4. sending[x].kind = "data" => f + 1 <= k
        BY <2>1 DEF InHand
      <3> QED
        BY <1>1, <1>2, <1>5, <1>6, <2>1, <3>1, <3>2, <3>3, <3>4 DEF SenderInv
    <2>3. Follows(q1, s1, k) /\ Len(s1) = k + Len(q1)
      <3>1. /\ Follows(Append(q, v), Append(s, v), k)
            /\ Len(Append(s, v)) = k + Len(Append(q, v))
        BY <2>2, FollowsBoth
      <3> QED
        BY <1>5, <3>1
    <2>4. sending[x].kind = "data" => sending[x].data = s1[f + 1]
      <3>1. CASE sending[x].kind = "data"
        <4>1. f + 1 \in 1 .. Len(s)
          BY <1>6, <2>2, <3>1
        <4> QED
          BY <1>6, <2>2, <4>1
      <3> QED
        BY <3>1
    <2>5. /\ InHand(x)' = InHand(x) /\ AtEnd(x)' = 0 /\ Uncounted(x)' = Uncounted(x)
          /\ Running(x)' = Running(x)
      BY <1>7, <2>2 DEF InHand, AtEnd, Uncounted, Running, Handshaking
    <2>6. Len(s1) + 0 = k + Len(q1)
      BY <2>3, <1>6
    <2>7. progress'[x].accepted = Len(s1)
      BY <1>1, <1>5, <1>6, <1>9 DEF SenderInv
    <2>8. f <= Len(s1) + 1 /\ f # Len(s1) + 1 /\ progress[x].flushed <= f
      BY <1>1, <1>2, <1>5, <1>6, <2>1 DEF SenderInv
    <2> QED
      BY <1>2, <1>7, <1>8, <1>9, <1>10, <2>1, <2>2, <2>3, <2>4, <2>5, <2>6, <2>7, <2>8 DEF SenderInv
  <1>14. ReceiverInv(x)'
    BY <1>1, <1>3, <1>7, <1>8, <1>10, ReceiverSame
  <1>15. WireInv(x)'
    <2>1. Running(p)' = Running(p) /\ Given(p)' = Given(p) /\ Running(x)' = Running(x)
          /\ Behind(x)' = Behind(x)
      BY <1>7 DEF Running, Handshaking, Given, Behind, Took, Opened, Ended
    <2> QED
      BY <1>1, <1>3, <1>7, <1>8, <1>10, <2>1, WireSame
  <1>16. TasksInv(p)' /\ SenderInv(p)'
    BY <1>3, <1>7, <1>8, <1>9, <1>10, Elsewhere
  <1>17. ReceiverInv(p)'
    <2>1. SUFFICES ASSUME rd[p] # "dropped" PROVE ReceiverInv(p)'
      BY <1>7 DEF ReceiverInv
    <2>2. PICK g \in Seq(Data), d \in Seq(Data), n \in Nat : g = got[p] /\ d = down[p].q /\ n = Len(g)
      BY <1>1, <1>3, TypeAt
    <2>3. /\ Opened(p) <= seq[x] /\ n + Len(d) <= Len(s) /\ Follows(g, s, 0) /\ Follows(d, s, n)
          /\ ~heard[p]
      BY <1>1, <1>2, <1>3, <1>5, <2>1, <2>2 DEF ReceiverInv
    <2>4. Follows(d, s1, n) /\ n + Len(d) <= Len(s1)
      BY <1>5, <2>2, <2>3, FollowsMore
    <2>5. Follows(g, s1, 0)
      <3>0. Len(d) \in Nat
        OBVIOUS
      <3>1. 0 + Len(g) <= Len(s)
        <4>1. PICK a \in Nat, c \in Nat : a = Len(d) /\ c = Len(s)
          BY <3>0, <1>6
        <4>2. n + a <= c /\ Len(g) = n
          BY <2>2, <2>3, <4>1
        <4>3. 0 + n <= c
          BY <4>2
        <4> QED
          BY <4>1, <4>2, <4>3
      <3> QED
        BY <1>5, <2>2, <2>3, <3>1, FollowsMore
    <2>6. Opened(p)' = Opened(p)
      BY <1>7 DEF Opened, Ended
    <2> QED
      BY <1>3, <1>7, <1>10, <2>2, <2>3, <2>4, <2>5, <2>6 DEF ReceiverInv
  <1>18. WireInv(p)'
    <2>1. /\ Running(p)' = Running(p) /\ Running(x)' = Running(x) /\ Given(x)' = Given(x)
          /\ Behind(p)' = Behind(p)
      BY <1>7 DEF Running, Handshaking, Given, Behind, Took, Opened, Ended
    <2>2. ASSUME NEW m, NEW n \in Nat, n > 0, Carries(x, m, n) PROVE Carries(x, m, n)'
      <3>1. m.kind # "last"
        BY <1>2, <2>2 DEF Carries
      <3>2. CASE m.kind = "data"
        <4>1. n <= Len(s) /\ m.data = s[n]
          BY <1>5, <2>2, <3>2 DEF Carries
        <4>2. n \in 1 .. Len(s) /\ n <= Len(s1)
          BY <1>6, <2>2, <4>1
        <4>3. m.data = s1[n]
          BY <1>6, <4>1, <4>2
        <4> QED
          BY <1>10, <3>1, <4>2, <4>3 DEF Carries
      <3> QED
        BY <3>1, <3>2 DEF Carries
    <2>3. SUFFICES ASSUME Running(p), ~broken PROVE WireInv(p)'
      BY <1>7, <2>1 DEF WireInv
    <2>4. PICK b \in Nat, w \in Seq(Msgs) : b = Behind(p) /\ w = wire[p]
      BY <1>1, <1>3, TypeAt
    <2>5. /\ Running(x) => Len(w) + b = Given(x) + seq[x]
          /\ Len(w) + b <= 2 + seq[x]
          /\ \A j \in 1 .. Len(w) : b + j > 2 => Carries(x, w[j], b + j - 2)
      BY <1>1, <1>3, <2>3, <2>4 DEF WireInv
    <2>6. \A j \in 1 .. Len(w) : b + j > 2 => Carries(x, w[j], b + j - 2)'
      <3>1. ASSUME NEW j \in 1 .. Len(w), b + j > 2 PROVE Carries(x, w[j], b + j - 2)'
        <4>1. b + j - 2 \in Nat /\ b + j - 2 > 0
          BY <3>1
        <4> QED
          BY <2>2, <2>5, <3>1, <4>1
      <3> QED
        BY <3>1
    <2> QED
      BY <1>3, <1>7, <2>1, <2>4, <2>5, <2>6 DEF WireInv
  <1> QED
    BY <1>3, <1>11, <1>12, <1>13, <1>14, <1>15, <1>16, <1>17, <1>18, Finished

\* A step that changes nothing but what the user of an end has seen, or its waker.
LEMMA QuietKeeps ==
  ASSUME EncInv, NEW x \in Ends, EncType', TasksInv(x)',
         UNCHANGED <<sent, got, up, down, task, sending, seq, heard, wire, broken, samePassword>>,
         \A y \in Ends : y # x => progress'[y] = progress[y] /\ wr'[y] = wr[y] /\ rd'[y] = rd[y],
         progress'[x].accepted = progress[x].accepted, progress'[x].flushed = progress[x].flushed,
         progress'[x].closed = progress[x].closed,
         rd'[x] # "dropped" => rd[x] # "dropped"
  PROVE  EncInv'
  <1>1. SenderInv(x) /\ ReceiverInv(x) /\ WireInv(x)
    BY Start
  <1>2. \A y \in Ends : Running(y)' = Running(y) /\ Given(y)' = Given(y) /\ Behind(y)' = Behind(y)
    BY DEF Running, Handshaking, Given, Behind, Took, Opened, Ended
  <1>3. TasksInv(Peer(x))' /\ SenderInv(Peer(x))' /\ ReceiverInv(Peer(x))' /\ WireInv(Peer(x))'
    BY <1>2, ElsewhereToo
  <1>4. SenderInv(x)'
    BY <1>1, <1>2, SenderSame
  <1>5. ReceiverInv(x)'
    BY <1>1, ReceiverSame
  <1>6. WireInv(x)'
    BY <1>1, <1>2, PeerFact, WireSame
  <1> QED
    BY <1>3, <1>4, <1>5, <1>6, Finished

LEMMA WriteFailsKeeps ==
  ASSUME EncInv, NEW x \in Ends, WriteFails(x)
  PROVE  EncInv'
  <1>1. EncType /\ TasksInv(x)
    BY Start
  <1>2. /\ wr[x] = "open" /\ wr' = [wr EXCEPT ![x] = "err"]
        /\ UNCHANGED <<sent, got, rd, progress, up, down, task, sending, seq, heard, wire, broken,
                       samePassword>>
    BY DEF WriteFails
  <1>3. EncType' /\ wr'[x] = "err" /\ \A y \in Ends : y # x => wr'[y] = wr[y]
    BY <1>1, <1>2 DEF EncType
  <1>4. TasksInv(x)'
    BY <1>1, <1>2, <1>3 DEF TasksInv, Running, Handshaking, Failed, Opened, Ended
  <1> QED
    BY <1>2, <1>3, <1>4, QuietKeeps

LEMMA FlushKeeps ==
  ASSUME EncInv, NEW x \in Ends, Flush(x)
  PROVE  EncInv'
  <1>1. EncType /\ TasksInv(x)
    BY Start
  <1>2. /\ wr[x] = "open" /\ wr' = [wr EXCEPT ![x] = "flushing"]
        /\ UNCHANGED <<sent, got, rd, progress, up, down, task, sending, seq, heard, wire, broken,
                       samePassword>>
    BY DEF Flush
  <1>3. EncType' /\ wr'[x] = "flushing" /\ \A y \in Ends : y # x => wr'[y] = wr[y]
    BY <1>1, <1>2 DEF EncType
  <1>4. TasksInv(x)'
    BY <1>1, <1>2, <1>3 DEF TasksInv, Running, Handshaking, Failed, Opened, Ended
  <1> QED
    BY <1>2, <1>3, <1>4, QuietKeeps

LEMMA PollKeeps ==
  ASSUME EncInv, NEW x \in Ends, Poll(x)
  PROVE  EncInv'
  <1>1. EncType /\ TasksInv(x)
    BY Start
  <1>2. /\ wr[x] \in {"flushing", "closing"}
        /\ UNCHANGED <<sent, got, rd, up, down, task, sending, seq, heard, wire, broken,
                       samePassword>>
    BY DEF Poll
  <1>3. ASSUME UNCHANGED progress,
               NEW w \in {"err", "ok", "open"}, wr' = [wr EXCEPT ![x] = w],
               w = "open" => wr[x] = "flushing"
        PROVE  EncInv'
    <2>1. wr' = [wr EXCEPT ![x] = w] /\ (w = "open" => wr[x] = "flushing")
      BY <1>3
    <2>2. EncType' /\ wr'[x] = w /\ \A y \in Ends : y # x => wr'[y] = wr[y]
      BY <1>1, <1>2, <1>3, <2>1 DEF EncType
    <2>3. TasksInv(x)'
      BY <1>1, <1>2, <1>3, <2>1, <2>2 DEF TasksInv, Running, Handshaking, Failed, Opened, Ended
    <2> QED
      BY <1>2, <1>3, <2>2, <2>3, QuietKeeps
  <1>4. CASE progress' = [progress EXCEPT ![x].parked = TRUE] /\ UNCHANGED wr
    <2>1. /\ progress' \in [Ends -> Reports]
          /\ progress'[x].accepted = progress[x].accepted
          /\ progress'[x].flushed = progress[x].flushed
          /\ progress'[x].closed = progress[x].closed
          /\ progress'[x].error = progress[x].error
          /\ \A y \in Ends : y # x => progress'[y] = progress[y]
      BY <1>1, <1>4, Parks
    <2>2. EncType'
      BY <1>1, <1>2, <1>4, <2>1 DEF EncType
    <2>3. TasksInv(x)'
      BY <1>1, <1>2, <1>4, <2>1, TasksSame
    <2> QED
      BY <1>2, <1>4, <2>1, <2>2, <2>3, QuietKeeps
  <1>5. CASE UNCHANGED progress /\ wr' = [wr EXCEPT ![x] = "err"]
    BY <1>3, <1>5
  <1>6. CASE UNCHANGED progress /\ wr' = [wr EXCEPT ![x] = IF @ = "closing" THEN "ok" ELSE "open"]
    <2>1. CASE wr[x] = "closing"
      <3>1. wr' = [wr EXCEPT ![x] = "ok"]
        BY <1>6, <2>1
      <3> QED
        BY <1>3, <1>6, <3>1
    <2>2. CASE wr[x] = "flushing"
      <3>1. wr' = [wr EXCEPT ![x] = "open"]
        BY <1>6, <2>2
      <3> QED
        BY <1>3, <1>6, <2>2, <3>1
    <2> QED
      BY <1>2, <2>1, <2>2
  <1> QED
    BY <1>4, <1>5, <1>6 DEF Poll

LEMMA ReadBeginsKeeps ==
  ASSUME EncInv, NEW x \in Ends, ReadBegins(x)
  PROVE  EncInv'
  <1>1. EncType /\ TasksInv(x)
    BY Start
  <1>2. UNCHANGED <<sent, got, wr, progress, up, down, task, sending, seq, heard, wire, broken,
                    samePassword>>
    BY DEF ReadBegins
  <1>3. PICK r \in {"err", "reading"} : rd' = [rd EXCEPT ![x] = r]
    BY DEF ReadBegins
  <1>4. rd[x] = "open"
    BY DEF ReadBegins
  <1>5. EncType' /\ rd'[x] = r /\ \A y \in Ends : y # x => rd'[y] = rd[y]
    BY <1>1, <1>2, <1>3 DEF EncType
  <1>6. TasksInv(x)'
    BY <1>1, <1>2, <1>4, <1>5 DEF TasksInv, Running, Handshaking, Failed, Opened, Ended
  <1> QED
    BY <1>2, <1>4, <1>5, <1>6, QuietKeeps

LEMMA CloseKeeps ==
  ASSUME EncInv, NEW x \in Ends, Close(x)
  PROVE  EncInv'
  <1>1. /\ EncType /\ TasksInv(x) /\ SenderInv(x) /\ ReceiverInv(x) /\ WireInv(x)
        /\ ReceiverInv(Peer(x)) /\ WireInv(Peer(x))
    BY Start
  <1>2. PICK p \in Ends : p = Peer(x) /\ p # x /\ Peer(p) = x
    BY PeerFact
  <1>3. /\ wr[x] = "open" /\ wr' = [wr EXCEPT ![x] = "closing"]
        /\ UNCHANGED <<sent, got, rd, progress, down, task, sending, seq, heard, wire, broken,
                       samePassword>>
    BY DEF Close
  <1>4. /\ up' \in [Ends -> Buffers] /\ up'[x].q = up[x].q /\ up'[x].shut
        /\ \A y \in Ends : y # x => up'[y] = up[y]
    BY <1>1, UpShut DEF Close
  <1>5. wr'[x] = "closing" /\ \A y \in Ends : y # x => wr'[y] = wr[y]
    BY <1>1, <1>3 DEF EncType
  <1>6. EncType'
    <2>1. \A y \in Ends : Len(up'[y].q) <= IoCap
      BY <1>1, <1>4 DEF EncType
    <2> QED
      BY <1>1, <1>3, <1>4, <2>1 DEF EncType
  <1>7. \A y \in Ends : Running(y)' = Running(y) /\ Given(y)' = Given(y) /\ Behind(y)' = Behind(y)
    BY <1>3 DEF Running, Handshaking, Given, Behind, Took, Opened, Ended
  <1>8. TasksInv(x)'
    BY <1>1, <1>3, <1>4, <1>5 DEF TasksInv, Running, Handshaking, Failed, Opened, Ended
  <1>9. SenderInv(x)'
    <2>1. InHand(x)' = InHand(x) /\ AtEnd(x)' = AtEnd(x) /\ Uncounted(x)' = Uncounted(x)
      BY <1>3 DEF InHand, AtEnd, Uncounted
    <2> QED
      BY <1>1, <1>3, <1>4, <1>7, <2>1 DEF SenderInv
  <1>10. ReceiverInv(x)'
    BY <1>1, <1>2, <1>3, <1>4, ReceiverSame
  <1>11. WireInv(x)'
    BY <1>1, <1>2, <1>3, <1>4, <1>7, WireSame
  <1>12. TasksInv(p)' /\ SenderInv(p)'
    BY <1>2, <1>3, <1>4, <1>5, Elsewhere
  <1>13. ReceiverInv(p)'
    BY <1>1, <1>2, <1>3, <1>4 DEF ReceiverInv, Opened, Ended
  <1>14. WireInv(p)'
    <2>1. \A m, n : Carries(x, m, n) => Carries(x, m, n)'
      BY <1>3, <1>4 DEF Carries
    <2>2. WireInv(p)
      BY <1>1, <1>2
    <2> QED
      BY <1>2, <1>3, <1>7, <2>1, <2>2 DEF WireInv
  <1> QED
    BY <1>2, <1>6, <1>8, <1>9, <1>10, <1>11, <1>12, <1>13, <1>14, Finished

LEMMA ReadKeeps ==
  ASSUME EncInv, NEW x \in Ends, Read(x)
  PROVE  EncInv'
  <1>1. /\ EncType /\ TasksInv(x) /\ SenderInv(x) /\ ReceiverInv(x) /\ WireInv(x)
    BY Start
  <1>2. PICK p \in Ends : p = Peer(x) /\ p # x /\ Peer(p) = x
    BY PeerFact
  <1>3. /\ rd[x] = "reading"
        /\ UNCHANGED <<sent, wr, progress, up, task, sending, seq, heard, wire, broken, samePassword>>
    BY DEF Read
  <1>4. \A y \in Ends : Running(y)' = Running(y) /\ Given(y)' = Given(y)
    BY <1>3 DEF Running, Handshaking, Given
  <1>5. CASE down[x].q # <<>>
    <2>1. PICK g \in Seq(Data), q \in Seq(Data), g1 \in Seq(Data), q1 \in Seq(Data), v \in Data,
               n \in Nat, m \in Nat :
             /\ g = got[x] /\ q = down[x].q /\ v = Head(q) /\ q1 = Tail(q) /\ g1 = Append(g, v)
             /\ n = Len(g) /\ m = Len(q1) /\ Len(q) = m + 1 /\ Len(g1) = n + 1
      <3>1. got[x] \in Seq(Data) /\ down[x].q \in Seq(Data) /\ Len(got[x]) \in Nat
        BY <1>1, TypeAt
      <3>2. /\ Tail(down[x].q) \in Seq(Data) /\ Len(Tail(down[x].q)) = Len(down[x].q) - 1
            /\ Len(down[x].q) \in Nat /\ Len(down[x].q) > 0 /\ Head(down[x].q) \in Data
        BY <1>5, <3>1, TailFact
      <3>3. /\ Append(got[x], Head(down[x].q)) \in Seq(Data)
            /\ Len(Append(got[x], Head(down[x].q))) = Len(got[x]) + 1
        BY <3>1, <3>2, AppendFact
      <3>4. Len(Tail(down[x].q)) \in Nat /\ Len(down[x].q) = Len(Tail(down[x].q)) + 1
        BY <3>2
      <3> QED
        BY <3>1, <3>2, <3>3, <3>4
    <2>2. /\ got' = [got EXCEPT ![x] = g1] /\ down' = [down EXCEPT ![x].q = q1]
          /\ rd' = [rd EXCEPT ![x] = "open"]
      BY <1>5, <2>1 DEF Read
    <2>3. /\ down' \in [Ends -> Buffers] /\ down'[x].q = q1 /\ down'[x].shut = down[x].shut
          /\ \A y \in Ends : y # x => down'[y] = down[y]
      BY <1>1, <2>2, DownQueue
    <2>4. /\ got' \in [Ends -> Seq(Data)] /\ got'[x] = g1 /\ rd'[x] = "open"
          /\ \A y \in Ends : y # x => got'[y] = got[y] /\ rd'[y] = rd[y]
      BY <1>1, <2>2 DEF EncType
    <2>5. EncType'
      <3>1. \A y \in Ends : Len(down'[y].q) <= IoCap
        <4>1. Len(q) <= IoCap
          BY <1>1, <2>1 DEF EncType
        <4>2. Len(q1) <= IoCap
          BY <2>1, <4>1, CapsAssumption DEF CapsAssumption
        <4> QED
          BY <1>1, <2>3, <4>2 DEF EncType
      <3>2. rd' \in [Ends -> {"open", "reading", "eof", "err", "dropped"}]
        BY <1>1, <2>2 DEF EncType
      <3> QED
        BY <1>1, <1>3, <2>3, <2>4, <3>1, <3>2 DEF EncType
    <2>6. Opened(x)' = Opened(x) /\ Behind(x)' = Behind(x)
      <3>1. PICK k \in Nat : k = Ended(x)
        BY DEF Ended
      <3>2. Ended(x)' = k
        BY <1>3, <3>1 DEF Ended
      <3>3. Opened(x) = n + (m + 1) + k
        BY <2>1, <3>1 DEF Opened
      <3>4. Opened(x)' = (n + 1) + m + k
        BY <2>1, <2>3, <2>4, <3>2 DEF Opened
      <3>5. Opened(x)' = Opened(x)
        BY <3>3, <3>4
      <3> QED
        BY <1>3, <3>5 DEF Behind, Took
    <2>7. TasksInv(x)'
      BY <1>1, <1>3, <2>3, <2>4, <2>6 DEF TasksInv, Running, Handshaking, Failed
    <2>8. ReceiverInv(x)'
      <3>1. PICK s \in Seq(Data) : s = sent[p]
        BY <1>1, TypeAt
      <3>2. /\ Follows(g, s, 0) /\ Follows(q, s, n) /\ n + (m + 1) <= Len(s) /\ Opened(x) <= seq[p]
            /\ heard[x] => up[p].shut /\ seq[p] = Len(s) + 1 /\ n + (m + 1) = Len(s)
        BY <1>1, <1>2, <1>3, <2>1, <3>1 DEF ReceiverInv
      <3>3. Follows(q1, s, n + 1) /\ v = s[n + 1]
        BY <1>5, <2>1, <3>2, FollowsTail
      <3>4. Follows(g1, s, 0)
        <4>1. v = s[0 + Len(g) + 1]
          BY <2>1, <3>3
        <4> QED
          BY <2>1, <3>2, <4>1, FollowsNext
      <3>5. (n + 1) + m = n + (m + 1)
        OBVIOUS
      <3> QED
        BY ZenonT(60), <1>2, <1>3, <2>1, <2>3, <2>4, <2>6, <3>1, <3>2, <3>3, <3>4, <3>5 DEF ReceiverInv
    <2>9. SenderInv(x)'
      BY <1>1, <1>3, <1>4, SenderSame
    <2>10. WireInv(x)'
      BY <1>1, <1>2, <1>3, <1>4, <2>6, WireSame
    <2>11. TasksInv(p)' /\ SenderInv(p)' /\ ReceiverInv(p)' /\ WireInv(p)'
      BY <1>2, <1>3, <1>4, <2>3, <2>4, ElsewhereToo
    <2> QED
      BY <1>2, <2>5, <2>7, <2>8, <2>9, <2>10, <2>11, Finished
  <1>6. CASE down[x].q = <<>>
    <2>1. /\ UNCHANGED <<got, down>>
          /\ rd' = [rd EXCEPT ![x] = IF down[x].shut \/ Left(x) THEN "eof" ELSE "open"]
      BY <1>6 DEF Read
    <2>2. PICK r \in {"eof", "open"} :
             rd' = [rd EXCEPT ![x] = r] /\ (r = "eof" => down[x].shut \/ Left(x))
      BY <2>1
    <2>3. EncType' /\ rd'[x] = r /\ \A y \in Ends : y # x => rd'[y] = rd[y]
      BY <1>1, <1>3, <2>1, <2>2 DEF EncType
    <2>4. r = "eof" => heard[x] \/ task[x] = "failed"
      BY <1>1, <1>3, <2>2 DEF TasksInv, Left
    <2>5. TasksInv(x)'
      BY <1>1, <1>3, <2>1, <2>3, <2>4 DEF TasksInv, Running, Handshaking, Failed, Opened, Ended
    <2> QED
      BY <1>3, <2>1, <2>3, <2>5, QuietKeeps
  <1> QED
    BY <1>5, <1>6

LEMMA DropKeeps ==
  ASSUME EncInv, NEW x \in Ends, Drop(x)
  PROVE  EncInv'
  <1>1. /\ EncType /\ TasksInv(x) /\ SenderInv(x)
    BY Start
  <1>2. PICK p \in Ends : p = Peer(x) /\ p # x /\ Peer(p) = x
    BY PeerFact
  <1>3. UNCHANGED <<sent, got, seq, heard, wire, broken, samePassword>>
    BY DEF Drop
  <1>4. PICK k \in {"over", "failed", "aborted"} :
           task' = [task EXCEPT ![x] = k] /\ (k # "aborted" => k = task[x])
    BY DEF Drop, Left
  <1>5. /\ wr'[x] = "dropped" /\ rd'[x] = "dropped" /\ task'[x] = k
        /\ wr' \in [Ends -> {"open", "flushing", "closing", "ok", "err", "dropped"}]
        /\ rd' \in [Ends -> {"open", "reading", "eof", "err", "dropped"}]
        /\ task' \in [Ends -> {"new", "hello", "heard", "confirm", "on", "over", "failed", "aborted"}]
        /\ \A y \in Ends : y # x => wr'[y] = wr[y] /\ rd'[y] = rd[y] /\ task'[y] = task[y]
    BY <1>1, <1>4 DEF Drop, EncType
  <1>6. /\ progress' \in [Ends -> Reports]
        /\ progress'[x].accepted = progress[x].accepted
        /\ progress'[x].flushed = progress[x].flushed /\ progress'[x].closed = progress[x].closed
        /\ progress'[x].error = progress[x].error
        /\ \A y \in Ends : y # x => progress'[y] = progress[y]
    BY <1>1, Parks DEF Drop
  <1>7. /\ up' \in [Ends -> Buffers] /\ up'[x].q = <<>> /\ up'[x].shut = up[x].shut
        /\ \A y \in Ends : y # x => up'[y] = up[y]
    BY <1>1, EmptyFact, UpQueue DEF Drop
  <1>8. /\ down' \in [Ends -> Buffers] /\ down'[x].q = <<>> /\ down'[x].shut = down[x].shut
        /\ \A y \in Ends : y # x => down'[y] = down[y]
    BY <1>1, EmptyFact, DownQueue DEF Drop
  <1>9. sending' \in [Ends -> Msgs] /\ \A y \in Ends : y # x => sending'[y] = sending[y]
    BY <1>1, SignalFact DEF Drop, EncType
  <1>10. EncType'
    <2>1. \A y \in Ends : Len(up'[y].q) <= IoCap /\ Len(down'[y].q) <= IoCap
      <3>1. Len(<<>>) <= IoCap
        BY EmptyFact, CapsAssumption DEF CapsAssumption
      <3>2. ASSUME NEW y \in Ends PROVE Len(up'[y].q) <= IoCap /\ Len(down'[y].q) <= IoCap
        <4>1. CASE y = x
          BY <1>7, <1>8, <3>1, <4>1
        <4>2. CASE y # x
          BY <1>1, <1>7, <1>8, <4>2 DEF EncType
        <4> QED
          BY <4>1, <4>2
      <3> QED
        BY <3>2
    <2> QED
      BY <1>1, <1>3, <1>5, <1>6, <1>7, <1>8, <1>9, <2>1 DEF EncType
  <1>11. ~Running(x)' /\ ~Handshaking(x)'
    BY <1>5 DEF Running, Handshaking
  <1>12. TasksInv(x)'
    <2>1. Opened(x) = 0 => Opened(x)' = 0
      <3>1. PICK g \in Nat, d \in Nat, h \in Nat : g = Len(got[x]) /\ d = Len(down[x].q) /\ h = Ended(x)
        BY <1>1, TypeAt DEF Ended
      <3>2. Opened(x) = g + d + h
        BY <3>1 DEF Opened
      <3>3. Opened(x)' = g + 0 + h
        BY <1>3, <1>8, <3>1, EmptyFact DEF Opened, Ended
      <3> QED
        BY <3>2, <3>3
    <2> QED
      BY <1>1, <1>3, <1>4, <1>5, <1>6, <1>7, <1>8, <1>11, <2>1 DEF TasksInv, Failed
  <1>13. SenderInv(x)'
    BY <1>1, <1>3, <1>6, <1>7, <1>11 DEF SenderInv
  <1>14. ReceiverInv(x)'
    BY <1>5 DEF ReceiverInv
  <1>15. WireInv(x)'
    BY <1>11 DEF WireInv
  <1>16. TasksInv(p)' /\ SenderInv(p)' /\ ReceiverInv(p)' /\ WireInv(p)'
    BY <1>2, <1>3, <1>5, <1>6, <1>7, <1>8, <1>9, <1>11, ElsewhereToo
  <1> QED
    BY <1>2, <1>10, <1>12, <1>13, <1>14, <1>15, <1>16, Finished

-----------------------------------------------------------------------------
(* The task *)

\* What is put on the connection.
LEMMA PutFact ==
  ASSUME EncType, NEW x \in Ends, NEW m \in Msgs, Put(x, m)
  PROVE  /\ wire' \in [Ends -> Seq(Msgs)] /\ ~broken
         /\ wire'[Peer(x)] = Append(wire[Peer(x)], m) /\ wire'[x] = wire[x]
         /\ \A y \in Ends : Len(wire'[y]) <= WireCap
  <1>1. PICK p \in Ends, w \in Seq(Msgs), w1 \in Seq(Msgs) :
           p = Peer(x) /\ p # x /\ w = wire[p] /\ w1 = Append(w, m) /\ Len(w1) = Len(w) + 1
    <2>1. PICK p \in Ends : p = Peer(x) /\ p # x
      BY PeerFact
    <2>2. PICK w \in Seq(Msgs) : w = wire[p]
      BY TypeAt
    <2>3. Append(w, m) \in Seq(Msgs) /\ Len(Append(w, m)) = Len(w) + 1
      BY AppendFact
    <2> QED
      BY <2>1, <2>2, <2>3
  <1>2. wire' = [wire EXCEPT ![p] = w1] /\ ~broken /\ Len(w) < WireCap
    BY <1>1 DEF Put
  <1>3. wire' \in [Ends -> Seq(Msgs)] /\ wire'[p] = w1 /\ \A y \in Ends : y # p => wire'[y] = wire[y]
    BY <1>2 DEF EncType
  <1>4. Len(w1) <= WireCap
    <2>1. PICK n \in Nat : n = Len(w)
      OBVIOUS
    <2>2. n < WireCap /\ Len(w1) = n + 1
      BY <1>1, <1>2, <2>1
    <2>3. n + 1 <= WireCap
      BY <2>2, CapsAssumption DEF CapsAssumption
    <2> QED
      BY <2>2, <2>3
  <1>5. ASSUME NEW y \in Ends PROVE Len(wire'[y]) <= WireCap
    <2>1. CASE y = p
      BY <1>3, <1>4, <2>1
    <2>2. CASE y # p
      BY <1>3, <2>2 DEF EncType
    <2> QED
      BY <2>1, <2>2
  <1> QED
    BY <1>1, <1>2, <1>3, <1>5

\* What is taken from it.
LEMMA TakeFact ==
  ASSUME EncType, NEW x \in Ends, wire[x] # <<>>, wire' = WithoutFirst(x)
  PROVE  /\ wire' \in [Ends -> Seq(Msgs)] /\ wire'[x] = Tail(wire[x])
         /\ \A y \in Ends : y # x => wire'[y] = wire[y]
         /\ \A y \in Ends : Len(wire'[y]) <= WireCap
  <1>1. PICK w \in Seq(Msgs) : w = wire[x]
    BY TypeAt
  <1>2. Tail(w) \in Seq(Msgs) /\ Len(Tail(w)) = Len(w) - 1 /\ Len(w) \in Nat
    BY <1>1, TailFact
  <1>3. wire' = [wire EXCEPT ![x] = Tail(w)]
    BY <1>1 DEF WithoutFirst
  <1>4. /\ wire' \in [Ends -> Seq(Msgs)] /\ wire'[x] = Tail(w)
        /\ \A y \in Ends : y # x => wire'[y] = wire[y]
    BY <1>2, <1>3 DEF EncType
  <1>5. Len(Tail(w)) <= WireCap
    <2>1. PICK n \in Nat : n = Len(w)
      OBVIOUS
    <2>2. n <= WireCap /\ Len(Tail(w)) = n - 1
      BY <1>1, <1>2, <2>1 DEF EncType
    <2> QED
      BY <2>2, CapsAssumption DEF CapsAssumption
  <1>6. ASSUME NEW y \in Ends PROVE Len(wire'[y]) <= WireCap
    <2>1. CASE y = x
      BY <1>4, <1>5, <2>1
    <2>2. CASE y # x
      BY <1>4, <2>2 DEF EncType
    <2> QED
      BY <2>1, <2>2
  <1> QED
    BY <1>1, <1>4, <1>6

\* A challenge or a tag is put on the connection: the task moves from k to k1.
LEMMA SaysKeeps ==
  ASSUME EncInv, NEW x \in Ends, NEW m \in Plain, NEW k \in {"new", "heard"},
         NEW k1 \in {"hello", "confirm"}, k = "new" <=> k1 = "hello",
         task[x] = k, Put(x, m), task' = [task EXCEPT ![x] = k1],
         UNCHANGED <<userVars, progress, up, down, sending, seq, heard, broken, samePassword>>
  PROVE  EncInv'
  <1>1. /\ EncType /\ TasksInv(x) /\ SenderInv(x) /\ ReceiverInv(x) /\ WireInv(x)
        /\ ReceiverInv(Peer(x)) /\ WireInv(Peer(x))
    BY Start
  <1>2. PICK p \in Ends : p = Peer(x) /\ p # x /\ Peer(p) = x
    BY PeerFact
  <1>3. UNCHANGED <<sent, got, wr, rd, progress, up, down, sending, seq, heard, broken, samePassword>>
    BY DEF userVars
  <1>4. m \in Msgs
    BY DEF Msgs
  <1>5. /\ wire' \in [Ends -> Seq(Msgs)] /\ ~broken
        /\ wire'[p] = Append(wire[p], m) /\ wire'[x] = wire[x]
        /\ \A y \in Ends : Len(wire'[y]) <= WireCap
    BY <1>1, <1>2, <1>4, PutFact
  <1>6. /\ k \in {"new", "heard"} /\ k1 \in {"hello", "confirm"}
        /\ (k = "new" => k1 = "hello") /\ (k = "heard" => k1 = "confirm")
    OBVIOUS
  <1>7. /\ task' \in [Ends -> {"new", "hello", "heard", "confirm", "on", "over", "failed", "aborted"}]
        /\ task'[x] = k1 /\ \A y \in Ends : y # x => task'[y] = task[y]
    BY <1>1, <1>6 DEF EncType
  <1>8. EncType'
    BY <1>1, <1>3, <1>5, <1>7 DEF EncType
  <1>9. /\ Running(x) /\ Running(x)' /\ Handshaking(x) /\ Handshaking(x)'
        /\ Running(p)' = Running(p)
    BY <1>2, <1>6, <1>7 DEF Running, Handshaking
  <1>10. seq[x] = 0
    BY <1>1, <1>9 DEF TasksInv
  <1>11. /\ Opened(x)' = Opened(x) /\ Behind(x)' = Behind(x) /\ Given(x)' = Given(x) + 1
         /\ Given(x)' \in 0 .. 2 /\ Given(x) \in 0 .. 1
         /\ Behind(p)' = Behind(p) /\ Given(p)' = Given(p)
    <2>1. Opened(x)' = Opened(x) /\ Opened(p)' = Opened(p)
      BY <1>3 DEF Opened, Ended
    <2>2. Took(x)' = Took(x) /\ Took(p)' = Took(p) /\ Given(p)' = Given(p)
      BY <1>2, <1>6, <1>7 DEF Took, Given
    <2>3. Given(x)' = Given(x) + 1 /\ Given(x)' \in 0 .. 2 /\ Given(x) \in 0 .. 1
      BY <1>6, <1>7 DEF Given
    <2> QED
      BY <2>1, <2>2, <2>3 DEF Behind
  <1>12. TasksInv(x)'
    BY <1>1, <1>3, <1>6, <1>7, <1>9, <1>11 DEF TasksInv, Failed
  <1>13. SenderInv(x)'
    BY <1>1, <1>3, <1>9, SenderSame
  <1>14. ReceiverInv(x)' /\ ReceiverInv(p)'
    BY <1>1, <1>2, <1>3, ReceiverSame
  <1>15. WireInv(x)'
    BY <1>1, <1>2, <1>3, <1>5, <1>9, <1>11, WireSame
  <1>16. TasksInv(p)' /\ SenderInv(p)'
    BY <1>2, <1>3, <1>7, Elsewhere
  <1>17. WireInv(p)'
    <2>1. Given(x)' + seq'[x] = Given(x) + seq[x] + 1 /\ seq'[x] = 0
      BY <1>3, <1>10, <1>11
    <2>2. /\ Given(Peer(p))' + seq'[Peer(p)] = Given(Peer(p)) + seq[Peer(p)] + 1
          /\ seq'[Peer(p)] = 0 /\ seq'[Peer(p)] \in Nat /\ Given(Peer(p))' \in 0 .. 2
      BY <1>2, <1>11, <2>1
    <2>3. /\ Running(Peer(p)) /\ sent'[Peer(p)] = sent[Peer(p)]
          /\ up'[Peer(p)].shut = up[Peer(p)].shut
      BY <1>2, <1>3, <1>9
    <2>4. Running(p)' => Running(p)
      BY <1>9
    <2>5. WireInv(p) /\ ~broken /\ Behind(p)' = Behind(p)
      BY <1>1, <1>2, <1>5, <1>11
    <2> QED
      BY <1>1, <1>4, <1>5, <2>2, <2>3, <2>4, <2>5, WireGives
  <1> QED
    BY <1>2, <1>8, <1>12, <1>13, <1>14, <1>15, <1>16, <1>17, Finished

\* A challenge or a tag is heard.
LEMMA HearsKeeps ==
  ASSUME EncInv, NEW x \in Ends, NEW k \in {"hello", "confirm"}, NEW k1 \in {"heard", "on"},
         k = "hello" <=> k1 = "heard", k1 = "on" => samePassword,
         task[x] = k, wire[x] # <<>>, ~broken, wire' = WithoutFirst(x),
         task' = [task EXCEPT ![x] = k1],
         UNCHANGED <<userVars, progress, up, down, sending, seq, heard, broken, samePassword>>
  PROVE  EncInv'
  <1>1. /\ EncType /\ TasksInv(x) /\ SenderInv(x) /\ ReceiverInv(x) /\ WireInv(x)
    BY Start
  <1>2. PICK p \in Ends : p = Peer(x) /\ p # x /\ Peer(p) = x
    BY PeerFact
  <1>3. UNCHANGED <<sent, got, wr, rd, progress, up, down, sending, seq, heard, broken, samePassword>>
    BY DEF userVars
  <1>4. /\ wire' \in [Ends -> Seq(Msgs)] /\ wire'[x] = Tail(wire[x])
        /\ \A y \in Ends : y # x => wire'[y] = wire[y]
        /\ \A y \in Ends : Len(wire'[y]) <= WireCap
    BY <1>1, TakeFact
  <1>5. /\ k \in {"hello", "confirm"} /\ k1 \in {"heard", "on"}
        /\ (k = "hello" => k1 = "heard") /\ (k = "confirm" => k1 = "on")
    OBVIOUS
  <1>6. /\ task' \in [Ends -> {"new", "hello", "heard", "confirm", "on", "over", "failed", "aborted"}]
        /\ task'[x] = k1 /\ \A y \in Ends : y # x => task'[y] = task[y]
    BY <1>1, <1>5 DEF EncType
  <1>7. EncType'
    BY <1>1, <1>3, <1>4, <1>6 DEF EncType
  <1>8. Running(x) /\ Running(x)' /\ Handshaking(x) /\ Running(p)' = Running(p)
    BY <1>2, <1>5, <1>6 DEF Running, Handshaking
  <1>9. /\ Opened(x)' = Opened(x) /\ Given(x)' = Given(x) /\ Given(p)' = Given(p)
        /\ Took(x)' = Took(x) + 1 /\ Took(x) \in 0 .. 1
    BY <1>2, <1>3, <1>5, <1>6 DEF Opened, Ended, Took, Given
  <1>10. Behind(x)' = Behind(x) + 1
    <2>1. Opened(x) \in Nat
      BY <1>1, TypeAt
    <2>2. PICK o \in Nat, c \in Nat : o = Opened(x) /\ c = Took(x)
      BY <1>9, <2>1
    <2>3. Behind(x) = c + o /\ Behind(x)' = (c + 1) + o
      BY <1>9, <2>2 DEF Behind
    <2> QED
      BY <2>3
  <1>11. TasksInv(x)'
    BY <1>1, <1>3, <1>5, <1>6, <1>8, <1>9 DEF TasksInv, Failed, Handshaking
  <1>12. SenderInv(x)'
    BY <1>1, <1>3, <1>8, SenderSame
  <1>13. ReceiverInv(x)'
    BY <1>1, <1>3, ReceiverSame
  <1>14. WireInv(x)'
    BY <1>1, <1>2, <1>3, <1>4, <1>8, <1>9, <1>10, WireTakes
  <1>15. TasksInv(p)' /\ SenderInv(p)' /\ ReceiverInv(p)' /\ WireInv(p)'
    BY <1>2, <1>3, <1>4, <1>6, <1>8, <1>9, ElsewhereToo
  <1> QED
    BY <1>2, <1>7, <1>11, <1>12, <1>13, <1>14, <1>15, Finished

LEMMA AgreementKeeps ==
  ASSUME EncInv, NEW x \in Ends, Challenge(x) \/ Hear(x) \/ Confirm(x) \/ Agree(x)
  PROVE  EncInv'
  <1>1. CASE Challenge(x)
    <2>1. Signal("challenge") \in Plain
      BY DEF Signal, Plain
    <2>2. PICK k \in {"new", "heard"}, k1 \in {"hello", "confirm"} : k = "new" /\ k1 = "hello"
      OBVIOUS
    <2>3. "new" = k <=> "hello" = k1
      BY <2>2
    <2> QED
      BY <1>1, <2>1, <2>2, <2>3, SaysKeeps DEF Challenge
  <1>2. CASE Confirm(x)
    <2>1. Signal("tag") \in Plain
      BY DEF Signal, Plain
    <2>2. PICK k \in {"new", "heard"}, k1 \in {"hello", "confirm"} : k = "heard" /\ k1 = "confirm"
      OBVIOUS
    <2>3. "new" = k <=> "hello" = k1
      BY <2>2
    <2> QED
      BY <1>2, <2>1, <2>2, <2>3, SaysKeeps DEF Confirm
  <1>3. CASE Hear(x)
    <2>2. PICK k \in {"hello", "confirm"}, k1 \in {"heard", "on"} : k = "hello" /\ k1 = "heard"
      OBVIOUS
    <2>3. "hello" = k <=> "heard" = k1
      BY <2>2
    <2> QED
      BY <1>3, <2>2, <2>3, HearsKeeps DEF Hear, Arrives
  <1>4. CASE Agree(x)
    <2>2. PICK k \in {"hello", "confirm"}, k1 \in {"heard", "on"} : k = "confirm" /\ k1 = "on"
      OBVIOUS
    <2>3. "hello" = k <=> "heard" = k1
      BY <2>2
    <2> QED
      BY <1>4, <2>2, <2>3, HearsKeeps DEF Agree, Arrives
  <1> QED
    BY <1>1, <1>2, <1>3, <1>4

LEMMA SealKeeps ==
  ASSUME EncInv, NEW x \in Ends, Seal(x)
  PROVE  EncInv'
  <1>1. /\ EncType /\ TasksInv(x) /\ SenderInv(x) /\ ReceiverInv(x) /\ WireInv(x)
    BY Start
  <1>2. PICK p \in Ends : p = Peer(x) /\ p # x /\ Peer(p) = x
    BY PeerFact
  <1>3. /\ task[x] = "on" /\ sending[x].kind = "none"
        /\ UNCHANGED <<sent, got, wr, rd, progress, down, task, seq, heard, wire, broken, samePassword>>
    BY DEF Seal, userVars
  <1>4. /\ Running(x) /\ ~Handshaking(x)
        /\ \A y \in Ends : Running(y)' = Running(y) /\ Given(y)' = Given(y) /\ Behind(y)' = Behind(y)
    BY <1>3 DEF Running, Handshaking, Given, Behind, Took, Opened, Ended
  <1>5. AtEnd(x) = 0 /\ InHand(x) = 0 /\ Uncounted(x) = 0
    BY <1>3 DEF AtEnd, InHand, Uncounted
  <1>6. PICK s \in Seq(Data), q \in Seq(Data), f \in Nat, n \in Nat, l \in Nat :
           s = sent[x] /\ q = up[x].q /\ f = seq[x] /\ n = Len(s) /\ l = Len(q)
    <2>1. sent[x] \in Seq(Data) /\ up[x].q \in Seq(Data) /\ seq[x] \in Nat
          /\ Len(sent[x]) \in Nat /\ Len(up[x].q) \in Nat
      BY <1>1, TypeAt
    <2> QED
      BY <2>1
  <1>7. /\ n = f + l /\ Follows(q, s, f) /\ progress[x].flushed = f
    <2>1. /\ n + 0 = f + 0 + l /\ Follows(q, s, f + 0) /\ progress[x].flushed + 0 = f
      BY <1>1, <1>4, <1>5, <1>6 DEF SenderInv
    <2>2. progress[x].flushed \in Nat
      BY <1>1, TypeAt, ReportType
    <2>3. f + 0 = f
      OBVIOUS
    <2> QED
      BY <2>1, <2>2, <2>3
  <1>8. CASE q # <<>> /\ sending' = [sending EXCEPT ![x] = Block(Head(up[x].q))]
             /\ up' = [up EXCEPT ![x].q = Tail(@)]
    <2>1. PICK q1 \in Seq(Data), v \in Data, m \in Msgs :
             q1 = Tail(q) /\ v = Head(q) /\ m = Block(v)
      <3>1. Tail(q) \in Seq(Data) /\ Head(q) \in Data
        BY <1>8, TailFact
      <3> QED
        BY <3>1, BlockFact
    <2>2. /\ Follows(q1, s, f + 1) /\ v = s[f + 1] /\ Len(q1) + 1 = l /\ Len(q1) \in Nat
      BY SMTT(30), <1>6, <1>7, <1>8, <2>1, FollowsTail
    <2>3. /\ up' \in [Ends -> Buffers] /\ up'[x].q = q1 /\ up'[x].shut = up[x].shut
          /\ \A y \in Ends : y # x => up'[y] = up[y]
      <3>1. up' = [up EXCEPT ![x].q = q1]
        BY <1>6, <1>8, <2>1
      <3> QED
        BY <1>1, <3>1, UpQueue
    <2>4. /\ sending' \in [Ends -> Msgs] /\ sending'[x] = m
          /\ \A y \in Ends : y # x => sending'[y] = sending[y]
      BY <1>1, <1>6, <1>8, <2>1 DEF EncType
    <2>5. m.kind = "data" /\ m.data = v
      BY <2>1, BlockFact
    <2>6. InHand(x)' = 1 /\ AtEnd(x)' = 0 /\ Uncounted(x)' = 0
      BY <2>4, <2>5 DEF InHand, AtEnd, Uncounted
    <2>7. EncType'
      <3>1. \A y \in Ends : Len(up'[y].q) <= IoCap
        <4>1. l <= IoCap
          BY <1>1, <1>6 DEF EncType
        <4>2. Len(q1) <= IoCap
          BY <2>2, <4>1, CapsAssumption DEF CapsAssumption
        <4> QED
          BY <1>1, <2>3, <4>2 DEF EncType
      <3> QED
        BY <1>1, <1>3, <2>3, <2>4, <3>1 DEF EncType
    <2>8. SenderInv(x)'
      <3>1. n + 0 = f + 1 + Len(q1)
        BY SMTT(30), <1>7, <2>2
      <3>2. progress[x].flushed + 0 = f
        BY <1>7
      <3> QED
        BY <1>1, <1>3, <1>6, <2>2, <2>3, <2>4, <2>5, <2>6, <3>1, <3>2 DEF SenderInv
    <2>9. TasksInv(x)'
      BY <1>1, <1>3, <1>4, <2>3, <2>4 DEF TasksInv, Running, Handshaking, Failed, Opened, Ended
    <2>10. ReceiverInv(x)'
      BY <1>1, <1>2, <1>3, <2>3, ReceiverSame
    <2>11. WireInv(x)'
      BY <1>1, <1>2, <1>3, <1>4, <2>3, WireSame
    <2>12. TasksInv(p)' /\ SenderInv(p)' /\ ReceiverInv(p)' /\ WireInv(p)'
      BY <1>2, <1>3, <1>4, <2>3, <2>4, ElsewhereToo
    <2> QED
      BY <1>2, <2>7, <2>8, <2>9, <2>10, <2>11, <2>12, Finished
  <1>9. CASE Drained(x) /\ sending' = [sending EXCEPT ![x] = Signal("last")] /\ UNCHANGED up
    <2>1. Signal("last") \in Msgs /\ Signal("last").kind = "last"
      BY SignalFact
    <2>2. /\ sending' \in [Ends -> Msgs] /\ sending'[x].kind = "last"
          /\ \A y \in Ends : y # x => sending'[y] = sending[y]
      BY <1>1, <1>9, <2>1 DEF EncType
    <2>3. InHand(x)' = 0 /\ AtEnd(x)' = 0 /\ Uncounted(x)' = 0
      BY <2>2 DEF InHand, AtEnd, Uncounted
    <2>4. EncType'
      BY <1>1, <1>3, <1>9, <2>2 DEF EncType
    <2>5. SenderInv(x)'
      <3>1. up[x].q = <<>> /\ up[x].shut
        BY <1>9 DEF Drained
      <3> QED
        BY <1>1, <1>3, <1>4, <1>5, <1>9, <2>2, <2>3, <3>1 DEF SenderInv
    <2>6. TasksInv(x)'
      BY <1>1, <1>3, <1>4, <1>9, <2>2 DEF TasksInv, Running, Handshaking, Failed, Opened, Ended
    <2>7. ReceiverInv(x)'
      BY <1>1, <1>2, <1>3, <1>9, ReceiverSame
    <2>8. WireInv(x)'
      BY <1>1, <1>2, <1>3, <1>4, <1>9, WireSame
    <2>9. TasksInv(p)' /\ SenderInv(p)' /\ ReceiverInv(p)' /\ WireInv(p)'
      BY <1>2, <1>3, <1>4, <1>9, <2>2, ElsewhereToo
    <2> QED
      BY <1>2, <2>4, <2>5, <2>6, <2>7, <2>8, <2>9, Finished
  <1>10. Seal(x)
    OBVIOUS
  <1> QED
    BY <1>6, <1>8, <1>9, <1>10 DEF Seal

\* What the sealing half holds is the next block, and all that is left is behind it.
LEMMA HeldFact ==
  ASSUME EncInv, NEW x \in Ends, task[x] = "on", Holds(x)
  PROVE  /\ Carries(x, sending[x], seq[x] + 1) /\ sending[x] \in Msgs
         /\ AtEnd(x) = 0 /\ Uncounted(x) = 0
         /\ sending[x].kind = "data" => seq[x] + 1 <= Len(sent[x]) /\ InHand(x) = 1
         /\ sending[x].kind = "last" => seq[x] = Len(sent[x]) /\ InHand(x) = 0 /\ up[x].shut
         /\ sending[x].kind = "last" => up[x].q = <<>>
         /\ sending[x].kind \in {"data", "last"}
  <1>1. EncType /\ TasksInv(x) /\ SenderInv(x)
    BY Start
  <1>2. Running(x)
    BY DEF Running
  <1>3. sending[x].kind \in {"data", "last"} /\ sending[x] \in Msgs
    BY <1>1, TypeAt DEF Holds
  <1>4. AtEnd(x) = 0 /\ Uncounted(x) = 0
    BY <1>3 DEF AtEnd, Uncounted
  <1>5. PICK n \in Nat, f \in Nat, l \in Nat : n = Len(sent[x]) /\ f = seq[x] /\ l = Len(up[x].q)
    BY <1>1, TypeAt
  <1>6. CASE sending[x].kind = "data"
    <2>1. InHand(x) = 1
      BY <1>6 DEF InHand
    <2>2. n + 0 = f + 1 + l /\ sending[x].data = sent[x][f + 1]
      BY <1>1, <1>2, <1>4, <1>5, <1>6, <2>1 DEF SenderInv
    <2>3. f + 1 <= n
      BY <2>2
    <2> QED
      BY <1>3, <1>4, <1>5, <1>6, <2>1, <2>2, <2>3 DEF Carries
  <1>7. CASE sending[x].kind = "last"
    <2>1. InHand(x) = 0
      BY <1>7 DEF InHand
    <2>2. n + 0 = f + 0 + l /\ up[x].q = <<>> /\ up[x].shut
      BY <1>1, <1>2, <1>4, <1>5, <1>7, <2>1 DEF SenderInv
    <2>3. f = n
      BY <1>5, <2>2, EmptyFact
    <2> QED
      BY <1>3, <1>4, <1>5, <1>7, <2>1, <2>2, <2>3 DEF Carries
  <1> QED
    BY <1>3, <1>6, <1>7

LEMMA EmitKeeps ==
  ASSUME EncInv, NEW x \in Ends, Emit(x)
  PROVE  EncInv'
  <1>1. /\ EncType /\ TasksInv(x) /\ SenderInv(x) /\ ReceiverInv(x) /\ WireInv(x)
        /\ ReceiverInv(Peer(x)) /\ WireInv(Peer(x))
    BY Start
  <1>2. PICK p \in Ends : p = Peer(x) /\ p # x /\ Peer(p) = x
    BY PeerFact
  <1>3. /\ task[x] = "on" /\ Holds(x) /\ Put(x, sending[x])
        /\ seq' = [seq EXCEPT ![x] = @ + 1]
        /\ UNCHANGED <<sent, got, wr, rd, progress, up, down, task, heard, broken, samePassword>>
    BY DEF Emit, userVars
  <1>4. PICK m \in Msgs, n \in Nat, f \in Nat, l \in Nat :
           m = sending[x] /\ n = Len(sent[x]) /\ f = seq[x] /\ l = Len(up[x].q)
    BY <1>1, TypeAt
  <1>5. /\ Carries(x, m, f + 1) /\ AtEnd(x) = 0 /\ Uncounted(x) = 0
        /\ m.kind = "data" => f + 1 <= n /\ InHand(x) = 1
        /\ m.kind = "last" => f = n /\ InHand(x) = 0 /\ up[x].shut /\ up[x].q = <<>>
        /\ m.kind \in {"data", "last"}
    BY <1>3, <1>4, HeldFact
  <1>6. /\ wire' \in [Ends -> Seq(Msgs)] /\ ~broken
        /\ wire'[p] = Append(wire[p], m) /\ wire'[x] = wire[x]
        /\ \A y \in Ends : Len(wire'[y]) <= WireCap
    BY <1>1, <1>2, <1>3, <1>4, PutFact
  <1>7. seq' \in [Ends -> Nat] /\ seq'[x] = f + 1 /\ \A y \in Ends : y # x => seq'[y] = seq[y]
    BY <1>1, <1>3, <1>4 DEF EncType
  <1>8. PICK k \in {"end", "written"} :
           /\ sending' = [sending EXCEPT ![x] = Signal(k)]
           /\ (k = "end" => m.kind = "last") /\ (k = "written" => m.kind = "data")
    <2>1. CASE m.kind = "last"
      BY <1>4, <2>1 DEF Emit
    <2>2. CASE m.kind = "data"
      BY <1>4, <2>2 DEF Emit
    <2> QED
      BY <1>5, <2>1, <2>2
  <1>9. /\ sending' \in [Ends -> Msgs] /\ sending'[x].kind = k
        /\ \A y \in Ends : y # x => sending'[y] = sending[y]
    <2>1. Signal(k) \in Msgs /\ Signal(k).kind = k
      BY SignalFact
    <2> QED
      BY <1>1, <1>8, <2>1 DEF EncType
  <1>10. /\ Running(x) /\ ~Handshaking(x) /\ Running(x)' /\ ~Handshaking(x)'
         /\ Running(p)' = Running(p) /\ Given(x)' = 2 /\ Given(x) = 2
         /\ Given(p)' = Given(p) /\ Behind(p)' = Behind(p) /\ Behind(x)' = Behind(x)
    BY <1>3 DEF Running, Handshaking, Given, Behind, Took, Opened, Ended
  <1>11. EncType'
    BY <1>1, <1>3, <1>6, <1>7, <1>9 DEF EncType
  <1>12. TasksInv(x)'
    BY <1>1, <1>3, <1>10 DEF TasksInv, Failed, Opened, Ended
  <1>13. SenderInv(x)'
    <2>1. InHand(x)' = 0 /\ Uncounted(x)' = 1
      BY <1>9 DEF InHand, Uncounted
    <2>2. /\ n + 0 = f + InHand(x) + l /\ Follows(up[x].q, sent[x], f + InHand(x))
          /\ progress[x].flushed + 0 = f
      BY <1>1, <1>4, <1>5, <1>10 DEF SenderInv
    <2>3. progress[x].flushed \in Nat /\ progress[x].flushed = f
      <3>1. progress[x].flushed \in Nat
        BY <1>1, TypeAt, ReportType
      <3> QED
        BY <2>2, <3>1
    <2>4. ~progress[x].closed
      BY <1>1, <1>4, <1>5, <2>3 DEF SenderInv
    <2>5. CASE k = "written"
      <3>1. AtEnd(x)' = 0 /\ InHand(x) = 1 /\ f + 1 <= n
        BY <1>5, <1>8, <1>9, <2>5 DEF AtEnd
      <3>2. n + 0 = (f + 1) + 0 + l
        BY <2>2, <3>1
      <3>3. Follows(up[x].q, sent[x], (f + 1) + 0)
        BY <2>2, <3>1
      <3>4. f + 1 <= n + 1 /\ f + 1 # n + 1 /\ f <= f + 1 /\ f + 1 = f + 1
        BY <3>1
      <3> QED
        BY <1>1, <1>3, <1>4, <1>7, <1>9, <2>1, <2>3, <2>4, <2>5, <3>1, <3>2, <3>3, <3>4 DEF SenderInv
    <2>6. CASE k = "end"
      <3>1. AtEnd(x)' = 1 /\ f = n /\ up[x].shut /\ up[x].q = <<>> /\ l = 0
        BY <1>4, <1>5, <1>8, <1>9, <2>6, EmptyFact DEF AtEnd
      <3>2. n + 1 = (f + 1) + 0 + l
        BY <3>1
      <3>3. Follows(up[x].q, sent[x], (f + 1) + 0)
        BY <3>1, FollowsNothing
      <3>4. f + 1 <= n + 1 /\ f <= f + 1
        BY <3>1
      <3> QED
        BY <1>1, <1>3, <1>4, <1>7, <1>9, <2>1, <2>3, <2>4, <2>6, <3>1, <3>2, <3>3, <3>4 DEF SenderInv
    <2> QED
      BY <2>5, <2>6
  <1>14. ReceiverInv(x)'
    BY <1>1, <1>2, <1>3, <1>7, ReceiverSame
  <1>15. WireInv(x)'
    BY <1>1, <1>2, <1>3, <1>6, <1>7, <1>10, WireSame
  <1>16. TasksInv(p)' /\ SenderInv(p)'
    BY <1>2, <1>3, <1>7, <1>9, Elsewhere
  <1>17. ReceiverInv(p)'
    <2>1. SUFFICES ASSUME rd[p] # "dropped" PROVE ReceiverInv(p)'
      BY <1>3 DEF ReceiverInv
    <2>2. ~heard[p]
      <3>1. heard[p] => f = n + 1
        BY <1>1, <1>2, <1>4, <2>1 DEF ReceiverInv
      <3> QED
        BY <1>5, <3>1
    <2>3. PICK o \in Nat : o = Opened(p)
      BY <1>1, TypeAt
    <2>4. o <= f + 1 /\ Opened(p)' = o
      <3>1. o <= f
        BY <1>1, <1>2, <1>4, <2>1, <2>3 DEF ReceiverInv
      <3>2. Opened(p)' = o
        BY <1>3, <2>3 DEF Opened, Ended
      <3> QED
        BY <3>1, <3>2
    <2> QED
      BY <1>1, <1>2, <1>3, <1>7, <2>1, <2>2, <2>4 DEF ReceiverInv
  <1>18. WireInv(p)'
    <2>1. /\ Given(Peer(p))' + seq'[Peer(p)] = Given(Peer(p)) + seq[Peer(p)] + 1
          /\ seq'[Peer(p)] \in Nat /\ Given(Peer(p))' \in 0 .. 2
      BY <1>2, <1>4, <1>7, <1>10
    <2>2. /\ Running(Peer(p)) /\ sent'[Peer(p)] = sent[Peer(p)]
          /\ up'[Peer(p)].shut = up[Peer(p)].shut
      BY <1>2, <1>3, <1>10
    <2>3. /\ Running(p)' => Running(p)
          /\ WireInv(p) /\ ~broken /\ Behind(p)' = Behind(p)
      BY <1>1, <1>2, <1>6, <1>10
    <2>4. /\ Carries(Peer(p), m, seq[Peer(p)] + 1) /\ Given(Peer(p))' = 2
          /\ seq'[Peer(p)] = seq[Peer(p)] + 1
      BY <1>2, <1>4, <1>5, <1>7, <1>10
    <2> QED
      BY <1>1, <1>6, <2>1, <2>2, <2>3, <2>4, WireGives
  <1> QED
    BY <1>2, <1>11, <1>12, <1>13, <1>14, <1>15, <1>16, <1>17, <1>18, Finished

\* A block is counted, or the closing is.
LEMMA CountFact ==
  ASSUME EncType, NEW x \in Ends, Count(x)
  PROVE  /\ progress' \in [Ends -> Reports]
         /\ progress'[x].accepted = progress[x].accepted /\ progress'[x].error = progress[x].error
         /\ progress'[x].flushed = IF sending[x].kind = "written" THEN progress[x].flushed + 1
                                   ELSE progress[x].flushed
         /\ progress'[x].closed = (sending[x].kind = "end")
         /\ \A y \in Ends : y # x => progress'[y] = progress[y]
  <1> DEFINE f == IF sending[x].kind = "written" THEN progress[x].flushed + 1
                  ELSE progress[x].flushed
             c == sending[x].kind \in {"end", "last"}
             r == [progress[x] EXCEPT !.parked = FALSE, !.flushed = f, !.closed = c]
  <1>1. progress \in [Ends -> Reports] /\ progress[x] \in Reports /\ progress[x].flushed \in Nat
    BY ReportType DEF EncType
  <1>2. f \in Nat /\ c \in BOOLEAN
    BY <1>1
  <1>3. c = (sending[x].kind = "end")
    BY DEF Count, Counts
  <1>4. progress' = [progress EXCEPT ![x] = r]
    BY DEF Count
  <1> HIDE DEF f, c
  <1>5. /\ r \in Reports /\ r.accepted = progress[x].accepted /\ r.error = progress[x].error
        /\ r.flushed = f /\ r.closed = c
    BY <1>1, <1>2 DEF Reports
  <1> HIDE DEF r
  <1>6. /\ progress' \in [Ends -> Reports] /\ progress'[x] = r
        /\ \A y \in Ends : y # x => progress'[y] = progress[y]
    BY <1>1, <1>4, <1>5
  <1> QED
    BY <1>3, <1>5, <1>6 DEF f

LEMMA CountKeeps ==
  ASSUME EncInv, NEW x \in Ends, Count(x)
  PROVE  EncInv'
  <1>1. /\ EncType /\ TasksInv(x) /\ SenderInv(x) /\ ReceiverInv(x) /\ WireInv(x)
    BY Start
  <1>2. PICK p \in Ends : p = Peer(x) /\ p # x /\ Peer(p) = x
    BY PeerFact
  <1>3. /\ task[x] = "on" /\ sending[x].kind \in {"written", "end"} /\ ~progress[x].closed
        /\ UNCHANGED <<sent, got, wr, rd, up, down, task, seq, heard, wire, broken, samePassword>>
    BY DEF Count, Counts, userVars
  <1>4. /\ progress' \in [Ends -> Reports]
        /\ progress'[x].accepted = progress[x].accepted /\ progress'[x].error = progress[x].error
        /\ progress'[x].flushed = IF sending[x].kind = "written" THEN progress[x].flushed + 1
                                  ELSE progress[x].flushed
        /\ progress'[x].closed = (sending[x].kind = "end")
        /\ \A y \in Ends : y # x => progress'[y] = progress[y]
    BY <1>1, CountFact
  <1>5. /\ Running(x) /\ ~Handshaking(x)
        /\ \A y \in Ends : Running(y)' = Running(y) /\ Given(y)' = Given(y) /\ Behind(y)' = Behind(y)
    BY <1>3 DEF Running, Handshaking, Given, Behind, Took, Opened, Ended
  <1>6. /\ sending' \in [Ends -> Msgs]
        /\ sending'[x].kind = IF sending[x].kind = "written" THEN "none" ELSE "end"
        /\ \A y \in Ends : y # x => sending'[y] = sending[y]
    <2>1. Signal("none") \in Msgs /\ Signal("none").kind = "none"
      BY SignalFact
    <2>2. CASE sending[x].kind = "written"
      <3>1. sending' = [sending EXCEPT ![x] = Signal("none")]
        BY <2>2 DEF Count
      <3> QED
        BY <1>1, <2>1, <2>2, <3>1 DEF EncType
    <2>3. CASE sending[x].kind = "end"
      <3>1. sending' = [sending EXCEPT ![x] = sending[x]]
        BY <2>3 DEF Count
      <3> QED
        BY <1>1, <2>3, <3>1 DEF EncType
    <2> QED
      BY <1>3, <2>2, <2>3
  <1>7. EncType'
    BY <1>1, <1>3, <1>4, <1>6 DEF EncType
  <1>8. TasksInv(x)'
    BY <1>1, <1>3, <1>4, <1>5, <1>6 DEF TasksInv, Failed, Handshaking, Opened, Ended
  <1>9. SenderInv(x)'
    <2>1. PICK n \in Nat, f \in Nat, l \in Nat, c \in Nat :
             n = Len(sent[x]) /\ f = seq[x] /\ l = Len(up[x].q) /\ c = progress[x].flushed
      <3>1. progress[x].flushed \in Nat
        BY <1>1, TypeAt, ReportType
      <3> QED
        BY <1>1, <3>1, TypeAt
    <2>2. InHand(x) = 0 /\ Uncounted(x) = 1 /\ InHand(x)' = 0
      BY <1>3, <1>6 DEF InHand, Uncounted
    <2>3. /\ n + AtEnd(x) = f + 0 + l /\ Follows(up[x].q, sent[x], f + 0) /\ c + 1 = f
          /\ f <= n + 1
      BY <1>1, <1>5, <2>1, <2>2 DEF SenderInv
    <2>4. CASE sending[x].kind = "written"
      <3>1. Uncounted(x)' = 0 /\ AtEnd(x)' = AtEnd(x) /\ sending'[x].kind = "none"
        BY <1>6, <2>4 DEF Uncounted, AtEnd
      <3>2. (c + 1) + 0 = f /\ c + 1 <= f
        BY <2>3
      <3>3. progress'[x].flushed = c + 1 /\ ~progress'[x].closed
        BY <1>4, <2>1, <2>4
      <3> QED
        BY <1>1, <1>3, <1>4, <2>1, <2>2, <2>3, <3>1, <3>2, <3>3 DEF SenderInv
    <2>5. CASE sending[x].kind = "end"
      <3>1. Uncounted(x)' = 1 /\ AtEnd(x)' = 1 /\ AtEnd(x) = 1 /\ sending'[x].kind = "end"
        BY <1>6, <2>5 DEF Uncounted, AtEnd
      <3>2. up[x].q = <<>> /\ up[x].shut /\ l = 0
        BY <1>1, <1>5, <2>1, <2>5, EmptyFact DEF SenderInv
      <3>3. n + 1 = f + 0 + 0
        BY <2>3, <3>1, <3>2
      <3>4. c = n /\ f = n + 1
        BY <2>3, <3>3
      <3>5. progress'[x].flushed = c /\ progress'[x].closed
        BY <1>4, <2>1, <2>5
      <3> QED
        BY <1>1, <1>3, <1>4, <2>1, <2>2, <2>3, <3>1, <3>2, <3>3, <3>4, <3>5 DEF SenderInv
    <2> QED
      BY <1>3, <2>4, <2>5
  <1>10. ReceiverInv(x)'
    BY <1>1, <1>2, <1>3, ReceiverSame
  <1>11. WireInv(x)'
    BY <1>1, <1>2, <1>3, <1>5, WireSame
  <1>12. TasksInv(p)' /\ SenderInv(p)' /\ ReceiverInv(p)' /\ WireInv(p)'
    BY <1>2, <1>3, <1>4, <1>5, <1>6, ElsewhereToo
  <1> QED
    BY <1>2, <1>7, <1>8, <1>9, <1>10, <1>11, <1>12, Finished

\* What an end that agreed finds on its way to it.
LEMMA NextBlock ==
  ASSUME EncInv, NEW x \in Ends, task[x] = "on", ~heard[x], ~broken, wire[x] # <<>>
  PROVE  /\ Carries(Peer(x), Head(wire[x]), Len(got[x]) + Len(down[x].q) + 1)
         /\ Len(got[x]) + Len(down[x].q) + 1 <= seq[Peer(x)] /\ rd[x] # "dropped"
  <1>1. EncType /\ TasksInv(x) /\ WireInv(x)
    BY Start
  <1>2. PICK p \in Ends : p = Peer(x)
    BY PeerFact
  <1>3. Running(x)
    BY DEF Running
  <1>4. PICK w \in Seq(Msgs), l \in Nat, g \in Nat, d \in Nat, f \in Nat :
           /\ w = wire[x] /\ l = Len(w) /\ g = Len(got[x]) /\ d = Len(down[x].q) /\ f = seq[p]
    <2>1. wire[x] \in Seq(Msgs) /\ Len(wire[x]) \in Nat /\ Len(got[x]) \in Nat
          /\ Len(down[x].q) \in Nat /\ seq[p] \in Nat
      BY <1>1, TypeAt
    <2> QED
      BY <2>1
  <1>5. Behind(x) = 2 + (g + d + 0)
    BY <1>4 DEF Behind, Took, Opened, Ended
  <1>6. l > 0 /\ Head(w) = w[1]
    BY <1>4, TailFact
  <1>7. /\ l + (2 + (g + d + 0)) <= 2 + f
        /\ \A j \in 1 .. l : (2 + (g + d + 0)) + j > 2 =>
              Carries(p, w[j], (2 + (g + d + 0)) + j - 2)
    BY <1>1, <1>2, <1>3, <1>4, <1>5 DEF WireInv
  <1>8. 1 \in 1 .. l /\ (2 + (g + d + 0)) + 1 > 2 /\ (2 + (g + d + 0)) + 1 - 2 = g + d + 1
    BY <1>6
  <1>9. Carries(p, w[1], g + d + 1)
    BY <1>7, <1>8
  <1>10. g + d + 1 <= f
    BY <1>6, <1>7
  <1>11. rd[x] # "dropped"
    BY <1>1, <1>3 DEF TasksInv
  <1> QED
    BY <1>2, <1>4, <1>6, <1>9, <1>10, <1>11

LEMMA OpenKeeps ==
  ASSUME EncInv, NEW x \in Ends, Open(x)
  PROVE  EncInv'
  <1>1. /\ EncType /\ TasksInv(x) /\ SenderInv(x) /\ ReceiverInv(x) /\ WireInv(x)
        /\ SenderInv(Peer(x))
    BY Start
  <1>2. PICK p \in Ends : p = Peer(x) /\ p # x /\ Peer(p) = x
    BY PeerFact
  <1>3. /\ task[x] = "on" /\ ~heard[x] /\ ~broken /\ wire[x] # <<>> /\ wire' = WithoutFirst(x)
        /\ UNCHANGED <<sent, got, wr, rd, progress, up, task, sending, seq, broken, samePassword>>
    BY DEF Open, Arrives, userVars
  <1>4. PICK s \in Seq(Data), g \in Seq(Data), q \in Seq(Data), n \in Nat, m \in Nat, l \in Nat,
             f \in Nat :
           /\ s = sent[p] /\ g = got[x] /\ q = down[x].q /\ n = Len(g) /\ m = Len(q) /\ l = Len(s)
           /\ f = seq[p]
    <2>1. /\ sent[p] \in Seq(Data) /\ got[x] \in Seq(Data) /\ down[x].q \in Seq(Data)
          /\ seq[p] \in Nat /\ Len(sent[p]) \in Nat /\ Len(got[x]) \in Nat /\ Len(down[x].q) \in Nat
      BY <1>1, TypeAt
    <2> QED
      BY <2>1
  <1>5. Carries(p, Head(wire[x]), n + m + 1) /\ n + m + 1 <= f /\ rd[x] # "dropped"
    BY <1>2, <1>3, <1>4, NextBlock
  <1>6. /\ n + m <= l /\ Follows(g, s, 0) /\ Follows(q, s, n) /\ Opened(x) = n + m + 0
        /\ Opened(x) <= f
    BY <1>1, <1>2, <1>3, <1>4, <1>5 DEF ReceiverInv, Opened, Ended
  <1>7. f <= l + 1
    BY <1>1, <1>2, <1>4 DEF SenderInv
  <1>8. /\ wire' \in [Ends -> Seq(Msgs)] /\ wire'[x] = Tail(wire[x])
        /\ \A y \in Ends : y # x => wire'[y] = wire[y]
        /\ \A y \in Ends : Len(wire'[y]) <= WireCap
    BY <1>1, <1>3, TakeFact
  <1>9. /\ Running(x) /\ ~Handshaking(x) /\ samePassword
        /\ \A y \in Ends : /\ Running(y)' = Running(y) /\ Given(y)' = Given(y)
                           /\ Took(y)' = Took(y) /\ Handshaking(y)' = Handshaking(y)
    BY <1>1, <1>3 DEF Running, Handshaking, Given, Took, TasksInv
  <1>10. Took(x) = 2 /\ Behind(x) = 2 + (n + m)
    BY <1>3, <1>6 DEF Took, Behind
  <1>11. SenderInv(x)'
    BY <1>1, <1>3, <1>9, SenderSame
  <1>12. CASE /\ Head(wire[x]).kind = "data" /\ Len(down[x].q) < IoCap /\ UNCHANGED heard
              /\ down' = [down EXCEPT ![x].q = Append(@, Head(wire[x]).data)]
    <2>1. n + m + 1 <= l /\ Head(wire[x]).data = s[n + m + 1]
      BY <1>4, <1>5, <1>12 DEF Carries
    <2>2. PICK v \in Data, q1 \in Seq(Data) : v = Head(wire[x]).data /\ q1 = Append(q, v)
      <3>0. n + m + 1 \in 1 .. l
        BY <2>1
      <3>1. n + m + 1 \in 1 .. Len(s)
        BY <1>4, <3>0
      <3>2. s[n + m + 1] \in Data
        BY <3>1
      <3>3. Append(q, s[n + m + 1]) \in Seq(Data)
        BY <3>2, AppendFact
      <3> QED
        BY <2>1, <3>2, <3>3
    <2>3. Follows(q1, s, n) /\ Len(q1) = m + 1
      <3>1. v = s[n + Len(q) + 1]
        BY <1>4, <2>1, <2>2
      <3>2. Follows(Append(q, v), s, n) /\ Len(Append(q, v)) = Len(q) + 1
        BY <1>6, <3>1, FollowsNext
      <3> QED
        BY <1>4, <2>2, <3>2
    <2>4. /\ down' \in [Ends -> Buffers] /\ down'[x].q = q1 /\ down'[x].shut = down[x].shut
          /\ \A y \in Ends : y # x => down'[y] = down[y]
      <3>1. down' = [down EXCEPT ![x].q = q1]
        BY <1>4, <1>12, <2>2
      <3> QED
        BY <1>1, <3>1, DownQueue
    <2>5. Opened(x)' = n + (m + 1) + 0
      BY <1>3, <1>4, <1>12, <2>3, <2>4 DEF Opened, Ended
    <2>6. Behind(x)' = Behind(x) + 1
      <3>1. Behind(x)' = 2 + (n + (m + 1) + 0)
        BY <1>9, <1>10, <2>5 DEF Behind
      <3> QED
        BY <1>10, <3>1
    <2>7. EncType'
      <3>1. \A y \in Ends : Len(down'[y].q) <= IoCap
        <4>1. m < IoCap
          BY <1>4, <1>12
        <4>2. Len(q1) <= IoCap
          BY <2>3, <4>1, CapsAssumption DEF CapsAssumption
        <4> QED
          BY <1>1, <2>4, <4>2 DEF EncType
      <3> QED
        BY <1>1, <1>3, <1>8, <1>12, <2>4, <3>1 DEF EncType
    <2>8. TasksInv(x)'
      BY <1>1, <1>3, <1>9, <1>12, <2>4 DEF TasksInv, Failed
    <2>9. ReceiverInv(x)'
      <3>1. n + (m + 1) + 0 <= f /\ n + (m + 1) <= l
        BY <1>5, <2>1
      <3> QED
        BY <1>2, <1>3, <1>4, <1>6, <1>12, <2>3, <2>4, <2>5, <3>1 DEF ReceiverInv
    <2>10. WireInv(x)'
      BY <1>1, <1>2, <1>3, <1>8, <1>9, <2>6, WireTakes
    <2>11. TasksInv(p)' /\ SenderInv(p)' /\ ReceiverInv(p)' /\ WireInv(p)'
      BY <1>2, <1>3, <1>8, <1>9, <1>12, <2>4, ElsewhereToo
    <2> QED
      BY <1>2, <1>11, <2>7, <2>8, <2>9, <2>10, <2>11, Finished
  <1>13. CASE /\ Head(wire[x]).kind = "last" /\ down' = [down EXCEPT ![x].shut = TRUE]
              /\ heard' = [heard EXCEPT ![x] = TRUE]
    <2>1. n + m + 1 = l + 1 /\ up[p].shut
      BY <1>4, <1>5, <1>13 DEF Carries
    <2>2. /\ down' \in [Ends -> Buffers] /\ down'[x].q = q /\ down'[x].shut
          /\ \A y \in Ends : y # x => down'[y] = down[y]
      BY <1>1, <1>4, <1>13, DownShut
    <2>3. heard' \in [Ends -> BOOLEAN] /\ heard'[x] /\ \A y \in Ends : y # x => heard'[y] = heard[y]
      BY <1>1, <1>13 DEF EncType
    <2>4. Opened(x)' = n + m + 1
      BY <1>3, <1>4, <2>2, <2>3 DEF Opened, Ended
    <2>5. Behind(x)' = Behind(x) + 1
      <3>1. Behind(x)' = 2 + (n + m + 1)
        BY <1>9, <1>10, <2>4 DEF Behind
      <3> QED
        BY <1>10, <3>1
    <2>6. EncType'
      <3>1. \A y \in Ends : Len(down'[y].q) <= IoCap
        BY <1>1, <1>4, <2>2 DEF EncType
      <3> QED
        BY <1>1, <1>3, <1>8, <2>2, <2>3, <3>1 DEF EncType
    <2>7. TasksInv(x)'
      BY <1>1, <1>3, <1>9, <2>2, <2>3 DEF TasksInv, Failed
    <2>8. ReceiverInv(x)'
      <3>1. f = l + 1 /\ n + m = l /\ n + m <= l
        BY <1>5, <1>7, <2>1
      <3> QED
        BY <1>2, <1>3, <1>4, <1>5, <1>6, <2>1, <2>2, <2>3, <2>4, <3>1 DEF ReceiverInv
    <2>9. WireInv(x)'
      BY <1>1, <1>2, <1>3, <1>8, <1>9, <2>5, WireTakes
    <2>10. TasksInv(p)' /\ SenderInv(p)' /\ ReceiverInv(p)' /\ WireInv(p)'
      BY <1>2, <1>3, <1>8, <1>9, <2>2, <2>3, ElsewhereToo
    <2> QED
      BY <1>2, <1>11, <2>6, <2>7, <2>8, <2>9, <2>10, Finished
  <1>14. Open(x)
    OBVIOUS
  <1> QED
    BY <1>12, <1>13, <1>14 DEF Open, Arrives

LEMMA FinishKeeps ==
  ASSUME EncInv, NEW x \in Ends, Finish(x)
  PROVE  EncInv'
  <1>1. /\ EncType /\ TasksInv(x) /\ SenderInv(x) /\ ReceiverInv(x)
    BY Start
  <1>2. PICK p \in Ends : p = Peer(x) /\ p # x /\ Peer(p) = x
    BY PeerFact
  <1>3. /\ task[x] = "on" /\ heard[x] /\ progress[x].closed /\ task' = [task EXCEPT ![x] = "over"]
        /\ UNCHANGED <<sent, got, wr, rd, progress, up, down, sending, seq, heard, wire, broken,
                       samePassword>>
    BY DEF Finish, userVars
  <1>4. /\ task' \in [Ends -> {"new", "hello", "heard", "confirm", "on", "over", "failed", "aborted"}]
        /\ task'[x] = "over" /\ \A y \in Ends : y # x => task'[y] = task[y]
    BY <1>1, <1>3 DEF EncType
  <1>5. EncType'
    BY <1>1, <1>3, <1>4 DEF EncType
  <1>6. ~Running(x)' /\ ~Handshaking(x)'
    BY <1>4 DEF Running, Handshaking
  <1>7. TasksInv(x)'
    BY <1>1, <1>3, <1>4, <1>6 DEF TasksInv, Failed, Opened, Ended
  <1>8. SenderInv(x)'
    BY <1>1, <1>3, <1>6, SenderSame
  <1>9. ReceiverInv(x)'
    BY <1>1, <1>3, ReceiverSame
  <1>10. WireInv(x)'
    BY <1>6 DEF WireInv
  <1>11. TasksInv(p)' /\ SenderInv(p)' /\ ReceiverInv(p)' /\ WireInv(p)'
    BY <1>2, <1>3, <1>4, <1>6, ElsewhereToo
  <1> QED
    BY <1>2, <1>5, <1>7, <1>8, <1>9, <1>10, <1>11, Finished

\* The error of a task that fails is what its user sees.
LEMMA ErrorFact ==
  ASSUME EncType, NEW x \in Ends, Fail(x)
  PROVE  /\ progress' \in [Ends -> Reports] /\ progress'[x].error
         /\ progress'[x].accepted = progress[x].accepted
         /\ progress'[x].flushed = progress[x].flushed /\ progress'[x].closed = progress[x].closed
         /\ \A y \in Ends : y # x => progress'[y] = progress[y]
  <1> DEFINE r == [progress[x] EXCEPT !.error = TRUE, !.parked = FALSE]
  <1>1. progress \in [Ends -> Reports] /\ progress[x] \in Reports
    BY DEF EncType
  <1>2. /\ r \in Reports /\ r.accepted = progress[x].accepted
        /\ r.flushed = progress[x].flushed /\ r.closed = progress[x].closed
        /\ r.error
    BY <1>1 DEF Reports
  <1>3. progress' = [progress EXCEPT ![x] = r]
    BY DEF Fail
  <1> HIDE DEF r
  <1> QED
    BY <1>1, <1>2, <1>3

LEMMA FailKeeps ==
  ASSUME EncInv, NEW x \in Ends, Fail(x)
  PROVE  EncInv'
  <1>1. /\ EncType /\ TasksInv(x) /\ SenderInv(x) /\ ReceiverInv(x)
    BY Start
  <1>2. PICK p \in Ends : p = Peer(x) /\ p # x /\ Peer(p) = x
    BY PeerFact
  <1>3. /\ Running(x) /\ task' = [task EXCEPT ![x] = "failed"]
        /\ up' = [up EXCEPT ![x].q = <<>>] /\ sending' = [sending EXCEPT ![x] = Signal("none")]
        /\ UNCHANGED <<sent, got, wr, rd, down, seq, heard, wire, broken, samePassword>>
    BY DEF Fail, Fails, Running, userVars
  <1>4. /\ task' \in [Ends -> {"new", "hello", "heard", "confirm", "on", "over", "failed", "aborted"}]
        /\ task'[x] = "failed" /\ \A y \in Ends : y # x => task'[y] = task[y]
    BY <1>1, <1>3 DEF EncType
  <1>5. /\ progress' \in [Ends -> Reports] /\ progress'[x].error
        /\ progress'[x].accepted = progress[x].accepted
        /\ progress'[x].flushed = progress[x].flushed /\ progress'[x].closed = progress[x].closed
        /\ \A y \in Ends : y # x => progress'[y] = progress[y]
    BY <1>1, ErrorFact
  <1>6. /\ up' \in [Ends -> Buffers] /\ up'[x].q = <<>> /\ up'[x].shut = up[x].shut
        /\ \A y \in Ends : y # x => up'[y] = up[y]
    BY <1>1, <1>3, EmptyFact, UpQueue
  <1>7. sending' \in [Ends -> Msgs] /\ \A y \in Ends : y # x => sending'[y] = sending[y]
    BY <1>1, <1>3, SignalFact DEF EncType
  <1>8. EncType'
    <2>1. Len(<<>>) <= IoCap
      BY EmptyFact, CapsAssumption DEF CapsAssumption
    <2>2. \A y \in Ends : Len(up'[y].q) <= IoCap
      BY <1>1, <1>6, <2>1 DEF EncType
    <2> QED
      BY <1>1, <1>3, <1>4, <1>5, <1>6, <1>7, <2>2 DEF EncType
  <1>9. ~Running(x)' /\ ~Handshaking(x)' /\ Failed(x)'
    BY <1>4, <1>5 DEF Running, Handshaking, Failed
  <1>10. TasksInv(x)'
    BY <1>1, <1>3, <1>4, <1>5, <1>6, <1>9 DEF TasksInv, Opened, Ended
  <1>11. SenderInv(x)'
    BY <1>1, <1>3, <1>5, <1>6, <1>9 DEF SenderInv
  <1>12. ReceiverInv(x)'
    BY <1>1, <1>2, <1>3, <1>6, ReceiverSame
  <1>13. WireInv(x)'
    BY <1>9 DEF WireInv
  <1>14. TasksInv(p)' /\ SenderInv(p)' /\ ReceiverInv(p)' /\ WireInv(p)'
    BY <1>2, <1>3, <1>4, <1>5, <1>6, <1>7, <1>9, ElsewhereToo
  <1> QED
    BY <1>2, <1>8, <1>10, <1>11, <1>12, <1>13, <1>14, Finished

LEMMA BreakKeeps ==
  ASSUME EncInv, Break
  PROVE  EncInv'
  <1>1. EncType
    BY DEF EncInv
  <1>2. /\ broken' = TRUE /\ wire' = [e \in Ends |-> <<>>]
        /\ UNCHANGED <<sent, got, wr, rd, progress, up, down, task, sending, seq, heard,
                       samePassword>>
    BY DEF Break, userVars
  <1>3. EncType'
    <2>1. Len(<<>>) <= WireCap
      BY EmptyFact, CapsAssumption DEF CapsAssumption
    <2>2. wire' \in [Ends -> Seq(Msgs)]
      BY <1>2, EmptyFact
    <2>3. \A y \in Ends : Len(wire'[y]) <= WireCap
      BY <1>2, <2>1
    <2> QED
      BY <1>1, <1>2, <2>2, <2>3 DEF EncType
  <1>4. ASSUME NEW y \in Ends
        PROVE  TasksInv(y)' /\ SenderInv(y)' /\ ReceiverInv(y)' /\ WireInv(y)'
    <2>1. TasksInv(y) /\ SenderInv(y) /\ ReceiverInv(y)
      BY DEF EncInv
    <2>2. TasksInv(y)'
      BY <1>2, <2>1, TasksSame
    <2>3. Running(y)' = Running(y)
      BY <1>2 DEF Running, Handshaking
    <2>4. SenderInv(y)'
      BY <1>2, <2>1, <2>3, SenderSame
    <2>5. ReceiverInv(y)'
      BY <1>2, <2>1, ReceiverSame
    <2>6. WireInv(y)'
      BY <1>2 DEF WireInv
    <2> QED
      BY <2>2, <2>4, <2>5, <2>6
  <1> QED
    BY <1>3, <1>4 DEF EncInv

LEMMA StillKeeps ==
  ASSUME EncInv, UNCHANGED vars
  PROVE  EncInv'
  <1>1. UNCHANGED <<sent, got, wr, rd, progress, up, down, task, sending, seq, heard, wire, broken,
                    samePassword>>
    BY DEF vars, userVars
  <1>2. EncType'
    BY <1>1 DEF EncInv, EncType
  <1>3. PICK x \in Ends : TRUE
    BY DEF Ends
  <1>4. TasksInv(x)'
    BY <1>1, Start, TasksSame
  <1> QED
    BY <1>1, <1>2, <1>4, QuietKeeps

LEMMA EncStep == EncInv /\ [Next]_vars => EncInv'
  <1> SUFFICES ASSUME EncInv, [Next]_vars PROVE EncInv'
    OBVIOUS
  <1>1. ASSUME NEW x \in Ends, Task(x) PROVE EncInv'
    BY <1>1, AgreementKeeps, SealKeeps, EmitKeeps, CountKeeps, OpenKeeps, FinishKeeps, FailKeeps
       DEF Task
  <1>2. ASSUME NEW x \in Ends, User(x) PROVE EncInv'
    BY <1>2, WriteKeeps, WriteFailsKeeps, FlushKeeps, CloseKeeps, DropKeeps DEF User
  <1>3. ASSUME NEW x \in Ends, Poll(x) \/ ReadBegins(x) \/ Read(x) PROVE EncInv'
    BY <1>3, PollKeeps, ReadBeginsKeeps, ReadKeeps
  <1> QED
    BY <1>1, <1>2, <1>3, BreakKeeps, StillKeeps DEF Next

\* What the invariant says of the users.
LEMMA EncShows == EncInv => EncIsSound
  <1> SUFFICES ASSUME EncInv PROVE EncIsSound
    OBVIOUS
  <1>1. TypeOK
    BY DEF EncInv, EncType, TypeOK
  <1>2. ProgressIsTrue
    BY DEF EncInv, SenderInv, ProgressIsTrue
  <1>3. StrangersShareNothing
    <2>1. ASSUME ~samePassword, NEW x \in Ends
          PROVE  got[x] = <<>> /\ seq[x] = 0 /\ ~down[x].shut
      <3>1. EncType /\ TasksInv(x)
        BY DEF EncInv
      <3>2. PICK g \in Seq(Data), d \in Nat, n \in Nat :
               g = got[x] /\ n = Len(g) /\ d = Len(down[x].q)
        <4>1. got[x] \in Seq(Data) /\ Len(got[x]) \in Nat /\ Len(down[x].q) \in Nat
          BY <3>1, TypeAt
        <4> QED
          BY <4>1
      <3>3. Ended(x) \in 0 .. 1 /\ (heard[x] => Ended(x) = 1)
        BY DEF Ended
      <3>4. PICK h \in 0 .. 1 : h = Ended(x)
        BY <3>3
      <3>5. n + d + h = 0
        BY <2>1, <3>1, <3>2, <3>4 DEF TasksInv, Opened
      <3>6. n = 0 /\ h = 0
        BY <3>5
      <3>7. g = <<>>
        BY <3>2, <3>6, EmptySeq
      <3> QED
        BY <2>1, <3>1, <3>2, <3>3, <3>4, <3>6, <3>7 DEF TasksInv
    <2> QED
      BY <2>1 DEF StrangersShareNothing
  <1> QED
    BY <1>1, <1>2, <1>3 DEF EncIsSound

\* Whatever is written and however the two ends and the connection behave, the tasks, the
\* blocks on the connection and what the users were told agree.
THEOREM EncInvHolds == Spec => []EncInv
  <1>1. Init => EncInv
    BY InitEnc
  <1>2. EncInv /\ [Next]_vars => EncInv'
    BY EncStep
  <1> QED
    BY <1>1, <1>2, PTL DEF Spec

\* What a user is told of its data is true, and strangers share nothing.
THEOREM EncHolds == Spec => []EncIsSound
  <1>1. EncInv => EncIsSound
    BY EncShows
  <1> QED
    BY <1>1, EncInvHolds, PTL

-----------------------------------------------------------------------------
(* The two ends are a pair of pipes *)

\* What the abstract specification sees, in terms of the ends.
Taken == [e \in Ends |-> seq[Peer(e)]]
Shut == [e \in Ends |-> up[e].shut]
Gone == [e \in Ends |-> progress[e].error]
SeenWr == [e \in Ends |-> IF wr[e] = "flushing" THEN "open" ELSE wr[e]]
SeenRd == [e \in Ends |-> IF rd[e] = "reading" THEN "open"
                          ELSE IF rd[e] = "eof" /\ ~down[e].shut THEN "err" ELSE rd[e]]
Seen == <<sent, got, Taken, Shut, Gone, SeenWr, SeenRd>>

LEMMA OtherFact == \A e \in Ends : Pipe!Other(e) = Peer(e)
  BY DEF Pipe!Other, Peer

\* A step the abstract specification does not see.
LEMMA PipeStutter ==
  ASSUME UNCHANGED Seen
  PROVE  [Pipe!PipeNext]_(Pipe!pipeVars)
  BY DEF Seen, Taken, Shut, Gone, SeenWr, SeenRd, Pipe!pipeVars

LEMMA PipeInitFact == Init => Pipe!PipeInit
  <1> SUFFICES ASSUME Init PROVE Pipe!PipeInit
    OBVIOUS
  <1>1. /\ Taken = [e \in Ends |-> 0] /\ Shut = [e \in Ends |-> FALSE]
        /\ Gone = [e \in Ends |-> FALSE]
    BY PeerFact DEF Taken, Shut, Gone, Init
  <1>2. SeenWr = [e \in Ends |-> "open"] /\ SeenRd = [e \in Ends |-> "open"]
    BY DEF SeenWr, SeenRd, Init
  <1> QED
    BY <1>1, <1>2 DEF Init, Pipe!PipeInit, Pipe!Ends, Taken, Shut, Gone, SeenWr, SeenRd, Ends

LEMMA PipeUser ==
  ASSUME EncInv, NEW x \in Ends, User(x)
  PROVE  [Pipe!PipeNext]_(Pipe!pipeVars)
  <1>0. EncType /\ TasksInv(x)
    BY Start
  <1> USE DEF Taken, Shut, Gone, SeenWr, SeenRd
  <1>1. CASE Write(x)
    <2>1. PICK v \in Data : /\ sent' = [sent EXCEPT ![x] = Append(@, v)]
                            /\ up' = [up EXCEPT ![x].q = Append(@, v)]
      BY <1>1 DEF Write
    <2>2. Append(up[x].q, v) \in Seq(Data)
      <3>1. up[x].q \in Seq(Data)
        BY <1>0, TypeAt
      <3> QED
        BY <3>1, AppendFact
    <2>3. \A e \in Ends : up'[e].shut = up[e].shut
      <3>1. up' = [up EXCEPT ![x].q = Append(up[x].q, v)]
        BY <2>1
      <3> QED
        BY <1>0, <2>2, <3>1, UpQueue
    <2>4. \A e \in Ends : progress'[e].error = progress[e].error
      BY <1>0, <1>1, Accepts DEF Write
    <2>5. /\ UNCHANGED <<got, Taken, Shut, Gone, SeenWr, SeenRd>>
          /\ SeenWr[x] = "open" /\ ~Shut[x]
      BY <1>0, <1>1, <2>3, <2>4 DEF Write, TasksInv
    <2>6. Pipe!PipeWrite(x)
      BY <2>1, <2>5 DEF Pipe!PipeWrite
    <2> QED
      BY <2>6 DEF Pipe!PipeNext, Pipe!Ends, Ends
  <1>2. CASE WriteFails(x)
    <2>1. SeenWr' = [SeenWr EXCEPT ![x] = "err"] /\ SeenWr[x] = "open" /\ Gone[x]
      BY <1>0, <1>2 DEF WriteFails, Failed, EncType
    <2>2. UNCHANGED <<sent, got, Taken, Shut, Gone, SeenRd>>
      BY <1>2 DEF WriteFails
    <2>3. Pipe!PipeError(x)
      BY <2>1, <2>2 DEF Pipe!PipeError
    <2> QED
      BY <2>3 DEF Pipe!PipeNext, Pipe!Ends, Ends
  <1>3. CASE Flush(x)
    <2>1. UNCHANGED SeenWr
      BY <1>0, <1>3 DEF Flush, EncType
    <2>2. UNCHANGED <<sent, got, Taken, Shut, Gone, SeenRd>>
      BY <1>3 DEF Flush
    <2> QED
      BY <2>1, <2>2, PipeStutter DEF Seen
  <1>4. CASE Close(x)
    <2>1. /\ up' \in [Ends -> Buffers] /\ up'[x].shut /\ \A y \in Ends : y # x => up'[y] = up[y]
      BY <1>0, <1>4, UpShut DEF Close
    <2>2. up'[x].shut = TRUE
      BY <2>1 DEF Buffers
    <2>3. Shut' = [Shut EXCEPT ![x] = TRUE] /\ ~Shut[x]
      BY <1>0, <1>4, <2>1, <2>2 DEF Close, TasksInv
    <2>4. SeenWr' = [SeenWr EXCEPT ![x] = "closing"] /\ SeenWr[x] = "open"
      BY <1>0, <1>4 DEF Close, EncType
    <2>5. UNCHANGED <<sent, got, Taken, Gone, SeenRd>>
      BY <1>4 DEF Close
    <2>6. Pipe!PipeClose(x)
      BY <2>3, <2>4, <2>5 DEF Pipe!PipeClose
    <2> QED
      BY <2>6 DEF Pipe!PipeNext, Pipe!Ends, Ends
  <1>5. CASE Drop(x)
    <2>1. \A e \in Ends : up'[e].shut = up[e].shut
      BY <1>0, <1>5, EmptyFact, UpQueue DEF Drop
    <2>2. \A e \in Ends : down'[e].shut = down[e].shut
      BY <1>0, <1>5, EmptyFact, DownQueue DEF Drop
    <2>3. \A e \in Ends : progress'[e].error = progress[e].error
      BY <1>0, <1>5, Parks DEF Drop
    <2>4. SeenWr' = [SeenWr EXCEPT ![x] = "dropped"]
      BY <1>0, <1>5 DEF Drop, EncType
    <2>5. SeenRd' = [SeenRd EXCEPT ![x] = "dropped"]
      BY <1>0, <1>5, <2>2 DEF Drop, EncType
    <2>6. UNCHANGED <<sent, got, Taken, Shut, Gone>>
      BY <1>5, <2>1, <2>3 DEF Drop
    <2>7. Pipe!PipeDrop(x)
      BY <2>4, <2>5, <2>6 DEF Pipe!PipeDrop
    <2> QED
      BY <2>7 DEF Pipe!PipeNext, Pipe!Ends, Ends
  <1> QED
    BY <1>1, <1>2, <1>3, <1>4, <1>5 DEF User

LEMMA PipePoll ==
  ASSUME EncInv, NEW x \in Ends, Poll(x)
  PROVE  [Pipe!PipeNext]_(Pipe!pipeVars)
  <1>0. EncType /\ TasksInv(x) /\ SenderInv(x)
    BY Start
  <1> USE DEF Taken, Shut, Gone, SeenWr, SeenRd
  <1>1. /\ UNCHANGED <<sent, got, Taken, Shut, SeenRd>> /\ wr[x] \in {"flushing", "closing"}
    BY DEF Poll
  <1>2. CASE Failed(x) /\ wr' = [wr EXCEPT ![x] = "err"] /\ UNCHANGED progress
    <2>1. SeenWr' = [SeenWr EXCEPT ![x] = "err"]
      BY <1>0, <1>2 DEF EncType
    <2>2. SeenWr[x] \in {"open", "closing"} /\ Gone[x] /\ UNCHANGED Gone
      BY <1>1, <1>2 DEF Failed
    <2>3. Pipe!PipeError(x)
      BY <1>1, <2>1, <2>2 DEF Pipe!PipeError
    <2> QED
      BY <2>3 DEF Pipe!PipeNext, Pipe!Ends, Ends
  <1>3. CASE /\ Ready(x) /\ wr' = [wr EXCEPT ![x] = IF @ = "closing" THEN "ok" ELSE "open"]
             /\ UNCHANGED progress
    <2>1. CASE wr[x] = "closing"
      <3>1. seq[x] = Len(sent[x]) + 1
        BY <1>0, <1>3, <2>1 DEF Ready, SenderInv
      <3>2. Taken[Pipe!Other(x)] = Len(sent[x]) + 1
        BY <3>1, OtherFact, PeerFact
      <3>3. SeenWr' = [SeenWr EXCEPT ![x] = "ok"] /\ SeenWr[x] = "closing"
        BY <1>0, <1>3, <2>1 DEF EncType
      <3>4. Pipe!PipeShutdownOk(x)
        BY <1>1, <1>3, <3>2, <3>3 DEF Pipe!PipeShutdownOk
      <3> QED
        BY <3>4 DEF Pipe!PipeNext, Pipe!Ends, Ends
    <2>2. CASE wr[x] = "flushing"
      <3>1. UNCHANGED SeenWr
        BY <1>0, <1>3, <2>2 DEF EncType
      <3> QED
        BY <1>1, <1>3, <3>1, PipeStutter DEF Seen
    <2> QED
      BY <1>1, <2>1, <2>2
  <1>4. CASE progress' = [progress EXCEPT ![x].parked = TRUE] /\ UNCHANGED wr
    <2>1. \A e \in Ends : progress'[e].error = progress[e].error
      BY <1>0, <1>4, Parks
    <2> QED
      BY <1>1, <1>4, <2>1, PipeStutter DEF Seen
  <1> QED
    BY <1>2, <1>3, <1>4 DEF Poll

LEMMA PipeReader ==
  ASSUME EncInv, NEW x \in Ends, ReadBegins(x) \/ Read(x)
  PROVE  [Pipe!PipeNext]_(Pipe!pipeVars)
  <1>0. EncType /\ TasksInv(x) /\ ReceiverInv(x)
    BY Start
  <1>p. PICK p \in Ends : p = Peer(x) /\ p = Pipe!Other(x)
    BY PeerFact, OtherFact
  <1> USE DEF Taken, Shut, Gone, SeenWr, SeenRd
  <1>1. CASE ReadBegins(x)
    <2>1. UNCHANGED <<sent, got, Taken, Shut, Gone, SeenWr>> /\ SeenRd[x] = "open"
      BY <1>1 DEF ReadBegins
    <2>2. CASE Failed(x)
      <3>1. SeenRd' = [SeenRd EXCEPT ![x] = "err"]
        BY <1>0, <1>1, <2>2 DEF ReadBegins, EncType
      <3>2. Pipe!PipeError(x)
        BY <2>1, <2>2, <3>1 DEF Pipe!PipeError, Failed
      <3> QED
        BY <3>2 DEF Pipe!PipeNext, Pipe!Ends, Ends
    <2>3. CASE ~Failed(x)
      <3>1. UNCHANGED SeenRd
        BY <1>0, <1>1, <2>3 DEF ReadBegins, EncType
      <3> QED
        BY <2>1, <3>1, PipeStutter DEF Seen
    <2> QED
      BY <2>2, <2>3
  <1>2. CASE Read(x) /\ down[x].q # <<>>
    <2>1. PICK s \in Seq(Data), g \in Seq(Data), q \in Seq(Data), n \in Nat, m \in Nat, l \in Nat,
               f \in Nat :
             /\ s = sent[p] /\ g = got[x] /\ q = down[x].q /\ n = Len(g) /\ m = Len(q) /\ l = Len(s)
             /\ f = seq[p]
      <3>1. /\ sent[p] \in Seq(Data) /\ got[x] \in Seq(Data) /\ down[x].q \in Seq(Data)
            /\ seq[p] \in Nat /\ Len(sent[p]) \in Nat /\ Len(got[x]) \in Nat
            /\ Len(down[x].q) \in Nat
        BY <1>0, TypeAt
      <3> QED
        BY <3>1
    <2>2. m > 0 /\ Tail(q) \in Seq(Data)
      BY <1>2, <2>1, TailFact
    <2>3. rd[x] = "reading"
      BY <1>2 DEF Read
    <2>4. PICK h \in 0 .. 1 : h = Ended(x)
      BY DEF Ended
    <2>5. n + m + h <= f /\ n + m <= l /\ Follows(q, s, n)
      BY <1>0, <1>p, <2>1, <2>3, <2>4 DEF ReceiverInv, Opened
    <2>6. n < f /\ n < l
      BY <2>2, <2>5
    <2>7. Head(q) = s[n + 1]
      BY <1>2, <2>1, <2>5, FollowsTail
    <2>8. got' = [got EXCEPT ![x] = Append(@, sent[Pipe!Other(x)][Len(@) + 1])]
      BY <1>2, <1>p, <2>1, <2>7 DEF Read
    <2>9. \A e \in Ends : down'[e].shut = down[e].shut
      <3>1. down' = [down EXCEPT ![x].q = Tail(q)]
        BY <1>2, <2>1 DEF Read
      <3> QED
        BY <1>0, <2>2, <3>1, DownQueue
    <2>10. UNCHANGED SeenRd /\ SeenRd[x] = "open"
      <3>1. rd' = [rd EXCEPT ![x] = "open"] /\ rd \in [Ends -> {"open", "reading", "eof", "err", "dropped"}]
        BY <1>0, <1>2 DEF Read, EncType
      <3>2. ASSUME NEW e \in Ends PROVE SeenRd'[e] = SeenRd[e]
        <4>1. CASE e = x
          BY <2>3, <3>1, <4>1
        <4>2. CASE e # x
          BY <2>9, <3>1, <4>2
        <4> QED
          BY <4>1, <4>2
      <3>3. SeenRd[x] = "open"
        BY <2>3
      <3> QED
        BY <3>2, <3>3
    <2>11. UNCHANGED <<sent, Taken, Shut, Gone, SeenWr>>
      BY <1>2 DEF Read
    <2>12. Len(got[x]) < Taken[x] /\ Len(got[x]) < Len(sent[Pipe!Other(x)])
      BY <1>p, <2>1, <2>6
    <2>13. Pipe!PipeRead(x)
      BY <2>8, <2>10, <2>11, <2>12 DEF Pipe!PipeRead
    <2> QED
      BY <2>13 DEF Pipe!PipeNext, Pipe!Ends, Ends
  <1>3. CASE Read(x) /\ down[x].q = <<>>
    <2>1. /\ UNCHANGED <<sent, got, Taken, Shut, Gone, SeenWr, down>> /\ rd[x] = "reading"
          /\ rd' = [rd EXCEPT ![x] = IF down[x].shut \/ Left(x) THEN "eof" ELSE "open"]
      BY <1>3 DEF Read
    <2>2. SeenRd[x] = "open"
      BY <2>1
    <2>3. CASE ~(down[x].shut \/ Left(x))
      <3>1. UNCHANGED SeenRd
        BY <1>0, <2>1, <2>3 DEF EncType
      <3> QED
        BY <2>1, <3>1, PipeStutter DEF Seen
    <2>4. CASE down[x].shut
      <3>1. SeenRd' = [SeenRd EXCEPT ![x] = "eof"]
        BY <1>0, <2>1, <2>4 DEF EncType
      <3>2. PICK s \in Seq(Data), g \in Seq(Data) : s = sent[p] /\ g = got[x]
        BY <1>0, TypeAt
      <3>3. heard[x]
        BY <1>0, <2>4 DEF TasksInv
      <3>4. /\ up[p].shut /\ seq[p] = Len(s) + 1 /\ Follows(g, s, 0)
            /\ Len(g) + Len(down[x].q) = Len(s)
        BY <1>0, <1>p, <2>1, <3>2, <3>3 DEF ReceiverInv
      <3>5. Len(g) = Len(s)
        <4>1. Len(g) + 0 = Len(s)
          BY <1>3, <3>4, EmptyFact
        <4>2. Len(g) \in Nat
          OBVIOUS
        <4> QED
          BY <4>1, <4>2
      <3>6. g = s
        BY <3>4, <3>5, FollowsAll
      <3>7. /\ Shut[Pipe!Other(x)] /\ Taken[x] = Len(sent[Pipe!Other(x)]) + 1
            /\ got[x] = sent[Pipe!Other(x)]
        BY <1>p, <3>2, <3>4, <3>6
      <3>8. Pipe!PipeEof(x)
        BY <2>1, <2>2, <3>1, <3>7 DEF Pipe!PipeEof
      <3> QED
        BY <3>8 DEF Pipe!PipeNext, Pipe!Ends, Ends
    <2>5. CASE ~down[x].shut /\ Left(x)
      <3>1. SeenRd' = [SeenRd EXCEPT ![x] = "err"]
        BY <1>0, <2>1, <2>5 DEF EncType
      <3>2. Failed(x)
        BY <1>0, <2>1, <2>5 DEF TasksInv, Left
      <3>3. Pipe!PipeError(x)
        BY <2>1, <2>2, <3>1, <3>2 DEF Pipe!PipeError, Failed
      <3> QED
        BY <3>3 DEF Pipe!PipeNext, Pipe!Ends, Ends
    <2> QED
      BY <2>3, <2>4, <2>5
  <1> QED
    BY <1>1, <1>2, <1>3

LEMMA PipeTask ==
  ASSUME EncInv, NEW x \in Ends, Task(x)
  PROVE  [Pipe!PipeNext]_(Pipe!pipeVars)
  <1>0. EncType /\ TasksInv(x)
    BY Start
  <1> USE DEF Taken, Shut, Gone, SeenWr, SeenRd
  <1>1. CASE Challenge(x) \/ Hear(x) \/ Confirm(x) \/ Agree(x) \/ Finish(x)
    <2>1. UNCHANGED <<sent, got, wr, rd, progress, up, down, seq>>
      BY <1>1 DEF Challenge, Hear, Confirm, Agree, Finish, userVars
    <2> QED
      BY <2>1, PipeStutter DEF Seen
  <1>2. CASE Seal(x)
    <2>1. UNCHANGED <<sent, got, wr, rd, progress, down, seq>>
      BY <1>2 DEF Seal, userVars
    <2>2. \A e \in Ends : up'[e].shut = up[e].shut
      <3>1. CASE UNCHANGED up
        BY <3>1
      <3>2. CASE up[x].q # <<>> /\ up' = [up EXCEPT ![x].q = Tail(@)]
        <4>1. PICK q \in Seq(Data) : q = up[x].q
          BY <1>0, TypeAt
        <4>2. Tail(q) \in Seq(Data)
          BY <3>2, <4>1, TailFact
        <4>3. up' = [up EXCEPT ![x].q = Tail(q)]
          BY <3>2, <4>1
        <4> QED
          BY <1>0, <4>2, <4>3, UpQueue
      <3> QED
        BY <1>2, <3>1, <3>2 DEF Seal
    <2> QED
      BY <2>1, <2>2, PipeStutter DEF Seen
  <1>3. CASE Emit(x)
    <2>1. PICK p \in Ends : p = Peer(x) /\ Peer(p) = x /\ Pipe!Other(p) = x
      BY PeerFact, OtherFact
    <2>2. /\ sending[x].kind = "data" => seq[x] + 1 <= Len(sent[x])
          /\ sending[x].kind = "last" => seq[x] = Len(sent[x]) /\ up[x].shut
          /\ sending[x].kind \in {"data", "last"}
      BY <1>3, HeldFact DEF Emit
    <2>3. PICK f \in Nat, n \in Nat : f = seq[x] /\ n = Len(sent[x])
      BY <1>0, TypeAt
    <2>4. f < n \/ (f = n /\ up[x].shut)
      BY <2>2, <2>3
    <2>5. Taken[p] < Len(sent[Pipe!Other(p)])
          \/ (Taken[p] = Len(sent[Pipe!Other(p)]) /\ Shut[Pipe!Other(p)])
      BY <2>1, <2>3, <2>4
    <2>6. Taken' = [Taken EXCEPT ![p] = @ + 1]
      <3>1. seq' = [seq EXCEPT ![x] = seq[x] + 1] /\ seq \in [Ends -> Nat]
        BY <1>0, <1>3 DEF Emit, EncType
      <3>2. \A e \in Ends : Peer(e) \in Ends /\ (Peer(e) = x <=> e = p)
        BY <2>1, PeerFact
      <3>3. ASSUME NEW e \in Ends
            PROVE  seq'[Peer(e)] = IF e = p THEN seq[Peer(p)] + 1 ELSE seq[Peer(e)]
        BY <2>1, <3>1, <3>2
      <3> QED
        BY <3>3
    <2>7. UNCHANGED <<sent, got, Shut, Gone, SeenWr, SeenRd>>
      BY <1>3 DEF Emit, userVars
    <2>8. Pipe!PipeTake(p)
      BY <2>5, <2>6, <2>7 DEF Pipe!PipeTake
    <2> QED
      BY <2>8 DEF Pipe!PipeNext, Pipe!Ends, Ends
  <1>4. CASE Count(x)
    <2>1. UNCHANGED <<sent, got, wr, rd, up, down, seq>>
      BY <1>4 DEF Count, userVars
    <2>2. \A e \in Ends : progress'[e].error = progress[e].error
      BY <1>0, <1>4, CountFact
    <2> QED
      BY <2>1, <2>2, PipeStutter DEF Seen
  <1>5. CASE Open(x)
    <2>1. /\ UNCHANGED <<sent, got, wr, rd, progress, up, seq>> /\ task[x] = "on" /\ ~heard[x]
          /\ ~broken /\ wire[x] # <<>>
      BY <1>5 DEF Open, Arrives, userVars
    <2>2. rd[x] # "eof"
      BY <1>0, <2>1 DEF TasksInv
    <2>3. \A e \in Ends : e # x => down'[e].shut = down[e].shut
      BY <1>0, <1>5 DEF Open, EncType
    <2>4. UNCHANGED SeenRd
      <3>1. ASSUME NEW e \in Ends PROVE SeenRd'[e] = SeenRd[e]
        BY <2>1, <2>2, <2>3
      <3> QED
        BY <3>1
    <2> QED
      BY <2>1, <2>4, PipeStutter DEF Seen
  <1>6. CASE Fail(x)
    <2>1. UNCHANGED <<sent, got, wr, rd, down, seq>>
      BY <1>6 DEF Fail, userVars
    <2>2. \A e \in Ends : up'[e].shut = up[e].shut
      BY <1>0, <1>6, EmptyFact, UpQueue DEF Fail
    <2>3. /\ progress' \in [Ends -> Reports] /\ progress'[x].error
          /\ \A y \in Ends : y # x => progress'[y] = progress[y]
      BY <1>0, <1>6, ErrorFact
    <2>4. progress'[x].error = TRUE
      BY <2>3 DEF Reports
    <2>5. ~Gone[x]
      BY <1>0, <1>6 DEF Fail, Fails, TasksInv, Running, Failed
    <2>6. Gone' = [Gone EXCEPT ![x] = TRUE]
      BY <2>3, <2>4
    <2>7. UNCHANGED <<sent, got, Taken, Shut, SeenWr, SeenRd>>
      BY <2>1, <2>2
    <2>8. Pipe!PipeGone(x)
      BY <2>5, <2>6, <2>7 DEF Pipe!PipeGone
    <2> QED
      BY <2>8 DEF Pipe!PipeNext, Pipe!Ends, Ends
  <1> QED
    BY <1>1, <1>2, <1>3, <1>4, <1>5, <1>6 DEF Task

\* Every behaviour of the two ends is a behaviour of the pair of pipes.
THEOREM PipeHolds == Spec => PipeSpec
  <1>1. Init => Pipe!PipeInit
    BY PipeInitFact
  <1>2. EncInv /\ [Next]_vars => [Pipe!PipeNext]_(Pipe!pipeVars)
    <2>1. SUFFICES ASSUME EncInv, [Next]_vars PROVE [Pipe!PipeNext]_(Pipe!pipeVars)
      OBVIOUS
    <2>2. CASE UNCHANGED vars
      <3>1. UNCHANGED <<sent, got, wr, rd, progress, up, down, seq>>
        BY <2>2 DEF vars, userVars
      <3> QED
        BY <3>1, PipeStutter DEF Seen, Taken, Shut, Gone, SeenWr, SeenRd
    <2>3. CASE Break
      <3>1. UNCHANGED <<sent, got, wr, rd, progress, up, down, seq>>
        BY <2>3 DEF Break, userVars
      <3> QED
        BY <3>1, PipeStutter DEF Seen, Taken, Shut, Gone, SeenWr, SeenRd
    <2> QED
      BY <2>1, <2>2, <2>3, PipeUser, PipePoll, PipeReader, PipeTask DEF Next
  <1> QED
    BY <1>1, <1>2, EncInvHolds, PTL DEF Spec, PipeSpec, Pipe!PipeSpec

-----------------------------------------------------------------------------
(* Signed calls *)

Calls == [at : {"none", "asked", "executed", "done", "refused", "lost"}, device : Device \cup {None},
          op : Request \cup {Anew, None}, nonce : Nat]
Pendings == [nonce : Nat, device : Device \cup {None}, op : Request \cup {Anew, None}, expires : Nat]
Tasks == [call : Call, nonce : Nat, device : Device \cup {None}, op : Request \cup {Anew, None}]
Handlers == [call : Call, nonce : Nat]
Things == [nonce : Nat, device : Device \cup {None}, op : Request \cup {Anew, None}]

AskMsgs == [kind : {"ask"}, call : Call]
ChallengeMsgs == [kind : {"challenge"}, call : Call, nonce : Nat]
ExecuteMsgs == [kind : {"execute"}, call : Call, op : Request \cup {Anew, None}]
AnswerMsgs == [kind : {"answer"}, call : Call, result : {"done", "refused"}]
Messages == AskMsgs \cup ChallengeMsgs \cup ExecuteMsgs \cup AnswerMsgs

CallTypes ==
    /\ calls \in [Call -> Calls] /\ messages \in SUBSET Messages
    /\ pending \in SUBSET Pendings /\ IsFiniteSet(pending) /\ Cardinality(pending) <= Capacity
    /\ handlers \in SUBSET Handlers /\ IsFiniteSet(handlers) /\ Cardinality(handlers) <= Slots
    /\ queue \in Seq(Tasks) /\ Len(queue) <= QueueCap
    /\ issued \in Nat /\ clock \in Nat /\ repeats \in Nat
    /\ made \in SUBSET Things /\ receipts \in SUBSET made /\ runs \in SUBSET Tasks

\* A call has been signed for, and is no longer anybody's to sign.
Signed(c) == calls[c].at \notin {"none", "asked"}
IsOf(t, c) == calls[c].nonce = t.nonce /\ calls[c].device = t.device /\ calls[c].op = t.op
IsMade(c) == \E x \in made : x.device = calls[c].device /\ x.op = calls[c].op

MessageInv == \A m \in messages :
    /\ m.kind = "execute" => Signed(m.call)
    /\ m.kind = "answer" => calls[m.call].at # "none"
    /\ m.kind = "answer" /\ m.result = "done" => IsMade(m.call)
DoneInv == \A c \in Call : calls[c].at = "done" => IsMade(c)

\* A nonce is for one challenge that is kept or for one task.
TaskInv(t) == Signed(t.call) /\ IsOf(t, t.call) /\ t.nonce <= issued /\ \A p \in pending : p.nonce # t.nonce
Queued == {queue[i] : i \in DOMAIN queue}
QueueInv ==
    /\ \A t \in Queued : TaskInv(t) /\ \A s \in runs : t.nonce # s.nonce
    /\ \A i, j \in DOMAIN queue : queue[i].nonce = queue[j].nonce => i = j
RunsInv == \A t \in runs : TaskInv(t)
PendingInv == \A p \in pending : p.nonce <= issued
ReceiptInv == \A x, y \in receipts : x.op = y.op /\ x.device = y.device => x = y

CallInv ==
    /\ CallTypes /\ MessageInv /\ DoneInv /\ QueueInv /\ RunsInv /\ PendingInv /\ ReceiptInv
    /\ SlotsAreUsed

LEMMA CallSizes ==
  /\ Ttl \in Nat /\ Capacity \in Nat /\ Slots \in Nat /\ QueueCap \in Nat
  /\ MaxCalls \in Nat /\ MaxRepeats \in Nat /\ MaxClock \in Nat /\ Call \subseteq Nat
  BY LimitsAssumption, CountsAssumption DEF LimitsAssumption, CountsAssumption, Call

LEMMA MessageFact ==
  ASSUME NEW m \in Messages
  PROVE  /\ m.call \in Call /\ m.kind \in {"ask", "challenge", "execute", "answer"}
         /\ m.kind = "challenge" => m.nonce \in Nat
         /\ m.kind = "answer" => m.result \in {"done", "refused"}
         /\ m.kind = "execute" => m.op \in Request \cup {Anew, None}
  <1>1. CASE m \in AskMsgs
    BY <1>1 DEF AskMsgs
  <1>2. CASE m \in ChallengeMsgs
    BY <1>2 DEF ChallengeMsgs
  <1>3. CASE m \in ExecuteMsgs
    BY <1>3 DEF ExecuteMsgs
  <1>4. CASE m \in AnswerMsgs
    BY <1>4 DEF AnswerMsgs
  <1> QED
    BY <1>1, <1>2, <1>3, <1>4 DEF Messages

LEMMA MadeMessages ==
  /\ \A c \in Call : Ask(c) \in Messages /\ Ask(c).kind = "ask"
  /\ \A c \in Call, o \in Request \cup {Anew, None} :
        /\ Execute(c, o) \in Messages /\ Execute(c, o).kind = "execute"
        /\ Execute(c, o).call = c /\ Execute(c, o).op = o
  /\ \A c \in Call, n \in Nat :
        Challenged(c, n) \in Messages /\ Challenged(c, n).kind = "challenge"
  /\ \A c \in Call, r \in {"done", "refused"} :
        /\ Answer(c, r) \in Messages /\ Answer(c, r).kind = "answer"
        /\ Answer(c, r).call = c /\ Answer(c, r).result = r
  BY DEF Ask, Challenged, Execute, Answer, Messages, AskMsgs, ChallengeMsgs, ExecuteMsgs, AnswerMsgs

-----------------------------------------------------------------------------
(* Steps of the client *)

\* A step that moves one call on, and leaves the server alone.
LEMMA ClientKeeps ==
  ASSUME CallInv, NEW c \in Call, NEW k \in Calls, calls' = [calls EXCEPT ![c] = k],
         UNCHANGED <<serverVars, repeats, clock>>, messages' \in SUBSET Messages,
         k.at # "none", Signed(c) => k.at # "asked" /\ k.nonce = calls[c].nonce,
         calls[c].at # "none" => k.device = calls[c].device /\ k.op = calls[c].op,
         k.at = "done" => calls[c].at = "done" \/ (calls[c].at # "none" /\ IsMade(c)),
         \A m \in messages' \ messages :
            m.kind # "answer" /\ (m.kind = "execute" => m.call = c /\ k.at # "asked")
  PROVE  CallInv'
  <1>0. CallTypes
    BY DEF CallInv
  <1>1. calls' \in [Call -> Calls] /\ calls'[c] = k /\ \A d \in Call \ {c} : calls'[d] = calls[d]
    BY <1>0 DEF CallTypes
  <1>2. UNCHANGED <<pending, issued, handlers, queue, receipts, made, runs, repeats, clock>>
    BY DEF serverVars
  <1>3. CallTypes'
    BY <1>0, <1>1, <1>2 DEF CallTypes
  <1>4. ASSUME NEW d \in Call
        PROVE  /\ Signed(d) => Signed(d)' /\ calls'[d].nonce = calls[d].nonce
               /\ calls[d].at # "none" =>
                     /\ calls'[d].at # "none"
                     /\ calls'[d].device = calls[d].device /\ calls'[d].op = calls[d].op
               /\ calls[d].at # "none" /\ IsMade(d) => IsMade(d)'
    <2>1. CASE d = c
      BY <1>1, <1>2, <2>1 DEF Signed, IsMade
    <2>2. CASE d # c
      BY <1>1, <1>2, <2>2 DEF Signed, IsMade
    <2> QED
      BY <2>1, <2>2
  <1>5. MessageInv'
    <2> SUFFICES ASSUME NEW m \in messages'
                 PROVE  /\ m.kind = "execute" => Signed(m.call)'
                        /\ m.kind = "answer" => calls'[m.call].at # "none"
                        /\ m.kind = "answer" /\ m.result = "done" => IsMade(m.call)'
      BY DEF MessageInv
    <2>1. m.call \in Call
      BY MessageFact
    <2>2. CASE m \in messages
      <3>1. /\ m.kind = "execute" => Signed(m.call)
            /\ m.kind = "answer" => calls[m.call].at # "none"
            /\ m.kind = "answer" /\ m.result = "done" => IsMade(m.call)
        BY <2>2 DEF CallInv, MessageInv
      <3> QED
        BY <1>4, <2>1, <3>1
    <2>3. CASE m \notin messages
      BY <1>1, <2>3 DEF Signed
    <2> QED
      BY <2>2, <2>3
  <1>6. DoneInv'
    <2> SUFFICES ASSUME NEW d \in Call, calls'[d].at = "done" PROVE IsMade(d)'
      BY DEF DoneInv
    <2>1. calls[d].at # "none" /\ IsMade(d)
      BY <1>1 DEF CallInv, DoneInv
    <2> QED
      BY <1>4, <2>1
  <1>7. ASSUME NEW t \in Tasks, TaskInv(t) PROVE TaskInv(t)'
    <2>1. t.call \in Call /\ calls[t.call].at # "none"
      BY <1>7 DEF Tasks, TaskInv, Signed
    <2> QED
      BY <1>2, <1>4, <1>7, <2>1 DEF TaskInv, IsOf
  <1>8. QueueInv' /\ RunsInv'
    <2>1. Queued \subseteq Tasks /\ Queued' = Queued
      BY <1>0, <1>2 DEF CallTypes, Queued
    <2>2. \A t \in runs : t \in Tasks
      BY <1>0 DEF CallTypes
    <2> QED
      BY <1>2, <1>7, <2>1, <2>2 DEF CallInv, QueueInv, RunsInv
  <1>9. PendingInv' /\ ReceiptInv' /\ SlotsAreUsed'
    BY <1>2 DEF CallInv, PendingInv, ReceiptInv, SlotsAreUsed
  <1> QED
    BY <1>3, <1>5, <1>6, <1>8, <1>9 DEF CallInv

LEMMA BeginKeeps ==
  ASSUME CallInv, NEW c \in Call, Begin(c)
  PROVE  CallInv'
  <1>1. PICK d \in Device, op \in Request \cup {Anew} :
           calls' = [calls EXCEPT ![c] = [at |-> "asked", device |-> d, op |-> op, nonce |-> 0]]
    BY DEF Begin
  <1> DEFINE k == [at |-> "asked", device |-> d, op |-> op, nonce |-> 0]
  <1>2. k \in Calls /\ k.at = "asked"
    BY DEF Calls
  <1>3. calls' = [calls EXCEPT ![c] = k]
    BY <1>1
  <1> HIDE DEF k
  <1>4. calls[c].at = "none" /\ ~Signed(c)
    BY DEF Begin, NoCall, Signed
  <1>5. messages' = messages \cup {Ask(c)} /\ UNCHANGED <<serverVars, repeats, clock>>
    BY DEF Begin
  <1>6. messages' \in SUBSET Messages /\ \A m \in messages' \ messages : m.kind = "ask"
    BY <1>5, MadeMessages DEF CallInv, CallTypes
  <1> QED
    BY <1>2, <1>3, <1>4, <1>5, <1>6, ClientKeeps

LEMMA SignKeeps ==
  ASSUME CallInv, NEW m \in messages, Sign(m)
  PROVE  CallInv'
  <1>1. m \in Messages /\ messages \subseteq Messages /\ calls \in [Call -> Calls]
    BY DEF CallInv, CallTypes
  <1>2. m.call \in Call /\ m.nonce \in Nat
    BY <1>1, MessageFact DEF Sign
  <1>3. PICK c \in Call : c = m.call
    BY <1>2
  <1>4. PICK b \in Calls : b = calls[c]
    BY <1>1, <1>3
  <1> DEFINE k == [b EXCEPT !.at = "executed", !.nonce = m.nonce]
  <1>5. k \in Calls /\ k.at = "executed" /\ k.device = b.device /\ k.op = b.op
    BY <1>2 DEF Calls
  <1>6. calls' = [calls EXCEPT ![c] = k]
    BY <1>1, <1>3, <1>4 DEF Sign
  <1> HIDE DEF k
  <1>7. calls[c].at = "asked" /\ ~Signed(c)
    BY <1>3 DEF Sign, Signed
  <1>8. /\ messages' = (messages \ {m}) \cup {Execute(c, b.op)}
        /\ b.op \in Request \cup {Anew, None}
        /\ UNCHANGED <<serverVars, repeats, clock>>
    BY <1>3, <1>4 DEF Sign, Calls
  <1>9. /\ messages' \in SUBSET Messages
        /\ \A n \in messages' \ messages : n.kind = "execute" /\ n.call = c
    <2> DEFINE e == Execute(c, b.op)
    <2>1. e \in Messages /\ e.kind = "execute" /\ e.call = c
      BY <1>8, MadeMessages
    <2>2. messages' = (messages \ {m}) \cup {e}
      BY <1>8
    <2> HIDE DEF e
    <2> QED
      BY <1>1, <2>1, <2>2
  <1>10. /\ k.at # "none" /\ (Signed(c) => k.at # "asked" /\ k.nonce = calls[c].nonce)
         /\ calls[c].at # "none" => k.device = calls[c].device /\ k.op = calls[c].op
         /\ k.at # "done"
    BY <1>4, <1>5, <1>7
  <1>11. \A n \in messages' \ messages :
            n.kind # "answer" /\ (n.kind = "execute" => n.call = c /\ k.at # "asked")
    BY <1>5, <1>9
  <1>12. messages' \in SUBSET Messages /\ UNCHANGED <<serverVars, repeats, clock>>
    BY <1>8, <1>9
  <1> QED
    BY <1>5, <1>6, <1>10, <1>11, <1>12, ClientKeeps

LEMMA HearKeeps ==
  ASSUME CallInv, NEW m \in messages, HearAnswer(m)
  PROVE  CallInv'
  <1>1. m \in Messages /\ messages \subseteq Messages /\ calls \in [Call -> Calls]
    BY DEF CallInv, CallTypes
  <1>2. m.call \in Call /\ m.result \in {"done", "refused"}
    BY <1>1, MessageFact DEF HearAnswer
  <1>3. PICK c \in Call : c = m.call
    BY <1>2
  <1>4. PICK b \in Calls : b = calls[c]
    BY <1>1, <1>3
  <1> DEFINE k == [b EXCEPT !.at = m.result]
  <1>5. k \in Calls /\ k.at = m.result /\ k.device = b.device /\ k.op = b.op /\ k.nonce = b.nonce
    BY <1>2 DEF Calls
  <1>6. calls' = [calls EXCEPT ![c] = k]
    BY <1>1, <1>3, <1>4 DEF HearAnswer
  <1> HIDE DEF k
  <1>7. calls[c].at # "none" /\ (m.result = "done" => IsMade(c))
    BY <1>3 DEF HearAnswer, CallInv, MessageInv
  <1>8. messages' = messages \ {m} /\ UNCHANGED <<serverVars, repeats, clock>>
    BY DEF HearAnswer
  <1>9. messages' \in SUBSET Messages /\ messages' \ messages = {}
    BY <1>1, <1>8
  <1> QED
    BY <1>2, <1>4, <1>5, <1>6, <1>7, <1>8, <1>9, ClientKeeps

LEMMA GiveUpKeeps ==
  ASSUME CallInv, NEW c \in Call, GiveUp(c)
  PROVE  CallInv'
  <1>1. messages \subseteq Messages /\ calls \in [Call -> Calls]
    BY DEF CallInv, CallTypes
  <1>2. PICK b \in Calls : b = calls[c]
    BY <1>1
  <1> DEFINE k == [b EXCEPT !.at = "lost"]
  <1>3. k \in Calls /\ k.at = "lost" /\ k.device = b.device /\ k.op = b.op /\ k.nonce = b.nonce
    BY DEF Calls
  <1>4. calls' = [calls EXCEPT ![c] = k]
    BY <1>1, <1>2 DEF GiveUp
  <1> HIDE DEF k
  <1>5. messages' \subseteq messages /\ UNCHANGED <<serverVars, repeats, clock>>
    BY DEF GiveUp
  <1>6. messages' \in SUBSET Messages /\ messages' \ messages = {}
    BY <1>1, <1>5
  <1> QED
    BY <1>2, <1>3, <1>4, <1>5, <1>6, ClientKeeps

-----------------------------------------------------------------------------
(* Steps of the server *)

LEMMA MessagesKeep ==
  ASSUME CallInv, calls' = calls, made \subseteq made', messages' \in SUBSET Messages,
         \A m \in messages' \ messages :
            /\ m.kind # "execute"
            /\ m.kind = "answer" => calls[m.call].at # "none" /\ (m.result = "done" => IsMade(m.call)')
  PROVE  MessageInv' /\ DoneInv'
  <1>1. \A c \in Call : (IsMade(c) => IsMade(c)') /\ (Signed(c)' <=> Signed(c))
    BY DEF IsMade, Signed
  <1>2. MessageInv'
    <2> SUFFICES ASSUME NEW m \in messages'
                 PROVE  /\ m.kind = "execute" => Signed(m.call)'
                        /\ m.kind = "answer" => calls'[m.call].at # "none"
                        /\ m.kind = "answer" /\ m.result = "done" => IsMade(m.call)'
      BY DEF MessageInv
    <2>1. m.call \in Call
      BY MessageFact
    <2> QED
      BY <1>1, <2>1 DEF CallInv, MessageInv
  <1>3. DoneInv'
    BY <1>1 DEF CallInv, DoneInv
  <1> QED
    BY <1>2, <1>3

LEMMA TaskKeeps ==
  ASSUME CallInv, calls' = calls, issued' \in Nat, issued <= issued',
         \A p \in pending' : p \in pending \/ p.nonce > issued,
         NEW t \in Tasks, TaskInv(t)
  PROVE  TaskInv(t)'
  <1>1. issued \in Nat /\ t.nonce \in Nat
    BY DEF CallInv, CallTypes, Tasks
  <1>2. Signed(t.call)' /\ IsOf(t, t.call)'
    BY DEF TaskInv, Signed, IsOf
  <1>3. t.nonce <= issued /\ \A p \in pending : p.nonce # t.nonce
    BY DEF TaskInv
  <1>4. t.nonce <= issued'
    BY <1>1, <1>3
  <1>5. \A p \in pending' : p.nonce # t.nonce
    BY <1>1, <1>3
  <1> QED
    BY <1>2, <1>4, <1>5 DEF TaskInv

\* A step that changes neither a call, a challenge nor a task.
LEMMA TasksKeep ==
  ASSUME CallInv, UNCHANGED <<calls, pending, issued, queue, runs>>
  PROVE  QueueInv' /\ RunsInv' /\ PendingInv'
  BY DEF CallInv, QueueInv, Queued, RunsInv, PendingInv, TaskInv, IsOf, Signed

LEMMA AlterKeeps ==
  ASSUME CallInv, NEW m \in messages, Alter(m)
  PROVE  CallInv'
  <1>1. PICK op \in Request \cup {Anew, None} : messages' = (messages \ {m}) \cup {Execute(m.call, op)}
    BY DEF Alter
  <1>2. /\ m.kind = "execute" /\ repeats' = repeats + 1
        /\ UNCHANGED <<calls, pending, issued, handlers, queue, receipts, made, runs, clock>>
    BY DEF Alter, clientVars, serverVars
  <1>3. CallTypes /\ m \in Messages /\ repeats' \in Nat
    BY <1>2 DEF CallInv, CallTypes
  <1>4. m.call \in Call /\ Signed(m.call)
    BY <1>2, <1>3, MessageFact DEF CallInv, MessageInv
  <1> DEFINE e == Execute(m.call, op)
  <1>5. e \in Messages /\ e.kind = "execute" /\ e.call = m.call
    BY <1>4, MadeMessages
  <1>6. messages' = (messages \ {m}) \cup {e}
    BY <1>1
  <1> HIDE DEF e
  <1>7. CallTypes'
    BY <1>2, <1>3, <1>5, <1>6 DEF CallTypes
  <1>8. MessageInv' /\ DoneInv'
    BY <1>2, <1>4, <1>5, <1>6 DEF CallInv, MessageInv, DoneInv, Signed, IsMade
  <1>9. ReceiptInv' /\ SlotsAreUsed'
    BY <1>2 DEF CallInv, ReceiptInv, SlotsAreUsed
  <1> QED
    BY <1>2, <1>7, <1>8, <1>9, TasksKeep DEF CallInv

LEMMA ForgetKeeps ==
  ASSUME CallInv, NEW x \in receipts, Forget(x)
  PROVE  CallInv'
  <1>1. /\ receipts' = receipts \ {x}
        /\ UNCHANGED <<calls, messages, pending, issued, handlers, queue, made, runs, repeats, clock>>
    BY DEF Forget, clientVars
  <1>2. CallTypes'
    BY <1>1 DEF CallInv, CallTypes
  <1>3. MessageInv' /\ DoneInv'
    BY <1>1 DEF CallInv, MessageInv, DoneInv, Signed, IsMade
  <1>4. ReceiptInv' /\ SlotsAreUsed'
    BY <1>1 DEF CallInv, ReceiptInv, SlotsAreUsed
  <1> QED
    BY <1>1, <1>2, <1>3, <1>4, TasksKeep DEF CallInv

LEMMA TakenMessage ==
  ASSUME CallTypes, NEW m, NEW answers \in SUBSET Messages, Take(m, answers)
  PROVE  /\ messages' \in SUBSET Messages /\ repeats' \in Nat
         /\ \A n \in messages' \ messages : n \in answers /\ Waits(n.call)
  BY DEF CallTypes, Take, Heard

LEMMA RefuseFact ==
  ASSUME CallTypes, NEW m \in Messages, Refuse(m)
  PROVE  /\ messages' \in SUBSET Messages /\ repeats' \in Nat
         /\ \A n \in messages' \ messages :
               n.kind = "answer" /\ n.result = "refused" /\ calls[n.call].at # "none"
  <1>1. m.call \in Call
    BY MessageFact
  <1> DEFINE a == Answer(m.call, "refused")
  <1>2. a \in Messages /\ a.kind = "answer" /\ a.result = "refused"
    BY <1>1, MadeMessages
  <1>3. Take(m, {a})
    BY DEF Refuse
  <1> HIDE DEF a
  <1> QED
    BY <1>2, <1>3, TakenMessage DEF Waits

LEMMA IssueKeeps ==
  ASSUME CallInv, NEW m \in messages, Issue(m)
  PROVE  CallInv'
  <1>0. CallTypes /\ m \in Messages
    BY DEF CallInv, CallTypes
  <1>1. UNCHANGED <<calls, handlers, queue, receipts, made, runs, clock>>
    BY DEF Issue, clientVars
  <1> DEFINE kept == {p \in pending : p.expires > clock}
             c == calls[m.call]
             new == [nonce |-> issued + 1, device |-> c.device, op |-> c.op, expires |-> clock + Ttl]
  <1>2. IsFiniteSet(kept) /\ kept \subseteq pending /\ Cardinality(kept) \in Nat
        /\ Cardinality(kept) <= Cardinality(pending) /\ Cardinality(pending) \in Nat
    BY <1>0, FS_Subset, FS_CardinalityType DEF CallTypes
  <1>3. m.call \in Call /\ issued \in Nat /\ clock \in Nat
    BY <1>0, MessageFact DEF CallTypes
  <1>4. c.device \in Device \cup {None} /\ c.op \in Request \cup {Anew, None}
    BY <1>0, <1>3 DEF CallTypes, Calls
  <1>5. new \in Pendings /\ new.nonce = issued + 1
    BY <1>3, <1>4, CallSizes DEF Pendings
  <1>6. \/ Refuse(m) /\ pending' = pending /\ issued' = issued
        \/ Refuse(m) /\ pending' = kept /\ issued' = issued
        \/ /\ ~(Cardinality(kept) >= Capacity) /\ issued' = issued + 1
           /\ pending' = kept \cup {new} /\ Take(m, {Challenged(m.call, issued + 1)})
    BY DEF Issue
  <1> HIDE DEF kept, new, c
  <1>7. /\ messages' \in SUBSET Messages /\ repeats' \in Nat
        /\ \A n \in messages' \ messages :
              /\ n.kind # "execute"
              /\ n.kind = "answer" => calls[n.call].at # "none" /\ n.result # "done"
    <2>1. CASE Refuse(m)
      BY <1>0, <2>1, RefuseFact
    <2>2. CASE Take(m, {Challenged(m.call, issued + 1)})
      <3> DEFINE a == Challenged(m.call, issued + 1)
      <3>1. a \in Messages /\ a.kind = "challenge"
        BY <1>3, MadeMessages
      <3>2. Take(m, {a})
        BY <2>2
      <3> HIDE DEF a
      <3> QED
        BY <1>0, <3>1, <3>2, TakenMessage
    <2> QED
      BY <1>6, <2>1, <2>2
  <1>8. /\ pending' \in SUBSET Pendings /\ IsFiniteSet(pending') /\ Cardinality(pending') <= Capacity
        /\ issued' \in Nat /\ issued <= issued'
        /\ \A p \in pending' : p \in pending \/ (p.nonce > issued /\ p.nonce <= issued')
    <2>1. CASE pending' = pending /\ issued' = issued
      BY <1>0, <1>3, <2>1 DEF CallTypes
    <2>2. CASE pending' = kept /\ issued' = issued
      BY <1>0, <1>2, <1>3, <2>2, CallSizes DEF CallTypes
    <2>3. CASE ~(Cardinality(kept) >= Capacity) /\ issued' = issued + 1 /\ pending' = kept \cup {new}
      <3>1. IsFiniteSet(kept \cup {new}) /\ Cardinality(kept \cup {new}) <= Cardinality(kept) + 1
        <4>1. /\ IsFiniteSet(kept \cup {new})
              /\ Cardinality(kept \cup {new}) \in {Cardinality(kept), Cardinality(kept) + 1}
          BY <1>2, FS_AddElement
        <4> QED
          BY <1>2, <4>1
      <3>2. Cardinality(kept \cup {new}) \in Nat
        BY <3>1, FS_CardinalityType
      <3>3. Cardinality(kept \cup {new}) <= Capacity
        BY <1>2, <2>3, <3>1, <3>2, CallSizes
      <3>4. kept \cup {new} \in SUBSET Pendings
        BY <1>0, <1>2, <1>5 DEF CallTypes
      <3> QED
        BY <1>2, <1>3, <1>5, <2>3, <3>1, <3>3, <3>4
    <2> QED
      BY <1>6, <2>1, <2>2, <2>3
  <1>9. CallTypes'
    BY <1>0, <1>1, <1>7, <1>8 DEF CallTypes
  <1>10. MessageInv' /\ DoneInv'
    BY <1>1, <1>7, MessagesKeep
  <1>11. QueueInv' /\ RunsInv'
    <2>1. /\ \A t \in Queued : t \in Tasks /\ TaskInv(t)
          /\ Queued' = Queued
      BY <1>0, <1>1 DEF CallTypes, CallInv, QueueInv, Queued
    <2>2. \A t \in runs : t \in Tasks /\ TaskInv(t)
      BY <1>0 DEF CallTypes, CallInv, RunsInv
    <2>3. \A t \in Tasks : TaskInv(t) => TaskInv(t)'
      BY <1>1, <1>8, TaskKeeps
    <2> QED
      BY <1>1, <2>1, <2>2, <2>3 DEF CallInv, QueueInv, RunsInv
  <1>12. PendingInv'
    <2> SUFFICES ASSUME NEW p \in pending' PROVE p.nonce <= issued'
      BY DEF PendingInv
    <2>1. CASE p \in pending
      <3>1. p.nonce \in Nat /\ p.nonce <= issued
        BY <1>0, <2>1 DEF CallTypes, Pendings, CallInv, PendingInv
      <3> QED
        BY <1>3, <1>8, <3>1
    <2> QED
      BY <1>8, <2>1
  <1>13. ReceiptInv' /\ SlotsAreUsed'
    BY <1>1 DEF CallInv, ReceiptInv, SlotsAreUsed
  <1> QED
    BY <1>9, <1>10, <1>11, <1>12, <1>13 DEF CallInv

\* A task for a challenge that is consumed with it.
LEMMA AcceptFact ==
  ASSUME CallInv, NEW t \in Tasks, TaskInv(t)',
         calls' = calls, UNCHANGED <<issued, runs>>, pending' \subseteq pending,
         queue' = Append(queue, t), NEW p \in pending, p.nonce = t.nonce
  PROVE  QueueInv' /\ RunsInv'
  <1>0. CallTypes /\ issued \in Nat
    BY DEF CallInv, CallTypes
  <1>1. \A s \in Tasks : TaskInv(s) => TaskInv(s)'
    BY <1>0, TaskKeeps
  <1>2. queue \in Seq(Tasks) /\ runs \subseteq Tasks
    BY <1>0 DEF CallTypes
  <1>3. /\ Len(queue) \in Nat /\ DOMAIN queue = 1..Len(queue) /\ DOMAIN queue' = 1..(Len(queue) + 1)
        /\ \A i \in 1..Len(queue) : queue'[i] = queue[i] /\ queue[i] \in Tasks
        /\ queue'[Len(queue) + 1] = t
    BY <1>2
  <1>4. /\ \A s \in Queued : TaskInv(s) /\ \A x \in runs : s.nonce # x.nonce
        /\ \A i \in 1..Len(queue) : queue[i] \in Queued
        /\ \A i, j \in 1..Len(queue) : queue[i].nonce = queue[j].nonce => i = j
        /\ \A s \in runs : TaskInv(s)
    BY <1>3 DEF CallInv, QueueInv, RunsInv, Queued
  <1>5. \A s : TaskInv(s) => s.nonce # t.nonce
    BY DEF TaskInv
  <1>6. RunsInv'
    BY <1>1, <1>2, <1>4 DEF RunsInv
  <1>7. ASSUME NEW s \in Queued' PROVE TaskInv(s)' /\ \A x \in runs' : s.nonce # x.nonce
    <2>1. s = t \/ (s \in Queued /\ s \in Tasks)
      BY <1>3 DEF Queued
    <2>2. CASE s \in Queued /\ s \in Tasks
      BY <1>1, <1>4, <2>2
    <2>3. CASE s = t
      BY <1>4, <1>5, <2>3
    <2> QED
      BY <2>1, <2>2, <2>3
  <1>8. ASSUME NEW i \in 1..(Len(queue) + 1), NEW j \in 1..(Len(queue) + 1),
               queue'[i].nonce = queue'[j].nonce
        PROVE  i = j
    <2>1. CASE i \in 1..Len(queue) /\ j \in 1..Len(queue)
      BY <1>3, <1>4, <1>8, <2>1
    <2>2. CASE i \in 1..Len(queue) /\ j = Len(queue) + 1
      BY <1>3, <1>4, <1>5, <1>8, <2>2
    <2>3. CASE i = Len(queue) + 1 /\ j \in 1..Len(queue)
      BY <1>3, <1>4, <1>5, <1>8, <2>3
    <2> QED
      BY <1>3, <2>1, <2>2, <2>3
  <1> QED
    BY <1>3, <1>6, <1>7, <1>8 DEF QueueInv

LEMMA VerifyKeeps ==
  ASSUME CallInv, NEW m \in messages, Verify(m)
  PROVE  CallInv'
  <1>0. CallTypes /\ m \in Messages /\ m.kind = "execute" /\ PendingInv
    BY DEF CallInv, CallTypes, Verify
  <1>1. UNCHANGED <<calls, issued, receipts, made, runs, clock>>
    BY DEF Verify, clientVars
  <1>2. m.call \in Call /\ issued \in Nat /\ Signed(m.call) /\ m.op \in Request \cup {Anew, None}
    BY <1>0, MessageFact DEF CallTypes, CallInv, MessageInv
  <1>3. PICK c \in Calls : c = calls[m.call]
    BY <1>0, <1>2 DEF CallTypes
  <1> DEFINE t == [call |-> m.call, nonce |-> c.nonce, device |-> c.device, op |-> m.op]
             h == [call |-> m.call, nonce |-> c.nonce]
  <1>4. /\ t \in Tasks /\ t.call = m.call /\ t.nonce = c.nonce /\ t.device = c.device /\ t.op = m.op
        /\ h \in Handlers /\ h.call = t.call /\ h.nonce = t.nonce
    BY <1>2, <1>3 DEF Tasks, Handlers, Calls
  <1>5. \/ Refuse(m) /\ UNCHANGED <<handlers, queue>> /\ pending' \in {pending, Consumed(c.nonce)}
        \/ /\ ~Busy /\ pending' = Consumed(c.nonce) /\ Proven(c, m.op) /\ Len(queue) < QueueCap
           /\ queue' = Append(queue, t) /\ handlers' = handlers \cup {h} /\ Take(m, {})
    BY <1>3 DEF Verify
  <1> HIDE DEF t, h
  <1>6. /\ messages' \in SUBSET Messages /\ repeats' \in Nat
        /\ \A n \in messages' \ messages :
              n.kind = "answer" /\ n.result = "refused" /\ calls[n.call].at # "none"
    <2>1. CASE Refuse(m)
      BY <1>0, <2>1, RefuseFact
    <2>2. CASE Take(m, {})
      <3>1. {} \in SUBSET Messages
        OBVIOUS
      <3> QED
        BY <1>0, <2>2, <3>1, TakenMessage
    <2> QED
      BY <1>5, <2>1, <2>2
  <1>7. MessageInv' /\ DoneInv'
    BY <1>1, <1>6, MessagesKeep
  <1>8. pending' \subseteq pending
    BY <1>5 DEF Consumed
  <1>9. IsFiniteSet(pending') /\ Cardinality(pending') <= Capacity /\ pending' \in SUBSET Pendings
    <2>1. /\ IsFiniteSet(pending') /\ Cardinality(pending') <= Cardinality(pending)
          /\ Cardinality(pending) \in Nat /\ Cardinality(pending') \in Nat
      BY <1>0, <1>8, FS_Subset, FS_CardinalityType DEF CallTypes
    <2> QED
      BY <1>0, <1>8, <2>1, CallSizes DEF CallTypes
  <1>10. PendingInv' /\ ReceiptInv'
    BY <1>1, <1>8 DEF CallInv, PendingInv, ReceiptInv
  <1>11. CASE UNCHANGED <<handlers, queue>>
    <2>1. CallTypes'
      BY <1>0, <1>1, <1>6, <1>9, <1>11 DEF CallTypes
    <2>2. \A s \in Tasks : TaskInv(s) => TaskInv(s)'
      BY <1>1, <1>2, <1>8, TaskKeeps
    <2>3. Queued \subseteq Tasks /\ Queued' = Queued /\ \A s \in runs : s \in Tasks
      BY <1>0, <1>11 DEF CallTypes, Queued
    <2>4. QueueInv' /\ RunsInv'
      BY <1>1, <1>11, <2>2, <2>3 DEF CallInv, QueueInv, RunsInv
    <2>5. SlotsAreUsed'
      BY <1>11 DEF CallInv, SlotsAreUsed
    <2> QED
      BY <1>7, <1>10, <2>1, <2>4, <2>5 DEF CallInv
  <1>12. CASE /\ ~Busy /\ pending' = Consumed(c.nonce) /\ Proven(c, m.op) /\ Len(queue) < QueueCap
              /\ queue' = Append(queue, t) /\ handlers' = handlers \cup {h}
    <2>1. /\ queue \in Seq(Tasks) /\ queue' \in Seq(Tasks) /\ Len(queue') = Len(queue) + 1
          /\ Len(queue') <= QueueCap /\ queue'[Len(queue) + 1] = t
          /\ \A i \in DOMAIN queue : i \in DOMAIN queue' /\ queue'[i] = queue[i]
          /\ Len(queue) + 1 \in DOMAIN queue'
      BY <1>0, <1>4, <1>12, CallSizes DEF CallTypes
    <2>2. /\ IsFiniteSet(handlers') /\ Cardinality(handlers') <= Slots /\ handlers' \in SUBSET Handlers
      <3>1. /\ IsFiniteSet(handlers) /\ Cardinality(handlers) \in Nat
            /\ ~(Cardinality(handlers) >= Slots) /\ handlers \subseteq Handlers
        BY <1>0, <1>12, FS_CardinalityType DEF CallTypes, Busy
      <3>2. IsFiniteSet(handlers') /\ Cardinality(handlers') <= Cardinality(handlers) + 1
        <4>1. /\ IsFiniteSet(handlers')
              /\ Cardinality(handlers') \in {Cardinality(handlers), Cardinality(handlers) + 1}
          BY <1>12, <3>1, FS_AddElement
        <4> QED
          BY <3>1, <4>1
      <3>3. Cardinality(handlers') \in Nat
        BY <3>2, FS_CardinalityType
      <3> QED
        BY <1>4, <1>12, <3>1, <3>2, <3>3, CallSizes
    <2>3. CallTypes'
      BY <1>0, <1>1, <1>6, <1>9, <2>1, <2>2 DEF CallTypes
    <2>4. PICK p \in pending : p.nonce = t.nonce
      BY <1>4, <1>12 DEF Proven
    <2>5. TaskInv(t)'
      <3>1. p.nonce <= issued
        BY <1>0, <2>4 DEF PendingInv
      <3>2. \A q \in pending' : q.nonce # t.nonce
        BY <1>4, <1>12 DEF Consumed
      <3>3. t.op = c.op
        BY <1>4, <1>12 DEF Proven
      <3>4. Signed(t.call)' /\ IsOf(t, t.call)'
        BY <1>1, <1>2, <1>3, <1>4, <3>3 DEF Signed, IsOf
      <3> QED
        BY <1>1, <2>4, <3>1, <3>2, <3>4 DEF TaskInv
    <2>6. QueueInv' /\ RunsInv'
      BY <1>1, <1>4, <1>8, <1>12, <2>4, <2>5, AcceptFact
    <2>7. SlotsAreUsed'
      <3> SUFFICES ASSUME NEW g \in handlers'
                   PROVE  \E i \in DOMAIN queue' : queue'[i].call = g.call /\ queue'[i].nonce = g.nonce
        BY DEF SlotsAreUsed
      <3>1. CASE g \in handlers
        <4>1. PICK i \in DOMAIN queue : queue[i].call = g.call /\ queue[i].nonce = g.nonce
          BY <3>1 DEF CallInv, SlotsAreUsed
        <4> QED
          BY <2>1, <4>1
      <3>2. CASE g = h
        BY <1>4, <2>1, <3>2
      <3> QED
        BY <1>12, <3>1, <3>2
    <2> QED
      BY <1>7, <1>10, <2>3, <2>6, <2>7 DEF CallInv
  <1> QED
    BY <1>5, <1>11, <1>12

LEMMA RunTaskKeeps ==
  ASSUME CallInv, RunTask
  PROVE  CallInv'
  <1>0. CallTypes /\ queue \in Seq(Tasks) /\ queue # <<>>
    BY DEF CallInv, CallTypes, RunTask
  <1>1. UNCHANGED <<calls, pending, issued, repeats, clock>> /\ queue' = Tail(queue)
    BY DEF RunTask, clientVars
  <1>2. /\ Head(queue) = queue[1] /\ queue[1] \in Tasks /\ 1 \in DOMAIN queue /\ Len(queue) \in Nat
        /\ queue' \in Seq(Tasks) /\ Len(queue') = Len(queue) - 1 /\ DOMAIN queue' = 1..(Len(queue) - 1)
        /\ \A i \in DOMAIN queue' : queue'[i] = queue[i + 1] /\ i + 1 \in DOMAIN queue
        /\ \A i \in DOMAIN queue : i # 1 => i - 1 \in DOMAIN queue' /\ queue'[i - 1] = queue[i]
    BY <1>0, <1>1
  <1>3. PICK t \in Tasks : t = queue[1]
    BY <1>2
  <1> DEFINE h == [call |-> t.call, nonce |-> t.nonce]
             x == [nonce |-> t.nonce, device |-> t.device, op |-> t.op]
  <1>4. /\ x \in Things /\ x.device = t.device /\ x.op = t.op
        /\ h.call = t.call /\ h.nonce = t.nonce
    BY DEF Things, Tasks
  <1>5. PICK r \in {"done", "refused"} :
           /\ runs' = runs \cup {t} /\ handlers' = handlers \ {h}
           /\ \/ MadeBefore(t) /\ UNCHANGED <<receipts, made>>
              \/ /\ ~MadeBefore(t) /\ made' = made \cup {x}
                 /\ receipts' = IF t.op = Anew THEN receipts ELSE receipts \cup {x}
              \/ r = "refused" /\ UNCHANGED <<receipts, made>>
           /\ messages' = IF h \in handlers THEN messages \cup Heard({Answer(t.call, r)}) ELSE messages
    BY <1>2, <1>3 DEF RunTask, Make
  <1>6. \A g : g \in Handlers /\ g.call = h.call /\ g.nonce = h.nonce => g = h
    BY DEF Handlers
  <1> HIDE DEF h, x
  <1>7. TaskInv(t) /\ t.call \in Call
    BY <1>2, <1>3 DEF CallInv, QueueInv, Queued, Tasks
  <1>8. /\ r = "done" => IsMade(t.call)'
        /\ made \subseteq made' /\ made' \in SUBSET Things /\ receipts' \in SUBSET made'
    <2>1. made \subseteq made' /\ made' \in SUBSET Things /\ receipts' \in SUBSET made'
      BY <1>0, <1>4, <1>5 DEF CallTypes
    <2>2. r = "done" => \E y \in made' : y.device = t.device /\ y.op = t.op
      BY <1>0, <1>4, <1>5 DEF MadeBefore, CallTypes
    <2>3. calls'[t.call].device = t.device /\ calls'[t.call].op = t.op
      BY <1>1, <1>7 DEF TaskInv, IsOf
    <2> QED
      BY <2>1, <2>2, <2>3 DEF IsMade
  <1>9. /\ messages' \in SUBSET Messages
        /\ \A n \in messages' \ messages :
              n.kind = "answer" /\ n.call = t.call /\ n.result = r /\ calls[n.call].at # "none"
    <2> DEFINE a == Answer(t.call, r)
    <2>1. a \in Messages /\ a.kind = "answer" /\ a.call = t.call /\ a.result = r
      BY <1>7, MadeMessages
    <2>2. messages' \ messages \subseteq Heard({a}) /\ messages' \subseteq messages \cup Heard({a})
      BY <1>5
    <2> HIDE DEF a
    <2> QED
      BY <1>0, <2>1, <2>2 DEF Heard, Waits, CallTypes
  <1>10. MessageInv' /\ DoneInv'
    BY <1>1, <1>8, <1>9, MessagesKeep
  <1>11. /\ IsFiniteSet(handlers') /\ Cardinality(handlers') <= Slots /\ handlers' \in SUBSET Handlers
    <2>1. /\ IsFiniteSet(handlers') /\ Cardinality(handlers') <= Cardinality(handlers)
          /\ Cardinality(handlers) \in Nat /\ Cardinality(handlers') \in Nat
      BY <1>0, <1>5, FS_Subset, FS_CardinalityType DEF CallTypes
    <2> QED
      BY <1>0, <1>5, <2>1, CallSizes DEF CallTypes
  <1>12. CallTypes'
    <2>1. Len(queue') <= QueueCap
      BY <1>0, <1>2, CallSizes DEF CallTypes
    <2> QED
      BY <1>0, <1>1, <1>2, <1>5, <1>8, <1>9, <1>11, <2>1 DEF CallTypes
  <1>13. \A s \in Tasks : TaskInv(s) => TaskInv(s)'
    BY <1>0, <1>1, TaskKeeps DEF CallTypes
  <1>14. Queued \subseteq Tasks /\ \A s \in Queued : TaskInv(s)
    BY <1>0 DEF CallInv, QueueInv, Queued
  <1>15. RunsInv'
    <2>1. \A s \in runs : s \in Tasks /\ TaskInv(s)
      BY <1>0 DEF CallTypes, CallInv, RunsInv
    <2> QED
      BY <1>5, <1>7, <1>13, <2>1 DEF RunsInv
  <1>16. QueueInv'
    <2>1. \A i, j \in DOMAIN queue : queue[i].nonce = queue[j].nonce => i = j
      BY DEF CallInv, QueueInv
    <2>2. ASSUME NEW s \in Queued' PROVE TaskInv(s)' /\ \A y \in runs' : s.nonce # y.nonce
      <3>1. PICK i \in DOMAIN queue' : s = queue'[i]
        BY DEF Queued
      <3>2. i + 1 \in DOMAIN queue /\ s = queue[i + 1] /\ i + 1 # 1
        BY <1>2, <3>1
      <3>3. s \in Queued /\ s.nonce # t.nonce
        BY <1>2, <1>3, <2>1, <3>2 DEF Queued
      <3>4. \A y \in runs : s.nonce # y.nonce
        BY <3>3 DEF CallInv, QueueInv
      <3> QED
        BY <1>5, <1>13, <1>14, <3>3, <3>4
    <2>3. ASSUME NEW i \in DOMAIN queue', NEW j \in DOMAIN queue', queue'[i].nonce = queue'[j].nonce
          PROVE  i = j
      <3>1. i + 1 = j + 1
        BY <1>2, <2>1, <2>3
      <3> QED
        BY <1>2, <3>1
    <2> QED
      BY <2>2, <2>3 DEF QueueInv
  <1>17. PendingInv'
    BY <1>1 DEF CallInv, PendingInv
  <1>18. ReceiptInv'
    <2>1. \A y \in receipts' : y \in receipts \/ (y = x /\ ~MadeBefore(t) /\ t.op # Anew)
      BY <1>5
    <2>2. x \in receipts' /\ x \notin receipts => \A y \in receipts : ~(y.device = x.device /\ y.op = x.op)
      BY <1>4, <2>1 DEF MadeBefore
    <2> QED
      BY <2>1, <2>2 DEF CallInv, ReceiptInv
  <1>19. SlotsAreUsed'
    <2> SUFFICES ASSUME NEW g \in handlers, g # h
                 PROVE  \E i \in DOMAIN queue' : queue'[i].call = g.call /\ queue'[i].nonce = g.nonce
      BY <1>5 DEF SlotsAreUsed
    <2>1. PICK i \in DOMAIN queue : queue[i].call = g.call /\ queue[i].nonce = g.nonce
      BY DEF CallInv, SlotsAreUsed
    <2>2. i # 1
      <3>1. g \in Handlers
        BY <1>0 DEF CallTypes
      <3> QED
        BY <1>3, <1>4, <1>6, <2>1, <3>1
    <2> QED
      BY <1>2, <2>1, <2>2
  <1> QED
    BY <1>10, <1>12, <1>15, <1>16, <1>17, <1>18, <1>19 DEF CallInv

LEMMA AbandonKeeps ==
  ASSUME CallInv, NEW h \in handlers, Abandon(h)
  PROVE  CallInv'
  <1>1. /\ UNCHANGED <<calls, messages, pending, issued, queue, receipts, made, runs, repeats, clock>>
        /\ handlers' = handlers \ {h}
    BY DEF Abandon, clientVars
  <1>2. /\ IsFiniteSet(handlers') /\ Cardinality(handlers') <= Slots /\ handlers' \in SUBSET Handlers
    <2>1. /\ IsFiniteSet(handlers') /\ Cardinality(handlers') <= Cardinality(handlers)
          /\ Cardinality(handlers) \in Nat /\ Cardinality(handlers') \in Nat
      BY <1>1, FS_Subset, FS_CardinalityType DEF CallInv, CallTypes
    <2> QED
      BY <1>1, <2>1, CallSizes DEF CallInv, CallTypes
  <1>3. CallTypes'
    BY <1>1, <1>2 DEF CallInv, CallTypes
  <1>4. /\ MessageInv' /\ DoneInv' /\ QueueInv' /\ RunsInv' /\ PendingInv' /\ ReceiptInv'
    BY <1>1 DEF CallInv, MessageInv, DoneInv, QueueInv, Queued, RunsInv, PendingInv, ReceiptInv, TaskInv,
                IsMade, IsOf, Signed
  <1>5. SlotsAreUsed'
    BY <1>1 DEF CallInv, SlotsAreUsed
  <1> QED
    BY <1>3, <1>4, <1>5 DEF CallInv

LEMMA CallNextKeeps ==
  ASSUME CallInv, [CallNext]_callVars
  PROVE  CallInv'
  <1>1. CASE UNCHANGED callVars \/ Tick
    <2>1. UNCHANGED <<calls, messages, pending, issued, handlers, queue, receipts, made, runs, repeats>>
          /\ clock' \in Nat
      BY <1>1 DEF callVars, clientVars, serverVars, Tick, CallInv, CallTypes
    <2>2. CallTypes'
      BY <2>1 DEF CallInv, CallTypes
    <2>3. /\ MessageInv' /\ DoneInv' /\ QueueInv' /\ RunsInv' /\ PendingInv' /\ ReceiptInv' /\ SlotsAreUsed'
      BY <2>1 DEF CallInv, MessageInv, DoneInv, QueueInv, Queued, RunsInv, PendingInv, ReceiptInv, TaskInv,
                  IsMade, IsOf, Signed, SlotsAreUsed
    <2> QED
      BY <2>2, <2>3 DEF CallInv
  <1> QED
    BY <1>1, BeginKeeps, GiveUpKeeps, SignKeeps, HearKeeps, AlterKeeps, ForgetKeeps, IssueKeeps, VerifyKeeps, RunTaskKeeps,
       AbandonKeeps DEF CallNext

LEMMA CallInitInv ==
  ASSUME CallInit
  PROVE  CallInv
  <1>1. NoCall \in Calls /\ NoCall.at = "none"
    BY DEF NoCall, Calls
  <1>2. \A c \in Call : calls[c] = NoCall
    BY DEF CallInit
  <1>3. /\ messages = {} /\ pending = {} /\ issued = 0 /\ handlers = {} /\ queue = <<>>
        /\ receipts = {} /\ made = {} /\ runs = {} /\ repeats = 0 /\ clock = 0
    BY DEF CallInit
  <1>4. CallTypes
    <2>1. calls \in [Call -> Calls]
      BY <1>1 DEF CallInit
    <2>2. queue \in Seq(Tasks) /\ Len(queue) = 0
      BY <1>3
    <2>3. IsFiniteSet({}) /\ Cardinality({}) = 0
      BY FS_EmptySet
    <2>4. Cardinality(pending) <= Capacity /\ Cardinality(handlers) <= Slots /\ Len(queue) <= QueueCap
      BY <1>3, <2>2, <2>3, CallSizes
    <2> QED
      BY <1>3, <2>1, <2>2, <2>3, <2>4 DEF CallTypes
  <1>5. MessageInv /\ DoneInv /\ RunsInv /\ PendingInv /\ ReceiptInv /\ SlotsAreUsed
    BY <1>1, <1>2, <1>3 DEF MessageInv, DoneInv, RunsInv, PendingInv, ReceiptInv, SlotsAreUsed
  <1>6. QueueInv
    <2>1. DOMAIN queue = {}
      BY <1>3
    <2> QED
      BY <2>1 DEF QueueInv, Queued
  <1> QED
    BY <1>4, <1>5, <1>6 DEF CallInv

LEMMA CallInvShows == CallInv => CallsAreSound
  <1> SUFFICES ASSUME CallInv PROVE CallsAreSound
    OBVIOUS
  <1>1. CallTypeOK
    BY DEF CallInv, CallTypes, CallTypeOK, Calls
  <1>2. OncePerSignature
    BY DEF CallInv, QueueInv, Queued, RunsInv, TaskInv, IsOf, OncePerSignature
  <1>3. MadeOnce /\ SlotsAreUsed
    BY DEF CallInv, ReceiptInv, DoneInv, IsMade, MadeOnce
  <1> QED
    BY <1>1, <1>2, <1>3 DEF CallsAreSound

\* The inductive invariant of signed calls: a nonce belongs to one challenge that is kept or
\* to one task, of a call that has been signed for and stays as it was signed.
THEOREM CallInvHolds == CallSpec => []CallInv
  BY CallInitInv, CallNextKeeps, PTL DEF CallSpec

\* A signature is good for one run of what was signed, a request is carried out once, and a
\* slot is held for a task that waits, however late or often requests come.
THEOREM CallsHold == CallSpec => []CallsAreSound
  BY CallInvHolds, CallInvShows, PTL

=============================================================================
