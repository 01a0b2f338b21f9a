-------------------------- MODULE PacketPlane_proofs ---------------------------
(***************************************************************************)
(* Proofs about a machine and what goes between machines.                  *)
(*                                                                         *)
(* PacketPlane, for any guests and any capacities: what may be in each     *)
(* queue, and so what reaches a device.                                    *)
(*                                                                         *)
(* Node, for any workers, clients, roles, networks and bounds: a worker    *)
(* that runs is the one its supervisor keeps, and what the helper changed  *)
(* in the system is what its sessions account for.                         *)
(***************************************************************************)
EXTENDS PacketPlane, Node, SequenceTheorems, FiniteSetTheorems, TLAPS

Packets == [kind : {"packet"}, by : Place, src : Address, dst : Address]
Signals == {None, Ping, Pong}
Frames == Signals \cup Packets
\* On the way from guest g: signals, and packets that left g's device.
Sent(g) == Signals \cup {f \in Packets : f.by = g}
\* On the way to guest g: signals, and packets for it or its networks, if no guest that is
\* still linked has a nearer one, whose sender the packet names.
Meant(g) == Signals \cup {f \in Packets :
    /\ Matches(g, f.dst) # {}
    /\ \A h \in Guest : Nearer(h, g, f.dst) => link[h] = "gone"
    /\ f.by \in Guest => Matches(f.by, f.src) # {}}
Handed == {m \in [from : Guest, frame : Packets] : m.frame.by = m.from}

\* The inductive invariant: each queue holds only what its place on the way allows.
GuestsInv ==
    /\ pump \in [Guest -> [at : {"select", "write", "over"}, frame : Frames]]
    /\ \A g \in Guest : pump[g].frame \in Sent(g)
UpInv ==
    /\ up \in [Guest -> Seq(Frames)]
    /\ \A g \in Guest : up[g] \in Seq(Sent(g)) /\ Len(up[g]) <= WireCap
DownInv ==
    /\ down \in [Guest -> Seq(Frames)]
    /\ \A g \in Guest : down[g] \in Seq(Meant(g)) /\ Len(down[g]) <= WireCap
QueueInv ==
    /\ queue \in [Guest -> Seq(Frames)]
    /\ \A g \in Guest : queue[g] \in Seq(Meant(g)) /\ Len(queue[g]) <= QueueCap
WritingInv ==
    /\ writing \in [Guest -> Frames]
    /\ \A g \in Guest : writing[g] \in Meant(g)
DispatchInv == dispatch \in Seq(Handed) /\ Len(dispatch) <= QueueCap
LinkInv ==
    /\ link \in [Guest -> {"on", "dead", "gone"}]
    /\ told \in [Guest -> 0 .. 2]
    /\ broken \subseteq Guest
PlaneInv ==
    /\ GuestsInv /\ UpInv /\ DownInv /\ QueueInv /\ WritingInv /\ DispatchInv /\ LinkInv
    /\ NobodyElse

-----------------------------------------------------------------------------
(* Frames and queues *)

LEMMA FramesFact ==
  ASSUME NEW g \in Guest
  PROVE  /\ None \in Sent(g) /\ Ping \in Sent(g) /\ Pong \in Sent(g)
         /\ None \in Meant(g) /\ Ping \in Meant(g) /\ Pong \in Meant(g)
         /\ Sent(g) \subseteq Frames /\ Meant(g) \subseteq Frames
         /\ <<>> \in Seq(Sent(g)) /\ <<>> \in Seq(Meant(g)) /\ <<>> \in Seq(Frames)
  BY DEF Sent, Meant, Signals, Frames

\* Of the frames only packets are of the kind "packet".
LEMMA PacketFact ==
  ASSUME NEW f \in Frames, f.kind = "packet"
  PROVE  f \in Packets /\ f \notin Signals
  BY DEF Frames, Signals, None, Ping, Pong

LEMMA PacketIsPacket ==
  ASSUME NEW by \in Place, NEW src \in Address, NEW dst \in Address
  PROVE  /\ Packet(by, src, dst) \in Packets
         /\ Packet(by, src, dst).by = by
         /\ Packet(by, src, dst).src = src
         /\ Packet(by, src, dst).dst = dst
  BY DEF Packet, Packets

LEMMA PutFact ==
  ASSUME NEW S, NEW T, S \subseteq T, NEW q \in Seq(S), NEW m \in S, NEW n \in Nat, Len(q) < n
  PROVE  Append(q, m) \in Seq(S) /\ Append(q, m) \in Seq(T) /\ Len(Append(q, m)) <= n
  <1>1. Append(q, m) \in Seq(S) /\ Len(Append(q, m)) = Len(q) + 1 /\ Len(q) \in Nat
    OBVIOUS
  <1>2. Append(q, m) \in Seq(T)
    <2>1. q \in Seq(T)
      BY SeqMonotonic
    <2> QED
      BY <2>1
  <1> QED
    BY <1>1, <1>2

\* What is offered to a queue is in it, or dropped.
LEMMA OfferedFact ==
  ASSUME PlaneAssumption,
         NEW S, NEW T, S \subseteq T, NEW q \in Seq(S), NEW m \in S, Len(q) <= QueueCap
  PROVE  Offered(q, m) \in Seq(S) /\ Offered(q, m) \in Seq(T) /\ Len(Offered(q, m)) <= QueueCap
  <1>1. CASE Len(q) < QueueCap
    BY <1>1, PutFact DEF PlaneAssumption, Offered
  <1>2. CASE ~(Len(q) < QueueCap)
    <2>1. q \in Seq(T)
      BY SeqMonotonic
    <2> QED
      BY <1>2, <2>1 DEF Offered
  <1> QED
    BY <1>1, <1>2

LEMMA TakenFact ==
  ASSUME NEW S, NEW T, S \subseteq T, NEW q \in Seq(S), q # <<>>, NEW n \in Nat, Len(q) <= n
  PROVE  /\ Head(q) \in S /\ Tail(q) \in Seq(S) /\ Tail(q) \in Seq(T) /\ Len(Tail(q)) <= n
  <1>1. Head(q) \in S /\ Tail(q) \in Seq(S) /\ Len(Tail(q)) = Len(q) - 1 /\ Len(q) \in Nat
    OBVIOUS
  <1>2. Tail(q) \in Seq(T)
    BY <1>1, SeqMonotonic
  <1> QED
    BY <1>1, <1>2

-----------------------------------------------------------------------------
(* What each variable may be set to *)

\* A link that is gone does not come back: what was meant for a guest still is.
Grows == \A h \in Guest : link[h] = "gone" => link'[h] = "gone"

LEMMA MeantGrows ==
  ASSUME Grows, NEW g \in Guest
  PROVE  Meant(g) \subseteq Meant(g)'
  BY DEF Grows, Meant

LEMMA MeantSeqs ==
  ASSUME Grows, NEW g \in Guest, NEW q \in Seq(Meant(g))
  PROVE  q \in Seq(Meant(g)')
  BY MeantGrows, SeqMonotonic

LEMMA DownStays == DownInv /\ Grows /\ UNCHANGED down => DownInv'
  BY MeantSeqs DEF DownInv

LEMMA QueueStays == QueueInv /\ Grows /\ UNCHANGED queue => QueueInv'
  BY MeantSeqs DEF QueueInv

LEMMA WritingStays == WritingInv /\ Grows /\ UNCHANGED writing => WritingInv'
  BY MeantGrows DEF WritingInv

LEMMA ElseStays == NobodyElse /\ Grows /\ UNCHANGED arrived => NobodyElse'
  BY DEF NobodyElse, Grows

LEMMA PumpStep ==
  ASSUME GuestsInv, NEW g \in Guest, NEW a \in {"select", "write", "over"}, NEW f \in Sent(g),
         pump' = [pump EXCEPT ![g] = [at |-> a, frame |-> f]]
  PROVE  GuestsInv'
  <1> DEFINE p == [at |-> a, frame |-> f]
  <1>1. p \in [at : {"select", "write", "over"}, frame : Frames] /\ p.frame = f
    BY FramesFact
  <1>2. pump' = [pump EXCEPT ![g] = p]
    OBVIOUS
  <1> HIDE DEF p
  <1> QED
    BY <1>1, <1>2 DEF GuestsInv

LEMMA PumpWrites ==
  ASSUME GuestsInv, NEW g \in Guest, NEW f \in Sent(g), pump' = [pump EXCEPT ![g] = Writes(f)]
  PROVE  GuestsInv'
  BY PumpStep DEF Writes

LEMMA PumpRests ==
  ASSUME GuestsInv, NEW g \in Guest,
         pump' = [pump EXCEPT ![g] = Idle] \/ pump' = [pump EXCEPT ![g] = Over]
  PROVE  GuestsInv'
  <1>1. None \in Sent(g)
    BY FramesFact
  <1> QED
    BY <1>1, PumpStep DEF Idle, Over

LEMMA UpStep ==
  ASSUME UpInv, NEW g \in Guest, NEW q \in Seq(Sent(g)), Len(q) <= WireCap,
         up' = [up EXCEPT ![g] = q]
  PROVE  UpInv'
  <1>1. q \in Seq(Frames)
    BY FramesFact, SeqMonotonic
  <1> QED
    BY <1>1 DEF UpInv

LEMMA DownStep ==
  ASSUME DownInv, Grows, NEW g \in Guest, NEW q \in Seq(Meant(g)), Len(q) <= WireCap,
         down' = [down EXCEPT ![g] = q]
  PROVE  DownInv'
  <1>1. q \in Seq(Frames)
    BY FramesFact, SeqMonotonic
  <1>2. down' \in [Guest -> Seq(Frames)]
    BY <1>1 DEF DownInv
  <1>3. ASSUME NEW h \in Guest PROVE down'[h] \in Seq(Meant(h)) /\ Len(down'[h]) <= WireCap
    BY DEF DownInv
  <1> QED
    BY <1>2, <1>3, MeantSeqs DEF DownInv

LEMMA QueueStep ==
  ASSUME QueueInv, Grows, NEW g \in Guest, NEW q \in Seq(Meant(g)), Len(q) <= QueueCap,
         queue' = [queue EXCEPT ![g] = q]
  PROVE  QueueInv'
  <1>1. q \in Seq(Frames)
    BY FramesFact, SeqMonotonic
  <1>2. queue' \in [Guest -> Seq(Frames)]
    BY <1>1 DEF QueueInv
  <1>3. ASSUME NEW h \in Guest PROVE queue'[h] \in Seq(Meant(h)) /\ Len(queue'[h]) <= QueueCap
    BY DEF QueueInv
  <1> QED
    BY <1>2, <1>3, MeantSeqs DEF QueueInv

LEMMA WritingStep ==
  ASSUME WritingInv, Grows, NEW g \in Guest, NEW f \in Meant(g),
         writing' = [writing EXCEPT ![g] = f]
  PROVE  WritingInv'
  <1>1. f \in Frames
    BY FramesFact
  <1> QED
    BY <1>1, MeantGrows DEF WritingInv

LEMMA ForwardStep ==
  ASSUME QueueInv, Grows, NEW g \in Guest, NEW f \in Meant(g), queue' = Forwarded(g, f)
  PROVE  QueueInv'
  <1>1. CASE link[g] = "on"
    <2> DEFINE q == Offered(queue[g], f)
    <2>1. q \in Seq(Meant(g)) /\ Len(q) <= QueueCap
      BY PlaneAssumption, OfferedFact DEF QueueInv
    <2>2. queue' = [queue EXCEPT ![g] = q]
      BY <1>1 DEF Forwarded, QueueInv
    <2> HIDE DEF q
    <2> QED
      BY <2>1, <2>2, QueueStep
  <1>2. CASE link[g] # "on"
    BY <1>2, QueueStays DEF Forwarded
  <1> QED
    BY <1>1, <1>2

-----------------------------------------------------------------------------
(* The initial states *)

LEMMA InitPlane == Init => PlaneInv
  <1> SUFFICES ASSUME Init PROVE PlaneInv
    OBVIOUS
  <1>1. GuestsInv
    BY FramesFact DEF Init, GuestsInv, Idle, Frames, Signals
  <1>2. UpInv /\ DownInv /\ QueueInv
    <2>1. \A g \in Guest : up[g] = <<>> /\ down[g] = <<>> /\ queue[g] = <<>>
      BY DEF Init
    <2>2. up \in [Guest -> Seq(Frames)] /\ down \in [Guest -> Seq(Frames)]
          /\ queue \in [Guest -> Seq(Frames)]
      BY FramesFact DEF Init
    <2>3. Len(<<>>) = 0
      OBVIOUS
    <2> QED
      BY <2>1, <2>2, <2>3, FramesFact, PlaneAssumption DEF UpInv, DownInv, QueueInv, PlaneAssumption
  <1>3. WritingInv /\ DispatchInv
    BY FramesFact, PlaneAssumption DEF Init, WritingInv, DispatchInv, Frames, Signals, PlaneAssumption
  <1>4. LinkInv /\ NobodyElse
    BY DEF Init, LinkInv, NobodyElse
  <1> QED
    BY <1>1, <1>2, <1>3, <1>4 DEF PlaneInv

-----------------------------------------------------------------------------
(* A guest *)

LEMMA GuestPingsKeeps ==
  ASSUME PlaneInv, NEW g \in Guest, GuestPings(g)
  PROVE  PlaneInv'
  <1>g. Grows
    BY DEF PlaneInv, LinkInv, Grows, hostVars, GuestPings
  <1>1. GuestsInv'
    BY FramesFact, PumpWrites DEF PlaneInv, GuestPings
  <1> QED
    BY <1>1, <1>g, DownStays, QueueStays, WritingStays, ElseStays DEF PlaneInv,
       GuestPings, wires, hostVars, UpInv, DispatchInv, LinkInv

LEMMA GuestSendsKeeps ==
  ASSUME PlaneInv, NEW g \in Guest, GuestSends(g)
  PROVE  PlaneInv'
  <1>g. Grows
    BY DEF PlaneInv, LinkInv, Grows, hostVars, GuestSends
  <1>1. GuestsInv'
    <2>1. PICK s \in Address, d \in Address : pump' = [pump EXCEPT ![g] = Writes(Packet(g, s, d))]
      BY DEF GuestSends
    <2> DEFINE f == Packet(g, s, d)
    <2>2. f \in Sent(g)
      BY PacketIsPacket DEF Sent, Place
    <2>3. pump' = [pump EXCEPT ![g] = Writes(f)]
      BY <2>1
    <2> HIDE DEF f
    <2> QED
      BY <2>2, <2>3, PumpWrites DEF PlaneInv
  <1> QED
    BY <1>1, <1>g, DownStays, QueueStays, WritingStays, ElseStays DEF PlaneInv,
       GuestSends, wires, hostVars, UpInv, DispatchInv, LinkInv

\* What a guest's device is given came for it.
LEMMA GuestReadsKeeps ==
  ASSUME PlaneInv, NEW g \in Guest, GuestReads(g)
  PROVE  PlaneInv'
  <1>g. Grows
    BY DEF PlaneInv, LinkInv, Grows, hostVars, GuestReads
  <1> DEFINE f == Head(down[g])
             q == Tail(down[g])
  <1>1. f \in Meant(g) /\ q \in Seq(Meant(g)) /\ Len(q) <= WireCap /\ f \in Frames
    BY TakenFact, FramesFact, PlaneAssumption DEF PlaneInv, DownInv, GuestReads, PlaneAssumption
  <1>2. down' = [down EXCEPT ![g] = q]
    BY DEF GuestReads, PlaneInv, DownInv
  <1>3. /\ pump' = [pump EXCEPT ![g] = IF f.kind = "ping" THEN Writes(Pong) ELSE @]
        /\ IF f.kind = "packet" THEN Arrive(f, g) ELSE UNCHANGED arrived
    BY DEF GuestReads
  <1> HIDE DEF f, q
  <1>4. DownInv'
    BY <1>1, <1>2, <1>g, DownStep DEF PlaneInv
  <1>5. GuestsInv'
    <2>1. CASE f.kind = "ping"
      <3>1. pump' = [pump EXCEPT ![g] = Writes(Pong)]
        BY <1>3, <2>1
      <3> QED
        BY <3>1, FramesFact, PumpWrites DEF PlaneInv
    <2>2. CASE f.kind # "ping"
      <3>1. pump' = pump
        BY <1>3, <2>2 DEF PlaneInv, GuestsInv
      <3> QED
        BY <3>1 DEF PlaneInv, GuestsInv
    <2> QED
      BY <2>1, <2>2
  <1>6. NobodyElse'
    <2>1. CASE f.kind = "packet"
      <3>1. /\ f \in Packets /\ Matches(g, f.dst) # {}
            /\ \A h \in Guest : Nearer(h, g, f.dst) => link[h] = "gone"
            /\ f.by \in Guest => Matches(f.by, f.src) # {}
        BY <1>1, <2>1, PacketFact DEF Meant
      <3> DEFINE a == [by |-> f.by, at |-> g, src |-> f.src, dst |-> f.dst]
      <3>2. arrived' = arrived \cup {a}
        BY <1>3, <2>1 DEF Arrive
      <3>3. /\ a.at = g /\ Matches(g, a.dst) # {}
            /\ \A h \in Guest : Nearer(h, g, a.dst) => link[h] = "gone"
            /\ a.by \in Guest => Matches(a.by, a.src) # {}
        BY <3>1
      <3> HIDE DEF a
      <3> QED
        BY <1>g, <3>2, <3>3 DEF NobodyElse, PlaneInv, Grows
    <2>2. CASE f.kind # "packet"
      BY <1>3, <1>g, <2>2, ElseStays DEF PlaneInv
    <2> QED
      BY <2>1, <2>2
  <1> QED
    BY <1>4, <1>5, <1>6, <1>g, QueueStays, WritingStays DEF PlaneInv, GuestReads,
       hostVars, UpInv, DispatchInv, LinkInv

LEMMA GuestWritesKeeps ==
  ASSUME PlaneInv, NEW g \in Guest, GuestWrites(g)
  PROVE  PlaneInv'
  <1>g. Grows
    BY DEF PlaneInv, LinkInv, Grows, hostVars, GuestWrites
  <1>1. GuestsInv'
    BY PumpRests DEF PlaneInv, GuestWrites
  <1>2. UpInv'
    <2> DEFINE q == Append(up[g], pump[g].frame)
    <2>1. q \in Seq(Sent(g)) /\ Len(q) <= WireCap
      BY PutFact, PlaneAssumption DEF PlaneInv, GuestsInv, UpInv, GuestWrites, PlaneAssumption
    <2>2. up' = [up EXCEPT ![g] = q]
      BY DEF GuestWrites, PlaneInv, UpInv
    <2> HIDE DEF q
    <2> QED
      BY <2>1, <2>2, UpStep DEF PlaneInv
  <1> QED
    BY <1>1, <1>2, <1>g, DownStays, QueueStays, WritingStays, ElseStays DEF PlaneInv,
       GuestWrites, hostVars, DispatchInv, LinkInv

LEMMA NothingFits ==
  ASSUME PlaneAssumption
  PROVE  Len(<<>>) <= WireCap /\ Len(<<>>) <= QueueCap
  <1>1. Len(<<>>) = 0
    OBVIOUS
  <1> QED
    BY <1>1 DEF PlaneAssumption

LEMMA GuestLeavesKeeps ==
  ASSUME PlaneInv, NEW g \in Guest, GuestFails(g) \/ GuestGivesUp(g)
  PROVE  PlaneInv'
  <1>g. Grows
    BY DEF PlaneInv, LinkInv, Grows, hostVars, GuestFails, GuestGivesUp
  <1>1. /\ pump' = [pump EXCEPT ![g] = Over] /\ down' = [down EXCEPT ![g] = <<>>]
        /\ UNCHANGED <<up, broken, hostVars, arrived, counts>>
    BY DEF GuestFails, GuestGivesUp
  <1>2. GuestsInv'
    BY <1>1, PumpRests DEF PlaneInv
  <1>3. DownInv'
    BY <1>1, FramesFact, NothingFits, PlaneAssumption, <1>g, DownStep DEF PlaneInv
  <1> QED
    BY <1>1, <1>2, <1>3, <1>g, QueueStays, WritingStays, ElseStays DEF PlaneInv, hostVars,
       UpInv, DispatchInv, LinkInv

-----------------------------------------------------------------------------
(* The host *)

LEMMA ReaderKeeps ==
  ASSUME PlaneInv, NEW g \in Guest, Reader(g)
  PROVE  PlaneInv'
  <1>g. Grows
    BY DEF PlaneInv, LinkInv, Grows, hostVars, Reader
  <1> DEFINE f == Head(up[g])
             q == Tail(up[g])
             m == [from |-> g, frame |-> f]
  <1>1. f \in Sent(g) /\ q \in Seq(Sent(g)) /\ Len(q) <= WireCap /\ f \in Frames
    BY TakenFact, FramesFact, PlaneAssumption DEF PlaneInv, UpInv, Reader, PlaneAssumption
  <1>2. up' = [up EXCEPT ![g] = q]
    BY DEF Reader, PlaneInv, UpInv
  <1>3. /\ queue' = IF f.kind = "ping" THEN Forwarded(g, Pong) ELSE queue
        /\ dispatch' = IF f.kind = "packet" THEN Offered(dispatch, m) ELSE dispatch
    BY DEF Reader
  <1> HIDE DEF f, q
  <1>4. UpInv'
    BY <1>1, <1>2, UpStep DEF PlaneInv
  <1>5. QueueInv'
    BY <1>3, FramesFact, <1>g, ForwardStep, QueueStays DEF PlaneInv
  <1>6. DispatchInv'
    <2>1. CASE f.kind = "packet"
      <3>1. f \in Packets /\ f.by = g
        BY <1>1, <2>1, PacketFact DEF Sent
      <3>2. m \in Handed
        BY <3>1 DEF Handed
      <3> HIDE DEF m
      <3> QED
        BY <1>3, <2>1, <3>2, OfferedFact, PlaneAssumption DEF PlaneInv, DispatchInv
    <2>2. CASE f.kind # "packet"
      BY <1>3, <2>2 DEF PlaneInv, DispatchInv
    <2> QED
      BY <2>1, <2>2
  <1> QED
    BY <1>4, <1>5, <1>6, <1>g, DownStays, WritingStays, ElseStays DEF PlaneInv, Reader,
       guestVars, GuestsInv, LinkInv

LEMMA WriterTakesKeeps ==
  ASSUME PlaneInv, NEW g \in Guest, WriterTakes(g)
  PROVE  PlaneInv'
  <1>g. Grows
    BY DEF PlaneInv, LinkInv, Grows, hostVars, WriterTakes
  <1>1. WritingInv' /\ QueueInv'
    <2>1. CASE queue[g] # <<>> /\ writing' = [writing EXCEPT ![g] = Head(queue[g])]
               /\ queue' = [queue EXCEPT ![g] = Tail(@)]
      <3> DEFINE f == Head(queue[g])
                 q == Tail(queue[g])
      <3>1. f \in Meant(g) /\ q \in Seq(Meant(g)) /\ Len(q) <= QueueCap
        BY <2>1, TakenFact, FramesFact, PlaneAssumption DEF PlaneInv, QueueInv, PlaneAssumption
      <3>2. queue' = [queue EXCEPT ![g] = q] /\ writing' = [writing EXCEPT ![g] = f]
        BY <2>1 DEF PlaneInv, QueueInv
      <3> HIDE DEF f, q
      <3> QED
        BY <3>1, <3>2, <1>g, QueueStep, WritingStep DEF PlaneInv
    <2>2. CASE writing' = [writing EXCEPT ![g] = Ping] /\ queue' = queue
      BY <2>2, FramesFact, <1>g, WritingStep, QueueStays DEF PlaneInv
    <2> QED
      BY <2>1, <2>2 DEF WriterTakes
  <1> QED
    BY <1>1, <1>g, DownStays, ElseStays DEF PlaneInv, WriterTakes, guestVars, wires,
       GuestsInv, UpInv, DispatchInv, LinkInv

LEMMA WriterKeeps ==
  ASSUME PlaneInv, NEW g \in Guest, Writer(g)
  PROVE  PlaneInv'
  <1>g. Grows
    BY DEF PlaneInv, LinkInv, Grows, hostVars, Writer
  <1>1. DownInv'
    <2> DEFINE q == Append(down[g], writing[g])
    <2>1. q \in Seq(Meant(g)) /\ Len(q) <= WireCap
      BY PutFact, PlaneAssumption DEF PlaneInv, WritingInv, DownInv, Writer, PlaneAssumption
    <2>2. down' = [down EXCEPT ![g] = q]
      BY DEF Writer, PlaneInv, DownInv
    <2> HIDE DEF q
    <2> QED
      BY <2>1, <2>2, <1>g, DownStep DEF PlaneInv
  <1>2. WritingInv'
    BY FramesFact, <1>g, WritingStep DEF PlaneInv, Writer
  <1> QED
    BY <1>1, <1>2, <1>g, QueueStays, ElseStays DEF PlaneInv, Writer, guestVars, GuestsInv,
       UpInv, DispatchInv, LinkInv

LEMMA EndsKeeps ==
  ASSUME PlaneInv, NEW g \in Guest, NEW n \in 0 .. 2, Ends(g, n)
  PROVE  PlaneInv'
  <1>g. Grows
    BY DEF PlaneInv, LinkInv, Grows, hostVars, Ends
  <1>1. QueueInv'
    BY FramesFact, NothingFits, PlaneAssumption, <1>g, QueueStep DEF PlaneInv, Ends
  <1>2. UpInv'
    BY FramesFact, NothingFits, PlaneAssumption, UpStep DEF PlaneInv, Ends
  <1>3. WritingInv'
    BY FramesFact, <1>g, WritingStep DEF PlaneInv, Ends
  <1>4. LinkInv'
    BY DEF PlaneInv, LinkInv, Ends
  <1> QED
    BY <1>1, <1>2, <1>3, <1>4, <1>g, DownStays, ElseStays DEF PlaneInv, Ends, guestVars,
       GuestsInv, DispatchInv

LEMMA UnregisterKeeps ==
  ASSUME PlaneInv, NEW g \in Guest, Unregister(g)
  PROVE  PlaneInv'
  <1>g. Grows
    BY DEF PlaneInv, LinkInv, Grows, hostVars, Unregister
  <1>1. LinkInv'
    BY DEF PlaneInv, LinkInv, Unregister, wires
  <1> QED
    BY <1>1, <1>g, DownStays, QueueStays, WritingStays, ElseStays DEF PlaneInv,
       Unregister, guestVars, wires, GuestsInv, UpInv, DispatchInv

LEMMA HostSendsKeeps ==
  ASSUME PlaneInv, HostSends
  PROVE  PlaneInv'
  <1>g. Grows
    BY DEF PlaneInv, LinkInv, Grows, hostVars, HostSends
  <1>1. QueueInv'
    <2>1. PICK d \in Address \ {Host} :
             LET f == Packet(Host, Host, d)
             IN  queue' = queue \/ \E g \in Targets(f) : queue' = Forwarded(g, f)
      BY DEF HostSends
    <2> DEFINE f == Packet(Host, Host, d)
    <2>2. f \in Packets /\ f.by \notin Guest
      BY PacketIsPacket, PlaneAssumption DEF Place, PlaneAssumption
    <2>3. queue' = queue \/ \E g \in Targets(f) : queue' = Forwarded(g, f)
      BY <2>1
    <2> HIDE DEF f
    <2>4. ASSUME NEW g \in Targets(f) PROVE g \in Guest /\ f \in Meant(g)
      BY <2>2, <2>4 DEF Meant, Targets
    <2> QED
      BY <2>3, <2>4, <1>g, ForwardStep, QueueStays DEF PlaneInv
  <1> QED
    BY <1>1, <1>g, DownStays, WritingStays, ElseStays DEF PlaneInv, HostSends, guestVars,
       wires, GuestsInv, UpInv, DispatchInv, LinkInv

\* What the dispatcher passes on or takes is the guest's own whose link it came by.
LEMMA DispatchKeeps ==
  ASSUME PlaneInv, Dispatch
  PROVE  PlaneInv'
  <1>g. Grows
    BY DEF PlaneInv, LinkInv, Grows, hostVars, Dispatch
  <1> DEFINE m == Head(dispatch)
             f == m.frame
  <1>1. m \in Handed /\ DispatchInv'
    <2>1. dispatch \in Seq(Handed) /\ dispatch # <<>> /\ Len(dispatch) <= QueueCap
          /\ QueueCap \in Nat /\ Handed \subseteq Handed /\ dispatch' = Tail(dispatch)
      BY PlaneAssumption DEF PlaneInv, DispatchInv, Dispatch, PlaneAssumption
    <2> QED
      BY <2>1, TakenFact DEF DispatchInv
  <1>2. m.from \in Guest /\ f \in Packets /\ f.by = m.from
    BY <1>1 DEF Handed
  <1>3. IF ~SourceAllowed(m.from, f) THEN UNCHANGED <<queue, arrived>>
        ELSE IF Routed(f) THEN (\E g \in Targets(f) : queue' = Forwarded(g, f)) /\ UNCHANGED arrived
        ELSE Arrive(f, Host) /\ UNCHANGED queue
    BY DEF Dispatch
  <1> HIDE DEF m, f
  <1>4. QueueInv' /\ NobodyElse'
    <2>1. CASE ~SourceAllowed(m.from, f)
      BY <1>3, <1>g, <2>1, QueueStays, ElseStays DEF PlaneInv
    <2>2. CASE SourceAllowed(m.from, f) /\ Routed(f)
      <3>1. Matches(f.by, f.src) # {}
        BY <1>2, <2>2 DEF SourceAllowed
      <3>2. PICK g \in Targets(f) : queue' = Forwarded(g, f)
        BY <1>3, <2>2
      <3>3. g \in Guest /\ f \in Meant(g)
        BY <1>2, <3>1 DEF Meant, Targets
      <3>4. arrived' = arrived
        BY <1>3, <2>2
      <3> QED
        BY <3>2, <3>3, <3>4, <1>g, ForwardStep, ElseStays DEF PlaneInv
    <2>3. CASE SourceAllowed(m.from, f) /\ ~Routed(f)
      <3>1. Matches(f.by, f.src) # {}
        BY <1>2, <2>3 DEF SourceAllowed
      <3> DEFINE a == [by |-> f.by, at |-> Host, src |-> f.src, dst |-> f.dst]
      <3>2. arrived' = arrived \cup {a} /\ queue' = queue
        BY <1>3, <2>3 DEF Arrive
      <3>3. a.at \notin Guest /\ Matches(a.by, a.src) # {}
        BY <3>1, PlaneAssumption DEF PlaneAssumption
      <3> HIDE DEF a
      <3>4. NobodyElse'
        BY <1>g, <3>2, <3>3 DEF PlaneInv, NobodyElse, Grows
      <3> QED
        BY <1>g, <3>2, <3>4, QueueStays DEF PlaneInv
    <2> QED
      BY <2>1, <2>2, <2>3
  <1> QED
    BY <1>1, <1>4, <1>g, DownStays, WritingStays DEF PlaneInv, Dispatch, guestVars, wires,
       GuestsInv, UpInv, LinkInv

LEMMA BreakKeeps ==
  ASSUME PlaneInv, NEW g \in Guest, Break(g)
  PROVE  PlaneInv'
  <1>g. Grows
    BY DEF PlaneInv, LinkInv, Grows, hostVars, Break
  <1>1. UpInv' /\ DownInv'
    BY FramesFact, NothingFits, PlaneAssumption, <1>g, UpStep, DownStep DEF PlaneInv, Break
  <1>2. LinkInv'
    BY DEF PlaneInv, LinkInv, Break, hostVars
  <1> QED
    BY <1>1, <1>2, <1>g, QueueStays, WritingStays, ElseStays DEF PlaneInv, Break,
       guestVars, hostVars, GuestsInv, DispatchInv

-----------------------------------------------------------------------------
(* Every step *)

LEMMA PlaneStep == PlaneInv /\ [Next]_vars => PlaneInv'
  <1> SUFFICES ASSUME PlaneInv, [Next]_vars PROVE PlaneInv'
    OBVIOUS
  <1>1. CASE HostSends \/ Dispatch
    BY <1>1, HostSendsKeeps, DispatchKeeps
  <1>2. ASSUME NEW g \in Guest,
               GuestPings(g) \/ GuestSends(g) \/ GuestTask(g) \/ GuestGivesUp(g)
        PROVE  PlaneInv'
    BY <1>2, GuestPingsKeeps, GuestSendsKeeps, GuestReadsKeeps, GuestWritesKeeps,
       GuestLeavesKeeps DEF GuestTask
  <1>3. ASSUME NEW g \in Guest, NEW n \in 0 .. 2, Ends(g, n)
        PROVE  PlaneInv'
    BY <1>3, EndsKeeps
  <1>4. ASSUME NEW g \in Guest,
               LinkTasks(g) \/ WriterTakes(g) \/ Silence(g) \/ Unregister(g) \/ Break(g)
        PROVE  PlaneInv'
    <2>1. CASE LinkFails(g) \/ Silence(g)
      BY <1>3, <2>1 DEF LinkFails, Silence, Told
    <2> QED
      BY <1>4, <2>1, ReaderKeeps, WriterTakesKeeps, WriterKeeps, UnregisterKeeps, BreakKeeps
         DEF LinkTasks
  <1>5. CASE UNCHANGED vars
    <2>1. Grows
      BY <1>5 DEF Grows, vars, hostVars
    <2> QED
      BY <1>5, <2>1, DownStays, QueueStays, WritingStays, ElseStays
         DEF PlaneInv, vars, guestVars, wires, hostVars, GuestsInv, UpInv, DispatchInv, LinkInv
  <1> QED
    BY <1>1, <1>2, <1>4, <1>5 DEF Next

LEMMA PlaneShows == PlaneInv => PlaneIsSound
  BY DEF PlaneInv, GuestsInv, UpInv, DownInv, QueueInv, DispatchInv, LinkInv, PlaneIsSound, TypeOK

\* In every behaviour each queue of the LAN, wire or channel, holds only what may be on its
\* way there: at a guest's end what its device sent, beyond the dispatcher what is for the
\* guest or its networks, and of the sender it names.
THEOREM PlaneInvHolds == Spec => []PlaneInv
  BY InitPlane, PlaneStep, PTL DEF Spec

\* A guest's device is handed only packets for it or for networks it exposes, and no packet
\* for which a guest that is still linked has a nearer network; a guest's packets come only
\* from its own address or networks; and no queue grows beyond its bound, for any networks,
\* overlapping ones too: run_packets_with_stats, MeshPlane and run_mesh_plane.
THEOREM PlaneHolds == Spec => []PlaneIsSound
  BY PlaneInvHolds, PlaneShows, PTL

-----------------------------------------------------------------------------
(* Node *)

Managers == [gen: 0..1, phase: Phases, leased: BOOLEAN, cancelled: BOOLEAN]

\* The supervisor's part of the inductive invariant.  A loop without a lease has
\* published its end, and what it is about to become it has read as a job.
SupTypes ==
    /\ job \in Jobs \cup {Broken} /\ sup \in Supervisors /\ mgr \in Managers
    /\ proc \in [Workers -> {"none", "up", "told"}]
SupInv ==
    /\ SupTypes /\ WorkersAreKept
    /\ sup.up /\ sup.lease = Nobody => mgr.phase # "Joining"
    /\ sup.pc = "changed" => sup.seen \in Jobs

\* The helper's part.  A session lasts as long as its task serves or drops the lease, a
\* device until it is closed, and no two devices have one name; the setting to restore is
\* the administrator's, unless a crash forgot it.
NetTypes ==
    /\ client \in [Clients -> {"idle", "asking", "up", "refused"}]
    /\ task \in [Clients -> {"none", "asked", "serving", "closing", "closed"}]
    /\ asked \subseteq Clients \X Wants
    /\ sessions \subseteq Clients /\ routes \in [Clients -> SUBSET Cidrs] /\ forward \subseteq Clients
    /\ FORWARDING \in [count: 0..Cardinality(Clients), prior: BOOLEAN]
    /\ kernel \in [devs: SUBSET Clients, routes: SUBSET (Roles \X Cidrs), fwd: BOOLEAN]
    /\ lost \in BOOLEAN
TasksOwn ==
    \A c \in Clients : /\ (c \in sessions) <=> task[c] \in {"serving", "closing"}
                       /\ (c \in kernel.devs) <=> task[c] \in {"serving", "closing", "closed"}
NamesDiffer == \A c, d \in kernel.devs : Role(c) = Role(d) => c = d
RoutesOwned ==
    /\ \A q \in kernel.routes : \E c \in sessions : q[1] = Role(c) /\ q[2] \in routes[c]
    /\ \A c \in sessions : \A r \in routes[c] : <<Role(c), r>> \in kernel.routes
    /\ \A c \in Clients : c \notin sessions => routes[c] = {}
ForwardOwned ==
    /\ forward \subseteq sessions /\ FORWARDING.count = Cardinality(forward)
    /\ forward # {} => kernel.fwd /\ (~lost => FORWARDING.prior = Admin)
    /\ forward = {} /\ ~lost => kernel.fwd = Admin
NetInv == NetTypes /\ TasksOwn /\ NamesDiffer /\ RoutesOwned /\ ForwardOwned

\* The inductive invariant of a machine.
NodeInv == SupInv /\ NetInv /\ faults \in 0..MaxFaults /\ here \in Machines

-----------------------------------------------------------------------------
(* The supervisor *)

LEMMA ManagerFact ==
  ASSUME NEW m \in Managers, NEW lease \in {0, 1, Nobody}, NEW phase \in Phases
  PROVE  /\ Begin(m) \in Managers /\ Begin(m).leased /\ ~Begin(m).cancelled
         /\ Begin(m).gen \in {0, 1} /\ Begin(m).phase = "Starting"
         /\ RequestStop(m) \in Managers
         /\ Transition(m, lease, phase) \in Managers /\ Drop(m, lease) \in Managers
         /\ Transition(m, lease, phase).gen = m.gen
         /\ Transition(m, lease, phase).leased = m.leased
         /\ Transition(m, lease, phase).cancelled = m.cancelled
         /\ lease = m.gen /\ ~m.cancelled => Transition(m, lease, phase).phase = phase
         /\ lease = Nobody => Transition(m, lease, phase) = m /\ Drop(m, lease) = m
         /\ lease = m.gen => ~Drop(m, lease).leased /\ Drop(m, lease).phase \in {"Error", "Stopped"}
         /\ NoSession \in Managers
  <1> USE WorkersAssumption DEF WorkersAssumption
  <1>1. /\ Begin(m) \in Managers /\ Begin(m).leased /\ ~Begin(m).cancelled
        /\ Begin(m).gen \in {0, 1} /\ Begin(m).phase = "Starting"
    BY DEF Managers, Begin, Following, Phases
  <1>2. RequestStop(m) \in Managers /\ NoSession \in Managers
    <2>1. RequestStop(m) \in Managers
      BY DEF Managers, RequestStop
    <2>2. NoSession \in Managers
      BY DEF Managers, NoSession, Phases
    <2> QED
      BY <2>1, <2>2
  <1>3. /\ Transition(m, lease, phase) \in Managers
        /\ Transition(m, lease, phase).gen = m.gen
        /\ Transition(m, lease, phase).leased = m.leased
        /\ Transition(m, lease, phase).cancelled = m.cancelled
        /\ lease = m.gen /\ ~m.cancelled => Transition(m, lease, phase).phase = phase
        /\ lease = Nobody => Transition(m, lease, phase) = m
    BY DEF Managers, Transition
  <1>4. /\ Drop(m, lease) \in Managers
        /\ lease = Nobody => Drop(m, lease) = m
        /\ lease = m.gen => ~Drop(m, lease).leased /\ Drop(m, lease).phase \in {"Error", "Stopped"}
    <2> DEFINE last == IF m.phase = "Error" THEN "Error" ELSE "Stopped"
               d == [m EXCEPT !.leased = FALSE, !.cancelled = TRUE, !.phase = last]
    <2>1. last \in {"Error", "Stopped"} /\ last \in Phases
      BY DEF Phases
    <2>2. Drop(m, lease) = IF lease = Nobody \/ lease # m.gen THEN m ELSE d
      BY DEF Drop
    <2> HIDE DEF last
    <2>3. d \in Managers /\ ~d.leased /\ d.phase = last
      BY <2>1 DEF Managers
    <2>4. m.gen # Nobody
      BY DEF Managers
    <2> HIDE DEF d
    <2> QED
      BY <2>1, <2>2, <2>3, <2>4
  <1> QED
    BY <1>1, <1>2, <1>3, <1>4

LEMMA PipeClosedFact ==
  ASSUME SupInv, proc' = PipeClosed(sup.child)
  PROVE  /\ proc' \in [Workers -> {"none", "up", "told"}]
         /\ \A w \in Workers : proc'[w] # "up"
         /\ \A w \in Workers : proc'[w] # "none" => proc[w] # "none"
  <1>1. proc \in [Workers -> {"none", "up", "told"}]
    BY DEF SupInv, SupTypes
  <1>2. \A w \in Workers : proc[w] = "up" => sup.child = w
    BY DEF SupInv, WorkersAreKept
  <1> QED
    BY <1>1, <1>2 DEF PipeClosed

\* What the supervisor's part says of a state, conjunct by conjunct.
LEMMA SupFact ==
  ASSUME SupInv
  PROVE  /\ job \in Jobs \cup {Broken} /\ sup \in Supervisors /\ mgr \in Managers
         /\ proc \in [Workers -> {"none", "up", "told"}]
         /\ \A w \in Workers : proc[w] = "up" => sup.up /\ sup.child = w
         /\ sup.up => /\ mgr.phase = "Joining" => sup.child # Nobody
                      /\ mgr.phase = "Stopped" => ~Running(sup.child)
                      /\ sup.lease = Nobody => ~mgr.leased /\ mgr.phase # "Joining"
                      /\ sup.lease # Nobody => mgr.leased /\ mgr.gen = sup.lease /\ ~mgr.cancelled
         /\ sup.pc = "changed" => sup.seen \in Jobs
         /\ sup.lease \in {0, 1, Nobody} /\ sup.child \in Workers \cup {Nobody}
  BY DEF SupInv, SupTypes, WorkersAreKept, Supervisors

\* And what is to be shown of the state after a step.
LEMMA SupGoal ==
  ASSUME job' \in Jobs \cup {Broken}, sup' \in Supervisors, mgr' \in Managers,
         proc' \in [Workers -> {"none", "up", "told"}],
         \A w \in Workers : proc'[w] = "up" => sup'.up /\ sup'.child = w,
         sup'.up => /\ mgr'.phase = "Joining" => sup'.child # Nobody
                    /\ mgr'.phase = "Stopped" => sup'.child = Nobody \/ proc'[sup'.child] = "none"
                    /\ sup'.lease = Nobody => ~mgr'.leased /\ mgr'.phase # "Joining"
                    /\ sup'.lease # Nobody => mgr'.leased /\ mgr'.gen = sup'.lease /\ ~mgr'.cancelled,
         sup'.pc = "changed" => sup'.seen \in Jobs
  PROVE  SupInv'
  <1>1. SupTypes'
    BY DEF SupTypes, Jobs, Supervisors, Managers, Phases
  <1>2. WorkersAreKept'
    BY DEF WorkersAreKept, Running
  <1> QED
    BY <1>1, <1>2 DEF SupInv, Jobs

\* Workers end, and nothing else: a worker that runs ran before.
LEMMA WorkersEnd ==
  ASSUME SupInv, UNCHANGED <<job, sup, mgr>>,
         proc' \in [Workers -> {"none", "up", "told"}],
         \A w \in Workers : /\ proc'[w] = "up" => proc[w] = "up"
                            /\ proc'[w] # "none" => proc[w] # "none"
  PROVE  SupInv'
  <1>1. \A w \in Workers : proc'[w] = "up" => sup'.up /\ sup'.child = w
    BY SupFact
  <1>2. sup'.up => /\ mgr'.phase = "Joining" => sup'.child # Nobody
                   /\ mgr'.phase = "Stopped" => sup'.child = Nobody \/ proc'[sup'.child] = "none"
                   /\ sup'.lease = Nobody => ~mgr'.leased /\ mgr'.phase # "Joining"
                   /\ sup'.lease # Nobody => mgr'.leased /\ mgr'.gen = sup'.lease /\ ~mgr'.cancelled
    BY SupFact DEF Running
  <1> QED
    BY <1>1, <1>2, SupFact, SupGoal

LEMMA ObeysKeeps ==
  ASSUME SupInv, NEW w \in Workers, Obeys(w) \/ Exits(w)
  PROVE  SupInv'
  BY SupFact, WorkersEnd DEF Obeys, Exits

\* The loop moves on, with the workers it has or with the pipe of its own closed.
LEMMA GoesKeeps ==
  ASSUME SupInv, UNCHANGED <<job, mgr>>, sup.up, sup' \in Supervisors,
         sup'.up, sup'.lease = sup.lease, sup'.child = sup.child,
         sup'.pc = "changed" => sup'.seen \in Jobs,
         proc' = proc \/ proc' = PipeClosed(sup.child)
  PROVE  SupInv'
  <1>1. /\ proc' \in [Workers -> {"none", "up", "told"}]
        /\ \A w \in Workers : /\ proc'[w] = "up" => proc[w] = "up"
                              /\ proc'[w] # "none" => proc[w] # "none"
    BY SupFact, PipeClosedFact
  <1>2. \A w \in Workers : proc'[w] = "up" => sup'.up /\ sup'.child = w
    BY <1>1, SupFact
  <1>3. sup'.up => /\ mgr'.phase = "Joining" => sup'.child # Nobody
                   /\ mgr'.phase = "Stopped" => sup'.child = Nobody \/ proc'[sup'.child] = "none"
                   /\ sup'.lease = Nobody => ~mgr'.leased /\ mgr'.phase # "Joining"
                   /\ sup'.lease # Nobody => mgr'.leased /\ mgr'.gen = sup'.lease /\ ~mgr'.cancelled
    BY <1>1, SupFact DEF Running
  <1> QED
    BY <1>1, <1>2, <1>3, SupFact, SupGoal

LEMMA TickKeepsSup ==
  ASSUME SupInv, Tick
  PROVE  SupInv'
  <1> DEFINE next == IF job = Broken THEN "broken" ELSE IF Differs(job) THEN "changed" ELSE "same"
  <1>1. /\ sup.up /\ sup' = [sup EXCEPT !.seen = job, !.pc = next]
        /\ proc' = proc \/ proc' = PipeClosed(sup.child)
        /\ UNCHANGED <<job, mgr>>
    BY DEF Tick, At
  <1>2. next \in {"broken", "changed", "same"} /\ (next = "changed" => job \in Jobs)
    BY SupFact
  <1> HIDE DEF next
  <1>3. /\ sup' \in Supervisors /\ sup'.up /\ sup'.lease = sup.lease /\ sup'.child = sup.child
        /\ sup'.pc = next /\ sup'.seen = job
    BY <1>1, <1>2, SupFact DEF Supervisors
  <1> QED
    BY <1>1, <1>2, <1>3, GoesKeeps

LEMMA RestKeeps ==
  ASSUME SupInv, Shutdown \/ Rest \/ DelayEnds
  PROVE  SupInv'
  <1>1. CASE Shutdown
    <2>1. /\ sup.up /\ sup' = [sup EXCEPT !.pc = "end"] /\ proc' = PipeClosed(sup.child)
          /\ UNCHANGED <<job, mgr>>
      BY <1>1 DEF Shutdown, At, Goes
    <2>2. /\ sup' \in Supervisors /\ sup'.up /\ sup'.lease = sup.lease /\ sup'.child = sup.child
          /\ sup'.pc = "end"
      BY <2>1, SupFact DEF Supervisors
    <2> QED
      BY <2>1, <2>2, GoesKeeps
  <1>2. CASE Rest
    <2>1. /\ sup.up /\ sup' = [sup EXCEPT !.pc = "tick"] /\ UNCHANGED <<job, mgr, proc>>
      BY <1>2 DEF Rest, At, Goes
    <2>2. /\ sup' \in Supervisors /\ sup'.up /\ sup'.lease = sup.lease /\ sup'.child = sup.child
          /\ sup'.pc = "tick"
      BY <2>1, SupFact DEF Supervisors
    <2> QED
      BY <2>1, <2>2, GoesKeeps
  <1>3. CASE DelayEnds
    <2>1. /\ sup.up /\ sup' = [sup EXCEPT !.due = TRUE] /\ UNCHANGED <<job, mgr, proc>>
      BY <1>3 DEF DelayEnds
    <2>2. /\ sup' \in Supervisors /\ sup'.up /\ sup'.lease = sup.lease /\ sup'.child = sup.child
          /\ sup'.pc = sup.pc /\ sup'.seen = sup.seen
      BY <2>1, SupFact DEF Supervisors
    <2> QED
      BY <2>1, <2>2, SupFact, GoesKeeps
  <1> QED
    BY <1>1, <1>2, <1>3

LEMMA NobodyRuns ==
  ASSUME SupInv, ~Running(sup.child)
  PROVE  \A w \in Workers : proc[w] # "up"
  <1>1. ~sup.up \/ sup.child = Nobody \/ proc[sup.child] = "none"
    BY DEF Running
  <1> QED
    BY <1>1, SupFact, WorkersAssumption DEF WorkersAssumption

\* A loop that has no child left, and what it says of itself.
LEMMA ChildlessKeeps ==
  ASSUME SupInv, \A w \in Workers : proc'[w] # "up", job' \in Jobs \cup {Broken},
         proc' \in [Workers -> {"none", "up", "told"}],
         sup' \in Supervisors, sup'.child = Nobody, sup'.pc # "changed", mgr' \in Managers,
         mgr'.phase # "Joining",
         sup'.lease = Nobody => ~mgr'.leased,
         sup'.lease # Nobody => mgr'.leased /\ mgr'.gen = sup'.lease /\ ~mgr'.cancelled
  PROVE  SupInv'
  BY SupGoal

LEMMA JobBrokenKeeps ==
  ASSUME SupInv, JobBroken
  PROVE  SupInv'
  <1> DEFINE d == Drop(mgr, sup.lease)
             m == Begin(d)
  <1>1. /\ sup.up /\ ~Running(sup.child)
        /\ mgr' = Transition(m, m.gen, "Error")
        /\ sup' = [sup EXCEPT !.pc = "tick", !.lease = m.gen, !.current = Nobody, !.child = Nobody]
        /\ UNCHANGED <<job, proc>>
    BY DEF JobBroken, At, Goes
  <1>2. "Error" \in Phases
    BY DEF Phases
  <1>3. d \in Managers
    BY <1>2, SupFact, ManagerFact
  <1>4. m \in Managers /\ m.leased /\ ~m.cancelled /\ m.gen \in {0, 1}
    <2> HIDE DEF d
    <2>1. Nobody \in {0, 1, Nobody}
      OBVIOUS
    <2> QED
      BY <1>2, <1>3, <2>1, ManagerFact
  <1> HIDE DEF m
  <1>5. mgr' \in Managers /\ mgr'.gen = m.gen /\ mgr'.leased /\ ~mgr'.cancelled /\ mgr'.phase = "Error"
    <2>1. m.gen \in {0, 1, Nobody}
      BY <1>4
    <2> QED
      BY <1>1, <1>2, <1>4, <2>1, ManagerFact
  <1>6. /\ sup' \in Supervisors /\ sup'.child = Nobody /\ sup'.pc = "tick" /\ sup'.lease = m.gen
    BY <1>1, <1>4, SupFact DEF Supervisors
  <1>7. m.gen # Nobody
    BY <1>4, WorkersAssumption DEF WorkersAssumption
  <1>8. \A w \in Workers : proc'[w] # "up"
    BY <1>1, NobodyRuns
  <1> QED
    BY <1>1, <1>5, <1>6, <1>7, <1>8, SupFact, ChildlessKeeps

LEMMA JobChangedKeeps ==
  ASSUME SupInv, JobChanged
  PROVE  SupInv'
  <1> DEFINE t == Transition(mgr, sup.lease, "Stopped")
  <1>1. /\ sup.up /\ ~Running(sup.child) /\ sup.pc = "changed"
        /\ mgr' = Drop(t, sup.lease)
        /\ sup' = [sup EXCEPT !.pc = "same", !.lease = Nobody, !.child = Nobody, !.due = TRUE,
                              !.current = sup.seen]
        /\ UNCHANGED <<job, proc>>
    BY DEF JobChanged, At, Goes
  <1>2. "Stopped" \in Phases
    BY DEF Phases
  <1>3. /\ t \in Managers /\ t.gen = mgr.gen /\ t.leased = mgr.leased
        /\ sup.lease = Nobody => t = mgr
    <2>1. mgr \in Managers /\ sup.lease \in {0, 1, Nobody}
      BY SupFact
    <2>2. t = Transition(mgr, sup.lease, "Stopped")
      OBVIOUS
    <2> HIDE DEF t
    <2> QED
      BY <1>2, <2>1, <2>2, ManagerFact
  <1>4. mgr' \in Managers /\ ~mgr'.leased /\ mgr'.phase # "Joining"
    <2> HIDE DEF t
    <2>1. CASE sup.lease = Nobody
      <3>1. Drop(t, sup.lease) = t
        BY <1>2, <1>3, <2>1, SupFact, ManagerFact
      <3> QED
        BY <1>1, <1>3, <2>1, <3>1, SupFact
    <2>2. CASE sup.lease # Nobody
      <3>1. sup.lease = t.gen
        BY <1>1, <1>3, <2>2, SupFact
      <3> QED
        BY <1>1, <1>2, <1>3, <3>1, SupFact, ManagerFact
    <2> QED
      BY <2>1, <2>2
  <1>5. sup.seen \in Jobs
    BY <1>1, SupFact
  <1>6. /\ sup' \in Supervisors /\ sup'.child = Nobody /\ sup'.pc = "same" /\ sup'.lease = Nobody
    BY <1>1, <1>5, SupFact DEF Supervisors
  <1>7. \A w \in Workers : proc'[w] # "up"
    BY <1>1, NobodyRuns
  <1> QED
    BY <1>1, <1>4, <1>6, <1>7, SupFact, ChildlessKeeps

LEMMA WorkerLostKeeps ==
  ASSUME SupInv, WorkerLost
  PROVE  SupInv'
  <1>1. /\ sup.up /\ ~Running(sup.child)
        /\ mgr' = Transition(mgr, sup.lease, "Reconnecting")
        /\ sup' = [sup EXCEPT !.pc = "tick", !.child = Nobody, !.due = FALSE]
        /\ UNCHANGED <<job, proc>>
    BY DEF WorkerLost, At, Goes
  <1>2. "Reconnecting" \in Phases
    BY DEF Phases
  <1>3. /\ mgr' \in Managers /\ mgr'.gen = mgr.gen /\ mgr'.leased = mgr.leased
        /\ mgr'.cancelled = mgr.cancelled
        /\ sup.lease = Nobody => mgr' = mgr
        /\ sup.lease = mgr.gen /\ ~mgr.cancelled => mgr'.phase = "Reconnecting"
    BY <1>1, <1>2, SupFact, ManagerFact
  <1>4. /\ sup' \in Supervisors /\ sup'.child = Nobody /\ sup'.pc = "tick" /\ sup'.lease = sup.lease
    BY <1>1, SupFact DEF Supervisors
  <1>5. \A w \in Workers : proc'[w] # "up"
    BY <1>1, NobodyRuns
  <1> QED
    BY <1>1, <1>3, <1>4, <1>5, SupFact, ChildlessKeeps

\* A new session of the manager, for a worker that is about to run.
LEMMA RenewedFact ==
  ASSUME SupInv
  PROVE  /\ Renewed \in Managers /\ Renewed.leased /\ ~Renewed.cancelled /\ Renewed.gen \in {0, 1}
         /\ Renewed.gen # Nobody
         /\ \A phase \in Phases :
              LET m == Transition(Renewed, Renewed.gen, phase)
              IN  /\ m \in Managers /\ m.gen = Renewed.gen /\ m.leased /\ ~m.cancelled
                  /\ m.phase = phase
  <1> DEFINE d == Drop(mgr, sup.lease)
  <1>1. "Error" \in Phases
    BY DEF Phases
  <1>2. d \in Managers
    BY <1>1, SupFact, ManagerFact
  <1> HIDE DEF d
  <1>3. Begin(d) \in Managers /\ Begin(d).leased /\ ~Begin(d).cancelled /\ Begin(d).gen \in {0, 1}
    <2>1. Nobody \in {0, 1, Nobody}
      OBVIOUS
    <2> QED
      BY <1>1, <1>2, <2>1, ManagerFact
  <1>4. Renewed = Begin(d)
    BY DEF Renewed, d
  <1> DEFINE r == Renewed
  <1>5. r \in Managers /\ r.leased /\ ~r.cancelled /\ r.gen \in {0, 1} /\ r.gen # Nobody
    BY <1>3, <1>4, WorkersAssumption DEF WorkersAssumption
  <1> HIDE DEF r
  <1>6. ASSUME NEW phase \in Phases
        PROVE  /\ Transition(r, r.gen, phase) \in Managers /\ Transition(r, r.gen, phase).gen = r.gen
               /\ Transition(r, r.gen, phase).leased /\ ~Transition(r, r.gen, phase).cancelled
               /\ Transition(r, r.gen, phase).phase = phase
    <2>1. r.gen \in {0, 1, Nobody}
      BY <1>5
    <2> QED
      BY <1>5, <2>1, ManagerFact
  <1> QED
    BY <1>5, <1>6 DEF r

LEMMA LaunchKeeps ==
  ASSUME SupInv, LaunchFails \/ \E w \in Workers : Launch(w)
  PROVE  SupInv'
  <1>0. /\ "Error" \in Phases /\ "Joining" \in Phases
        /\ Renewed.gen \in {0, 1} /\ Renewed.gen # Nobody
    BY RenewedFact DEF Phases
  <1>1. CASE LaunchFails
    <2>1. /\ sup.up /\ sup.child = Nobody /\ mgr' = Transition(Renewed, Renewed.gen, "Error")
          /\ sup' = [sup EXCEPT !.pc = "tick", !.lease = Renewed.gen, !.due = FALSE]
          /\ UNCHANGED <<job, proc>>
      BY <1>1 DEF LaunchFails, Launches, At, Goes
    <2>2. mgr' \in Managers /\ mgr'.gen = Renewed.gen /\ mgr'.leased /\ ~mgr'.cancelled /\ mgr'.phase = "Error"
      BY <1>0, <2>1, RenewedFact
    <2>3. /\ sup' \in Supervisors /\ sup'.child = Nobody /\ sup'.pc = "tick" /\ sup'.lease = Renewed.gen
      BY <1>0, <2>1, SupFact DEF Supervisors
    <2>4. \A w \in Workers : proc'[w] # "up"
      BY <2>1, NobodyRuns DEF Running
    <2> QED
      BY <1>0, <2>1, <2>2, <2>3, <2>4, SupFact, ChildlessKeeps
  <1>2. ASSUME NEW w \in Workers, Launch(w)
        PROVE  SupInv'
    <2>1. /\ sup.up /\ sup.child = Nobody /\ mgr' = Transition(Renewed, Renewed.gen, "Joining")
          /\ sup' = [sup EXCEPT !.pc = "tick", !.lease = Renewed.gen, !.child = w]
          /\ proc' = [proc EXCEPT ![w] = "up"] /\ UNCHANGED job
      BY <1>2 DEF Launch, Launches, At, Goes
    <2>2. mgr' \in Managers /\ mgr'.gen = Renewed.gen /\ mgr'.leased /\ ~mgr'.cancelled /\ mgr'.phase = "Joining"
      BY <1>0, <2>1, RenewedFact
    <2>3. /\ sup' \in Supervisors /\ sup'.child = w /\ sup'.pc = "tick" /\ sup'.lease = Renewed.gen
          /\ sup'.up
      BY <1>0, <2>1, SupFact DEF Supervisors
    <2>4. /\ proc' \in [Workers -> {"none", "up", "told"}]
          /\ \A v \in Workers : proc'[v] = "up" => v = w
      BY <2>1, NobodyRuns, SupFact DEF Running
    <2>5. w # Nobody
      BY WorkersAssumption DEF WorkersAssumption
    <2> QED
      BY <1>0, <2>1, <2>2, <2>3, <2>4, <2>5, SupFact, SupGoal
  <1> QED
    BY <1>1, <1>2

LEMMA EndedFact ==
  /\ Started \in Supervisors /\ Ended \in Supervisors
  /\ Started.up /\ Started.pc = "tick" /\ Started.lease = 1 /\ Started.child = Nobody
  /\ ~Ended.up /\ Ended.pc = "stopped"
  /\ Crashed \in Supervisors /\ ~Crashed.up /\ Crashed.pc = "crashed"
  BY DEF Started, Ended, Crashed, Supervisors

\* The supervisor ends or dies, and no worker keeps its pipe.
LEMMA OverKeeps ==
  ASSUME SupInv, SupEnds \/ Crash
  PROVE  SupInv'
  <1>1. sup' \in {Ended, Crashed} /\ job' = job
    BY DEF SupEnds, Crash
  <1>2. CASE SupEnds
    <2>1. "Stopped" \in Phases
      BY DEF Phases
    <2>2. mgr \in Managers /\ sup.lease \in {0, 1, Nobody}
      BY SupFact
    <2> DEFINE t == Transition(mgr, sup.lease, "Stopped")
    <2>3. t \in Managers
      BY <2>1, <2>2, ManagerFact
    <2> HIDE DEF t
    <2>4. RequestStop(t) \in Managers
      BY <2>1, <2>2, <2>3, ManagerFact
    <2>5. mgr' = Drop(RequestStop(t), sup.lease)
      BY <1>2 DEF SupEnds, t
    <2>6. mgr' \in Managers
      BY <2>1, <2>2, <2>4, <2>5, ManagerFact
    <2>7. proc' = proc /\ \A w \in Workers : proc[w] # "up"
      BY <1>2, NobodyRuns DEF SupEnds
    <2> QED
      BY <1>1, <2>6, <2>7, EndedFact, SupFact, SupGoal
  <1>3. CASE Crash
    <2>1. mgr' = NoSession /\ proc' = PipeClosed(sup.child)
      BY <1>3 DEF Crash
    <2>2. NoSession \in Managers
      BY DEF NoSession, Managers, Phases
    <2>3. proc' \in [Workers -> {"none", "up", "told"}] /\ \A w \in Workers : proc'[w] # "up"
      BY <2>1, PipeClosedFact
    <2> QED
      BY <1>1, <2>1, <2>2, <2>3, EndedFact, SupFact, SupGoal
  <1> QED
    BY <1>2, <1>3

LEMMA FirstManager ==
  LET m == Transition(Begin(NoSession), 1, "Stopped")
  IN  m \in Managers /\ m.gen = 1 /\ m.leased /\ ~m.cancelled /\ m.phase = "Stopped"
  <1> DEFINE b == Begin(NoSession)
             m == Transition(b, 1, "Stopped")
  <1>1. b = [gen |-> 1, phase |-> "Starting", leased |-> TRUE, cancelled |-> FALSE]
    BY DEF Begin, Following, NoSession
  <1>2. b \in Managers /\ b.gen = 1 /\ b.leased /\ ~b.cancelled
    BY <1>1 DEF Managers, Phases
  <1> HIDE DEF b
  <1>3. 1 \in {0, 1, Nobody} /\ "Stopped" \in Phases
    BY DEF Phases
  <1>4. m \in Managers /\ m.gen = 1 /\ m.leased /\ ~m.cancelled /\ m.phase = "Stopped"
    BY <1>2, <1>3, ManagerFact
  <1> QED
    BY <1>4 DEF b

LEMMA RestartKeeps ==
  ASSUME SupInv, ~sup.up, Starts
  PROVE  SupInv'
  <1>1. /\ ~sup.up /\ sup' = Started /\ mgr' = Transition(Begin(NoSession), 1, "Stopped")
        /\ UNCHANGED <<job, proc>>
    BY DEF Starts
  <1>2. \A w \in Workers : proc'[w] # "up"
    BY <1>1, SupFact
  <1>3. mgr' \in Managers /\ mgr'.gen = 1 /\ mgr'.leased /\ ~mgr'.cancelled /\ mgr'.phase = "Stopped"
    BY <1>1, FirstManager
  <1>4. 1 # Nobody
    BY WorkersAssumption DEF WorkersAssumption
  <1> QED
    BY <1>1, <1>2, <1>3, <1>4, EndedFact, SupFact, ChildlessKeeps

LEMMA StartAgainKeeps ==
  ASSUME SupInv, Restart \/ StartAgain
  PROVE  SupInv'
  <1>1. CASE Starts
    BY <1>1, RestartKeeps DEF Restart, StartAgain
  <1>2. CASE ~sup.up /\ StartFails
    <2>1. sup' = Crashed /\ UNCHANGED <<job, mgr, proc>>
      BY <1>2 DEF StartFails
    <2>2. \A w \in Workers : proc'[w] # "up"
      BY <1>2, <2>1, SupFact
    <2> QED
      BY <2>1, <2>2, EndedFact, SupFact, SupGoal
  <1> QED
    BY <1>1, <1>2 DEF Restart, StartAgain

LEMMA EditKeeps ==
  ASSUME SupInv, Edit
  PROVE  SupInv'
  <1>1. job' \in Jobs \cup {Broken} /\ UNCHANGED <<sup, mgr, proc>>
    BY DEF Edit
  <1>2. sup'.up => /\ mgr'.phase = "Joining" => sup'.child # Nobody
                   /\ mgr'.phase = "Stopped" => sup'.child = Nobody \/ proc'[sup'.child] = "none"
                   /\ sup'.lease = Nobody => ~mgr'.leased /\ mgr'.phase # "Joining"
                   /\ sup'.lease # Nobody => mgr'.leased /\ mgr'.gen = sup'.lease /\ ~mgr'.cancelled
    BY <1>1, SupFact DEF Running
  <1> QED
    BY <1>1, <1>2, SupFact, SupGoal

LEMMA SupInitFact ==
  ASSUME SupInit
  PROVE  SupInv
  <1>1. /\ job \in Jobs /\ sup = Started
        /\ mgr = Transition(Begin(NoSession), 1, "Stopped") /\ proc = [w \in Workers |-> "none"]
    BY DEF SupInit
  <1>2. mgr \in Managers /\ mgr.gen = 1 /\ mgr.leased /\ ~mgr.cancelled /\ mgr.phase = "Stopped"
    BY <1>1, FirstManager
  <1>3. 1 # Nobody
    BY WorkersAssumption DEF WorkersAssumption
  <1>4. SupTypes
    BY <1>1, <1>2, EndedFact DEF SupTypes
  <1>5. WorkersAreKept
    BY <1>1, <1>2, <1>3, EndedFact DEF WorkersAreKept, Running
  <1> QED
    BY <1>1, <1>2, <1>3, <1>4, <1>5, EndedFact DEF SupInv

\* Whatever happens to the supervisor or its workers, its part of the invariant stays.
LEMMA SupKeeps ==
  ASSUME SupInv,
         \/ SupStep \/ DelayEnds \/ Edit \/ StartAgain \/ LaunchFails \/ Shutdown \/ Crash
         \/ \E w \in Workers : Launch(w) \/ Obeys(w) \/ Exits(w)
         \/ UNCHANGED supervision
  PROVE  SupInv'
  <1>1. CASE SupStep
    BY <1>1, TickKeepsSup, JobBrokenKeeps, JobChangedKeeps, WorkerLostKeeps, RestKeeps, OverKeeps,
       StartAgainKeeps DEF SupStep
  <1>2. CASE DelayEnds \/ Edit \/ StartAgain \/ LaunchFails \/ Shutdown \/ Crash
    BY <1>2, RestKeeps, EditKeeps, StartAgainKeeps, LaunchKeeps, OverKeeps
  <1>3. CASE \E w \in Workers : Launch(w) \/ Obeys(w) \/ Exits(w)
    BY <1>3, LaunchKeeps, ObeysKeeps
  <1>4. CASE UNCHANGED supervision
    <2>1. UNCHANGED <<job, sup, mgr, proc>>
      BY <1>4 DEF supervision
    <2> QED
      BY <2>1, SupFact, WorkersEnd
  <1> QED
    BY <1>1, <1>2, <1>3, <1>4

-----------------------------------------------------------------------------
(* The helper *)

Kernels == [devs: SUBSET Clients, routes: SUBSET (Roles \X Cidrs), fwd: BOOLEAN]
Counts == [count: 0..Cardinality(Clients), prior: BOOLEAN]

LEMMA NetFact ==
  ASSUME NetInv
  PROVE  /\ client \in [Clients -> {"idle", "asking", "up", "refused"}]
         /\ task \in [Clients -> {"none", "asked", "serving", "closing", "closed"}]
         /\ asked \subseteq Clients \X Wants
         /\ sessions \subseteq Clients /\ routes \in [Clients -> SUBSET Cidrs] /\ forward \subseteq Clients
         /\ FORWARDING \in Counts /\ kernel \in Kernels /\ lost \in BOOLEAN
         /\ TasksOwn /\ NamesDiffer /\ RoutesOwned /\ ForwardOwned
  BY DEF NetInv, NetTypes, Kernels, Counts

\* The number of sessions with forwarding on is a number.
LEMMA ForwardCount ==
  ASSUME NEW F, F \subseteq Clients
  PROVE  /\ IsFiniteSet(F) /\ Cardinality(F) \in 0..Cardinality(Clients)
         /\ Cardinality(F) = 0 <=> F = {}
         /\ \A c \in F : Cardinality(F \ {c}) = Cardinality(F) - 1
         /\ \A c : c \notin F => Cardinality(F \cup {c}) = Cardinality(F) + 1
  <1>1. IsFiniteSet(Clients)
    BY ClientsAssumption DEF ClientsAssumption
  <1>2. IsFiniteSet(F) /\ Cardinality(F) <= Cardinality(Clients)
    BY <1>1, FS_Subset
  <1>3. Cardinality(F) \in Nat /\ Cardinality(Clients) \in Nat
    BY <1>1, <1>2, FS_CardinalityType
  <1>4. Cardinality(F) = 0 <=> F = {}
    BY <1>2, FS_EmptySet
  <1>5. \A c \in F : Cardinality(F \ {c}) = Cardinality(F) - 1
    BY <1>2, FS_RemoveElement
  <1>6. \A c : c \notin F => Cardinality(F \cup {c}) = Cardinality(F) + 1
    BY <1>2, FS_AddElement
  <1> QED
    BY <1>2, <1>3, <1>4, <1>5, <1>6

\* A step of which the system's settings and the map of sessions know nothing.
LEMMA TaskKeeps ==
  ASSUME NetInv, UNCHANGED <<sessions, routes, forward, FORWARDING, kernel>>,
         client' \in [Clients -> {"idle", "asking", "up", "refused"}],
         task' \in [Clients -> {"none", "asked", "serving", "closing", "closed"}],
         \A c \in Clients : \/ task'[c] = task[c]
                            \/ task[c] \in {"none", "asked"} /\ task'[c] \in {"none", "asked"}
                            \/ task[c] = "serving" /\ task'[c] = "closing",
         asked' \subseteq Clients \X Wants, lost' \in BOOLEAN, lost => lost'
  PROVE  NetInv'
  <1>1. NetTypes'
    BY NetFact DEF NetTypes, Kernels, Counts, Roles, Wants
  <1>2. TasksOwn'
    <2>1. SUFFICES ASSUME NEW c \in Clients
                   PROVE  /\ (c \in sessions) <=> task'[c] \in {"serving", "closing"}
                          /\ (c \in kernel.devs) <=> task'[c] \in {"serving", "closing", "closed"}
      BY DEF TasksOwn
    <2>2. /\ (c \in sessions) <=> task[c] \in {"serving", "closing"}
          /\ (c \in kernel.devs) <=> task[c] \in {"serving", "closing", "closed"}
      BY NetFact DEF TasksOwn
    <2> QED
      BY <2>2
  <1>3. NamesDiffer' /\ RoutesOwned'
    BY NetFact DEF NamesDiffer, RoutesOwned
  <1>4. ForwardOwned'
    BY NetFact DEF ForwardOwned
  <1> QED
    BY <1>1, <1>2, <1>3, <1>4 DEF NetInv

LEMMA ClientKeeps ==
  ASSUME NetInv, NEW c \in Clients,
         \/ Dial(c) \/ Obtain(c) \/ Leave(c) \/ NoticeLeft(c) \/ DeviceFails(c)
         \/ \E want \in Wants : Ask(c, want)
  PROVE  NetInv'
  <1>0. USE NetFact
  <1>1. CASE Dial(c)
    BY <1>1, TaskKeeps DEF Dial, Unknown
  <1>2. CASE Obtain(c)
    BY <1>2, TaskKeeps DEF Obtain
  <1>3. CASE Leave(c)
    BY <1>3, TaskKeeps DEF Leave
  <1>4. CASE NoticeLeft(c)
    BY <1>4, TaskKeeps DEF NoticeLeft, Unserve
  <1>5. CASE DeviceFails(c)
    BY <1>5, TaskKeeps DEF DeviceFails, Unserve
  <1>6. CASE \E want \in Wants : Ask(c, want)
    BY <1>6, TaskKeeps DEF Ask
  <1> QED
    BY <1>1, <1>2, <1>3, <1>4, <1>5, <1>6

\* A device opened for a new session has a name of its own, and no route yet.
LEMMA OpenKeeps ==
  ASSUME NetInv, NEW c \in Clients, Open(c)
  PROVE  NetInv'
  <1>0. USE NetFact
  <1>1. task[c] = "asked" /\ UNCHANGED <<asked, routes, forward, FORWARDING, lost>>
    BY DEF Open
  <1>2. CASE /\ RoleIsFree(c) /\ NameIsFree(c)
             /\ sessions' = sessions \cup {c} /\ kernel' = [kernel EXCEPT !.devs = @ \cup {c}]
             /\ task' = [task EXCEPT ![c] = "serving"] /\ UNCHANGED client
    <2>1. /\ kernel' \in Kernels /\ kernel'.devs = kernel.devs \cup {c}
          /\ kernel'.routes = kernel.routes /\ kernel'.fwd = kernel.fwd
      BY <1>2 DEF Kernels
    <2>2. c \notin sessions /\ c \notin kernel.devs
      BY <1>1 DEF TasksOwn
    <2>3. NetTypes'
      BY <1>1, <1>2, <2>1 DEF NetTypes, Kernels, Counts, Roles, Wants
    <2>4. TasksOwn'
      BY <1>2, <2>1 DEF TasksOwn
    <2>5. NamesDiffer'
      BY <1>2, <2>1 DEF NamesDiffer, NameIsFree
    <2>6. RoutesOwned'
      <3>1. routes[c] = {}
        BY <2>2 DEF RoutesOwned
      <3> QED
        BY <1>1, <1>2, <2>1, <3>1 DEF RoutesOwned
    <2>7. ForwardOwned'
      BY <1>1, <1>2, <2>1 DEF ForwardOwned
    <2> QED
      BY <2>3, <2>4, <2>5, <2>6, <2>7 DEF NetInv
  <1>3. CASE /\ task' = [task EXCEPT ![c] = "none"]
             /\ client' = [client EXCEPT ![c] = IF @ = "asking" THEN "refused" ELSE @]
             /\ UNCHANGED <<sessions, kernel>>
    BY <1>1, <1>3, TaskKeeps
  <1> QED
    BY <1>2, <1>3 DEF Open

LEMMA AddRouteKeeps ==
  ASSUME NetInv, NEW q \in asked, AddRoute(q)
  PROVE  NetInv'
  <1>0. USE NetFact
  <1> DEFINE c == q[1]
             r == q[2]
             adds == c \in sessions /\ \A role \in Roles : <<role, r>> \notin kernel.routes
  <1>1. /\ r \in Cidrs /\ asked' = asked \ {q}
        /\ routes' = IF adds THEN [routes EXCEPT ![c] = @ \cup {r}] ELSE routes
        /\ kernel' = IF adds THEN [kernel EXCEPT !.routes = @ \cup {<<Role(c), r>>}] ELSE kernel
        /\ UNCHANGED <<client, task, sessions, forward, FORWARDING, lost>>
    BY DEF AddRoute
  <1>2. c \in Clients
    OBVIOUS
  <1>3. CASE ~adds
    <2>1. UNCHANGED <<routes, kernel>>
      BY <1>1, <1>3
    <2> QED
      BY <1>1, <2>1, TaskKeeps
  <1>4. CASE adds
    <2>0. Role(c) \in Roles
      BY <1>2 DEF Roles
    <2>1. /\ kernel' \in Kernels /\ kernel'.devs = kernel.devs /\ kernel'.fwd = kernel.fwd
          /\ kernel'.routes = kernel.routes \cup {<<Role(c), r>>}
      BY <1>1, <1>4, <2>0 DEF Kernels
    <2>2. /\ routes' \in [Clients -> SUBSET Cidrs]
          /\ \A d \in Clients : routes'[d] = IF d = c THEN routes[d] \cup {r} ELSE routes[d]
      BY <1>1, <1>2, <1>4
    <2>3. c \in sessions
      BY <1>4
    <2> HIDE DEF c, r, adds
    <2>4. NetTypes'
      BY <1>1, <2>1, <2>2 DEF NetTypes, Kernels, Counts, Roles, Wants
    <2>5. TasksOwn' /\ NamesDiffer'
      BY <1>1, <2>1 DEF TasksOwn, NamesDiffer
    <2>6. RoutesOwned'
      <3>1. ASSUME NEW x \in kernel'.routes
            PROVE  \E d \in sessions' : x[1] = Role(d) /\ x[2] \in routes'[d]
        <4>1. CASE x \in kernel.routes
          BY <1>1, <2>2, <4>1 DEF RoutesOwned
        <4>2. CASE x = <<Role(c), r>>
          BY <1>1, <2>2, <2>3, <4>2
        <4> QED
          BY <2>1, <4>1, <4>2
      <3>2. \A d \in sessions' : \A s \in routes'[d] : <<Role(d), s>> \in kernel'.routes
        BY <1>1, <2>1, <2>2 DEF RoutesOwned
      <3>3. \A d \in Clients : d \notin sessions' => routes'[d] = {}
        BY <1>1, <2>2, <2>3 DEF RoutesOwned
      <3> QED
        BY <3>1, <3>2, <3>3 DEF RoutesOwned
    <2>7. ForwardOwned'
      BY <1>1, <2>1 DEF ForwardOwned
    <2> QED
      BY <2>4, <2>5, <2>6, <2>7 DEF NetInv
  <1> QED
    BY <1>3, <1>4

\* A session enables forwarding once; the first keeps what the administrator had set.
LEMMA AddForwardKeeps ==
  ASSUME NetInv, NEW q \in asked, AddForward(q)
  PROVE  NetInv'
  <1>0. USE NetFact
  <1> DEFINE c == q[1]
             adds == c \in sessions /\ ~Already(c)
  <1>1. /\ asked' = asked \ {q}
        /\ FORWARDING' = IF adds THEN Enabled ELSE FORWARDING
        /\ kernel' = IF adds THEN [kernel EXCEPT !.fwd = TRUE] ELSE kernel
        /\ forward' = IF adds THEN forward \cup {c} ELSE forward
        /\ UNCHANGED <<client, task, sessions, routes, lost>>
    BY DEF AddForward
  <1>2. c \in Clients
    OBVIOUS
  <1>3. CASE ~adds
    <2>1. UNCHANGED <<forward, FORWARDING, kernel>>
      BY <1>1, <1>3
    <2> QED
      BY <1>1, <2>1, TaskKeeps
  <1>4. CASE adds
    <2>1. /\ kernel' \in Kernels /\ kernel'.devs = kernel.devs /\ kernel'.fwd = TRUE
          /\ kernel'.routes = kernel.routes
      BY <1>1, <1>4 DEF Kernels
    <2>2. c \in sessions /\ c \notin forward /\ forward' = forward \cup {c}
      BY <1>1, <1>4 DEF Already
    <2>3. FORWARDING' = Enabled
      BY <1>1, <1>4
    <2> HIDE DEF c, adds
    <2>4. /\ FORWARDING.count = Cardinality(forward)
          /\ Cardinality(forward') = Cardinality(forward) + 1
          /\ Cardinality(forward') \in 0..Cardinality(Clients)
          /\ Cardinality(forward) = 0 <=> forward = {}
          /\ Cardinality(forward) \in Nat
      <3>1. forward \subseteq Clients /\ forward' \subseteq Clients
        BY <1>2, <2>2
      <3>2. Cardinality(forward) \in 0..Cardinality(Clients) /\ Cardinality(Clients) \in Nat
        BY <3>1, ForwardCount, FS_CardinalityType, ClientsAssumption DEF ClientsAssumption
      <3> QED
        BY <2>2, <3>1, <3>2, ForwardCount DEF ForwardOwned
    <2>5. /\ FORWARDING' \in Counts /\ FORWARDING'.count = Cardinality(forward')
          /\ FORWARDING'.prior = IF forward = {} THEN kernel.fwd ELSE FORWARDING.prior
      BY <2>3, <2>4 DEF Enabled, Counts, Kernels
    <2>6. ~lost => FORWARDING'.prior = Admin
      BY <2>5 DEF ForwardOwned
    <2>7. NetTypes'
      BY <1>1, <1>2, <2>1, <2>2, <2>5 DEF NetTypes, Kernels, Counts, Roles, Wants
    <2>8. TasksOwn' /\ NamesDiffer' /\ RoutesOwned'
      BY <1>1, <2>1 DEF TasksOwn, NamesDiffer, RoutesOwned
    <2>9. ForwardOwned'
      BY <1>1, <2>1, <2>2, <2>5, <2>6 DEF ForwardOwned
    <2> QED
      BY <2>7, <2>8, <2>9 DEF NetInv
  <1> QED
    BY <1>3, <1>4

\* What the last session with forwarding gives back is the administrator's setting.
LEMMA ReleasedFact ==
  ASSUME NetInv, NEW c \in Clients
  PROVE  /\ Released(c) \in Counts /\ Released(c).count = Cardinality(forward \ {c})
         /\ FwdAfterRelease(c) \in BOOLEAN
         /\ forward \ {c} # {} => FwdAfterRelease(c) /\ (~lost => Released(c).prior = Admin)
         /\ forward \ {c} = {} /\ ~lost => FwdAfterRelease(c) = Admin
  <1>0. USE NetFact
  <1>1. /\ FORWARDING.count = Cardinality(forward) /\ Cardinality(forward) \in 0..Cardinality(Clients)
        /\ Cardinality(forward \ {c}) \in 0..Cardinality(Clients)
        /\ Cardinality(forward \ {c}) = 0 <=> forward \ {c} = {}
        /\ c \in forward => Cardinality(forward \ {c}) = Cardinality(forward) - 1
        /\ Cardinality(Clients) \in Nat
    <2>1. forward \subseteq Clients /\ forward \ {c} \subseteq Clients
      OBVIOUS
    <2> QED
      BY <2>1, ForwardCount, FS_CardinalityType, ClientsAssumption DEF ClientsAssumption, ForwardOwned
  <1>2. CASE c \notin forward
    <2>1. Released(c) = FORWARDING /\ FwdAfterRelease(c) = kernel.fwd /\ forward \ {c} = forward
      BY <1>2 DEF Released, FwdAfterRelease
    <2> QED
      BY <1>1, <2>1 DEF ForwardOwned, Counts, Kernels
  <1>3. CASE c \in forward /\ forward \ {c} = {}
    <2>1. Released(c) = NoForwarding /\ FwdAfterRelease(c) = FORWARDING.prior
      BY <1>1, <1>3 DEF Released, FwdAfterRelease
    <2>2. (~lost => FORWARDING.prior = Admin) /\ FORWARDING.prior \in BOOLEAN
      BY <1>3 DEF ForwardOwned, Counts
    <2>3. /\ Released(c) \in Counts /\ Released(c).count = 0
          /\ Cardinality(forward \ {c}) = 0
      BY <1>1, <1>3, <2>1 DEF NoForwarding, Counts
    <2> QED
      BY <1>3, <2>1, <2>2, <2>3
  <1>4. CASE c \in forward /\ forward \ {c} # {}
    <2>1. FORWARDING.count # 1
      BY <1>1, <1>4
    <2>2. Released(c) = [FORWARDING EXCEPT !.count = @ - 1] /\ FwdAfterRelease(c) = kernel.fwd
      BY <1>4, <2>1 DEF Released, FwdAfterRelease
    <2>3. /\ Released(c).count = Cardinality(forward \ {c}) /\ Released(c).prior = FORWARDING.prior
          /\ Released(c) \in Counts
      BY <1>1, <1>4, <2>2 DEF Counts
    <2>4. kernel.fwd = TRUE /\ (~lost => FORWARDING.prior = Admin)
      BY <1>4 DEF ForwardOwned, Kernels
    <2> QED
      BY <1>4, <2>2, <2>3, <2>4
  <1> QED
    BY <1>2, <1>3, <1>4

\* The lease of a session takes back its own routes and no other's, for no two have one
\* name; the session's device stays.
LEMMA DropLeaseKeeps ==
  ASSUME NetInv, NEW c \in Clients, DropLease(c)
  PROVE  NetInv'
  <1>0. USE NetFact
  <1>1. /\ task[c] = "closing" /\ task' = [task EXCEPT ![c] = "closed"]
        /\ sessions' = sessions \ {c} /\ forward' = forward \ {c}
        /\ FORWARDING' = Released(c) /\ routes' = [routes EXCEPT ![c] = {}]
        /\ UNCHANGED <<client, asked, lost>>
    BY DEF DropLease
  <1>2. /\ kernel' \in Kernels /\ kernel'.devs = kernel.devs /\ kernel'.fwd = FwdAfterRelease(c)
        /\ kernel'.routes = kernel.routes \ {<<Role(c), r>> : r \in routes[c]}
    BY ReleasedFact DEF DropLease, Kernels
  <1>3. \A d \in Clients : routes'[d] = IF d = c THEN {} ELSE routes[d]
    BY <1>1
  <1>4. NetTypes'
    BY <1>1, <1>2, ReleasedFact DEF NetTypes, Kernels, Counts, Roles, Wants
  <1>5. TasksOwn' /\ NamesDiffer'
    BY <1>1, <1>2 DEF TasksOwn, NamesDiffer
  <1>6. \A d \in sessions : d # c => Role(d) # Role(c)
    <2>1. c \in kernel.devs /\ sessions \subseteq kernel.devs
      BY <1>1 DEF TasksOwn
    <2> QED
      BY <2>1 DEF NamesDiffer
  <1>7. RoutesOwned'
    <2>1. ASSUME NEW x \in kernel'.routes
          PROVE  \E d \in sessions' : x[1] = Role(d) /\ x[2] \in routes'[d]
      <3>1. PICK d \in sessions : x[1] = Role(d) /\ x[2] \in routes[d]
        BY <1>2 DEF RoutesOwned
      <3>2. x = <<x[1], x[2]>>
        BY <1>2 DEF Kernels
      <3>3. d # c
        BY <1>2, <3>1, <3>2
      <3> QED
        BY <1>1, <1>3, <3>1, <3>3
    <2>2. \A d \in sessions' : \A r \in routes'[d] : <<Role(d), r>> \in kernel'.routes
      BY <1>1, <1>2, <1>3, <1>6 DEF RoutesOwned
    <2>3. \A d \in Clients : d \notin sessions' => routes'[d] = {}
      BY <1>1, <1>3 DEF RoutesOwned
    <2> QED
      BY <2>1, <2>2, <2>3 DEF RoutesOwned
  <1>8. ForwardOwned'
    <2>1. forward' \subseteq sessions'
      BY <1>1 DEF ForwardOwned
    <2> QED
      BY <1>1, <1>2, <2>1, ReleasedFact DEF ForwardOwned
  <1> QED
    BY <1>4, <1>5, <1>7, <1>8 DEF NetInv

\* No other session's route leads to a device that closes.
LEMMA DropDeviceKeeps ==
  ASSUME NetInv, NEW c \in Clients, DropDevice(c)
  PROVE  NetInv'
  <1>0. USE NetFact
  <1>1. /\ task[c] = "closed" /\ task' = [task EXCEPT ![c] = "none"]
        /\ UNCHANGED <<client, asked, sessions, routes, forward, FORWARDING, lost>>
    BY DEF DropDevice
  <1>2. /\ kernel' \in Kernels /\ kernel'.devs = kernel.devs \ {c} /\ kernel'.fwd = kernel.fwd
        /\ kernel'.routes = {r \in kernel.routes : r[1] # Role(c)}
    BY DEF DropDevice, Kernels
  <1>3. NetTypes'
    BY <1>1, <1>2 DEF NetTypes, Kernels, Counts, Roles, Wants
  <1>4. TasksOwn' /\ NamesDiffer'
    BY <1>1, <1>2 DEF TasksOwn, NamesDiffer
  <1>5. \A d \in sessions : Role(d) # Role(c)
    <2>1. c \in kernel.devs /\ c \notin sessions /\ sessions \subseteq kernel.devs
      BY <1>1 DEF TasksOwn
    <2> QED
      BY <2>1 DEF NamesDiffer
  <1>6. RoutesOwned'
    <2>1. kernel'.routes \subseteq kernel.routes
      BY <1>2
    <2>2. \A d \in sessions : \A r \in routes[d] : <<Role(d), r>> \in kernel'.routes
      BY <1>2, <1>5 DEF RoutesOwned
    <2> QED
      BY <1>1, <2>1, <2>2 DEF RoutesOwned
  <1>7. ForwardOwned'
    BY <1>1, <1>2 DEF ForwardOwned
  <1> QED
    BY <1>3, <1>4, <1>6, <1>7 DEF NetInv

\* A crash closes every device; what it may leave behind is forwarding, and that it tells.
LEMMA HelperCrashKeeps ==
  ASSUME NetInv, HelperCrash
  PROVE  NetInv'
  <1>0. USE NetFact
  <1>1. /\ lost' = TRUE /\ task' = [c \in Clients |-> "none"] /\ asked' = {}
        /\ sessions' = {} /\ routes' = [c \in Clients |-> {}] /\ forward' = {}
        /\ FORWARDING' = NoForwarding
    BY DEF HelperCrash
  <1>2. client' \in [Clients -> {"idle", "asking", "up", "refused"}]
    BY DEF HelperCrash
  <1>3. kernel' \in Kernels /\ kernel'.devs = {} /\ kernel'.routes = {}
    BY DEF HelperCrash, Kernels
  <1>4. NoForwarding \in Counts /\ NoForwarding.count = Cardinality({})
    BY FS_EmptySet, FS_CardinalityType, ClientsAssumption
       DEF ClientsAssumption, NoForwarding, Counts
  <1>5. NetTypes'
    BY <1>1, <1>2, <1>3, <1>4 DEF NetTypes, Kernels, Counts, Roles
  <1>6. TasksOwn' /\ NamesDiffer' /\ RoutesOwned' /\ ForwardOwned'
    BY <1>1, <1>3, <1>4 DEF TasksOwn, NamesDiffer, RoutesOwned, ForwardOwned
  <1> QED
    BY <1>5, <1>6 DEF NetInv

LEMMA NetInitFact ==
  ASSUME NetInit
  PROVE  NetInv
  <1>1. NoForwarding \in Counts /\ NoForwarding.count = Cardinality({})
    BY FS_EmptySet, FS_CardinalityType, ClientsAssumption
       DEF ClientsAssumption, NoForwarding, Counts
  <1>2. Admin \in BOOLEAN
    BY ClientsAssumption DEF ClientsAssumption
  <1>3. NetTypes
    BY <1>1, <1>2 DEF NetInit, NetTypes, Counts
  <1> QED
    BY <1>1, <1>3 DEF NetInit, NetInv, TasksOwn, NamesDiffer, RoutesOwned, ForwardOwned

LEMMA NetKeeps ==
  ASSUME NetInv,
         \/ \E c \in Clients : \/ Dial(c) \/ Obtain(c) \/ Leave(c) \/ DeviceFails(c)
                               \/ HelperStep(c) \/ \E want \in Wants : Ask(c, want)
         \/ \E q \in asked : AddRoute(q) \/ AddForward(q)
         \/ HelperCrash \/ UNCHANGED network
  PROVE  NetInv'
  <1>1. ASSUME NEW c \in Clients,
               \/ Dial(c) \/ Obtain(c) \/ Leave(c) \/ DeviceFails(c)
               \/ HelperStep(c) \/ \E want \in Wants : Ask(c, want)
        PROVE  NetInv'
    BY <1>1, ClientKeeps, OpenKeeps, DropLeaseKeeps, DropDeviceKeeps DEF HelperStep
  <1>2. CASE \E q \in asked : AddRoute(q) \/ AddForward(q)
    BY <1>2, AddRouteKeeps, AddForwardKeeps
  <1>3. CASE UNCHANGED network
    BY <1>3, NetFact, TaskKeeps DEF network
  <1> QED
    BY <1>1, <1>2, <1>3, HelperCrashKeeps

-----------------------------------------------------------------------------
(* The machine *)

LEMMA NodeInitFact ==
  ASSUME NodeInit
  PROVE  NodeInv
  BY SupInitFact, NetInitFact, MachinesAssumption DEF MachinesAssumption, NodeInit, NodeInv

LEMMA HangsUpFact ==
  ASSUME NEW w \in Workers, HangsUp(w)
  PROVE  w \in Clients /\ (Leave(w) \/ UNCHANGED network)
  BY MachinesAssumption DEF MachinesAssumption, HangsUp

\* Every step of a machine is one of each part, and spends at most one fault.
LEMMA NodeParts ==
  ASSUME NodeInv, NodeNext
  PROVE  /\ \/ SupStep \/ DelayEnds \/ Edit \/ StartAgain \/ LaunchFails \/ Shutdown \/ Crash
            \/ \E w \in Workers : Launch(w) \/ Obeys(w) \/ Exits(w)
            \/ UNCHANGED supervision
         /\ \/ \E c \in Clients : \/ Dial(c) \/ Obtain(c) \/ Leave(c) \/ DeviceFails(c)
                                  \/ HelperStep(c) \/ \E want \in Wants : Ask(c, want)
            \/ \E q \in asked : AddRoute(q) \/ AddForward(q)
            \/ HelperCrash \/ UNCHANGED network
         /\ UNCHANGED machine \/ Fault
  <1>1. CASE Supervises \/ Waits
    BY <1>1 DEF Supervises, Waits
  <1>2. CASE Operates
    BY <1>2 DEF Operates
  <1>3. CASE Serves
    BY <1>3 DEF Serves
  <1>4. CASE Breaks
    BY <1>4 DEF Breaks
  <1>5. ASSUME NEW w \in Workers, WorkerObeys(w) \/ WorkerGivesUp(w) \/ WorkerFails(w)
        PROVE  /\ Obeys(w) \/ Exits(w)
               /\ w \in Clients /\ (Leave(w) \/ UNCHANGED network)
               /\ UNCHANGED machine \/ Fault
    BY <1>5, HangsUpFact DEF WorkerObeys, WorkerGivesUp, WorkerFails
  <1>6. ASSUME NEW c \in Clients, Connects(c) \/ Helps(c) \/ Requests(c) \/ Disconnects(c)
        PROVE  /\ UNCHANGED supervision /\ UNCHANGED machine
               /\ \/ Dial(c) \/ Obtain(c) \/ Leave(c) \/ HelperStep(c) \/ \E want \in Wants : Ask(c, want)
    BY <1>6 DEF Connects, Helps, Requests, Disconnects
  <1> QED
    BY <1>1, <1>2, <1>3, <1>4, <1>5, <1>6 DEF NodeNext

LEMMA NodeStep ==
  ASSUME NodeInv, [NodeNext]_nodeVars
  PROVE  NodeInv'
  <1>1. CASE NodeNext
    <2>1. SupInv' /\ NetInv'
      BY <1>1, NodeParts, SupKeeps, NetKeeps DEF NodeInv
    <2>2. faults' \in 0..MaxFaults /\ here' \in Machines
      BY <1>1, NodeParts, MachinesAssumption DEF MachinesAssumption, NodeInv, Fault, machine
    <2> QED
      BY <2>1, <2>2 DEF NodeInv
  <1>2. CASE UNCHANGED nodeVars
    <2>1. UNCHANGED supervision /\ UNCHANGED network /\ UNCHANGED <<faults, here>>
      BY <1>2 DEF nodeVars, machine
    <2>2. SupInv' /\ NetInv'
      BY <2>1, SupKeeps, NetKeeps DEF NodeInv
    <2> QED
      BY <2>1, <2>2 DEF NodeInv
  <1> QED
    BY <1>1, <1>2

\* Pair by pair, the kernel's routes are those of the sessions.
LEMMA NetImplies ==
  ASSUME NetInv
  PROVE  NetworkIsOwned
  <1>0. USE NetFact
  <1>1. sessions \subseteq kernel.devs
    BY DEF TasksOwn
  <1>2. \A c, d \in sessions : Role(c) = Role(d) => c = d
    BY <1>1 DEF NamesDiffer
  <1>3. kernel.routes = UNION {{<<Role(c), r>> : r \in routes[c]} : c \in sessions}
    <2>1. ASSUME NEW x \in kernel.routes
          PROVE  x \in UNION {{<<Role(c), r>> : r \in routes[c]} : c \in sessions}
      <3>1. PICK c \in sessions : x[1] = Role(c) /\ x[2] \in routes[c]
        BY DEF RoutesOwned
      <3>2. x = <<Role(c), x[2]>>
        BY <3>1 DEF Kernels
      <3>3. x \in {<<Role(c), r>> : r \in routes[c]}
        BY <3>1, <3>2
      <3> QED
        BY <3>3
    <2>2. ASSUME NEW x \in UNION {{<<Role(c), r>> : r \in routes[c]} : c \in sessions}
          PROVE  x \in kernel.routes
      <3>1. PICK c \in sessions : x \in {<<Role(c), r>> : r \in routes[c]}
        OBVIOUS
      <3> QED
        BY <3>1 DEF RoutesOwned
    <2> QED
      BY <2>1, <2>2
  <1> QED
    BY <1>1, <1>2, <1>3 DEF NetworkIsOwned, RoutesOwned, ForwardOwned

LEMMA NodeImplies ==
  ASSUME NodeInv
  PROVE  NodeIsSound
  <1>1. NodeTypeOK
    BY DEF NodeInv, SupInv, SupTypes, NetInv, NetTypes, NodeTypeOK, Managers
  <1>2. WorkersAreKept /\ NetworkIsOwned
    BY NetImplies DEF NodeInv, SupInv
  <1> QED
    BY <1>1, <1>2 DEF NodeIsSound

\* The inductive invariant of a machine.
THEOREM NodeInvHolds == NodeSpec => []NodeInv
  BY NodeInitFact, NodeStep, PTL DEF NodeSpec

\* A running worker is the one its supervisor keeps, the published status agrees with
\* it, and what is changed in the system is what the helper's sessions account for.
THEOREM NodeHolds == NodeSpec => []NodeIsSound
  BY NodeInvHolds, NodeImplies, PTL

=============================================================================
