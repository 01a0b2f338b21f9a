------------------------------ MODULE PacketPlane ------------------------------
(* The way of an IP packet through a virtual LAN, in p2p/tun.rs: a guest is one  *)
(* task that copies between its device and its connection to the host, and waits *)
(* with every write; the host has, for each link, a task that reads and one that *)
(* writes, and one dispatcher between them and its own device, all of which hand *)
(* packets on through bounded queues and drop what does not fit.  Both sides     *)
(* send heartbeats and answer those of the other.                                *)
(*                                                                               *)
(* A connection carries whole frames in order and holds a bounded number; what   *)
(* is in it survives the end of its sender.  A device takes every packet.  The   *)
(* host's table of links is HostMesh's; here a link is registered once.          *)
(*                                                                               *)
(* A network is the set of its addresses.  Networks are blocks, of which two are *)
(* disjoint or one is in the other, so the longest prefix is the least set.      *)
EXTENDS Naturals, Sequences, FiniteSets

CONSTANTS
    Guest, Host,    \* a member is named by its address in the virtual LAN
    Address,        \* those, and the addresses in networks of guests
    Announced,      \* the networks a guest exposes
    WireCap,        \* what a connection buffers
    QueueCap,       \* the queues of the host, 256
    MaxPackets,     \* bound: packets each device hands over
    MaxPings,       \* bound: heartbeats of each end of each link
    Frail           \* bound: the guests that may fail, or be given up
\* The host is none of its guests; what is bounded has a size.
ASSUME PlaneAssumption ==
    /\ Host \notin Guest /\ Guest \cup {Host} \subseteq Address
    /\ WireCap \in Nat /\ QueueCap \in Nat

VARIABLES
    pump,           \* what a guest's task is doing: [at, frame]
    up, down,       \* the connection of a guest, either way
    broken,         \* connections that failed
    link,           \* at the host: "on", "dead" (its tasks are over) or "gone"
    told,           \* reports of the link's death under way
    queue, writing, \* what waits for the task that writes, and what it holds
    dispatch,       \* what waits for the dispatcher
    arrived,        \* history: packets written to a device, [by, at, src, dst]
    packets, pings  \* counters for the bounds

guestVars == <<pump>>
wires == <<up, down, broken>>
hostVars == <<link, told, queue, writing, dispatch>>
counts == <<packets, pings>>
vars == <<guestVars, wires, hostVars, arrived, counts>>

None == [kind |-> "none"]
Ping == [kind |-> "ping"]
Pong == [kind |-> "pong"]
End == [kind |-> "end"]
Packet(by, src, dst) == [kind |-> "packet", by |-> by, src |-> src, dst |-> dst]
Place == Guest \cup {Host}

\* mesh_routes_for: a guest is reached by its address and by its networks.
Routes(g) == {{g}} \cup Announced[g]
Matches(g, a) == {n \in Routes(g) : a \in n}
\* A network of g that holds the address is in every such network of h.
Nearer(g, h, a) ==
    /\ Matches(h, a) # {}
    /\ \E n \in Matches(g, a) : \A m \in Matches(h, a) : n \subseteq m /\ n # m
Idle == [at |-> "select", frame |-> None]
Over == [at |-> "over", frame |-> None]
Writes(f) == [at |-> "write", frame |-> f]

Init ==
    /\ pump = [g \in Guest |-> Idle]
    /\ up = [g \in Guest |-> <<>>] /\ down = up /\ broken = {}
    /\ link = [g \in Guest |-> "on"] /\ told = [g \in Guest |-> 0]
    /\ queue = [g \in Guest |-> <<>>] /\ writing = [g \in Guest |-> None] /\ dispatch = <<>>
    /\ arrived = {} /\ packets = [p \in Place |-> 0]
    /\ pings = [p \in Guest \X {"guest", "host"} |-> 0]

Offered(q, m) == IF Len(q) < QueueCap THEN Append(q, m) ELSE q
Arrive(f, place) == arrived' = arrived \cup {[by |-> f.by, at |-> place, src |-> f.src, dst |-> f.dst]}
Left(g) == pump[g].at = "over"

-----------------------------------------------------------------------------
(* A guest: run_packets_with_stats *)

Selects(g) == pump[g].at = "select"
GuestPings(g) ==
    /\ Selects(g) /\ pings[<<g, "guest">>] < MaxPings[<<g, "guest">>]
    /\ pings' = [pings EXCEPT ![<<g, "guest">>] = @ + 1] /\ pump' = [pump EXCEPT ![g] = Writes(Ping)]
    /\ UNCHANGED <<wires, hostVars, arrived, packets>>
\* What runs on the guest may send as anyone.
GuestSends(g) ==
    /\ Selects(g) /\ packets[g] < MaxPackets[g] /\ packets' = [packets EXCEPT ![g] = @ + 1]
    /\ \E s, d \in Address : s # d /\ d # g /\ pump' = [pump EXCEPT ![g] = Writes(Packet(g, s, d))]
    /\ UNCHANGED <<wires, hostVars, arrived, pings>>
GuestReads(g) ==
    /\ Selects(g) /\ g \notin broken /\ down[g] # <<>> /\ down' = [down EXCEPT ![g] = Tail(@)]
    /\ LET f == Head(down[g])
       IN /\ pump' = [pump EXCEPT ![g] = IF f.kind = "ping" THEN Writes(Pong) ELSE @]
          /\ IF f.kind = "packet" THEN Arrive(f, g) ELSE UNCHANGED arrived
    /\ UNCHANGED <<up, broken, hostVars, counts>>
GuestWrites(g) ==
    /\ pump[g].at = "write" /\ g \notin broken /\ link[g] = "on" /\ Len(up[g]) < WireCap
    /\ up' = [up EXCEPT ![g] = Append(@, pump[g].frame)] /\ pump' = [pump EXCEPT ![g] = Idle]
    /\ UNCHANGED <<down, broken, hostVars, arrived, counts>>
\* An error, or the end of the connection, that it meets where it is.
GuestFails(g) ==
    /\ \/ g \in broken /\ ~Left(g)
       \/ link[g] # "on" /\ (pump[g].at = "write" \/ (Selects(g) /\ down[g] = <<>>))
    /\ pump' = [pump EXCEPT ![g] = Over] /\ down' = [down EXCEPT ![g] = <<>>]
    /\ UNCHANGED <<up, broken, hostVars, arrived, counts>>
\* Twelve seconds without a frame, or an error of the device: noticed between frames.
GuestGivesUp(g) ==
    /\ Selects(g) /\ g \in Frail /\ pump' = [pump EXCEPT ![g] = Over]
    /\ down' = [down EXCEPT ![g] = <<>>]
    /\ UNCHANGED <<up, broken, hostVars, arrived, counts>>

-----------------------------------------------------------------------------
(* The host *)

\* The sender must be in a network of the link.  Mutant: packets are taken as from anyone.
SourceAllowedAny(g, f) == TRUE
SourceAllowed(g, f) == link[g] # "gone" /\ Matches(g, f.src) # {}
\* Where a packet goes: to the link with the nearest network, whichever comes first in
\* the table if several have it.
Routed(f) == \E g \in Guest : link[g] # "gone" /\ Matches(g, f.dst) # {}
Targets(f) == {g \in Guest :
    /\ link[g] # "gone" /\ Matches(g, f.dst) # {}
    /\ \A h \in Guest : Nearer(h, g, f.dst) => link[h] = "gone"}
\* A channel whose task has left takes nothing.
Forwarded(g, f) == IF link[g] = "on" THEN [queue EXCEPT ![g] = Offered(@, f)] ELSE queue

\* A reader that waited for room could block the guest that has to make it: with
\* ReaderWaits the answer to a heartbeat is sent, not tried.
ReaderWaits(g) == Head(up[g]).kind = "ping" => Len(queue[g]) < QueueCap
ReaderGoesOn(g) == TRUE
Reader(g) ==
    /\ link[g] = "on" /\ g \notin broken /\ up[g] # <<>> /\ ReaderGoesOn(g)
    /\ LET f == Head(up[g])
       IN /\ queue' = IF f.kind = "ping" THEN Forwarded(g, Pong) ELSE queue
          /\ dispatch' = IF f.kind = "packet" THEN Offered(dispatch, [from |-> g, frame |-> f]) ELSE dispatch
    /\ up' = [up EXCEPT ![g] = Tail(@)]
    /\ UNCHANGED <<guestVars, down, broken, link, told, writing, arrived, counts>>

WriterTakes(g) ==
    /\ link[g] = "on" /\ writing[g] = None
    /\ \/ /\ queue[g] # <<>> /\ writing' = [writing EXCEPT ![g] = Head(queue[g])]
          /\ queue' = [queue EXCEPT ![g] = Tail(@)] /\ UNCHANGED pings
       \/ /\ pings[<<g, "host">>] < MaxPings[<<g, "host">>] /\ pings' = [pings EXCEPT ![<<g, "host">>] = @ + 1]
          /\ writing' = [writing EXCEPT ![g] = Ping] /\ UNCHANGED queue
    /\ UNCHANGED <<guestVars, wires, link, told, dispatch, arrived, packets>>
Writer(g) ==
    /\ link[g] = "on" /\ writing[g] # None /\ g \notin broken /\ ~Left(g) /\ Len(down[g]) < WireCap
    /\ down' = [down EXCEPT ![g] = Append(@, writing[g])] /\ writing' = [writing EXCEPT ![g] = None]
    /\ UNCHANGED <<guestVars, up, broken, link, told, queue, dispatch, arrived, counts>>

\* The first of the two tasks to end reports the death and cancels the other, which may
\* be about to report it too.
Ends(g, n) ==
    /\ link[g] = "on" /\ link' = [link EXCEPT ![g] = "dead"] /\ told' = [told EXCEPT ![g] = n]
    /\ queue' = [queue EXCEPT ![g] = <<>>] /\ writing' = [writing EXCEPT ![g] = None]
    /\ up' = [up EXCEPT ![g] = <<>>]
    /\ UNCHANGED <<guestVars, down, broken, dispatch, arrived, counts>>
\* Mutant: a task ends without a word.
ToldByReader(g) == {0, 1}
Told(g) == {1, 2}
LinkFails(g) == (g \in broken \/ (Left(g) /\ (up[g] = <<>> \/ writing[g] # None))) /\ \E n \in Told(g) : Ends(g, n)
\* Twelve seconds without a frame.
Silence(g) == g \in Frail /\ Ends(g, 1)

\* mesh_host_loop takes the report.
Unregister(g) ==
    /\ told[g] > 0 /\ told' = [told EXCEPT ![g] = @ - 1] /\ link' = [link EXCEPT ![g] = "gone"]
    /\ UNCHANGED <<guestVars, wires, queue, writing, dispatch, arrived, counts>>

HostSends ==
    /\ packets[Host] < MaxPackets[Host] /\ packets' = [packets EXCEPT ![Host] = @ + 1]
    /\ \E d \in Address \ {Host} :
          LET f == Packet(Host, Host, d)
          IN IF Routed(f) THEN \E g \in Targets(f) : queue' = Forwarded(g, f) ELSE UNCHANGED queue
    /\ UNCHANGED <<guestVars, wires, link, told, writing, dispatch, arrived, pings>>

Dispatch ==
    /\ dispatch # <<>> /\ dispatch' = Tail(dispatch)
    /\ LET m == Head(dispatch)
           f == m.frame
       IN IF ~SourceAllowed(m.from, f) THEN UNCHANGED <<queue, arrived>>
          ELSE IF Routed(f) THEN (\E g \in Targets(f) : queue' = Forwarded(g, f)) /\ UNCHANGED arrived
          ELSE Arrive(f, Host) /\ UNCHANGED queue
    /\ UNCHANGED <<guestVars, wires, link, told, writing, counts>>

Break(g) ==
    /\ g \in Frail \ broken /\ broken' = broken \cup {g}
    /\ up' = [up EXCEPT ![g] = <<>>] /\ down' = [down EXCEPT ![g] = <<>>]
    /\ UNCHANGED <<guestVars, hostVars, arrived, counts>>

-----------------------------------------------------------------------------
GuestTask(g) == GuestReads(g) \/ GuestWrites(g) \/ GuestFails(g)
LinkTasks(g) == Reader(g) \/ Writer(g) \/ (queue[g] # <<>> /\ WriterTakes(g)) \/ LinkFails(g)
Next ==
    \/ HostSends \/ Dispatch
    \/ \E g \in Guest :
          \/ GuestPings(g) \/ GuestSends(g) \/ GuestTask(g) \/ GuestGivesUp(g)
          \/ LinkTasks(g) \/ WriterTakes(g) \/ Silence(g) \/ Unregister(g) \/ Break(g)

\* Tasks run; nobody has to send, to fail or to lose patience.
Fairness ==
    /\ WF_vars(Dispatch)
    /\ \A g \in Guest :
          /\ WF_vars(GuestTask(g)) /\ WF_vars(Reader(g)) /\ WF_vars(Writer(g))
          /\ WF_vars(LinkFails(g)) /\ WF_vars(Unregister(g))
Spec == Init /\ [][Next]_vars /\ Fairness

-----------------------------------------------------------------------------
(* Properties *)

TypeOK ==
    /\ \A g \in Guest :
          /\ pump[g].at \in {"select", "write", "over"} /\ link[g] \in {"on", "dead", "gone"}
          /\ Len(up[g]) <= WireCap /\ Len(down[g]) <= WireCap /\ Len(queue[g]) <= QueueCap
          /\ told[g] \in 0 .. 2
    /\ broken \subseteq Guest /\ Len(dispatch) <= QueueCap

\* A guest's device gets only packets for it or its networks, and not if a guest that is
\* still linked has a nearer network; and only from a guest, or a network of it, that the
\* packet names as its sender: however many links and queues the packet passes and whatever
\* is unregistered meanwhile.
NobodyElse == \A p \in arrived :
    /\ p.at \in Guest =>
          /\ Matches(p.at, p.dst) # {}
          /\ \A g \in Guest : Nearer(g, p.at, p.dst) => link[g] = "gone"
    /\ p.by \in Guest => Matches(p.by, p.src) # {}
PlaneIsSound == TypeOK /\ NobodyElse

\* A guest is never stuck in a write, which no timer of its own would end: the host reads
\* without waiting for anything, so there is room again, or an error.
Talkative == {g \in Guest : MaxPackets[g] + MaxPings[<<g, "guest">>] + MaxPings[<<g, "host">>] > 0}
NothingSticks == \A g \in Talkative : pump[g].at = "write" ~> pump[g].at # "write"

\* A link whose guest has left or whose connection failed is taken off the table.
Dead(g) == Left(g) \/ g \in broken
DeathsAreTold == (\E g \in Guest : Dead(g)) ~> \A g \in Guest : Dead(g) => link[g] = "gone"

\* Links go on, or end and are taken off the table.
LinksGoOn == NothingSticks /\ DeathsAreTold
=============================================================================
