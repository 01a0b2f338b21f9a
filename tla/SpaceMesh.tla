------------------------------- MODULE SpaceMesh -------------------------------
(* The members of a permanent space: spaces/network.rs and spaces/mesh.rs, over  *)
(* the server's sessions and its relay, which are SpaceService's in detail.      *)
(*                                                                               *)
(* A member opens a session, connects to the relay, asks the server every two    *)
(* seconds for the others' sessions, and keeps a link with each: a nonce of its  *)
(* own, and a handshake through the relay, every three seconds until it is done. *)
(* The key of a link is the server's, a function of the two sessions.            *)
(*                                                                               *)
(* The relay puts the source's address on a frame, keeps the order and drops     *)
(* what finds the queue full; so nothing comes twice, and the numbers of sealed  *)
(* messages are left out (they are SecureLink's).  So are the packets of the     *)
(* device, but for the hellos they crowd out; and a ping with its answer is one  *)
(* step.  A nonce is drawn for one link between two sessions, and named by them. *)
EXTENDS DatagramSecurity, Sequences, SequencesExt

CONSTANTS
    Nobody,
    Members,
    Failed,
    MaxEvents       \* bound: sessions opened and hellos lost

ASSUME EventsAssumption == MaxEvents \in Nat

VARIABLES
    sessions,       \* the server: the session of a member, or Nobody
    opened,         \* sessions ever opened
    client,         \* of a member: Nobody, or [session, links, phase]
    update,         \* of a member: an answer not yet used: the others' sessions; or Failed
    wire,           \* hellos on their way to a member
    lost            \* hellos lost (bound)

memberVars == <<sessions, opened, client, update, wire, lost>>

Others(m) == Members \ {m}
Present(m) == client[m] # Nobody
Links(m) == DOMAIN client[m].links

\* The relay serves a member whose session is the present one.
Stays(m) == Present(m) /\ sessions[m] = client[m].session

MemberInit ==
    /\ sessions = [m \in Members |-> Nobody] /\ opened = 0
    /\ client = [m \in Members |-> Nobody] /\ update = [m \in Members |-> Nobody]
    /\ wire = [m \in Members |-> <<>>] /\ lost = 0

-----------------------------------------------------------------------------
(* Links *)

\* refresh: a link stays if it is with the same session.  Mutant: with the same device.
NewLink(own, other) == [session |-> other, security |-> New({own, other}, <<own, other>>), ping |-> FALSE]
SameDevice(old, other) == TRUE
SameSession(old, other) == old.session = other
Refreshed(c, peers) ==
    [p \in {x \in DOMAIN peers : peers[x] # Nobody} |->
        IF p \in DOMAIN c.links /\ SameSession(c.links[p], peers[p]) THEN c.links[p]
        ELSE NewLink(c.session, peers[p])]

\* heartbeat: every link that is ready is pinged (and the others greeted).
Beaten(links) == [p \in DOMAIN links |-> [links[p] EXCEPT !.ping = @ \/ Ready(links[p].security)]]
Unready(links) == {p \in DOMAIN links : ~Ready(links[p].security)}
Hellos(links) == [p \in Unready(links) |-> Hello(links[p].security, Nothing)]

\* connected: some link is ready, its last ping answered (and was heard of lately).
Connected(links) == \E p \in DOMAIN links : Ready(links[p].security) /\ ~links[p].ping

MayHappen == opened + lost < MaxEvents

\* The hub forwards what m sends, msgs[p] to p, as far as both are served; or queues are
\* full.  A hello sent again while the same is under way is as good as one.
Carried(q, frame) == IF frame \in ToSet(q) THEN q ELSE Append(q, frame)
Forward(m, msgs, wires) ==
    \/ /\ wire' = [p \in Members |->
              IF Stays(m) /\ p \in DOMAIN msgs /\ Stays(p)
              THEN Carried(wires[p], [from |-> m, msg |-> msgs[p]])
              ELSE wires[p]]
       /\ UNCHANGED lost
    \/ DOMAIN msgs # {} /\ MayHappen /\ lost' = lost + 1 /\ wire' = wires

-----------------------------------------------------------------------------
(* Members *)

\* OpenSession replaces the session an earlier client left; the relay is connected
\* before anything is sent.
Enter(m) ==
    /\ ~Present(m) /\ MayHappen
    /\ opened' = opened + 1 /\ sessions' = [sessions EXCEPT ![m] = opened + 1]
    /\ client' = [client EXCEPT ![m] = [session |-> opened + 1, links |-> <<>>, phase |-> "Joining"]]
    /\ UNCHANGED <<update, wire, lost>>

\* The client ends, and closes its session if it can.
Departs(m) ==
    /\ client' = [client EXCEPT ![m] = Nobody] /\ update' = [update EXCEPT ![m] = Nobody]
    /\ wire' = [wire EXCEPT ![m] = <<>>]
    /\ UNCHANGED <<opened, lost>>
Quit(m) ==
    /\ Present(m) /\ Departs(m)
    /\ \/ sessions' = [sessions EXCEPT ![m] = IF @ = client[m].session THEN Nobody ELSE @]
       \/ UNCHANGED sessions

\* A session nobody renews expires; or its owner is removed from the space.
Expire(m) ==
    /\ sessions[m] # Nobody /\ sessions' = [sessions EXCEPT ![m] = Nobody]
    /\ UNCHANGED <<opened, client, update, wire, lost>>

\* The watcher asks for the others' sessions, and waits until the answer is used.
Ask(m) ==
    /\ Present(m) /\ update[m] = Nobody
    /\ update' = [update EXCEPT ![m] =
          IF sessions[m] # client[m].session THEN Failed ELSE [p \in Others(m) |-> sessions[p]]]
    /\ UNCHANGED <<sessions, opened, client, wire, lost>>
Update(m) ==
    /\ Present(m) /\ update[m] \notin {Nobody, Failed}
    /\ LET links == Refreshed(client[m], update[m])
       IN  /\ client' = [client EXCEPT ![m].links = Beaten(links)]
           /\ Forward(m, Hellos(links), wire)
    /\ update' = [update EXCEPT ![m] = Nobody]
    /\ UNCHANGED <<sessions, opened>>
\* What the relay still had for it goes with the connection.
Refused(m) == Present(m) /\ update[m] = Failed /\ Departs(m) /\ UNCHANGED sessions

\* The tick: heartbeat, then the phase.
Tick(m) ==
    /\ Present(m)
    /\ LET links == Beaten(client[m].links)
       IN  /\ client' = [client EXCEPT ![m].links = links,
                           ![m].phase = IF Connected(links) THEN "Connected" ELSE "Joining"]
           /\ Forward(m, Hellos(links), wire)
    /\ UNCHANGED <<sessions, opened, update>>

\* A hello from the relay.
Receive(m) ==
    /\ Present(m) /\ wire[m] # <<>>
    /\ LET from == Head(wire[m]).from
           msg == Head(wire[m]).msg
           rest == [wire EXCEPT ![m] = Tail(@)]
           c == client[m].links[from].security
       IN  IF from \in Links(m) /\ Replies(c, msg)
           THEN /\ Forward(m, [p \in {from} |-> Reply(c, msg)], rest)
                /\ client' = IF Binds(c, msg) THEN [client EXCEPT ![m].links[from].security = Bound(c, msg)]
                             ELSE client
           ELSE wire' = rest /\ UNCHANGED <<client, lost>>
    /\ UNCHANGED <<sessions, opened, update>>

\* The last ping is answered, by a member that is bound to this link.
Linked(m, p) == p \in Links(m) /\ client[m].links[p].session = client[p].session
                /\ Ready(client[m].links[p].security)
Pong(m, p) ==
    /\ Present(m) /\ Present(p) /\ Linked(m, p) /\ Linked(p, m) /\ client[m].links[p].ping
    /\ client' = [client EXCEPT ![m].links[p].ping = FALSE]
    /\ UNCHANGED <<sessions, opened, update, wire, lost>>

MemberNext == \E m \in Members :
    \/ Enter(m) \/ Quit(m) \/ Expire(m) \/ Ask(m) \/ Update(m) \/ Refused(m) \/ Tick(m)
    \/ Receive(m) \/ \E p \in Others(m) : Pong(m, p)

\* The watcher and the pump of every client run.  (The heartbeat that follows an update
\* is enough: that of the tick is assumed for the phase only.)
MemberFairness == \A m \in Members :
    WF_memberVars(Ask(m)) /\ WF_memberVars(Update(m) \/ Refused(m)) /\ WF_memberVars(Receive(m))
MemberSpec == MemberInit /\ [][MemberNext]_memberVars /\ MemberFairness
TickingSpec == MemberSpec /\ \A m \in Members : WF_memberVars(Tick(m)) /\ \A p \in Others(m) : WF_memberVars(Pong(m, p))
-----------------------------------------------------------------------------
(* Properties *)

Numbers == 1..MaxEvents
Peers(m) == [Others(m) -> Numbers \cup {Nobody}]
MemberTypeOK ==
    /\ opened + lost \in 0..MaxEvents
    /\ \A m \in Members :
          /\ sessions[m] \in Numbers \cup {Nobody} /\ update[m] \in Peers(m) \cup {Nobody, Failed}
          /\ Present(m) => /\ client[m].session \in Numbers /\ client[m].phase \in {"Joining", "Connected"}
                           /\ Links(m) \subseteq Others(m)
          /\ \A f \in ToSet(wire[m]) : f.from \in Others(m)

\* A link is bound to the session the server named for it and to no other, however late
\* a hello comes; and there is one for each member only.
BoundAsNamed == \A m \in Members : Present(m) => \A p \in Links(m) :
    LET link == client[m].links[p] IN
    Ready(link.security) => link.security.remote = <<link.session, client[m].session>>
MembersAreSound == MemberTypeOK /\ BoundAsNamed

\* Two members that stay in the space come to have links that are bound to each other,
\* whoever left and came again before, and whatever was lost.
MembersMeet == \A pair \in kSubset(2, Members) :
    (\A m \in pair : Stays(m)) ~> \/ \E m \in pair : ~Stays(m)
                                  \/ \A m \in pair : \A p \in pair \ {m} : Linked(m, p)

\* A member has no link for long with a session that is over; and one whose own is over
\* ends.
Haunted(m) == Present(m) /\ (~Stays(m) \/ \E p \in Links(m) : client[m].links[p].session # sessions[p])
GhostsVanish == (\E m \in Members : Haunted(m)) ~> \A m \in Members : ~Haunted(m)

\* What the state machine of a session is to tell: "connected" when the data path to some
\* other member works.
PhaseTellsConnected == \A m \in Members : \A p \in Others(m) :
    <>[](Stays(m) /\ Stays(p)) => <>(Present(m) /\ client[m].phase = "Connected")

\* The links of a space follow its members.
MembershipIsFollowed == MembersMeet /\ GhostsVanish
=============================================================================
