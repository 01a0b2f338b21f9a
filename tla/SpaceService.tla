---------------------------- MODULE SpaceService ----------------------------
(***************************************************************************)
(* The server of permanent spaces: spaces/server.rs over the store, the    *)
(* access leases of spaces/leases.rs and the relay of spaces/relay.rs.     *)
(*                                                                         *)
(* Three kinds of threads run it.  The database worker executes requests,  *)
(* one at a time, on the store and the leases.  Every relay connection is  *)
(* a task of its own: it is admitted by the worker, registers in the hub,  *)
(* forwards the frames of its member and is re-authenticated by the worker *)
(* every five seconds.  All of them share the hub, the leases and the      *)
(* cancellation tokens.                                                    *)
(*                                                                         *)
(* Device proofs come before a request and are left out, as are the keys   *)
(* of peers.  A frame is its source address; a connection's channel of 8   *)
(* frames holds one.                                                       *)
(***************************************************************************)
EXTENDS SpaceStore

CONSTANTS
    None,
    Conns,          \* relay connections
    AccessTtl,      \* ACCESS_TTL
    MaxSessions     \* bound: sessions opened

Leases == [session: 1..MaxSessions, address: Addresses, opened: Nat, expires: Nat]
Relays == [phase: {"upgrading", "serving", "asking"}, space: Spaces, device: Devices,
           address: Addresses, session: 1..MaxSessions, cut: BOOLEAN,
           frame: Addresses \cup {None}, rx: Addresses \cup {None}]

ASSUME LeaseAssumption == AccessTtl \in Nat /\ MaxSessions \in Nat
ASSUME NoneAssumption == None \notin Conns /\ None \notin Leases /\ None \notin Relays

VARIABLES
    leases,         \* of a <<space, device>>: [session, address, opened, expires] or None
    sessions,       \* sessions opened
    revoking,       \* the leases the worker has yet to revoke
    conns,          \* relay connections; None where there is none
    hub             \* the connection registered for a <<space, address>>

control == <<leases, sessions, revoking>>
relay == <<conns, hub>>
vars == <<tables, clock, control, relay>>

Pairs == Spaces \X Devices
Places == Spaces \X Addresses

Init ==
    /\ StoreInit
    /\ leases = [p \in Pairs |-> None] /\ sessions = 0
    /\ revoking = {}
    /\ conns = [c \in Conns |-> None]
    /\ hub = [p \in Places |-> None]

-----------------------------------------------------------------------------
(* Leases *)

\* remove: the leases at these pairs end, and with them their tokens.
Ended(ls, ps) == [p \in Pairs |-> IF p \in ps THEN None ELSE ls[p]]
Lapsed(at) == {p \in Pairs : leases[p] # None /\ leases[p].expires <= at}
Held(ls) == {p \in Pairs : ls[p] # None}

\* The cancellation token of a session: never cancelled while its lease is held.
LiveSession(x) == \E p \in Held(leases) : leases[p].session = x

\* What re-authentication finds: lookup, then virtual_address, then revoke_member.
\* Mutant: the store is not asked.
LookedUp(p) == leases[p] # None /\ leases[p].expires > clock
Authentic(p) ==
    /\ leases[p] # None /\ leases[p].expires > clock
    /\ Membership(p[1], p[2], clock) /\ HasAddress(p[1], p[2], leases[p].address)

-----------------------------------------------------------------------------
(* Requests, executed by the worker *)

Idle == revoking = {}

\* Requests on the store alone.
OnStore(d) == Idle /\ UNCHANGED <<clock, control, relay>> /\ \E at \in Stamps :
    \/ \E r \in Requests : Create(d, r, at)
    \/ \E i \in invites, r \in Requests : Redeem(i, d, r, at)
    \/ \E s \in Spaces : Invite(s, d, at) \/ RevokeInvites(s, d, at)

\* Requests that end memberships commit, and then revoke leases.
\* Mutant: a member that leaves keeps its lease.
LeaveAlone(s, d, at) == Leave(s, d, at) /\ revoking' = {}
LeaveSpace(s, d, at) == Leave(s, d, at) /\ revoking' = {<<s, d>>}
EndsMembership(s, d) ==
    /\ Idle
    /\ \E at \in Stamps :
        \/ LeaveSpace(s, d, at)
        \/ Delete(s, d, at) /\ revoking' = {s} \X Devices
        \/ \E e \in Devices : RemoveMember(s, d, e, at) /\ revoking' = {<<s, e>>}
    /\ UNCHANGED <<clock, leases, sessions, relay>>
Revoke ==
    /\ ~Idle
    /\ leases' = Ended(leases, revoking) /\ revoking' = {}
    /\ UNCHANGED <<tables, clock, sessions, relay>>

\* issue: there are as many leases as members may be; the swept ones stay swept when
\* there is no room.
OpenSession(s, d) == Idle /\ \E at \in Stamps :
    LET swept == Ended(leases, Lapsed(at))
        a == CHOOSE m \in MembersOf(s) : m.device = d
        room == swept[<<s, d>>] # None \/ Cardinality(Held(swept)) < TotalMembers
    IN  /\ Membership(s, d, at)
        /\ sessions < MaxSessions
        /\ leases' = IF ~room THEN swept ELSE
              [swept EXCEPT ![<<s, d>>] = [session |-> sessions + 1, address |-> a.address,
                                          opened |-> clock, expires |-> at + AccessTtl]]
        /\ sessions' = IF room THEN sessions + 1 ELSE sessions
        /\ UNCHANGED <<tables, clock, revoking, relay>>

\* A request that names the session was made after the one that opened it.
RefreshSession(s, d) == Idle /\ LET l == leases[<<s, d>>] IN
    /\ l # None
    /\ \E at \in Stamps :
        /\ at >= l.opened
        /\ Membership(s, d, at) /\ l.expires > at
        /\ leases' = [leases EXCEPT ![<<s, d>>].expires = at + AccessTtl]
    /\ UNCHANGED <<tables, clock, sessions, revoking, relay>>

CloseSession(s, d) ==
    /\ Idle /\ leases[<<s, d>>] # None
    /\ \E at \in Stamps : Membership(s, d, at)
    /\ leases' = Ended(leases, {<<s, d>>})
    /\ UNCHANGED <<tables, clock, sessions, revoking, relay>>

-----------------------------------------------------------------------------
(* Relay connections *)

Pair(c) == <<conns[c].space, conns[c].device>>
Place(c) == <<conns[c].space, conns[c].address>>
Upgrading(c) == conns[c] # None /\ conns[c].phase = "upgrading"
Open(c) == conns[c] # None /\ conns[c].phase \in {"serving", "asking"}

\* guard.cancelled: a child of the lease's token that the hub may cancel too.
Cancelled(c) == conns[c].cut \/ ~LiveSession(conns[c].session)

\* upgrade: the lease is copied; the socket is not there yet.
Upgrade(c, p) ==
    /\ Idle /\ conns[c] = None /\ leases[p] # None
    /\ conns' = IF ~Authentic(p) THEN conns ELSE
          [conns EXCEPT ![c] =
             [phase |-> "upgrading", space |-> p[1], device |-> p[2],
              address |-> leases[p].address, session |-> leases[p].session,
              cut |-> FALSE, frame |-> None, rx |-> None]]
    /\ leases' = IF Authentic(p) THEN leases ELSE Ended(leases, {p})
    /\ UNCHANGED <<tables, clock, sessions, revoking, hub>>

\* Hub::register enters the connection and, the hub unlocked, cancels the one that
\* was there.  Between the two that one can reach nobody and nobody can reach it,
\* for the hub no longer names it: one step.
Register(c) ==
    /\ Upgrading(c)
    /\ conns' = [o \in Conns |->
          IF o = c THEN [conns[c] EXCEPT !.phase = "serving"]
          ELSE IF o = hub[Place(c)] THEN [conns[o] EXCEPT !.cut = TRUE]
          ELSE conns[o]]
    /\ hub' = [hub EXCEPT ![Place(c)] = c]
    /\ UNCHANGED <<tables, clock, control>>

\* The guard is dropped: it takes only its own entry out of the hub.  A connection
\* that was not registered has none.  Mutant: whatever is at its place goes.
DropAny(c) == hub' = [hub EXCEPT ![Place(c)] = None]
DropOwn(c) == hub' = IF hub[Place(c)] = c THEN [hub EXCEPT ![Place(c)] = None] ELSE hub
End(c) == DropOwn(c) /\ conns' = [conns EXCEPT ![c] = None]

\* serve's loop, between frames and not awaiting the worker.
Serving(c) == Open(c) /\ conns[c].phase = "serving" /\ conns[c].frame = None

\* The socket fails, closes or is silent for too long; or it never comes about.
Hangup(c) ==
    /\ Serving(c) \/ Upgrading(c)
    /\ End(c)
    /\ UNCHANGED <<tables, clock, control>>
Notice(c) ==
    /\ Serving(c) /\ Cancelled(c)
    /\ End(c)
    /\ UNCHANGED <<tables, clock, control>>

\* The five-second tick asks the worker to authenticate the session again, and the
\* connection waits for the answer.  Of the leases a refusal may end only the one
\* whose token the connection has.
Ask(c) ==
    /\ Serving(c)
    /\ conns' = [conns EXCEPT ![c].phase = "asking"]
    /\ UNCHANGED <<tables, clock, control, hub>>
Answer(c) ==
    /\ Idle /\ Open(c) /\ conns[c].phase = "asking"
    /\ LET same == leases[Pair(c)] # None /\ leases[Pair(c)].session = conns[c].session
       IN  \/ /\ same /\ Authentic(Pair(c))
              /\ conns' = [conns EXCEPT ![c].phase = "serving"]
              /\ UNCHANGED <<leases, hub>>
           \/ /\ ~(same /\ Authentic(Pair(c)))
              /\ leases' = IF same THEN Ended(leases, {Pair(c)}) ELSE leases
              /\ End(c)
    /\ UNCHANGED <<tables, clock, sessions, revoking>>

\* forward looks at the token of its own connection, and then locks the hub.
TakeFrame(c, a) ==
    /\ Serving(c) /\ ~Cancelled(c) /\ a # conns[c].address
    /\ conns' = [conns EXCEPT ![c].frame = a]
    /\ UNCHANGED <<tables, clock, control, hub>>
IsRegistered(c) == hub[Place(c)] = c
RouteFrame(c) ==
    /\ Open(c) /\ conns[c].frame # None
    /\ LET t == hub[<<conns[c].space, conns[c].frame>>]
           reaches == IsRegistered(c) /\ t # None /\ ~Cancelled(t) /\ conns[t].rx = None
       IN  conns' = [o \in Conns |->
              IF o = c THEN [conns[c] EXCEPT !.frame = None]
              ELSE IF reaches /\ o = t THEN [conns[o] EXCEPT !.rx = conns[c].address]
              ELSE conns[o]]
    /\ UNCHANGED <<tables, clock, control, hub>>

\* A frame leaves for the member, unless the connection is cancelled by now.
Deliver(c) ==
    /\ Serving(c) /\ conns[c].rx # None
    /\ IF Cancelled(c) THEN End(c)
       ELSE conns' = [conns EXCEPT ![c].rx = None] /\ UNCHANGED hub
    /\ UNCHANGED <<tables, clock, control>>

-----------------------------------------------------------------------------
Pass == Tick /\ UNCHANGED <<control, relay>>

\* The server is restarted: only the tables remain.
Restart ==
    /\ leases' = [p \in Pairs |-> None] /\ revoking' = {}
    /\ conns' = [c \in Conns |-> None] /\ hub' = [p \in Places |-> None]
    /\ UNCHANGED <<tables, clock, sessions>>

Request(d) ==
    \/ OnStore(d)
    \/ \E s \in Spaces : EndsMembership(s, d) \/ OpenSession(s, d)
                         \/ RefreshSession(s, d) \/ CloseSession(s, d)
Connection(c) ==
    \/ \E p \in Pairs : Upgrade(c, p)
    \/ Register(c) \/ Hangup(c) \/ Notice(c) \/ Ask(c) \/ Answer(c)
    \/ \E a \in Addresses : TakeFrame(c, a)
    \/ RouteFrame(c) \/ Deliver(c)

Next ==
    \/ \E d \in Devices : Request(d)
    \/ Revoke
    \/ \E c \in Conns : Connection(c)
    \/ Pass
    \/ Restart

\* The worker serves its queue in order, so that a question is not overtaken for ever
\* by other requests; and a connection prefers its tick to frames (select! is biased).
Fairness ==
    /\ WF_vars(Revoke)
    /\ \A c \in Conns :
          WF_vars(RouteFrame(c)) /\ SF_vars(Ask(c)) /\ SF_vars(Answer(c))
Spec == Init /\ [][Next]_vars
FairSpec == Spec /\ Fairness

-----------------------------------------------------------------------------
(* Properties *)

TypeOK ==
    /\ StoreTypeOK
    /\ leases \in [Pairs -> Leases \cup {None}]
    /\ sessions \in 0..MaxSessions /\ revoking \subseteq Pairs
    /\ conns \in [Conns -> Relays \cup {None}]
    /\ hub \in [Places -> Conns \cup {None}]

\* A device stands at an address of a space as its member; or the worker is about
\* to revoke it; or the space is gone, and only re-authentication will tell.
Standing(s, d, a) ==
    \/ HasAddress(s, d, a)
    \/ <<s, d>> \in revoking
    \/ \A row \in spaces : row.id # s

\* Memberships are rows of a database and leases live in memory: no lease survives
\* the membership it was issued for, nor passes to another address.
LeasesFollowMembership ==
    \A p \in Held(leases) : Standing(p[1], p[2], leases[p].address)

\* An open connection that is not cancelled is the one the hub forwards to, so that
\* there is one voice at an address and it is not deaf; and the hub names only
\* connections at their own place.
OneVoice ==
    /\ \A c \in Conns : Open(c) /\ ~Cancelled(c) => hub[Place(c)] = c
    /\ \A q \in Places : hub[q] # None => Open(hub[q]) /\ Place(hub[q]) = q

\* A frame is forwarded between members of one space only, under the address the
\* sender holds: one that was removed, replaced or displaced no longer speaks
\* under it, nor does it receive.  (The frame a sender held when its token was
\* cancelled may still pass, unless the address has a new connection.)
Speaks(c, t) ==
    /\ conns[c] # None /\ conns'[c] # None
    /\ conns[c].frame = conns[t].address /\ conns'[c].frame = None
    /\ conns[c].space = conns[t].space /\ conns'[t].rx = conns[c].address
    /\ \A o \in Conns : Open(o) /\ Place(o) = Place(c) /\ ~Cancelled(o) => o = c
    /\ LiveSession(conns[c].session) => Standing(conns[c].space, conns[c].device, conns[c].address)
RelayOnlyMembers ==
    [][\A t \in Conns : conns[t] # None /\ conns'[t] # None /\ conns'[t].rx # conns[t].rx =>
          /\ LiveSession(conns[t].session)
          /\ Standing(conns[t].space, conns[t].device, conns[t].address)
          /\ conns'[t].rx # None => \E c \in Conns : Speaks(c, t)]_vars

\* A connection whose lease or membership has ended, or whose space has expired or
\* is gone, is closed (or its lease is renewed in time): the tick finds what no
\* revocation announced.
Entitled(c) ==
    \E l \in {leases[Pair(c)]} \ {None} :
        /\ l.session = conns[c].session /\ l.expires > clock
        /\ IsMember(conns[c].space, conns[c].device) /\ Active(conns[c].space, clock)
Stranger(c) == Open(c) /\ ~Entitled(c)
DroppedInTheEnd(c) == Stranger(c) ~> ~Stranger(c)
StrangersAreDropped == \A c \in Conns : DroppedInTheEnd(c)

\* Leases, connections and hub agree with each other and with the database.
RelayIsSound == TypeOK /\ LeasesFollowMembership /\ OneVoice
=============================================================================
