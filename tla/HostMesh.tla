------------------------------ MODULE HostMesh ------------------------------
(* The host of a virtual LAN (`lan create`): mesh_host_loop keeps one link per   *)
(* guest of the room.  It polls the room, punches, takes the guests' PUNCHes     *)
(* from the shared socket, falls back to TURN and to the TCP relay, and learns   *)
(* of dead links from the relaying of the data plane (MeshPlane).  The loop is one  *)
(* task: each section below is an action, taken in any order of arrival.  What   *)
(* runs beside it: the guests, the relay connections it spawned, and the reader  *)
(* and writer of every link, which report a death after the link was replaced    *)
(* as easily as before.                                                          *)
(*                                                                               *)
(* A guest's connection information is the socket it bound and whether it holds  *)
(* a TURN relay; a socket shows two source addresses, its public mapping and its *)
(* LAN address.  A later attempt may get a port number of an earlier one.        *)
EXTENDS Integers, FiniteSets

CONSTANTS Guests, Socks,
          MaxJoins,   \* bound: connection attempts of all guests together
          MaxTasks,   \* bound: relay connections under way for one guest
          MaxUnread,  \* bound: unread death messages of one guest's links
          None

Paths == {"pub", "lan"}
Info == [sock: Socks, turn: BOOLEAN]
Addr == [guest: Guests, sock: Socks, path: Paths]
Kinds == {"direct", "turn", "relay"}
Pending == [info: Info, attempted: BOOLEAN, due: BOOLEAN]
\* told: 0 while the link works, then the LinkDeath messages of it still unread
Link == [kind: Kinds, offer: Info, told: 0..MaxUnread]
ASSUME BoundsAssumption ==
    MaxJoins \in Nat /\ MaxTasks \in Nat /\ MaxUnread \in Nat /\ IsFiniteSet(Socks)
ASSUME NoneAssumption ==
    None \notin Kinds \cup Addr \cup Info \cup Pending \cup Link

VARIABLES
    room,         \* the server's guest list
    joins,        \* attempts so far (bound)
    punching,     \* guests whose attempt may still send PUNCH
    forceRelay,   \* --relay
    running,      \* the session has not ended
    left,         \* it ended and left its links registered
    last,         \* last_guests
    pending,      \* guest -> PendingHost
    established,  \* guest -> kind of its link
    estPeer,      \* established_peer
    turnClient,   \* an allocation is at hand
    turnFailed, turnRetry,
    relaying,     \* guest -> offer -> relay connections under way or unread
    plane,        \* MeshPlane: guest -> its registered link
    stale,        \* guest -> unread LinkDeath messages of links replaced since
    peers,        \* UdpMesh: addresses with a stream
    aliases       \* UdpMesh: address -> canonical address

vars == <<room, joins, punching, forceRelay, running, left, last, pending, established, estPeer,
          turnClient, turnFailed, turnRetry, relaying, plane, stale, peers, aliases>>
world == <<room, joins, punching, forceRelay, left>>
turns == <<turnClient, turnFailed, turnRetry>>

\* guest_connection_changed
Changed(old, new) == old.sock # new.sock \/ old.turn # new.turn
\* mesh_peer_addrs
Addrs(u, info) == [guest: {u}, sock: {info.sock}, path: Paths]
NewPending(info, force) == [info |-> info, attempted |-> FALSE, due |-> force]

Init ==
    /\ room = [u \in Guests |-> None] /\ joins = 0 /\ punching = {}
    /\ forceRelay \in BOOLEAN /\ running = TRUE /\ left = FALSE
    /\ last = [u \in Guests |-> None] /\ pending = [u \in Guests |-> None]
    /\ established = [u \in Guests |-> None] /\ estPeer = [u \in Guests |-> None]
    /\ turnClient \in BOOLEAN /\ turnFailed = {} /\ turnRetry = {}
    /\ relaying = [u \in Guests |-> [i \in Info |-> 0]]
    /\ plane = [u \in Guests |-> None] /\ stale = [u \in Guests |-> 0]
    /\ peers = {} /\ aliases = [a \in Addr |-> None]

(* ---- The guests and the network ---- *)

\* A guest joins, or starts over with another socket and perhaps a TURN relay.
Join(u) ==
    /\ running /\ joins < MaxJoins
    /\ \E i \in Info : /\ room[u] # None => i.sock # room[u].sock
                       /\ room' = [room EXCEPT ![u] = i]
    /\ joins' = joins + 1 /\ punching' = punching \cup {u}
    /\ UNCHANGED <<forceRelay, left, running, last, pending, established, estPeer, turns,
                   relaying, plane, stale, peers, aliases>>

\* The reader or the writer of a link ends, finds its token not cancelled and
\* reports the death; the other of the two may have passed the same test.  A link
\* outlasts the punching of the attempt it came from: silence ends it after 15 s,
\* or after 3 s once the guest has sent data, and a guest punches for 12 s at most.
LinkEnds(u) ==
    /\ running /\ plane[u] # None /\ plane[u].told = 0
    /\ \E n \in 1..2 : /\ n + stale[u] <= MaxUnread
                      /\ plane' = [plane EXCEPT ![u].told = n]
    /\ punching' = punching \ {u}
    /\ UNCHANGED <<room, joins, forceRelay, left, running, last, pending, established, estPeer,
                   turns, relaying, stale, peers, aliases>>

\* The punching window of a pending guest closes.
WindowEnds(u) ==
    /\ pending[u] # None /\ ~pending[u].due
    /\ pending' = [pending EXCEPT ![u].due = TRUE]
    /\ UNCHANGED <<world, running, last, established, estPeer, turns, relaying, plane,
                   stale, peers, aliases>>

(* ---- The data plane ---- *)

\* unregister of the guests in U: a link's tasks go quietly if they have not yet
\* reported; what they reported stays in the channel and names a lifetime that is
\* no longer registered.
Unread(u) == IF plane[u] = None THEN 0 ELSE plane[u].told
StaleAfter(U) == [u \in Guests |-> IF u \in U THEN stale[u] + Unread(u) ELSE stale[u]]
Without(U) == [u \in Guests |-> IF u \in U THEN None ELSE plane[u]]
\* remove_peer
WithoutPeers(U) == peers \ {estPeer[u] : u \in U}

\* register: a new link of guest u, with the tasks that serve it.
Register(u, kind, offer) ==
    /\ plane' = [plane EXCEPT ![u] = [kind |-> kind, offer |-> offer, told |-> 0]]
    /\ stale' = StaleAfter({u})
    /\ established' = [established EXCEPT ![u] = kind]
    /\ pending' = [pending EXCEPT ![u] = None]
    /\ UNCHANGED <<world, running, last>>

\* A link that goes through a relay supersedes the direct one.
RegisterRelayed(u, kind, offer) ==
    /\ Register(u, kind, offer)
    /\ estPeer' = [estPeer EXCEPT ![u] = None]
    /\ UNCHANGED <<peers, aliases>>

(* ---- 1) the poll ---- *)

ChangedGuests == {u \in Guests : room[u] # None /\ last[u] # None /\ Changed(last[u], room[u])}

PollUpdates(gone) ==
    /\ last' = room
    /\ plane' = Without(gone) /\ stale' = StaleAfter(gone)
    /\ peers' = WithoutPeers(gone)
    /\ established' = [u \in Guests |-> IF u \in gone THEN None ELSE established[u]]
    /\ estPeer' = [u \in Guests |-> IF u \in gone THEN None ELSE estPeer[u]]
    /\ turnRetry' = turnRetry \ gone /\ turnFailed' = turnFailed \ gone
    /\ pending' = [u \in Guests |->
                     IF room[u] = None \/ established'[u] # None THEN pending[u]
                     ELSE IF pending[u] = None \/ u \in gone THEN NewPending(room[u], forceRelay)
                     ELSE [pending[u] EXCEPT !.info = room[u]]]
    /\ UNCHANGED <<world, running, turnClient, relaying, aliases>>

Poll == running /\ PollUpdates(ChangedGuests)

\* The loop ends, and with it all it remembers.
LoopEnds ==
    /\ running /\ running' = FALSE
    /\ stale' = [u \in Guests |-> 0]
    /\ last' = [u \in Guests |-> None] /\ pending' = last'
    /\ established' = last' /\ estPeer' = last'
    /\ turnClient' = FALSE /\ turnFailed' = {} /\ turnRetry' = {}
    /\ relaying' = [u \in Guests |-> [i \in Info |-> 0]]
    /\ peers' = {} /\ aliases' = [a \in Addr |-> None]

\* The room is gone or the token is refused: every link is dropped.
PollGone ==
    /\ LoopEnds
    /\ plane' = Without({u \in Guests : established[u] # None})
    /\ UNCHANGED world

\* 7) The router of the socket has ended, or a test has as many guests as it wants:
\* every link stays registered, and the session ends as well.
SocketClosed ==
    /\ LoopEnds
    /\ left' = TRUE
    /\ UNCHANGED <<room, joins, punching, forceRelay, plane>>

(* ---- 3) a PUNCH, or an ACK of our token, from src ---- *)

\* The guest is sought among the pending ones, in the last snapshot, in the room.
Known(src) ==
    LET u == src.guest
    IN  \/ pending[u] # None /\ src \in Addrs(u, pending[u].info)
        \/ last[u] # None /\ src \in Addrs(u, last[u])
        \/ room[u] # None /\ src \in Addrs(u, room[u])

AliasOfEstablished(src) ==
    /\ aliases' = [aliases EXCEPT ![src] = estPeer[src.guest]]
    /\ UNCHANGED <<world, running, last, pending, established, estPeer, turns, relaying,
                   plane, stale, peers>>

\* mesh_router: the stream a data frame from address a belongs to
Resolve(a) == IF aliases[a] = None THEN a ELSE aliases[a]

\* mesh_establish_link: add_peer, map_alias for every advertised address, register
Establish(u, src, info) ==
    /\ Register(u, "direct", info)
    /\ peers' = peers \cup {src}
    /\ aliases' = [a \in Addr |-> IF a \in Addrs(u, info) \ {src} THEN src ELSE aliases[a]]
    /\ estPeer' = [estPeer EXCEPT ![u] = src]
    /\ UNCHANGED <<turns, relaying>>

Signal(src) ==
    LET u == src.guest
    IN  /\ running /\ u \in punching /\ Known(src)
        /\ \/ /\ established[u] # None /\ estPeer[u] \notin {None, src}
              /\ AliasOfEstablished(src)
           \/ /\ established[u] = None /\ pending[u] # None
              /\ Establish(u, src, pending[u].info)
           \/ /\ established[u] = None /\ pending[u] = None /\ last[u] # None
              /\ Establish(u, src, last[u])

(* ---- 4) the window has closed: TURN, else the TCP relay ---- *)

TurnFirst(u) == turnClient /\ ~forceRelay /\ u \notin turnFailed /\ pending[u].info.turn
Due(u) == running /\ pending[u] # None /\ ~pending[u].attempted /\ pending[u].due

Ongoing(u) == Cardinality({t \in Info \X (1..MaxTasks) : t[2] <= relaying[u][t[1]]})

SpawnRelay(u) ==
    /\ Due(u) /\ ~TurnFirst(u)
    /\ Ongoing(u) < MaxTasks
    /\ relaying' = [relaying EXCEPT ![u][pending[u].info] = @ + 1]
    /\ pending' = [pending EXCEPT ![u].attempted = TRUE]
    /\ turnRetry' = IF turnClient /\ u \notin turnFailed THEN turnRetry \cup {u} ELSE turnRetry
    /\ UNCHANGED <<world, running, last, established, estPeer, turnClient, turnFailed, plane,
                   stale, peers, aliases>>

\* 4.5) the allocation at hand is spent on this guest
TurnLink(u) ==
    /\ Due(u) /\ TurnFirst(u)
    /\ turnClient' = FALSE
    /\ \/ /\ RegisterRelayed(u, "turn", pending[u].info)
          /\ UNCHANGED <<turnFailed, turnRetry, relaying>>
       \/ /\ turnFailed' = turnFailed \cup {u}
          /\ UNCHANGED <<world, running, last, pending, established, estPeer, turnRetry,
                         relaying, plane, stale, peers, aliases>>

\* 4.6) an allocation is made anew in the background
TurnRebuilt ==
    /\ running /\ ~turnClient /\ ~forceRelay
    /\ turnClient' = TRUE
    /\ UNCHANGED <<world, running, last, pending, established, estPeer, turnFailed,
                   turnRetry, relaying, plane, stale, peers, aliases>>

\* 4.6) while the TCP relay waits, the room is asked for the guest's TURN relay
RetryTurn(u) ==
    /\ running /\ turnClient /\ u \in turnRetry \ turnFailed
    /\ pending[u] # None /\ established[u] = None
    /\ room[u] # None /\ room[u].turn
    /\ turnClient' = FALSE
    /\ \/ /\ RegisterRelayed(u, "turn", pending[u].info)
          /\ UNCHANGED <<turnFailed, turnRetry, relaying>>
       \/ UNCHANGED <<world, running, last, pending, established, estPeer, turnFailed,
                      turnRetry, relaying, plane, stale, peers, aliases>>

(* ---- 5) a relay connection is paired, or fails, and its result is read ---- *)

RelevantIfPending(u, offer) == pending[u] # None
Relevant(u, offer) == pending[u] # None /\ ~Changed(pending[u].info, offer)

ResultOf(u, offer) ==
    /\ running /\ relaying[u][offer] > 0
    /\ relaying' = [relaying EXCEPT ![u][offer] = @ - 1]

RelayResultIgnored(u, offer) ==
    /\ ResultOf(u, offer) /\ ~Relevant(u, offer)
    /\ UNCHANGED <<world, running, last, pending, established, estPeer, turns, plane,
                   stale, peers, aliases>>

RelayLink(u, offer) ==
    /\ ResultOf(u, offer) /\ Relevant(u, offer)
    /\ RegisterRelayed(u, "relay", offer)
    /\ UNCHANGED turns

NeverRetry(u) == pending
RetryLater(u) == [pending EXCEPT ![u].attempted = FALSE]

RelayFailed(u, offer) ==
    /\ ResultOf(u, offer) /\ Relevant(u, offer)
    /\ pending' = RetryLater(u)
    /\ UNCHANGED <<world, running, last, established, estPeer, turns, plane, stale, peers,
                   aliases>>

(* ---- 6) a link has died ---- *)

\* is_current_death compares the token of the death with the registered one: a
\* message of the registered link counts, one of a link replaced since does not.
AnyDeath(u) == plane[u] # None /\ plane[u].told + stale[u] > 0
CurrentDeath(u) == plane[u] # None /\ plane[u].told > 0

PeersStay(u) == peers
PeersAfterDeath(u) == WithoutPeers({u})

Death(u) ==
    /\ running /\ CurrentDeath(u)
    /\ plane' = Without({u})
    /\ stale' = [stale EXCEPT ![u] = @ + Unread(u) - 1]
    /\ established' = [established EXCEPT ![u] = None]
    /\ estPeer' = [estPeer EXCEPT ![u] = None]
    /\ peers' = PeersAfterDeath(u)
    /\ turnFailed' = IF established[u] = "turn" THEN turnFailed \cup {u} ELSE turnFailed
    /\ pending' = IF established[u] # None /\ last[u] # None
                     THEN [pending EXCEPT ![u] = NewPending(last[u], forceRelay)]
                     ELSE pending
    /\ UNCHANGED <<world, running, last, turnClient, turnRetry, relaying, aliases>>

StaleDeath(u) ==
    /\ running /\ stale[u] > 0
    /\ stale' = [stale EXCEPT ![u] = @ - 1]
    /\ UNCHANGED <<world, running, last, pending, established, estPeer, turns, relaying,
                   plane, peers, aliases>>

Next ==
    \/ \E u \in Guests : \/ Join(u) \/ WindowEnds(u) \/ SpawnRelay(u) \/ TurnLink(u)
                         \/ RetryTurn(u) \/ LinkEnds(u) \/ Death(u) \/ StaleDeath(u)
    \/ \E u \in Guests, i \in Info : RelayResultIgnored(u, i) \/ RelayLink(u, i) \/ RelayFailed(u, i)
    \/ \E src \in Addr : Signal(src)
    \/ Poll \/ PollGone \/ SocketClosed \/ TurnRebuilt

\* A connection attempt of the guest is paired; its result is not used, or it fails.
RelayPaired(u) == \E i \in Info : RelayLink(u, i)
RelayEnds(u) == \E i \in Info : RelayResultIgnored(u, i) \/ RelayFailed(u, i)

\* The loop comes round and windows close by the clock; a connection attempt ends,
\* and as long as the guest keeps trying too, one of many is paired.
Fairness ==
    /\ WF_vars(Poll)
    /\ \A u \in Guests :
         /\ WF_vars(WindowEnds(u)) /\ WF_vars(SpawnRelay(u))
         /\ WF_vars(TurnLink(u)) /\ WF_vars(Death(u))
         /\ SF_vars(RelayPaired(u)) /\ WF_vars(RelayEnds(u))

Spec == Init /\ [][Next]_vars /\ Fairness
-----------------------------------------------------------------------------

TypeOK ==
    /\ room \in [Guests -> Info \cup {None}] /\ last \in [Guests -> Info \cup {None}]
    /\ pending \in [Guests -> Pending \cup {None}]
    /\ established \in [Guests -> Kinds \cup {None}]
    /\ estPeer \in [Guests -> Addr \cup {None}]
    /\ turnFailed \subseteq Guests /\ turnRetry \subseteq Guests
    /\ relaying \in [Guests -> [Info -> 0..MaxTasks]]
    /\ plane \in [Guests -> Link \cup {None}] /\ stale \in [Guests -> Nat]
    /\ peers \subseteq Addr /\ aliases \in [Addr -> Addr \cup {None}]

\* The loop's maps and the data plane agree: a guest is being connected or has a
\* link, never both; a guest counts as connected exactly when the plane holds the
\* link it last registered, of the kind the loop remembers; and the socket's stream
\* table holds the stream of each direct link and nothing of a link given up.  When
\* the room is gone, so are all the links.
LinksAgree ==
    /\ ~running => left \/ \A u \in Guests : plane[u] = None
    /\ running =>
      /\ \A u \in Guests :
           /\ pending[u] = None \/ established[u] = None
           /\ established[u] = IF plane[u] = None THEN None ELSE plane[u].kind
           /\ estPeer[u] # None <=> established[u] = "direct"
      /\ peers = {estPeer[u] : u \in {v \in Guests : estPeer[v] # None}}

\* A relayed link stands for the connection the guest has now, as far as the loop
\* knows: a result that answers an earlier attempt of the guest is not used.
RelayLinksAreCurrent ==
    \A u \in Guests : running /\ established[u] = "relay"
                        => ~Changed(last[u], plane[u].offer)

MeshIsConsistent == TypeOK /\ LinksAgree /\ RelayLinksAreCurrent

\* A connected guest loses its link only because that very link died, or the guest
\* changed its endpoint: a late report about a former link does nothing to it.
LinksDieOfTheirOwn ==
    [][\A u \in Guests :
         established[u] # None /\ established'[u] = None /\ running'
         => \/ plane[u].told > 0
            \/ Changed(last[u], last'[u])]_vars

\* A guest that is in the room is connected again and again, whatever breaks, as
\* long as the session lasts.
GuestsGetLinked ==
    \A u \in Guests : []<>(room[u] = None \/ established[u] # None \/ ~running)

\* stream.rs on the alias table: a frame reaches its stream by either path.
EitherPathReaches ==
    \A u \in Guests : running /\ established[u] = "direct" =>
        \A a \in Addrs(u, plane[u].offer) :
            Resolve(a) = estPeer[u]
=============================================================================
