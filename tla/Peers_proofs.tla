----------------------------- MODULE Peers_proofs ------------------------------
(***************************************************************************)
(* Proofs about the links between peers.                                   *)
(*                                                                         *)
(* HostMesh, for any guests, sockets and bounds: the loop's maps agree     *)
(* with each other and with the data plane, and a link is taken from a     *)
(* guest only for a reason of its own.                                     *)
(*                                                                         *)
(* SecureLink, for any two ends, window and bounds: whatever the network   *)
(* loses, repeats and reorders, no datagram passes twice, and the replay   *)
(* window knows exactly what passed.                                       *)
(*                                                                         *)
(* SpaceMesh, for any members and bounds: a link of a permanent space is   *)
(* bound to the session the server named, and to no other.                 *)
(***************************************************************************)
EXTENDS HostMesh, SecureLink, SpaceMesh, SequenceTheorems, FiniteSetTheorems, FunctionTheorems,
        TLAPS

\* What the loop holds of a guest: it is pending or linked, its link is the one in the
\* plane, and whatever it has, it was last seen with in the room.
Fits(u) ==
    /\ pending[u] = None \/ established[u] = None
    /\ established[u] = IF plane[u] = None THEN None ELSE plane[u].kind
    /\ estPeer[u] # None <=> established[u] = "direct"
    /\ estPeer[u] # None => estPeer[u].guest = u
    /\ last[u] # None => room[u] # None
    /\ established[u] # None \/ pending[u] # None => last[u] # None
    /\ pending[u] # None => pending[u].info = last[u]
    /\ established[u] = "relay" => ~Changed(last[u], plane[u].offer)

PeersFit == peers = {estPeer[u] : u \in {v \in Guests : estPeer[v] # None}}

\* The inductive invariant.
MeshInv ==
    /\ TypeOK /\ forceRelay \in BOOLEAN
    /\ running => PeersFit /\ \A u \in Guests : Fits(u)
    /\ ~running => left \/ \A u \in Guests : plane[u] = None

-----------------------------------------------------------------------------
(* Records *)

LEMMA NewPendingFact ==
  ASSUME NEW i \in Info, NEW force \in BOOLEAN
  PROVE  /\ NewPending(i, force) \in Pending /\ NewPending(i, force).info = i
         /\ NewPending(i, force) # None
  <1>1. NewPending(i, force) \in Pending /\ NewPending(i, force).info = i
    BY DEF NewPending, Pending
  <1> QED
    BY <1>1, NoneAssumption DEF NoneAssumption

LEMMA PendingFact ==
  ASSUME NEW p \in Pending, NEW b \in BOOLEAN, NEW i \in Info
  PROVE  /\ [p EXCEPT !.due = b] \in Pending /\ [p EXCEPT !.due = b].info = p.info
         /\ [p EXCEPT !.attempted = b] \in Pending /\ [p EXCEPT !.attempted = b].info = p.info
         /\ [p EXCEPT !.info = i] \in Pending /\ [p EXCEPT !.info = i].info = i
         /\ [p EXCEPT !.due = b] # None /\ [p EXCEPT !.attempted = b] # None
         /\ [p EXCEPT !.info = i] # None /\ p.info \in Info /\ p # None
  <1>1. /\ [p EXCEPT !.due = b] \in Pending /\ [p EXCEPT !.due = b].info = p.info
        /\ [p EXCEPT !.attempted = b] \in Pending /\ [p EXCEPT !.attempted = b].info = p.info
        /\ [p EXCEPT !.info = i] \in Pending /\ [p EXCEPT !.info = i].info = i
        /\ p.info \in Info
    BY DEF Pending
  <1> QED
    BY <1>1, NoneAssumption DEF NoneAssumption

LEMMA PendingInfo ==
  ASSUME NEW p \in Pending, NEW i \in Info, NEW q, q = [p EXCEPT !.info = i]
  PROVE  q \in Pending /\ q.info = i
  BY DEF Pending

LEMMA LinkFact ==
  ASSUME NEW k \in Kinds, NEW i \in Info, NEW n \in 0 .. MaxUnread,
         NEW q, q = [kind |-> k, offer |-> i, told |-> n]
  PROVE  q \in Link /\ q # None /\ q.kind = k /\ q.offer = i /\ q.told = n /\ k # None
  <1>1. q \in Link /\ q.kind = k /\ q.offer = i /\ q.told = n
    BY DEF Link
  <1> QED
    BY <1>1, NoneAssumption DEF NoneAssumption

LEMMA ToldFact ==
  ASSUME NEW q \in Link, NEW n \in 0 .. MaxUnread
  PROVE  /\ [q EXCEPT !.told = n] \in Link /\ [q EXCEPT !.told = n].kind = q.kind
         /\ [q EXCEPT !.told = n].offer = q.offer /\ [q EXCEPT !.told = n] # None
         /\ q.told \in Nat /\ q.kind \in Kinds /\ q.kind # None /\ q.offer \in Info
  <1>1. /\ [q EXCEPT !.told = n] \in Link /\ [q EXCEPT !.told = n].kind = q.kind
        /\ [q EXCEPT !.told = n].offer = q.offer /\ q.kind \in Kinds /\ q.offer \in Info
        /\ q.told \in 0 .. MaxUnread
    BY DEF Link
  <1> QED
    BY <1>1, NoneAssumption, BoundsAssumption DEF NoneAssumption, BoundsAssumption

LEMMA UnreadFact ==
  ASSUME TypeOK, NEW u \in Guests
  PROVE  Unread(u) \in Nat
  <1>1. CASE plane[u] = None
    BY <1>1 DEF Unread
  <1>2. CASE plane[u] # None
    BY <1>2, BoundsAssumption DEF Unread, TypeOK, Link, BoundsAssumption
  <1> QED
    BY <1>1, <1>2

LEMMA StaleFact ==
  ASSUME TypeOK, NEW U
  PROVE  StaleAfter(U) \in [Guests -> Nat]
  <1>1. \A u \in Guests : stale[u] \in Nat /\ stale[u] + Unread(u) \in Nat
    BY UnreadFact DEF TypeOK
  <1> QED
    BY <1>1 DEF StaleAfter

\* The bound on the connections under way bounds those of each offer.
LEMMA BooleansFinite == IsFiniteSet(BOOLEAN)
  <1>1. IsFiniteSet({TRUE}) /\ IsFiniteSet({TRUE} \cup {FALSE})
    BY FS_Singleton, FS_AddElement
  <1>2. BOOLEAN = {TRUE} \cup {FALSE}
    OBVIOUS
  <1> QED
    BY <1>1, <1>2

LEMMA InfoFinite == IsFiniteSet(Info)
  <1> DEFINE S == Socks \X BOOLEAN
             f == [t \in S |-> [sock |-> t[1], turn |-> t[2]]]
  <1>1. IsFiniteSet(S)
    BY BooleansFinite, FS_Product, BoundsAssumption DEF BoundsAssumption
  <1>2. f \in [S -> Info]
    BY DEF Info
  <1>3. ASSUME NEW i \in Info PROVE \E t \in S : f[t] = i
    <2>1. i.sock \in Socks /\ i.turn \in BOOLEAN /\ i = [sock |-> i.sock, turn |-> i.turn]
      BY DEF Info
    <2>2. <<i.sock, i.turn>> \in S /\ f[<<i.sock, i.turn>>] = i
      BY <2>1
    <2> QED
      BY <2>2
  <1>4. f \in Surjection(S, Info)
    BY <1>2, <1>3 DEF Surjection
  <1> QED
    BY <1>1, <1>4, FS_Surjection

LEMMA RoomForOneMore ==
  ASSUME TypeOK, NEW u \in Guests, NEW i \in Info, Ongoing(u) < MaxTasks
  PROVE  relaying[u][i] + 1 \in 0 .. MaxTasks
  <1> DEFINE S == {t \in Info \X (1 .. MaxTasks) : t[2] <= relaying[u][t[1]]}
             f == [n \in 1 .. MaxTasks |-> <<i, n>>]
  <1>1. MaxTasks \in Nat /\ relaying[u][i] \in 0 .. MaxTasks
    BY BoundsAssumption DEF BoundsAssumption, TypeOK
  <1>2. IsFiniteSet(S)
    <2>1. IsFiniteSet(1 .. MaxTasks)
      <3>1. 1 \in Int /\ MaxTasks \in Int
        BY <1>1
      <3> QED
        BY <3>1, FS_Interval
    <2>2. IsFiniteSet(Info \X (1 .. MaxTasks))
      BY <2>1, InfoFinite, FS_Product
    <2>3. S \subseteq Info \X (1 .. MaxTasks)
      OBVIOUS
    <2> QED
      BY <2>2, <2>3, FS_Subset
  <1>3. ASSUME relaying[u][i] = MaxTasks PROVE FALSE
    <2>1. f \in [1 .. MaxTasks -> S]
      BY <1>1, <1>3
    <2>2. \A m, n \in 1 .. MaxTasks : f[m] = f[n] => m = n
      OBVIOUS
    <2>3. f \in Injection(1 .. MaxTasks, S)
      BY <2>1, <2>2 DEF Injection, IsInjective
    <2>4. Cardinality(1 .. MaxTasks) <= Cardinality(S)
      BY <1>2, <2>3, FS_Injection
    <2>5. Cardinality(1 .. MaxTasks) = MaxTasks
      BY <1>1, FS_Interval
    <2>6. Cardinality(S) = Ongoing(u) /\ Cardinality(S) \in Nat
      BY <1>2, FS_CardinalityType DEF Ongoing
    <2> QED
      BY <1>1, <2>4, <2>5, <2>6
  <1> QED
    BY <1>1, <1>3

-----------------------------------------------------------------------------
(* The table of streams *)

\* Streams of different guests are different.
LEMMA PeersOf ==
  ASSUME PeersFit
  PROVE  \A a : a \in peers <=> a # None /\ \E u \in Guests : estPeer[u] = a
  BY DEF PeersFit

LEMMA PeersAre ==
  ASSUME \A a : a \in peers' <=> a # None /\ \E u \in Guests : estPeer'[u] = a
  PROVE  PeersFit'
  BY DEF PeersFit

LEMMA PeersLess ==
  ASSUME PeersFit, \A u \in Guests : Fits(u), NEW U \in SUBSET Guests,
         peers' = WithoutPeers(U),
         \A u \in Guests : estPeer'[u] = IF u \in U THEN None ELSE estPeer[u]
  PROVE  PeersFit'
  <1> SUFFICES ASSUME NEW a PROVE a \in peers' <=> a # None /\ \E u \in Guests : estPeer'[u] = a
    BY PeersAre
  <1>1. ASSUME a \in peers' PROVE a # None /\ \E u \in Guests : estPeer'[u] = a
    <2>1. a \in peers /\ \A u \in U : estPeer[u] # a
      BY <1>1 DEF WithoutPeers
    <2>2. PICK u \in Guests : estPeer[u] = a /\ a # None
      BY <2>1, PeersOf
    <2> QED
      BY <2>1, <2>2
  <1>2. ASSUME a # None, NEW u \in Guests, estPeer'[u] = a PROVE a \in peers'
    <2>1. u \notin U /\ estPeer[u] = a
      BY <1>2
    <2>2. a.guest = u /\ a \in peers
      BY <1>2, <2>1, PeersOf DEF Fits
    <2>3. \A v \in U : estPeer[v] # a
      BY <1>2, <2>1, <2>2 DEF Fits
    <2> QED
      BY <2>2, <2>3 DEF WithoutPeers
  <1> QED
    BY <1>1, <1>2

LEMMA PeersMore ==
  ASSUME PeersFit, TypeOK, NEW u \in Guests, NEW a \in Addr, estPeer[u] = None,
         peers' = peers \cup {a}, estPeer' = [estPeer EXCEPT ![u] = a]
  PROVE  PeersFit'
  <1>1. a # None
    BY NoneAssumption DEF NoneAssumption
  <1>2. \A v \in Guests : estPeer'[v] = IF v = u THEN a ELSE estPeer[v]
    BY DEF TypeOK
  <1> QED
    BY <1>1, <1>2, PeersOf, PeersAre

LEMMA PeersSame ==
  ASSUME PeersFit, peers' = peers, \A u \in Guests : estPeer'[u] = estPeer[u]
  PROVE  PeersFit'
  BY PeersOf, PeersAre

-----------------------------------------------------------------------------
(* One guest's part of a step *)

\* A guest fits as long as nothing of it changes.
LEMMA FitsSame ==
  ASSUME NEW u \in Guests, Fits(u),
         pending'[u] = pending[u], established'[u] = established[u], plane'[u] = plane[u],
         estPeer'[u] = estPeer[u], last'[u] = last[u], room'[u] = room[u]
  PROVE  Fits(u)'
  BY DEF Fits

\* Register, whatever the kind.
LEMMA RegisterType ==
  ASSUME TypeOK, NEW u \in Guests, NEW k \in Kinds, NEW i \in Info, Register(u, k, i)
  PROVE  /\ plane' \in [Guests -> Link \cup {None}] /\ stale' \in [Guests -> Nat]
         /\ established' \in [Guests -> Kinds \cup {None}]
         /\ pending' \in [Guests -> Pending \cup {None}]
         /\ plane'[u] # None /\ plane'[u].kind = k /\ plane'[u].offer = i
         /\ established'[u] = k /\ k # None /\ pending'[u] = None
         /\ \A v \in Guests \ {u} : plane'[v] = plane[v] /\ established'[v] = established[v]
                                    /\ pending'[v] = pending[v]
         /\ room' = room /\ last' = last /\ running' = running /\ left' = left /\ forceRelay' = forceRelay
         /\ joins' = joins /\ punching' = punching
  <1> DEFINE q == [kind |-> k, offer |-> i, told |-> 0]
  <1>1. q \in Link /\ q # None /\ q.kind = k /\ q.offer = i /\ k # None
    <2>1. 0 \in 0 .. MaxUnread
      BY BoundsAssumption DEF BoundsAssumption
    <2> QED
      BY <2>1, LinkFact
  <1>2. plane' = [plane EXCEPT ![u] = q] /\ stale' = StaleAfter({u})
        /\ established' = [established EXCEPT ![u] = k] /\ pending' = [pending EXCEPT ![u] = None]
        /\ UNCHANGED <<world, running, last>>
    BY DEF Register
  <1> HIDE DEF q
  <1>3. stale' \in [Guests -> Nat]
    BY <1>2, StaleFact
  <1> QED
    BY <1>1, <1>2, <1>3 DEF TypeOK, world

\* A guest that was pending or unknown gets a link through a relay.
LEMMA RelayedKeeps ==
  ASSUME MeshInv, running, NEW u \in Guests, NEW k \in {"turn", "relay"}, NEW i \in Info,
         pending[u] # None, k = "relay" => ~Changed(pending[u].info, i),
         RegisterRelayed(u, k, i),
         turnFailed' \subseteq Guests, turnRetry' \subseteq Guests,
         relaying' \in [Guests -> [Info -> 0 .. MaxTasks]]
  PROVE  MeshInv'
  <1>1. Fits(u) /\ PeersFit /\ established[u] = None /\ estPeer[u] = None
    BY NoneAssumption DEF MeshInv, Fits, NoneAssumption, Kinds
  <1>2. Register(u, k, i) /\ k \in Kinds /\ TypeOK
        /\ estPeer' = [estPeer EXCEPT ![u] = None] /\ peers' = peers /\ aliases' = aliases
    BY DEF RegisterRelayed, Kinds, MeshInv
  <1>3. /\ plane' \in [Guests -> Link \cup {None}] /\ stale' \in [Guests -> Nat]
        /\ established' \in [Guests -> Kinds \cup {None}]
        /\ pending' \in [Guests -> Pending \cup {None}]
        /\ plane'[u] # None /\ plane'[u].kind = k /\ plane'[u].offer = i
        /\ established'[u] = k /\ k # None /\ pending'[u] = None
        /\ \A v \in Guests \ {u} : plane'[v] = plane[v] /\ established'[v] = established[v]
                                   /\ pending'[v] = pending[v]
        /\ room' = room /\ last' = last /\ running' = running /\ left' = left /\ forceRelay' = forceRelay
    BY <1>2, RegisterType
  <1>4. \A v \in Guests : estPeer'[v] = estPeer[v]
    BY <1>1, <1>2 DEF TypeOK
  <1>5. TypeOK'
    BY <1>2, <1>3 DEF TypeOK
  <1>6. PeersFit'
    BY <1>1, <1>2, <1>4, PeersSame
  <1>7. Fits(u)'
    BY <1>1, <1>3, <1>4 DEF Fits, Changed
  <1>8. ASSUME NEW v \in Guests PROVE Fits(v)'
    BY <1>3, <1>4, <1>7, FitsSame DEF MeshInv
  <1> QED
    BY <1>3, <1>5, <1>6, <1>8 DEF MeshInv

\* A guest answers a punch: its stream is entered under the address it answers from.
LEMMA EstablishKeeps ==
  ASSUME MeshInv, running, NEW u \in Guests, NEW src \in Addr, NEW i \in Info,
         src.guest = u, established[u] = None, last[u] # None, Establish(u, src, i)
  PROVE  MeshInv'
  <1>1. TypeOK
    BY DEF MeshInv
  <1>2. Fits(u) /\ PeersFit /\ estPeer[u] = None
    BY <1>1, NoneAssumption DEF MeshInv, Fits, NoneAssumption, Kinds
  <1>10. PICK k \in Kinds : k = "direct"
    BY DEF Kinds
  <1>3. Register(u, k, i) /\ src # None
        /\ estPeer' = [estPeer EXCEPT ![u] = src] /\ peers' = peers \cup {src}
        /\ aliases' = [a \in Addr |-> IF a \in Addrs(u, i) \ {src} THEN src ELSE aliases[a]]
        /\ UNCHANGED <<turns, relaying>>
    BY <1>10, NoneAssumption DEF Establish, NoneAssumption
  <1>4. /\ plane' \in [Guests -> Link \cup {None}] /\ stale' \in [Guests -> Nat]
        /\ established' \in [Guests -> Kinds \cup {None}]
        /\ pending' \in [Guests -> Pending \cup {None}]
        /\ plane'[u] # None /\ plane'[u].kind = k /\ plane'[u].offer = i
        /\ established'[u] = k /\ pending'[u] = None
        /\ \A v \in Guests \ {u} : plane'[v] = plane[v] /\ established'[v] = established[v]
                                   /\ pending'[v] = pending[v]
        /\ room' = room /\ last' = last /\ running' = running /\ left' = left /\ forceRelay' = forceRelay
    BY ZenonT(60), <1>1, <1>3, RegisterType
  <1>5. estPeer'[u] = src /\ \A v \in Guests \ {u} : estPeer'[v] = estPeer[v]
    <2>1. estPeer \in [Guests -> Addr \cup {None}]
      BY <1>1 DEF TypeOK
    <2>2. estPeer' = [estPeer EXCEPT ![u] = src]
      BY <1>3
    <2> QED
      BY <2>1, <2>2
  <1>6. TypeOK'
    <2>1. aliases' \in [Addr -> Addr \cup {None}]
      BY <1>1, <1>3 DEF TypeOK
    <2> QED
      BY <1>1, <1>3, <1>4, <2>1 DEF TypeOK, turns
  <1>7. PeersFit'
    BY <1>1, <1>2, <1>3, PeersMore
  <1>8. Fits(u)'
    BY <1>2, <1>3, <1>4, <1>5, <1>10 DEF Fits
  <1>9. ASSUME NEW v \in Guests PROVE Fits(v)'
    BY <1>4, <1>5, <1>8, FitsSame DEF MeshInv
  <1> QED
    BY <1>4, <1>6, <1>7, <1>9 DEF MeshInv

\* The guests of a set lose their links, as at a poll and at a death.
LEMMA WithoutType ==
  ASSUME TypeOK, NEW U
  PROVE  /\ Without(U) \in [Guests -> Link \cup {None}]
         /\ WithoutPeers(U) \subseteq Addr
         /\ \A u \in Guests : Without(U)[u] = IF u \in U THEN None ELSE plane[u]
  BY DEF TypeOK, Without, WithoutPeers

-----------------------------------------------------------------------------
(* The initial states *)

LEMMA InitMesh == Init => MeshInv
  <1> SUFFICES ASSUME Init PROVE MeshInv
    OBVIOUS
  <1>1. TypeOK
    BY BoundsAssumption DEF Init, TypeOK, BoundsAssumption
  <1>2. PeersFit
    BY DEF Init, PeersFit
  <1>3. ASSUME NEW u \in Guests PROVE Fits(u)
    BY NoneAssumption DEF Init, Fits, NoneAssumption, Kinds
  <1> QED
    BY <1>1, <1>2, <1>3 DEF Init, MeshInv

-----------------------------------------------------------------------------
(* The guests, and the clock *)

LEMMA JoinKeeps ==
  ASSUME MeshInv, NEW u \in Guests, Join(u)
  PROVE  MeshInv'
  <1>1. PICK i \in Info : room' = [room EXCEPT ![u] = i]
    BY DEF Join
  <1>2. i # None
    BY NoneAssumption DEF NoneAssumption
  <1>3. running /\ running' = running /\ left' = left /\ forceRelay' = forceRelay
        /\ UNCHANGED <<last, pending, established, estPeer, turns, relaying, plane, stale,
                       peers, aliases>>
    BY DEF Join
  <1>4. TypeOK'
    BY <1>1, <1>3 DEF MeshInv, TypeOK, turns
  <1>5. PeersFit'
    BY <1>3 DEF MeshInv, PeersFit
  <1>6. ASSUME NEW v \in Guests PROVE Fits(v)'
    BY <1>1, <1>2, <1>3 DEF MeshInv, Fits, TypeOK
  <1> QED
    BY <1>3, <1>4, <1>5, <1>6 DEF MeshInv

LEMMA LinkEndsKeeps ==
  ASSUME MeshInv, NEW u \in Guests, LinkEnds(u)
  PROVE  MeshInv'
  <1>1. PICK n \in 1 .. 2 : n + stale[u] <= MaxUnread /\ plane' = [plane EXCEPT ![u].told = n]
    BY DEF LinkEnds
  <1> DEFINE q == [plane[u] EXCEPT !.told = n]
  <1>2. plane[u] \in Link /\ n \in 0 .. MaxUnread
    BY <1>1, BoundsAssumption DEF MeshInv, TypeOK, LinkEnds, BoundsAssumption
  <1>3. q \in Link /\ q # None /\ q.kind = plane[u].kind /\ q.offer = plane[u].offer
    BY <1>2, ToldFact
  <1>4. plane' = [plane EXCEPT ![u] = q]
    BY <1>1 DEF MeshInv, TypeOK
  <1>5. plane[u] # None /\ running
        /\ UNCHANGED <<room, joins, forceRelay, left, running, last, pending, established, estPeer,
                       turns, relaying, stale, peers, aliases>>
    BY DEF LinkEnds, MeshInv
  <1> HIDE DEF q
  <1>6. TypeOK'
    BY <1>3, <1>4, <1>5 DEF MeshInv, TypeOK, turns
  <1>7. PeersFit'
    BY <1>5 DEF MeshInv, PeersFit
  <1>8. ASSUME NEW v \in Guests PROVE Fits(v)'
    BY <1>3, <1>4, <1>5 DEF MeshInv, Fits, TypeOK
  <1> QED
    BY <1>5, <1>6, <1>7, <1>8 DEF MeshInv

\* An entry of `pending` may change as long as it stays there, for the same information.
LEMMA PendingKeeps ==
  ASSUME MeshInv, NEW u \in Guests, NEW q \in Pending, pending[u] # None, q.info = pending[u].info,
         pending' = [pending EXCEPT ![u] = q],
         UNCHANGED <<world, running, last, established, estPeer, turnClient, turnFailed, plane,
                     stale, peers, aliases>>,
         turnRetry' \subseteq Guests, relaying' \in [Guests -> [Info -> 0 .. MaxTasks]]
  PROVE  MeshInv'
  <1>1. q # None
    BY NoneAssumption DEF NoneAssumption
  <1>2. TypeOK'
    BY DEF MeshInv, TypeOK, world
  <1>3. running => PeersFit'
    BY DEF MeshInv, PeersFit
  <1>4. ASSUME running, NEW v \in Guests PROVE Fits(v)'
    BY <1>1, <1>4 DEF MeshInv, Fits, TypeOK, world
  <1> QED
    BY <1>2, <1>3, <1>4 DEF MeshInv, world

LEMMA WindowEndsKeeps ==
  ASSUME MeshInv, NEW u \in Guests, WindowEnds(u)
  PROVE  MeshInv'
  <1> DEFINE q == [pending[u] EXCEPT !.due = TRUE]
  <1>1. pending[u] \in Pending /\ pending[u] # None
    BY DEF MeshInv, TypeOK, WindowEnds
  <1>2. q \in Pending /\ q.info = pending[u].info
    <2>1. pending[u].info \in Info
      BY <1>1 DEF Pending
    <2> QED
      BY <1>1, <2>1, PendingFact
  <1>3. pending' = [pending EXCEPT ![u] = q]
    BY DEF WindowEnds, MeshInv, TypeOK
  <1> HIDE DEF q
  <1>4. /\ UNCHANGED <<world, running, last, established, estPeer, turnClient, turnFailed, plane,
                       stale, peers, aliases>>
        /\ turnRetry' \subseteq Guests /\ relaying' \in [Guests -> [Info -> 0 .. MaxTasks]]
    BY DEF WindowEnds, turns, MeshInv, TypeOK
  <1> QED
    BY <1>1, <1>2, <1>3, <1>4, PendingKeeps

-----------------------------------------------------------------------------
(* The poll *)

LEMMA PollPending ==
  ASSUME MeshInv, running, Poll, NEW u \in Guests
  PROVE  /\ pending'[u] \in Pending \cup {None}
         /\ pending'[u] = None \/ established'[u] = None
         /\ pending'[u] # None => pending'[u].info = last'[u] /\ last'[u] # None
  <1> DEFINE gone == ChangedGuests
             anew == NewPending(room[u], forceRelay)
             moved == [pending[u] EXCEPT !.info = room[u]]
             kept == room[u] = None \/ established'[u] # None
             afresh == pending[u] = None \/ u \in gone
  <1>1. /\ pending'[u] = IF kept THEN pending[u] ELSE IF afresh THEN anew ELSE moved
        /\ established'[u] = IF u \in gone THEN None ELSE established[u]
        /\ last' = room
    BY DEF Poll, PollUpdates
  <1>2. u \in gone => room[u] # None /\ last[u] # None /\ Changed(last[u], room[u])
    BY DEF ChangedGuests
  <1>3. Fits(u) /\ pending[u] \in Pending \cup {None} /\ room[u] \in Info \cup {None}
        /\ forceRelay \in BOOLEAN
    BY DEF MeshInv, TypeOK
  <1> HIDE DEF gone, anew, moved, kept, afresh
  <1>8. /\ kept => pending'[u] = pending[u]
        /\ ~kept /\ afresh => pending'[u] = anew
        /\ ~kept /\ ~afresh => pending'[u] = moved
    BY <1>1
  <1>4. CASE room[u] = None
    <2>1. pending'[u] = pending[u]
      BY <1>4, <1>8 DEF kept
    <2>2. pending[u] = None
      BY <1>3, <1>4 DEF Fits
    <2> QED
      BY <2>1, <2>2
  <1>5. CASE room[u] # None /\ established'[u] # None
    <2>1. pending'[u] = pending[u]
      BY <1>5, <1>8 DEF kept
    <2>2. established[u] # None
      BY <1>1, <1>5
    <2>3. pending[u] = None
      BY <1>3, <2>2 DEF Fits
    <2> QED
      BY <2>1, <2>3
  <1>6. CASE room[u] # None /\ established'[u] = None /\ (pending[u] = None \/ u \in gone)
    <2>1. pending'[u] = NewPending(room[u], forceRelay)
      BY <1>6, <1>8 DEF kept, afresh, anew
    <2> QED
      BY <1>1, <1>3, <1>6, <2>1, NewPendingFact
  <1>7. CASE room[u] # None /\ established'[u] = None /\ pending[u] # None /\ u \notin gone
    <2>1. pending'[u] = [pending[u] EXCEPT !.info = room[u]]
      BY <1>7, <1>8 DEF kept, afresh, moved
    <2>2. pending[u] \in Pending /\ room[u] \in Info /\ TRUE \in BOOLEAN
      BY <1>3, <1>7
    <2>3. pending'[u] \in Pending /\ pending'[u].info = room[u]
      BY <2>1, <2>2, PendingInfo
    <2> QED
      BY <1>1, <1>7, <2>3
  <1> QED
    BY <1>4, <1>5, <1>6, <1>7

LEMMA PollKeeps ==
  ASSUME MeshInv, Poll
  PROVE  MeshInv'
  <1> DEFINE gone == ChangedGuests
  <1>1. running /\ TypeOK /\ PeersFit /\ gone \subseteq Guests
        /\ \A u \in Guests : Fits(u)
    BY DEF Poll, MeshInv, ChangedGuests
  <1>2. /\ last' = room /\ plane' = Without(gone) /\ stale' = StaleAfter(gone)
        /\ peers' = WithoutPeers(gone)
        /\ established' = [u \in Guests |-> IF u \in gone THEN None ELSE established[u]]
        /\ estPeer' = [u \in Guests |-> IF u \in gone THEN None ELSE estPeer[u]]
        /\ turnRetry' = turnRetry \ gone /\ turnFailed' = turnFailed \ gone
        /\ UNCHANGED <<world, running, turnClient, relaying, aliases>>
    BY DEF Poll, PollUpdates
  <1>3. \A u \in Guests : /\ pending'[u] \in Pending \cup {None}
                          /\ pending'[u] = None \/ established'[u] = None
                          /\ pending'[u] # None => pending'[u].info = last'[u] /\ last'[u] # None
    BY <1>1, PollPending
  <1>4. pending' \in [Guests -> Pending \cup {None}]
    <2>1. pending' = [u \in Guests |-> pending'[u]]
      BY DEF Poll, PollUpdates
    <2> QED
      BY <1>3, <2>1
  <1>5. \A u \in gone : room[u] # None /\ last[u] # None /\ Changed(last[u], room[u])
    BY DEF ChangedGuests
  <1>6. \A u \in Guests \ gone : last[u] # None /\ room[u] # None => ~Changed(last[u], room[u])
    BY DEF ChangedGuests
  <1> HIDE DEF gone
  <1>7. TypeOK'
    <2>1. stale' \in [Guests -> Nat] /\ plane' \in [Guests -> Link \cup {None}]
          /\ peers' \subseteq Addr
      BY <1>1, <1>2, StaleFact, WithoutType
    <2>2. established' \in [Guests -> Kinds \cup {None}]
          /\ estPeer' \in [Guests -> Addr \cup {None}]
      BY <1>1, <1>2 DEF TypeOK
    <2> QED
      BY <1>1, <1>2, <1>4, <2>1, <2>2 DEF TypeOK, world
  <1>8. PeersFit'
    BY <1>1, <1>2, PeersLess
  <1>9. ASSUME NEW u \in Guests PROVE Fits(u)'
    <2>1. /\ established'[u] = IF u \in gone THEN None ELSE established[u]
          /\ estPeer'[u] = IF u \in gone THEN None ELSE estPeer[u]
          /\ plane'[u] = IF u \in gone THEN None ELSE plane[u]
      BY <1>1, <1>2, WithoutType
    <2>2. last'[u] = room[u] /\ room'[u] = room[u]
      BY <1>2 DEF world
    <2>3. CASE u \in gone
      BY <1>3, <2>1, <2>2, <2>3, NoneAssumption DEF Fits, NoneAssumption, Kinds
    <2>4. CASE u \notin gone
      <3>1. Fits(u)
        BY <1>1
      <3>2. established[u] # None => last[u] # None /\ room[u] # None
        BY <3>1 DEF Fits
      <3>3. established[u] = "relay" => ~Changed(room[u], plane[u].offer)
        BY <1>6, <2>4, <3>1, <3>2, NoneAssumption DEF Fits, Changed, NoneAssumption, Kinds
      <3> QED
        BY <1>3, <2>1, <2>2, <2>4, <3>1, <3>2, <3>3 DEF Fits
    <2> QED
      BY <2>3, <2>4
  <1> QED
    BY <1>1, <1>2, <1>7, <1>8, <1>9 DEF MeshInv, world

LEMMA PollGoneKeeps ==
  ASSUME MeshInv, PollGone
  PROVE  MeshInv'
  <1>1. running' = FALSE /\ forceRelay' = forceRelay
    BY DEF PollGone, LoopEnds, world
  <1>2. \A u \in Guests : plane'[u] = None
    <2> SUFFICES ASSUME NEW u \in Guests PROVE plane'[u] = None
      OBVIOUS
    <2>1. Fits(u) /\ TypeOK /\ plane' = Without({v \in Guests : established[v] # None})
      BY DEF PollGone, LoopEnds, MeshInv
    <2>2. plane[u] # None => plane[u].kind # None
      BY <2>1, NoneAssumption DEF TypeOK, Link, NoneAssumption
    <2>3. plane[u] # None => established[u] # None
      BY <2>1, <2>2 DEF Fits
    <2> QED
      BY <2>1, <2>3, WithoutType
  <1>3. TypeOK'
    <2>1. plane' \in [Guests -> Link \cup {None}]
      BY WithoutType DEF PollGone, MeshInv
    <2> QED
      BY <2>1, BoundsAssumption DEF PollGone, LoopEnds, MeshInv, TypeOK, world, BoundsAssumption
  <1> QED
    BY <1>1, <1>2, <1>3 DEF MeshInv

LEMMA SocketClosedKeeps ==
  ASSUME MeshInv, SocketClosed
  PROVE  MeshInv'
  <1>1. running' = FALSE /\ left' = TRUE /\ forceRelay' = forceRelay
    BY DEF SocketClosed, LoopEnds
  <1>2. TypeOK'
    BY BoundsAssumption DEF SocketClosed, LoopEnds, MeshInv, TypeOK, BoundsAssumption
  <1> QED
    BY <1>1, <1>2 DEF MeshInv

-----------------------------------------------------------------------------
(* A PUNCH, TURN and the relays *)

LEMMA SignalKeeps ==
  ASSUME MeshInv, NEW src \in Addr, Signal(src)
  PROVE  MeshInv'
  <1>1. PICK u \in Guests : u = src.guest
    BY DEF Addr
  <1>2. running /\ Fits(u) /\ TypeOK
    BY DEF Signal, MeshInv
  <1>3. CASE AliasOfEstablished(src)
    <2>1. TypeOK'
      BY <1>1, <1>2, <1>3 DEF TypeOK, AliasOfEstablished, world, turns
    <2>2. PeersFit'
      BY <1>2, <1>3 DEF MeshInv, PeersFit, AliasOfEstablished
    <2>3. ASSUME NEW v \in Guests PROVE Fits(v)'
      BY <1>2, <1>3, FitsSame DEF MeshInv, AliasOfEstablished, world
    <2> QED
      BY <1>2, <1>3, <2>1, <2>2, <2>3 DEF MeshInv, AliasOfEstablished, world
  <1>4. CASE established[u] = None /\ pending[u] # None /\ Establish(u, src, pending[u].info)
    <2>1. pending[u].info \in Info /\ last[u] # None
      BY <1>2, <1>4 DEF TypeOK, Pending, Fits
    <2> QED
      BY <1>1, <1>2, <1>4, <2>1, EstablishKeeps
  <1>5. CASE established[u] = None /\ last[u] # None /\ Establish(u, src, last[u])
    <2>1. last[u] \in Info
      BY <1>2, <1>5 DEF TypeOK
    <2> QED
      BY <1>1, <1>2, <1>5, <2>1, EstablishKeeps
  <1> QED
    BY <1>1, <1>3, <1>4, <1>5 DEF Signal

LEMMA SpawnRelayKeeps ==
  ASSUME MeshInv, NEW u \in Guests, SpawnRelay(u)
  PROVE  MeshInv'
  <1> DEFINE q == [pending[u] EXCEPT !.attempted = TRUE]
             i == pending[u].info
  <1>1. pending[u] \in Pending /\ pending[u] # None /\ TypeOK
    BY DEF MeshInv, TypeOK, SpawnRelay, Due
  <1>2. i \in Info
    BY <1>1 DEF Pending
  <1>3. q \in Pending /\ q.info = pending[u].info
    BY <1>1, <1>2, PendingFact
  <1>4. pending' = [pending EXCEPT ![u] = q]
    BY <1>1 DEF SpawnRelay, TypeOK
  <1>5. relaying' = [relaying EXCEPT ![u][i] = @ + 1] /\ Ongoing(u) < MaxTasks
        /\ turnRetry' = (IF turnClient /\ u \notin turnFailed THEN turnRetry \cup {u} ELSE turnRetry)
        /\ UNCHANGED <<world, running, last, established, estPeer, turnClient, turnFailed, plane,
                       stale, peers, aliases>>
    BY DEF SpawnRelay
  <1> HIDE DEF q, i
  <1>6. relaying' \in [Guests -> [Info -> 0 .. MaxTasks]]
    <2>1. relaying[u][i] + 1 \in 0 .. MaxTasks
      BY <1>1, <1>2, <1>5, RoomForOneMore
    <2> QED
      BY <1>1, <1>2, <1>5, <2>1 DEF TypeOK
  <1>7. turnRetry' \subseteq Guests
    BY <1>1, <1>5 DEF TypeOK
  <1> QED
    BY <1>1, <1>3, <1>4, <1>5, <1>6, <1>7, PendingKeeps

\* What only concerns TURN, or the count of connections, leaves the maps alone.
LEMMA AsideKeeps ==
  ASSUME MeshInv,
         UNCHANGED <<world, running, last, pending, established, estPeer, plane, peers, aliases>>,
         turnFailed' \subseteq Guests, turnRetry' \subseteq Guests, stale' \in [Guests -> Nat],
         relaying' \in [Guests -> [Info -> 0 .. MaxTasks]]
  PROVE  MeshInv'
  <1>1. TypeOK'
    BY DEF MeshInv, TypeOK, world
  <1>2. running => PeersFit'
    BY DEF MeshInv, PeersFit
  <1>3. ASSUME running, NEW v \in Guests PROVE Fits(v)'
    BY <1>3, FitsSame DEF MeshInv, world
  <1> QED
    BY <1>1, <1>2, <1>3 DEF MeshInv, world

LEMMA TurnLinkKeeps ==
  ASSUME MeshInv, NEW u \in Guests, TurnLink(u) \/ RetryTurn(u)
  PROVE  MeshInv'
  <1>1. TypeOK /\ running /\ pending[u] # None
    BY DEF MeshInv, TurnLink, RetryTurn, Due
  <1>2. pending[u].info \in Info
    BY <1>1 DEF TypeOK, Pending
  <1>3. CASE RegisterRelayed(u, "turn", pending[u].info)
             /\ UNCHANGED <<turnFailed, turnRetry, relaying>>
    <2>1. PICK k \in {"turn", "relay"} : k = "turn"
      OBVIOUS
    <2>2. RegisterRelayed(u, k, pending[u].info) /\ k # "relay"
      BY <1>3, <2>1
    <2>3. turnFailed' \subseteq Guests /\ turnRetry' \subseteq Guests
          /\ relaying' \in [Guests -> [Info -> 0 .. MaxTasks]]
      BY <1>1, <1>3 DEF TypeOK
    <2> QED
      BY <1>1, <1>2, <2>2, <2>3, RelayedKeeps
  <1>4. CASE turnFailed' \in {turnFailed, turnFailed \cup {u}}
             /\ UNCHANGED <<world, running, last, pending, established, estPeer, turnRetry,
                            relaying, plane, stale, peers, aliases>>
    BY <1>1, <1>4, AsideKeeps DEF TypeOK
  <1> QED
    BY <1>3, <1>4 DEF TurnLink, RetryTurn

LEMMA TurnRebuiltKeeps ==
  ASSUME MeshInv, TurnRebuilt
  PROVE  MeshInv'
  BY AsideKeeps DEF MeshInv, TypeOK, TurnRebuilt

LEMMA ResultKeeps ==
  ASSUME MeshInv, NEW u \in Guests, NEW i \in Info,
         RelayResultIgnored(u, i) \/ RelayLink(u, i) \/ RelayFailed(u, i)
  PROVE  MeshInv'
  <1>1. TypeOK /\ running /\ ResultOf(u, i)
    BY DEF MeshInv, RelayResultIgnored, RelayLink, RelayFailed, ResultOf
  <1>2. relaying' \in [Guests -> [Info -> 0 .. MaxTasks]]
    <2>1. relaying[u][i] - 1 \in 0 .. MaxTasks
      BY <1>1, BoundsAssumption DEF ResultOf, TypeOK, BoundsAssumption
    <2> QED
      BY <1>1, <2>1 DEF ResultOf, TypeOK
  <1>3. CASE RelayResultIgnored(u, i)
    BY <1>1, <1>2, <1>3, AsideKeeps DEF RelayResultIgnored, TypeOK, turns
  <1>4. CASE RelayLink(u, i)
    <2>1. pending[u] # None /\ ~Changed(pending[u].info, i)
      BY <1>4 DEF RelayLink, Relevant
    <2>2. PICK k \in {"turn", "relay"} : k = "relay"
      OBVIOUS
    <2>3. RegisterRelayed(u, k, i) /\ turnFailed' \subseteq Guests /\ turnRetry' \subseteq Guests
      BY <1>1, <1>4, <2>2 DEF RelayLink, TypeOK, turns
    <2> QED
      BY <1>1, <1>2, <2>1, <2>3, RelayedKeeps
  <1>5. CASE RelayFailed(u, i)
    <2> DEFINE q == [pending[u] EXCEPT !.attempted = FALSE]
    <2>1. pending[u] \in Pending /\ pending[u] # None
      BY <1>1, <1>5 DEF RelayFailed, Relevant, TypeOK
    <2>2. q \in Pending /\ q.info = pending[u].info
      BY <2>1, PendingFact
    <2>3. pending' = [pending EXCEPT ![u] = q]
      BY <1>1, <1>5 DEF RelayFailed, RetryLater, TypeOK
    <2> HIDE DEF q
    <2>4. /\ UNCHANGED <<world, running, last, established, estPeer, turnClient, turnFailed, plane,
                         stale, peers, aliases>>
          /\ turnRetry' \subseteq Guests
      BY <1>1, <1>5 DEF RelayFailed, turns, TypeOK
    <2> QED
      BY <1>2, <2>1, <2>2, <2>3, <2>4, PendingKeeps
  <1> QED
    BY <1>3, <1>4, <1>5

-----------------------------------------------------------------------------
(* A death *)

LEMMA DeathKeeps ==
  ASSUME MeshInv, NEW u \in Guests, Death(u)
  PROVE  MeshInv'
  <1>1. running /\ TypeOK /\ PeersFit /\ plane[u] # None /\ plane[u].told > 0 /\ Fits(u)
    BY DEF Death, CurrentDeath, MeshInv
  <1>2. established[u] # None /\ pending[u] = None /\ last[u] # None /\ last[u] \in Info
    <2>1. plane[u].kind # None
      BY <1>1, NoneAssumption DEF TypeOK, Link, NoneAssumption
    <2> QED
      BY <1>1, <2>1 DEF Fits, TypeOK
  <1> DEFINE p == NewPending(last[u], forceRelay)
  <1>3. p \in Pending /\ p.info = last[u] /\ p # None
    BY <1>2, NewPendingFact DEF MeshInv
  <1>4. /\ plane' = Without({u}) /\ stale' = [stale EXCEPT ![u] = @ + Unread(u) - 1]
        /\ established' = [established EXCEPT ![u] = None]
        /\ estPeer' = [estPeer EXCEPT ![u] = None]
        /\ peers' = WithoutPeers({u})
        /\ turnFailed' = (IF established[u] = "turn" THEN turnFailed \cup {u} ELSE turnFailed)
        /\ pending' = [pending EXCEPT ![u] = p]
        /\ UNCHANGED <<world, running, last, turnClient, turnRetry, relaying, aliases>>
    BY <1>2 DEF Death, PeersAfterDeath
  <1> HIDE DEF p
  <1>5. stale' \in [Guests -> Nat]
    <2>1. stale[u] \in Nat /\ Unread(u) \in Nat /\ Unread(u) > 0
      BY <1>1, UnreadFact DEF TypeOK, Unread
    <2>2. stale[u] + Unread(u) - 1 \in Nat
      BY <2>1
    <2> QED
      BY <1>1, <1>4, <2>2 DEF TypeOK
  <1>6. TypeOK'
    <2>1. plane' \in [Guests -> Link \cup {None}] /\ peers' \subseteq Addr
      BY <1>1, <1>4, WithoutType
    <2> QED
      BY <1>1, <1>3, <1>4, <1>5, <2>1 DEF TypeOK, world
  <1>7. \A v \in Guests : estPeer'[v] = IF v \in {u} THEN None ELSE estPeer[v]
    BY <1>1, <1>4 DEF TypeOK
  <1>8. PeersFit'
    BY <1>1, <1>4, <1>7, PeersLess DEF MeshInv
  <1>9. ASSUME NEW v \in Guests PROVE Fits(v)'
    <2>1. plane'[v] = IF v \in {u} THEN None ELSE plane[v]
      BY <1>1, <1>4, WithoutType
    <2>2. /\ established'[v] = IF v = u THEN None ELSE established[v]
          /\ pending'[v] = IF v = u THEN p ELSE pending[v]
      BY <1>1, <1>4 DEF TypeOK
    <2>3. last' = last /\ room' = room
      BY <1>4 DEF world
    <2>4. CASE v = u
      BY <1>1, <1>2, <1>3, <1>7, <2>1, <2>2, <2>3, <2>4, NoneAssumption
         DEF Fits, NoneAssumption, Kinds
    <2>5. CASE v # u
      BY <1>1, <1>7, <2>1, <2>2, <2>3, <2>5, FitsSame DEF MeshInv
    <2> QED
      BY <2>4, <2>5
  <1> QED
    BY <1>1, <1>4, <1>6, <1>8, <1>9 DEF MeshInv, world

LEMMA StaleDeathKeeps ==
  ASSUME MeshInv, NEW u \in Guests, StaleDeath(u)
  PROVE  MeshInv'
  <1>1. stale' \in [Guests -> Nat]
    BY DEF StaleDeath, MeshInv, TypeOK
  <1> QED
    BY <1>1, AsideKeeps DEF StaleDeath, MeshInv, TypeOK, turns

-----------------------------------------------------------------------------
(* Every step *)

LEMMA MeshStep == MeshInv /\ [Next]_vars => MeshInv'
  <1> SUFFICES ASSUME MeshInv, [Next]_vars PROVE MeshInv'
    OBVIOUS
  <1>1. CASE \E u \in Guests : \/ Join(u) \/ WindowEnds(u) \/ SpawnRelay(u) \/ TurnLink(u)
                               \/ RetryTurn(u) \/ LinkEnds(u) \/ Death(u) \/ StaleDeath(u)
    BY <1>1, JoinKeeps, WindowEndsKeeps, SpawnRelayKeeps, TurnLinkKeeps, LinkEndsKeeps,
       DeathKeeps, StaleDeathKeeps
  <1>2. CASE \E u \in Guests, i \in Info :
               RelayResultIgnored(u, i) \/ RelayLink(u, i) \/ RelayFailed(u, i)
    BY <1>2, ResultKeeps
  <1>3. CASE \E src \in Addr : Signal(src)
    BY <1>3, SignalKeeps
  <1>4. CASE Poll \/ PollGone \/ SocketClosed \/ TurnRebuilt
    BY <1>4, PollKeeps, PollGoneKeeps, SocketClosedKeeps, TurnRebuiltKeeps
  <1>5. CASE UNCHANGED vars
    <2>1. UNCHANGED <<world, running, last, pending, established, estPeer, plane, peers, aliases,
                      turns, stale, relaying>>
      BY <1>5 DEF vars, world, turns
    <2> QED
      BY <2>1, AsideKeeps DEF MeshInv, TypeOK, turns
  <1> QED
    BY <1>1, <1>2, <1>3, <1>4, <1>5 DEF Next

LEMMA MeshShows == MeshInv => MeshIsConsistent
  BY DEF MeshInv, Fits, PeersFit, MeshIsConsistent, LinksAgree, RelayLinksAreCurrent

\* In every behaviour what the loop holds of each guest agrees with the plane, the stream
\* table and the room it last saw.
THEOREM MeshInvHolds == Spec => []MeshInv
  BY InitMesh, MeshStep, PTL DEF Spec

\* The maps of mesh_host_loop, the table of MeshPlane and that of UdpMesh agree, and a link
\* through the relay is one of the guest's present attempt.
THEOREM MeshHolds == Spec => []MeshIsConsistent
  BY MeshInvHolds, MeshShows, PTL

-----------------------------------------------------------------------------
(* Who loses a link *)

\* A guest has lost its link in this step.
Loses(u) == established[u] # None /\ established'[u] = None /\ running'

LEMMA OnlyDeathOrChange ==
  ASSUME MeshInv, [Next]_vars, NEW u \in Guests, Loses(u)
  PROVE  plane[u].told > 0 \/ Changed(last[u], last'[u])
  <1>1. TypeOK /\ established'[u] # established[u]
    BY DEF MeshInv, Loses
  <1>2. CASE Poll
    <2>1. u \in ChangedGuests
      BY <1>1, <1>2 DEF Poll, PollUpdates
    <2> QED
      BY <1>2, <2>1 DEF Poll, PollUpdates, ChangedGuests
  <1>3. ASSUME NEW v \in Guests, Death(v) PROVE plane[u].told > 0
    <2>1. v = u
      BY <1>1, <1>3 DEF Death, TypeOK
    <2> QED
      BY <1>3, <2>1 DEF Death, CurrentDeath
  <1>4. ASSUME NEW v \in Guests, NEW k \in Kinds, NEW i \in Info, Register(v, k, i) PROVE FALSE
    BY <1>1, <1>4, RegisterType DEF Loses
  <1>5. ASSUME NEW v \in Guests, TurnLink(v) \/ RetryTurn(v) PROVE FALSE
    <2>1. pending[v].info \in Info /\ "turn" \in Kinds
      BY <1>1, <1>5 DEF TurnLink, RetryTurn, Due, TypeOK, Pending, Kinds
    <2>2. Register(v, "turn", pending[v].info)
      BY <1>1, <1>5 DEF TurnLink, RetryTurn, RegisterRelayed
    <2> QED
      BY <1>4, <2>1, <2>2
  <1>6. ASSUME NEW v \in Guests, NEW i \in Info, RelayLink(v, i) PROVE FALSE
    BY <1>4, <1>6 DEF RelayLink, RegisterRelayed, Kinds
  <1>7. ASSUME NEW src \in Addr, Signal(src) PROVE FALSE
    <2>1. src.guest \in Guests /\ "direct" \in Kinds
      BY DEF Addr, Kinds
    <2>2. CASE pending[src.guest] # None /\ Establish(src.guest, src, pending[src.guest].info)
      <3>1. pending[src.guest].info \in Info
        BY <1>1, <2>1, <2>2 DEF TypeOK, Pending
      <3> QED
        BY <1>4, <2>1, <2>2, <3>1 DEF Establish
    <2>3. CASE last[src.guest] # None /\ Establish(src.guest, src, last[src.guest])
      <3>1. last[src.guest] \in Info
        BY <1>1, <2>1, <2>3 DEF TypeOK
      <3> QED
        BY <1>4, <2>1, <2>3, <3>1 DEF Establish
    <2>4. CASE AliasOfEstablished(src)
      BY <1>1, <2>4 DEF AliasOfEstablished
    <2> QED
      BY <1>7, <2>2, <2>3, <2>4 DEF Signal
  <1>8. CASE PollGone \/ SocketClosed
    BY <1>8 DEF PollGone, SocketClosed, LoopEnds, Loses
  <1>9. CASE TurnRebuilt \/ UNCHANGED vars
    BY <1>1, <1>9 DEF TurnRebuilt, vars
  <1>10. ASSUME NEW v \in Guests,
                Join(v) \/ WindowEnds(v) \/ SpawnRelay(v) \/ LinkEnds(v) \/ StaleDeath(v)
         PROVE  FALSE
    BY <1>1, <1>10 DEF Join, WindowEnds, SpawnRelay, LinkEnds, StaleDeath
  <1>11. ASSUME NEW v \in Guests, NEW i \in Info, RelayResultIgnored(v, i) \/ RelayFailed(v, i)
         PROVE  FALSE
    BY <1>1, <1>11 DEF RelayResultIgnored, RelayFailed
  <1> QED
    BY <1>2, <1>3, <1>5, <1>6, <1>7, <1>8, <1>9, <1>10, <1>11 DEF Next

\* A guest of mesh_host_loop loses its link only when that link itself was reported dead, or
\* the guest came back with another endpoint: never by the late report of a link replaced.
THEOREM LinksStand == Spec => LinksDieOfTheirOwn
  <1>1. MeshInv /\ [Next]_vars
        => [\A u \in Guests :
              established[u] # None /\ established'[u] = None /\ running'
              => \/ plane[u].told > 0
                 \/ Changed(last[u], last'[u])]_vars
    BY OnlyDeathOrChange DEF Loses
  <1> QED
    BY <1>1, MeshInvHolds, PTL DEF Spec, LinksDieOfTheirOwn

-----------------------------------------------------------------------------
(* The keyed datagrams *)

Ciphers == [key: {Key}, local: Nonces, remote: Nonces \cup {Nothing}, tx: 0..MaxSent,
            high: 0..(MaxSent - 1) \cup {Nothing}, seen: SUBSET (0..(Window - 1))]
LinkHellos == [kind: {"hello"}, key: {Key}, from: Nonces, echo: Nonces \cup {Nothing}]
Frames == [kind: {"sealed"}, key: {Key}, from: Nonces, aad: Nonces, seq: 0..(MaxSent - 1),
           data: {"frame"}]

LinkTypes ==
    /\ cipher \in [Ends -> Ciphers] /\ nonces \in Nonces /\ faults \in 0..MaxFaults
    /\ prompt \in BOOLEAN /\ again \in BOOLEAN
    /\ net \in [Ends -> SUBSET (LinkHellos \cup Frames)] /\ taken \in [Ends -> SUBSET Frames]

\* The window of a stream that let the numbers S pass.
Exact(c, S) ==
    IF S = {} THEN c.high = Nothing
    ELSE /\ c.high # Nothing /\ c.high \in S /\ \A t \in S : t <= c.high
         /\ \A d \in 0..(Window - 1) : d \in c.seen <=> c.high - d \in S

Passed(e) == {m.seq : m \in taken[e]}
WindowInv(e) ==
    /\ \A m \in taken[e] : m.aad = cipher[e].local /\ m.from = cipher[e].remote
    /\ Exact(cipher[e], Passed(e))

\* No nonce is known before it is drawn.
DrawnInv(e) ==
    /\ cipher[e].local <= nonces
    /\ Ready(cipher[e]) => cipher[e].remote <= nonces
    /\ \A m \in net[e] : m.from <= nonces /\ (m.kind = "sealed" => m.aad <= nonces)

LinkInv == LinkTypes /\ ~again /\ \A e \in Ends : WindowInv(e) /\ DrawnInv(e)

-----------------------------------------------------------------------------
(* The replay window *)

LEMMA Sizes ==
  /\ MaxSent \in Nat \ {0} /\ Window \in Nat \ {0} /\ MaxNonces \in Nat /\ 1 \in Nonces /\ 2 \in Nonces
  /\ Nothing \notin Nat /\ Nonces \subseteq Nat \ {0} /\ MaxFaults \in Nat
  BY NonceAssumption, FramesAssumption, WindowAssumption
     DEF NonceAssumption, FramesAssumption, WindowAssumption, Nonces

\* What the window lets pass it did not let pass before, and it stays exact.
LEMMA TakenFact ==
  ASSUME NEW c \in Ciphers, NEW S \in SUBSET (0..(MaxSent - 1)), Exact(c, S),
         NEW q \in 0..(MaxSent - 1), Unseen(c, q)
  PROVE  /\ q \notin S /\ Taken(c, q) \in Ciphers /\ Exact(Taken(c, q), S \cup {q})
         /\ Taken(c, q).local = c.local /\ Taken(c, q).remote = c.remote
  <1>0. /\ c.high \in 0..(MaxSent - 1) \cup {Nothing} /\ c.seen \subseteq 0..(Window - 1)
        /\ MaxSent \in Nat \ {0} /\ Window \in Nat \ {0} /\ Nothing \notin Nat
    BY Sizes DEF Ciphers
  <1>2. CASE c.high = Nothing
    <2>1. S = {}
      BY <1>2 DEF Exact
    <2> DEFINE t == [c EXCEPT !.high = q, !.seen = {0}]
    <2>2. {0} \cup {} = {0} /\ {0} \in SUBSET (0..(Window - 1))
      BY <1>0
    <2>3. Taken(c, q) = t
      BY <1>2, <2>2 DEF Taken
    <2>4. t \in Ciphers /\ t.high = q /\ t.seen = {0} /\ t.local = c.local /\ t.remote = c.remote
      BY <2>2 DEF Ciphers
    <2> HIDE DEF t
    <2>5. Exact(t, {q})
      BY <1>0, <2>4 DEF Exact
    <2> QED
      BY <2>1, <2>3, <2>4, <2>5
  <1>3. CASE c.high # Nothing /\ q > c.high
    <2>1. /\ c.high \in 0..(MaxSent - 1) /\ c.high \in S /\ \A t \in S : t <= c.high
          /\ \A d \in 0..(Window - 1) : d \in c.seen <=> c.high - d \in S
      BY <1>0, <1>3 DEF Exact
    <2> DEFINE seen == {0} \cup Shifted(c, q)
               t == [c EXCEPT !.high = q, !.seen = seen]
    <2>2. Taken(c, q) = t
      BY <1>3 DEF Taken
    <2>3. \A d \in 0..(Window - 1) : d \in seen <=> q - d \in S \cup {q}
      <3> SUFFICES ASSUME NEW d \in 0..(Window - 1), d # 0
                   PROVE  d \in Shifted(c, q) <=> q - d \in S
        BY <1>0, <2>1, <1>3
      <3>1. d \in Shifted(c, q) <=> d - q + c.high \in c.seen
        BY <1>0, <2>1 DEF Shifted
      <3>2. CASE d - q + c.high >= 0
        <4>1. d - q + c.high \in 0..(Window - 1) /\ c.high - (d - q + c.high) = q - d
          BY <1>0, <1>3, <2>1, <3>2
        <4> QED
          BY <2>1, <3>1, <4>1
      <3>3. CASE d - q + c.high < 0
        BY <1>0, <2>1, <3>1, <3>3
      <3> QED
        BY <1>0, <2>1, <3>2, <3>3
    <2>4. seen \in SUBSET (0..(Window - 1))
      <3>1. ASSUME NEW d \in Shifted(c, q) PROVE d \in 0..(Window - 1)
        <4>1. PICK s \in c.seen : d = s + q - c.high /\ d < Window
          BY DEF Shifted
        <4> QED
          BY <1>0, <1>3, <2>1, <4>1
      <3> QED
        BY <1>0, <3>1
    <2> HIDE DEF seen
    <2>5. t \in Ciphers
      BY <2>4 DEF Ciphers
    <2>6. t.high = q /\ t.seen = seen /\ t.local = c.local /\ t.remote = c.remote
      BY <2>4, <2>5 DEF Ciphers
    <2>7. q \notin S /\ \A x \in S \cup {q} : x <= q
      BY <1>3, <2>1
    <2>8. Exact(t, S \cup {q})
      BY <1>0, <2>3, <2>6, <2>7 DEF Exact
    <2> QED
      BY <2>2, <2>5, <2>6, <2>7, <2>8
  <1>4. CASE c.high # Nothing /\ ~(q > c.high)
    <2>1. /\ c.high \in 0..(MaxSent - 1) /\ c.high \in S /\ \A t \in S : t <= c.high
          /\ \A d \in 0..(Window - 1) : d \in c.seen <=> c.high - d \in S
      BY <1>0, <1>4 DEF Exact
    <2> DEFINE gap == c.high - q
               seen == c.seen \cup {gap}
               t == [c EXCEPT !.seen = seen]
    <2>2. gap \in 0..(Window - 1) /\ gap \notin c.seen /\ c.high - gap = q
      BY <1>0, <1>4, <2>1 DEF Unseen
    <2>3. q \notin S
      BY <2>1, <2>2
    <2>4. Taken(c, q) = t
      BY <1>4 DEF Taken
    <2>5. \A d \in 0..(Window - 1) : d \in seen <=> c.high - d \in S \cup {q}
      BY <1>0, <2>1, <2>2
    <2>6. seen \in SUBSET (0..(Window - 1))
      BY <1>0, <2>2
    <2>7. t \in Ciphers /\ t.high = c.high /\ t.seen = seen /\ t.local = c.local /\ t.remote = c.remote
      BY <2>6 DEF Ciphers
    <2>8. \A x \in S \cup {q} : x <= c.high
      BY <1>4, <2>1
    <2> HIDE DEF seen
    <2>9. Exact(t, S \cup {q})
      BY <1>0, <2>1, <2>5, <2>7, <2>8 DEF Exact
    <2> QED
      BY <2>3, <2>4, <2>7, <2>9
  <1> QED
    BY <1>2, <1>3, <1>4

-----------------------------------------------------------------------------
(* Steps *)

\* What is under way is a hello or a frame.
LEMMA MessageFact ==
  ASSUME NEW m \in LinkHellos \cup Frames
  PROVE  /\ m.from \in Nonces
         /\ m.kind = "sealed" => m \in Frames /\ m.aad \in Nonces
         /\ m.kind = "hello" => m \in LinkHellos
  <1>1. CASE m \in LinkHellos
    BY <1>1 DEF LinkHellos
  <1>2. CASE m \in Frames
    BY <1>2 DEF Frames
  <1> QED
    BY <1>1, <1>2

\* A stream that has not changed in what its window sees.
LEMMA SameWindow ==
  ASSUME NEW e \in Ends, WindowInv(e), taken'[e] = taken[e],
         cipher'[e].local = cipher[e].local, cipher'[e].remote = cipher[e].remote,
         cipher'[e].high = cipher[e].high, cipher'[e].seen = cipher[e].seen
  PROVE  WindowInv(e)'
  BY DEF WindowInv, Passed, Exact

\* A step that changes one stream.
LEMMA OneStream ==
  ASSUME LinkInv, NEW e \in Ends, LinkTypes', ~again', nonces <= nonces',
         \A x \in Ends \ {e} : cipher'[x] = cipher[x] /\ taken'[x] = taken[x],
         WindowInv(e)', cipher'[e].local <= nonces',
         Ready(cipher'[e]) => cipher'[e].remote <= nonces',
         \A x \in Ends : \A m \in net'[x] :
            m \in net[x] \/ (m.from <= nonces' /\ (m.kind = "sealed" => m.aad <= nonces'))
  PROVE  LinkInv'
  <1>1. nonces \in Nat /\ nonces' \in Nat
    BY Sizes DEF LinkInv, LinkTypes
  <1>2. ASSUME NEW x \in Ends PROVE WindowInv(x)'
    <2>1. CASE x = e
      BY <2>1
    <2>2. CASE x # e
      <3>1. cipher'[x] = cipher[x] /\ taken'[x] = taken[x] /\ WindowInv(x)
        BY <2>2 DEF LinkInv
      <3> QED
        BY <3>1, SameWindow
    <2> QED
      BY <2>1, <2>2
  <1>3. ASSUME NEW x \in Ends PROVE DrawnInv(x)'
    <2>1. cipher'[x].local <= nonces' /\ (Ready(cipher'[x]) => cipher'[x].remote <= nonces')
      <3>1. CASE x = e
        BY <3>1
      <3>2. CASE x # e
        <4>1. cipher'[x] = cipher[x] /\ cipher[x].local \in Nat /\ cipher[x].local <= nonces
          BY <3>2, Sizes DEF LinkInv, LinkTypes, Ciphers, DrawnInv
        <4>2. Ready(cipher[x]) => cipher[x].remote \in Nat /\ cipher[x].remote <= nonces
          BY Sizes DEF LinkInv, LinkTypes, Ciphers, DrawnInv, Ready
        <4> QED
          BY <1>1, <4>1, <4>2
      <3> QED
        BY <3>1, <3>2
    <2>2. ASSUME NEW m \in net'[x]
          PROVE  m.from <= nonces' /\ (m.kind = "sealed" => m.aad <= nonces')
      <3>1. CASE m \in net[x]
        <4>0. m \in LinkHellos \cup Frames /\ DrawnInv(x)
          BY <3>1 DEF LinkInv, LinkTypes
        <4>1. m.from \in Nat /\ m.from <= nonces
          BY <3>1, <4>0, Sizes, MessageFact DEF DrawnInv
        <4>2. m.kind = "sealed" => m.aad \in Nat /\ m.aad <= nonces
          BY <3>1, <4>0, Sizes, MessageFact DEF DrawnInv
        <4> QED
          BY <1>1, <4>1, <4>2
      <3> QED
        BY <2>2, <3>1
    <2> QED
      BY <2>1, <2>2 DEF DrawnInv
  <1> QED
    BY <1>2, <1>3 DEF LinkInv

\* A datagram to the other side.
LEMMA PostFact ==
  ASSUME LinkTypes, NEW e \in Ends, NEW m \in LinkHellos \cup Frames, Post(e, m)
  PROVE  /\ net' \in [Ends -> SUBSET (LinkHellos \cup Frames)]
         /\ \A x \in Ends : \A n \in net'[x] : n \in net[x] \/ n = m
  <1>1. Peer(e) \in Ends
    BY DEF Peer, Ends
  <1> QED
    BY <1>1 DEF LinkTypes, Post

LEMMA ReplaceKeeps ==
  ASSUME LinkInv, NEW e \in Ends, Replace(e), faults' \in 0..MaxFaults,
         net' \in [Ends -> SUBSET (LinkHellos \cup Frames)],
         \A x \in Ends : net'[x] \subseteq net[x]
  PROVE  LinkInv'
  <1>0. nonces \in Nat /\ nonces + 1 \in Nonces /\ nonces' = nonces + 1
    BY Sizes, NonceAssumption DEF LinkInv, LinkTypes, Nonces, Replace, NonceAssumption
  <1> DEFINE c == New(Key, nonces + 1)
  <1>1. c \in Ciphers /\ c.local = nonces + 1 /\ c.remote = Nothing /\ c.high = Nothing
    BY <1>0, Sizes DEF New, Ciphers
  <1> HIDE DEF c
  <1>2. /\ cipher' \in [Ends -> Ciphers] /\ cipher'[e] = c
        /\ taken' \in [Ends -> SUBSET Frames] /\ taken'[e] = {}
        /\ \A x \in Ends \ {e} : cipher'[x] = cipher[x] /\ taken'[x] = taken[x]
    <2>1. cipher' = [cipher EXCEPT ![e] = c] /\ taken' = [taken EXCEPT ![e] = {}]
      BY DEF Replace, c
    <2> QED
      BY <1>1, <2>1 DEF LinkInv, LinkTypes
  <1>3. LinkTypes' /\ ~again'
    BY <1>0, <1>2 DEF LinkInv, LinkTypes, Replace
  <1>4. WindowInv(e)'
    BY <1>1, <1>2 DEF WindowInv, Passed, Exact
  <1>5. nonces <= nonces' /\ cipher'[e].local <= nonces' /\ ~Ready(cipher'[e])
    BY <1>0, <1>1, <1>2 DEF Ready
  <1> QED
    BY <1>2, <1>3, <1>4, <1>5, OneStream

LEMMA RestartKeeps ==
  ASSUME LinkInv, NEW e \in Ends, Restart(e)
  PROVE  LinkInv'
  <1>1. faults' \in 0..MaxFaults /\ net' = net
    BY Sizes DEF Restart, LinkInv, LinkTypes
  <1>2. net' \in [Ends -> SUBSET (LinkHellos \cup Frames)] /\ \A x \in Ends : net'[x] \subseteq net[x]
    BY <1>1 DEF LinkInv, LinkTypes
  <1> QED
    BY <1>1, <1>2, ReplaceKeeps DEF Restart

LEMMA DiesKeeps ==
  ASSUME LinkInv, NEW e \in Ends, DiesOfSilence(e)
  PROVE  LinkInv'
  <1>1. faults' \in 0..MaxFaults /\ Replace(e)
    BY DEF DiesOfSilence, LinkInv, LinkTypes
  <1>2. net' \in [Ends -> SUBSET (LinkHellos \cup Frames)] /\ \A x \in Ends : net'[x] \subseteq net[x]
    <2>1. net \in [Ends -> SUBSET (LinkHellos \cup Frames)]
      BY DEF LinkInv, LinkTypes
    <2>2. \E f : net' = [net EXCEPT ![e] = {m \in @ : m.from = f},
                                    ![Peer(e)] = {m \in @ : m.kind = "sealed"}]
      BY DEF DiesOfSilence
    <2> QED
      BY <2>1, <2>2
  <1> QED
    BY <1>1, <1>2, ReplaceKeeps

\* One that leaves what the window sees as it was, and says of itself what is true.
LEMMA SpeakKeeps ==
  ASSUME LinkInv, NEW e \in Ends, NEW c \in Ciphers, cipher' = [cipher EXCEPT ![e] = c],
         c.local = cipher[e].local, c.remote = cipher[e].remote,
         c.high = cipher[e].high, c.seen = cipher[e].seen,
         UNCHANGED <<nonces, faults, prompt, taken, again>>,
         NEW m \in LinkHellos \cup Frames, Post(e, m), m.from = cipher[e].local,
         m.kind = "sealed" => Ready(cipher[e]) /\ m.aad = cipher[e].remote
  PROVE  LinkInv'
  <1>1. /\ cipher' \in [Ends -> Ciphers] /\ cipher'[e] = c
        /\ \A x \in Ends \ {e} : cipher'[x] = cipher[x]
    BY DEF LinkInv, LinkTypes
  <1>2. /\ net' \in [Ends -> SUBSET (LinkHellos \cup Frames)]
        /\ \A x \in Ends : \A n \in net'[x] : n \in net[x] \/ n = m
    BY PostFact DEF LinkInv
  <1>3. LinkTypes' /\ ~again' /\ nonces' = nonces /\ taken' = taken /\ nonces \in Nat
    BY <1>1, <1>2, Sizes DEF LinkInv, LinkTypes
  <1>4. WindowInv(e)'
    <2>1. WindowInv(e)
      BY DEF LinkInv
    <2> QED
      BY <1>1, <1>3, <2>1, SameWindow
  <1>5. DrawnInv(e)
    BY DEF LinkInv
  <1>6. m.from <= nonces /\ (m.kind = "sealed" => m.aad <= nonces)
    BY <1>5 DEF DrawnInv
  <1>7. cipher'[e].local <= nonces /\ (Ready(cipher'[e]) => cipher'[e].remote <= nonces)
    BY <1>1, <1>5 DEF DrawnInv, Ready
  <1> QED
    BY <1>1, <1>2, <1>3, <1>4, <1>6, <1>7, OneStream

LEMMA GreetKeeps ==
  ASSUME LinkInv, NEW e \in Ends, Greet(e)
  PROVE  LinkInv'
  <1>1. PICK c \in Ciphers : c = cipher[e]
    BY DEF LinkInv, LinkTypes
  <1>2. cipher' = [cipher EXCEPT ![e] = c]
    BY <1>1 DEF Greet, LinkInv, LinkTypes
  <1> DEFINE m == Hello(c, Nothing)
  <1>3. m \in LinkHellos \cup Frames /\ m.from = c.local /\ m.kind = "hello"
    BY DEF Hello, LinkHellos, Ciphers
  <1>4. Post(e, m) /\ UNCHANGED <<nonces, faults, prompt, taken, again>>
    BY <1>1 DEF Greet
  <1> HIDE DEF m
  <1> QED
    BY <1>1, <1>2, <1>3, <1>4, SpeakKeeps

LEMMA SendKeeps ==
  ASSUME LinkInv, NEW e \in Ends, Send(e)
  PROVE  LinkInv'
  <1>1. PICK c \in Ciphers : c = cipher[e]
    BY DEF LinkInv, LinkTypes
  <1>2. /\ Ready(c) /\ c.tx < (IF prompt THEN 1 ELSE MaxSent)
        /\ Post(e, Sealed(c, c.tx, "frame")) /\ cipher' = [cipher EXCEPT ![e].tx = @ + 1]
        /\ UNCHANGED <<nonces, faults, prompt, taken, again>>
    BY <1>1 DEF Send
  <1>3. c.tx \in 0..(MaxSent - 1) /\ c.tx + 1 \in 0..MaxSent /\ c.remote \in Nonces
    BY <1>2, Sizes DEF Ciphers, Ready
  <1>4. PICK n \in 0..MaxSent : n = c.tx + 1
    BY <1>3
  <1> DEFINE d == [c EXCEPT !.tx = n]
             m == Sealed(c, c.tx, "frame")
  <1>5. /\ d \in Ciphers /\ d.local = c.local /\ d.remote = c.remote
        /\ d.high = c.high /\ d.seen = c.seen
    BY DEF Ciphers
  <1>6. cipher' = [cipher EXCEPT ![e] = d]
    BY <1>1, <1>2, <1>4 DEF LinkInv, LinkTypes
  <1>7. m \in LinkHellos \cup Frames /\ m.from = c.local /\ m.aad = c.remote
    BY <1>3 DEF Sealed, Frames, Ciphers
  <1>8. Post(e, m)
    BY <1>2
  <1> HIDE DEF d, m
  <1> QED
    BY <1>1, <1>2, <1>5, <1>6, <1>7, <1>8, SpeakKeeps

LEMMA LoseKeeps ==
  ASSUME LinkInv, NEW e \in Ends, Lose(e)
  PROVE  LinkInv'
  <1>1. /\ net' = [net EXCEPT ![e] = {m \in @ : m.kind = "sealed"}]
        /\ UNCHANGED <<cipher, nonces, faults, prompt, taken, again>>
    BY DEF Lose
  <1>2. net' \in [Ends -> SUBSET (LinkHellos \cup Frames)] /\ \A x \in Ends : net'[x] \subseteq net[x]
    BY <1>1 DEF LinkInv, LinkTypes
  <1>3. LinkTypes' /\ ~again' /\ nonces \in Nat
    BY <1>1, <1>2, Sizes DEF LinkInv, LinkTypes
  <1>4. WindowInv(e) /\ DrawnInv(e)
    BY DEF LinkInv
  <1>5. WindowInv(e)'
    BY <1>1, <1>4, SameWindow
  <1>6. cipher'[e].local <= nonces' /\ (Ready(cipher'[e]) => cipher'[e].remote <= nonces') /\ nonces <= nonces'
    BY <1>1, <1>3, <1>4 DEF DrawnInv
  <1> QED
    BY <1>1, <1>2, <1>3, <1>5, <1>6, OneStream

LEMMA AnswerKeeps ==
  ASSUME LinkInv, NEW e \in Ends, NEW m \in net[e], m.kind = "hello", Answer(e, m)
  PROVE  LinkInv'
  <1>1. PICK c \in Ciphers : c = cipher[e]
    BY DEF LinkInv, LinkTypes
  <1>2. m \in LinkHellos /\ m.from \in Nonces /\ DrawnInv(e) /\ WindowInv(e) /\ LinkTypes
    BY MessageFact DEF LinkInv, LinkTypes
  <1>3. /\ Replies(c, m) /\ Post(e, Reply(c, m))
        /\ UNCHANGED <<nonces, faults, prompt, taken, again>>
    BY <1>1 DEF Answer
  <1>4. m.from <= nonces /\ c.local <= nonces /\ (Ready(c) => c.remote <= nonces)
    BY <1>1, <1>2 DEF DrawnInv
  <1> DEFINE r == Reply(c, m)
  <1>5. r \in LinkHellos \cup Frames /\ r.from = c.local /\ r.kind = "hello"
    BY <1>2 DEF Reply, Hello, LinkHellos, Ciphers
  <1>6. Post(e, r)
    BY <1>3
  <1> HIDE DEF r
  <1>7. CASE ~Binds(c, m)
    <2>1. cipher' = [cipher EXCEPT ![e] = c]
      BY <1>1, <1>7 DEF Answer, LinkInv, LinkTypes
    <2> QED
      BY <1>1, <1>3, <1>5, <1>6, <2>1, SpeakKeeps
  <1>8. CASE Binds(c, m)
    <2> DEFINE d == [c EXCEPT !.remote = m.from]
    <2>1. d \in Ciphers /\ d.local = c.local /\ d.remote = m.from /\ d.high = c.high
      BY <1>2 DEF Ciphers
    <2>2. cipher' = [cipher EXCEPT ![e] = d]
      BY <1>1, <1>2, <1>8 DEF Answer, Bound, LinkTypes
    <2> HIDE DEF d
    <2>3. /\ cipher' \in [Ends -> Ciphers] /\ cipher'[e] = d
          /\ \A x \in Ends \ {e} : cipher'[x] = cipher[x]
      BY <1>2, <2>1, <2>2 DEF LinkTypes
    <2>4. /\ net' \in [Ends -> SUBSET (LinkHellos \cup Frames)]
          /\ \A x \in Ends : \A n \in net'[x] : n \in net[x] \/ n = r
      BY <1>2, <1>5, <1>6, PostFact
    <2>5. LinkTypes' /\ ~again' /\ nonces' = nonces /\ taken' = taken /\ nonces \in Nat
      BY <1>3, <2>3, <2>4, Sizes DEF LinkInv, LinkTypes
    <2>6. taken[e] = {}
      <3> SUFFICES ASSUME NEW n \in taken[e] PROVE FALSE
        OBVIOUS
      <3>1. n.from \in Nonces
        BY <1>2 DEF LinkTypes, Frames
      <3>2. n.from = Nothing
        BY <1>1, <1>2, <1>8 DEF WindowInv, Binds, Ready
      <3> QED
        BY <3>1, <3>2, Sizes
    <2>7. WindowInv(e)'
      <3>1. Passed(e) = {} /\ Passed(e)' = {}
        BY <2>5, <2>6 DEF Passed
      <3>2. c.high = Nothing
        BY <1>1, <1>2, <3>1 DEF WindowInv, Exact
      <3> QED
        BY <2>1, <2>3, <2>5, <2>6, <3>1, <3>2 DEF WindowInv, Exact
    <2>8. cipher'[e].local <= nonces' /\ cipher'[e].remote <= nonces' /\ nonces <= nonces'
      BY <1>4, <2>1, <2>3, <2>5
    <2> QED
      BY <1>4, <1>5, <2>3, <2>4, <2>5, <2>7, <2>8, OneStream
  <1> QED
    BY <1>7, <1>8

LEMMA AdmitKeeps ==
  ASSUME LinkInv, NEW e \in Ends, NEW m \in net[e], Admit(e, m)
  PROVE  LinkInv'
  <1>1. PICK c \in Ciphers : c = cipher[e]
    BY DEF LinkInv, LinkTypes
  <1>2. /\ Genuine(c, m) /\ Unseen(c, m.seq) /\ cipher' = [cipher EXCEPT ![e] = Taken(c, m.seq)]
        /\ again' = (again \/ m \in taken[e]) /\ taken' = [taken EXCEPT ![e] = @ \cup {m}]
        /\ UNCHANGED <<nonces, faults, prompt, net>>
    BY <1>1 DEF Admit, LinkInv, LinkTypes
  <1>3. LinkTypes /\ WindowInv(e) /\ DrawnInv(e) /\ ~again
    BY DEF LinkInv
  <1>4. m \in Frames /\ m.seq \in 0..(MaxSent - 1) /\ m.aad = c.local /\ m.from = c.remote
    <2>1. m \in Frames
      BY <1>2, <1>3, MessageFact DEF LinkTypes, Genuine, FromBound
    <2> QED
      BY <1>2, <2>1 DEF Frames, Genuine, FromBound
  <1>5. Passed(e) \in SUBSET (0..(MaxSent - 1))
    BY <1>3 DEF LinkTypes, Passed, Frames
  <1>6. Exact(c, Passed(e))
    BY <1>1, <1>3 DEF WindowInv
  <1> DEFINE d == Taken(c, m.seq)
  <1>7. /\ m.seq \notin Passed(e) /\ d \in Ciphers /\ Exact(d, Passed(e) \cup {m.seq})
        /\ d.local = c.local /\ d.remote = c.remote
    BY <1>2, <1>4, <1>5, <1>6, TakenFact
  <1>8. cipher' = [cipher EXCEPT ![e] = d]
    BY <1>2
  <1> HIDE DEF d
  <1>9. /\ cipher' \in [Ends -> Ciphers] /\ cipher'[e] = d
        /\ \A x \in Ends \ {e} : cipher'[x] = cipher[x]
        /\ taken' \in [Ends -> SUBSET Frames] /\ taken'[e] = taken[e] \cup {m}
        /\ \A x \in Ends \ {e} : taken'[x] = taken[x]
    BY <1>2, <1>3, <1>4, <1>7, <1>8 DEF LinkTypes
  <1>10. m \notin taken[e]
    BY <1>7 DEF Passed
  <1>11. LinkTypes' /\ ~again' /\ nonces' = nonces /\ nonces \in Nat
    BY <1>2, <1>3, <1>9, <1>10, Sizes DEF LinkTypes
  <1>12. WindowInv(e)'
    <2>1. Passed(e)' = Passed(e) \cup {m.seq}
      BY <1>9 DEF Passed
    <2>2. \A n \in taken[e] : n.aad = c.local /\ n.from = c.remote
      BY <1>1, <1>3 DEF WindowInv
    <2> QED
      BY <1>4, <1>7, <1>9, <2>1, <2>2 DEF WindowInv
  <1>13. /\ cipher'[e].local <= nonces' /\ (Ready(cipher'[e]) => cipher'[e].remote <= nonces')
         /\ nonces <= nonces'
    BY <1>1, <1>3, <1>7, <1>9, <1>11 DEF DrawnInv, Ready
  <1> QED
    BY <1>2, <1>9, <1>11, <1>12, <1>13, OneStream

LEMMA LinkNextKeeps ==
  ASSUME LinkInv, [LinkNext]_linkVars
  PROVE  LinkInv'
  <1>1. CASE UNCHANGED linkVars
    BY <1>1 DEF linkVars, LinkInv, LinkTypes, WindowInv, DrawnInv, Passed, Exact, Ready
  <1>2. CASE LinkNext
    <2>1. PICK e \in Ends :
             \/ Restart(e) \/ DiesOfSilence(e) \/ Greet(e) \/ Lose(e) \/ Send(e)
             \/ Greeted(e) \/ Echoed(e) \/ \E m \in net[e] : Admit(e, m)
      BY <1>2 DEF LinkNext
    <2> QED
      BY <2>1, RestartKeeps, DiesKeeps, GreetKeeps, LoseKeeps, SendKeeps, AnswerKeeps, AdmitKeeps
         DEF Greeted, Echoed
  <1> QED
    BY <1>1, <1>2

LEMMA LinkInitInv ==
  ASSUME LinkInit
  PROVE  LinkInv
  <1> DEFINE c(n) == New(Key, n)
  <1>1. \A n \in {1, 2} : c(n) \in Ciphers /\ c(n).local = n /\ c(n).remote = Nothing /\ c(n).high = Nothing
    BY Sizes DEF New, Ciphers
  <1>2. \A e \in Ends : cipher[e] = c(IF e = A THEN 1 ELSE 2)
    BY DEF LinkInit
  <1> HIDE DEF c
  <1>3. ASSUME NEW e \in Ends
        PROVE  /\ cipher[e] \in Ciphers /\ cipher[e].local \in {1, 2}
               /\ cipher[e].remote = Nothing /\ cipher[e].high = Nothing
    BY <1>1, <1>2
  <1>4. LinkTypes /\ ~again
    <2>1. cipher \in [Ends -> Ciphers]
      <3>1. cipher = [e \in Ends |-> cipher[e]]
        BY DEF LinkInit
      <3> QED
        BY <1>3, <3>1
    <2>2. net \in [Ends -> SUBSET (LinkHellos \cup Frames)] /\ taken \in [Ends -> SUBSET Frames]
      BY DEF LinkInit
    <2>3. nonces \in Nonces /\ faults \in 0..MaxFaults
      BY Sizes DEF LinkInit
    <2>4. prompt \in BOOLEAN /\ again = FALSE
      BY DEF LinkInit
    <2> QED
      BY <2>1, <2>2, <2>3, <2>4 DEF LinkTypes
  <1>5. ASSUME NEW e \in Ends PROVE WindowInv(e) /\ DrawnInv(e)
    <2>1. taken[e] = {} /\ net[e] = {} /\ nonces = 2
      BY DEF LinkInit
    <2> QED
      BY <1>3, <2>1 DEF WindowInv, DrawnInv, Passed, Exact, Ready
  <1> QED
    BY <1>4, <1>5 DEF LinkInv

LEMMA LinkInvReplay == LinkInv => ReplayIsSound
  <1> SUFFICES ASSUME LinkInv PROVE ReplayIsSound
    OBVIOUS
  <1>1. LinkTypeOK
    BY DEF LinkInv, LinkTypes, LinkTypeOK, Ciphers
  <1>2. PassesOnce
    BY DEF LinkInv, WindowInv, PassesOnce
  <1>3. WindowIsExact
    <2> SUFFICES ASSUME NEW e \in Ends
                 PROVE  LET high == CHOOSE s \in Passed(e) : \A t \in Passed(e) : t <= s
                        IN  IF Passed(e) = {} THEN cipher[e].high = Nothing
                            ELSE /\ cipher[e].high = high
                                 /\ cipher[e].seen = {high - s : s \in {t \in Passed(e) : high - t < Window}}
      BY DEF WindowIsExact, Passed
    <2> DEFINE S == Passed(e)
               h == CHOOSE s \in S : \A t \in S : t <= s
    <2>1. PICK c \in Ciphers : c = cipher[e] /\ Exact(c, S)
      BY DEF LinkInv, LinkTypes, WindowInv
    <2>2. S \subseteq 0..(MaxSent - 1)
      BY DEF LinkInv, LinkTypes, Passed, Frames
    <2>3. CASE S = {}
      BY <2>1, <2>3 DEF Exact
    <2>4. CASE S # {}
      <3>1. /\ c.high \in S /\ \A t \in S : t <= c.high
            /\ \A d \in 0..(Window - 1) : d \in c.seen <=> c.high - d \in S
        BY <2>1, <2>4 DEF Exact
      <3> HIDE DEF S
      <3>2. h \in S /\ \A t \in S : t <= h
        BY <3>1
      <3> HIDE DEF h
      <3>0. PICK k \in Nat : k = h
        BY <2>2, <3>2, Sizes
      <3>8. S \subseteq Nat /\ c.high \in S
        BY <2>2, <3>1, Sizes
      <3>9. PICK n \in Nat : n = c.high
        BY <3>8
      <3>10. n <= k /\ k <= n
        BY <3>0, <3>9, <3>1, <3>2
      <3>3. h = c.high /\ h \in Nat
        BY <3>0, <3>9, <3>10
      <3>4. c.seen \subseteq 0..(Window - 1) /\ Window \in Nat
        BY Sizes DEF Ciphers
      <3>5. ASSUME NEW d \in c.seen PROVE d \in {h - s : s \in {t \in S : h - t < Window}}
        <4>1. h - d \in S /\ d \in 0..(Window - 1) /\ h - (h - d) = d
          BY <3>1, <3>3, <3>4
        <4> QED
          BY <3>4, <4>1
      <3>6. ASSUME NEW s \in S, h - s < Window PROVE h - s \in c.seen
        <4>1. h - s \in 0..(Window - 1) /\ h - (h - s) = s
          BY <2>2, <3>2, <3>3, <3>4, <3>6, Sizes
        <4> QED
          BY <3>1, <3>3, <4>1
      <3>7. c.seen = {h - s : s \in {t \in S : h - t < Window}}
        BY <3>5, <3>6
      <3> QED
        BY <2>1, <2>4, <3>3, <3>7 DEF S, h
    <2> QED
      BY <2>3, <2>4
  <1> QED
    BY <1>1, <1>2, <1>3 DEF ReplayIsSound

\* The two ends keep the numbers of what passed exactly, whatever the network does.
THEOREM LinkInvHolds == LinkSpec => []LinkInv
  BY LinkInitInv, LinkNextKeeps, PTL DEF LinkSpec

THEOREM ReplayHolds == LinkSpec => []ReplayIsSound
  BY LinkInvHolds, LinkInvReplay, PTL

LEMMA NewLocal ==
  ASSUME LinkInv, LinkNext, NEW e \in Ends, cipher'[e].local # cipher[e].local
  PROVE  cipher'[e].local = nonces + 1
  <1> USE DEF LinkInv, LinkTypes
  <1>1. ASSUME NEW x \in Ends, Replace(x) PROVE cipher'[e].local = nonces + 1
    BY <1>1 DEF Replace, New
  <1>2. ASSUME NEW x \in Ends, NEW m, Answer(x, m) PROVE cipher'[e].local = cipher[e].local
    BY <1>2 DEF Answer, Bound, Ciphers
  <1>3. ASSUME NEW x \in Ends, NEW m \in net[x], Admit(x, m) PROVE cipher'[e].local = cipher[e].local
    BY <1>3 DEF Admit, Taken, Ciphers
  <1>4. ASSUME NEW x \in Ends, Send(x) PROVE cipher'[e].local = cipher[e].local
    BY <1>4 DEF Send, Ciphers
  <1> QED
    BY <1>1, <1>2, <1>3, <1>4 DEF LinkNext, Restart, DiesOfSilence, Greet, Lose, Greeted, Echoed

\* A stream that takes another's place has a nonce nobody has seen: nothing under way when
\* it is made was made by it or for it, so nothing of the past can pass it.
THEOREM NewStreamIsFresh ==
  LinkSpec => [][\A e \in Ends : cipher'[e].local # cipher[e].local =>
                    \A x \in Ends : \A m \in net[x] :
                       /\ m.from # cipher'[e].local
                       /\ m.kind = "sealed" => m.aad # cipher'[e].local]_linkVars
  <1>1. ASSUME LinkInv, LinkNext, NEW e \in Ends, cipher'[e].local # cipher[e].local,
               NEW x \in Ends, NEW m \in net[x]
        PROVE  m.from # cipher'[e].local /\ (m.kind = "sealed" => m.aad # cipher'[e].local)
    <2>1. cipher'[e].local = nonces + 1 /\ nonces \in Nat
      BY <1>1, NewLocal, Sizes DEF LinkInv, LinkTypes
    <2>2. m \in LinkHellos \cup Frames /\ DrawnInv(x)
      BY <1>1 DEF LinkInv, LinkTypes
    <2>3. m.from \in Nat /\ m.from <= nonces
      BY <1>1, <2>2, Sizes, MessageFact DEF DrawnInv
    <2>4. m.kind = "sealed" => m.aad \in Nat /\ m.aad <= nonces
      BY <1>1, <2>2, Sizes, MessageFact DEF DrawnInv
    <2> QED
      BY <2>1, <2>3, <2>4
  <1>2. LinkInv /\ [LinkNext]_linkVars =>
           [\A e \in Ends : cipher'[e].local # cipher[e].local =>
                    \A x \in Ends : \A m \in net[x] :
                       /\ m.from # cipher'[e].local
                       /\ m.kind = "sealed" => m.aad # cipher'[e].local]_linkVars
    BY <1>1
  <1> QED
    BY <1>2, LinkInvHolds, PTL DEF LinkSpec

-----------------------------------------------------------------------------
(* SpaceMesh *)

\* A session is known by its number, a nonce by the two sessions of its link.
Pairs == Numbers \X Numbers

\* What a client is: sealed messages are left out, so of a link's security only the
\* binding changes.
Securities == [key: SUBSET Numbers, local: Pairs, remote: Pairs \cup {Nothing},
               tx: {0}, high: {Nothing}, seen: {{}}]
Bonds == [session: Numbers, security: Securities, ping: BOOLEAN]
LinksOf(m) == UNION {[S -> Bonds] : S \in SUBSET Others(m)}
Clients(m) == [session: Numbers, links: LinksOf(m), phase: {"Joining", "Connected"}]

\* What a link may be for a member whose session is own: it is with another session, and
\* bound to nothing or to the side the server named.
LinkOf(own, link) ==
    /\ link.session \in Numbers /\ link.session # own
    /\ link.security.key = {own, link.session}
    /\ link.security.local = <<own, link.session>>
    /\ link.security.remote \in {Nothing, <<link.session, own>>}

\* A hello under way to a member was made by another session than its own.
Greetings == [kind: {"hello"}, key: SUBSET Numbers, from: Pairs, echo: Pairs \cup {Nothing}]
Heard(m) == {f \in [from: Others(m), msg: Greetings] :
                /\ f.msg.key = {f.msg.from[1], f.msg.from[2]} /\ f.msg.from[1] <= opened
                /\ Present(m) => f.msg.from[1] # client[m].session}

\* Hellos a member sends to others, made by its session.
MadeBy(own, msg) ==
    /\ msg \in Greetings /\ msg.key = {msg.from[1], msg.from[2]}
    /\ msg.from[1] = own
FromSession(m, own, msgs) == \A p \in DOMAIN msgs : p \in Others(m) /\ MadeBy(own, msgs[p])

ServerFits ==
    /\ opened \in Nat /\ lost \in Nat /\ opened + lost <= MaxEvents
    /\ sessions \in [Members -> 1..opened \cup {Nobody}]

ClientFits(m) == Present(m) =>
    /\ client[m] \in Clients(m) /\ client[m].session <= opened
    /\ \A p \in Links(m) : LinkOf(client[m].session, client[m].links[p])
    /\ \A p \in Others(m) : /\ sessions[p] # Nobody => sessions[p] # client[m].session
                            /\ Present(p) => client[p].session # client[m].session

UpdateFits(m) ==
    /\ update[m] \in Peers(m) \cup {Nobody, Failed}
    /\ update[m] \notin {Nobody, Failed} => \A p \in Others(m) : update[m][p] # Nobody =>
          /\ update[m][p] <= opened
          /\ Present(m) => update[m][p] # client[m].session

WireFits(m) == wire[m] \in Seq(Heard(m))

\* The inductive invariant.
MemberInv ==
    /\ ServerFits
    /\ DOMAIN client = Members /\ DOMAIN update = Members /\ DOMAIN wire = Members
    /\ \A m \in Members : ClientFits(m) /\ UpdateFits(m) /\ WireFits(m)

LEMMA MemberInvImplies ==
  ASSUME MemberInv
  PROVE  MembersAreSound
  <1> USE EventsAssumption DEF EventsAssumption
  <1>1. opened + lost \in 0..MaxEvents
    BY DEF MemberInv, ServerFits
  <1>2. ASSUME NEW m \in Members
        PROVE  /\ sessions[m] \in Numbers \cup {Nobody} /\ update[m] \in Peers(m) \cup {Nobody, Failed}
               /\ Present(m) => /\ client[m].session \in Numbers /\ client[m].phase \in {"Joining", "Connected"}
                        /\ Links(m) \subseteq Others(m)
               /\ \A f \in ToSet(wire[m]) : f.from \in Others(m)
               /\ Present(m) => \A p \in Links(m) :
                    Ready(client[m].links[p].security) =>
                        client[m].links[p].security.remote = <<client[m].links[p].session, client[m].session>>
    <2>0. ClientFits(m) /\ UpdateFits(m) /\ WireFits(m) /\ ServerFits
      BY DEF MemberInv
    <2>1. sessions[m] \in Numbers \cup {Nobody} /\ update[m] \in Peers(m) \cup {Nobody, Failed}
      BY <2>0 DEF ServerFits, UpdateFits, Numbers
    <2>2. Present(m) => /\ client[m].session \in Numbers /\ client[m].phase \in {"Joining", "Connected"}
                        /\ Links(m) \subseteq Others(m)
      BY <2>0 DEF ClientFits, Clients, LinksOf, Links
    <2>3. \A f \in ToSet(wire[m]) : f.from \in Others(m)
      BY <2>0 DEF WireFits, Heard, ToSet
    <2>4. Present(m) => \A p \in Links(m) :
            Ready(client[m].links[p].security) =>
                client[m].links[p].security.remote = <<client[m].links[p].session, client[m].session>>
      BY <2>0 DEF ClientFits, LinkOf, Ready
    <2> QED
      BY <2>1, <2>2, <2>3, <2>4
  <1>3. MemberTypeOK
    BY <1>1, <1>2 DEF MemberTypeOK
  <1>4. BoundAsNamed
    BY <1>2 DEF BoundAsNamed
  <1> QED
    BY <1>3, <1>4 DEF MembersAreSound

LEMMA MemberInitFact ==
  ASSUME MemberInit
  PROVE  MemberInv
  <1> USE EventsAssumption DEF EventsAssumption
  <1>1. ServerFits
    BY DEF MemberInit, ServerFits
  <1>2. ASSUME NEW m \in Members
        PROVE  ClientFits(m) /\ UpdateFits(m) /\ WireFits(m)
    <2>1. <<>> \in Seq(Heard(m))
      BY EmptySeq
    <2> QED
      BY <2>1 DEF MemberInit, ClientFits, UpdateFits, WireFits, Present
  <1> QED
    BY <1>1, <1>2 DEF MemberInv, MemberInit

-----------------------------------------------------------------------------
(* Links and hellos *)

LEMMA NewLinkFact ==
  ASSUME NEW own \in Numbers, NEW other \in Numbers, own # other
  PROVE  NewLink(own, other) \in Bonds /\ LinkOf(own, NewLink(own, other))
  <1>1. NewLink(own, other).security \in Securities
    BY DEF NewLink, New, Securities, Pairs
  <1> QED
    BY <1>1 DEF NewLink, New, Bonds, LinkOf

LEMMA HelloFact ==
  ASSUME NEW own \in 1..opened, NEW link \in Bonds, LinkOf(own, link),
         NEW echo \in Pairs \cup {Nothing}
  PROVE  MadeBy(own, Hello(link.security, echo))
  BY DEF Hello, MadeBy, Greetings, LinkOf, Bonds, Securities, Pairs

LEMMA ReplyFact ==
  ASSUME NEW own \in 1..opened, NEW link \in Bonds, LinkOf(own, link), NEW msg \in Greetings
  PROVE  MadeBy(own, Reply(link.security, msg))
  <1>1. msg.from \in Pairs
    BY DEF Greetings
  <1> QED
    BY <1>1, HelloFact DEF Reply

\* Who heeds a hello for a link hears it from the other side of that very link.
LEMMA HeedsFact ==
  ASSUME NEW own, NEW link \in Bonds, LinkOf(own, link),
         NEW msg \in Greetings, msg.key = {msg.from[1], msg.from[2]}, msg.from[1] # own,
         Heeds(link.security, msg)
  PROVE  msg.from = <<link.session, own>>
  <1>1. {own, link.session} = {msg.from[1], msg.from[2]} /\ link.session # own
    BY DEF Heeds, LinkOf
  <1>2. msg.from[1] = link.session /\ msg.from[2] = own
    BY <1>1
  <1>3. msg.from = <<msg.from[1], msg.from[2]>>
    BY DEF Greetings, Pairs
  <1> QED
    BY <1>2, <1>3

LEMMA CarriedFact ==
  ASSUME NEW S, NEW q \in Seq(S), NEW frame \in S
  PROVE  Carried(q, frame) \in Seq(S)
  BY DEF Carried

LEMMA SeqWiden ==
  ASSUME NEW S, NEW T, S \subseteq T, NEW s \in Seq(S)
  PROVE  s \in Seq(T)
  OBVIOUS

\* What the hub does with the hellos of a member leaves every wire as it should be.
LEMMA ForwardFact ==
  ASSUME MemberInv, NEW m \in Members, Present(m), NEW msgs, NEW wires,
         \A q \in Members : wires[q] \in Seq(Heard(q)), DOMAIN wires = Members,
         FromSession(m, client[m].session, msgs),
         Forward(m, msgs, wires)
  PROVE  /\ DOMAIN wire' = Members /\ \A q \in Members : wire'[q] \in Seq(Heard(q))
         /\ lost' \in Nat /\ opened + lost' <= MaxEvents
  <1> USE EventsAssumption DEF EventsAssumption
  <1>0. ServerFits
    BY DEF MemberInv
  <1>1. CASE /\ wire' = [p \in Members |->
                  IF Stays(m) /\ p \in DOMAIN msgs /\ Stays(p)
                  THEN Carried(wires[p], [from |-> m, msg |-> msgs[p]])
                  ELSE wires[p]]
             /\ UNCHANGED lost
    <2>1. ASSUME NEW q \in Members
          PROVE  wire'[q] \in Seq(Heard(q))
      <3>1. CASE Stays(m) /\ q \in DOMAIN msgs /\ Stays(q)
        <4>1. ClientFits(m) /\ q \in Others(m) /\ Present(q)
          BY <3>1 DEF MemberInv, Stays, FromSession
        <4>2. client[m].session <= opened /\ client[q].session # client[m].session
          BY <4>1 DEF ClientFits
        <4>3. m \in Others(q)
          BY <4>1 DEF Others
        <4>4. [from |-> m, msg |-> msgs[q]] \in Heard(q)
          BY <3>1, <4>2, <4>3 DEF Heard, FromSession, MadeBy
        <4>5. wire'[q] = Carried(wires[q], [from |-> m, msg |-> msgs[q]])
          BY <1>1, <3>1
        <4> QED
          BY <4>4, <4>5, CarriedFact
      <3>2. CASE ~(Stays(m) /\ q \in DOMAIN msgs /\ Stays(q))
        BY <1>1, <3>2
      <3> QED
        BY <3>1, <3>2
    <2> QED
      BY <1>0, <1>1, <2>1 DEF ServerFits
  <1>2. CASE DOMAIN msgs # {} /\ MayHappen /\ lost' = lost + 1 /\ wire' = wires
    BY <1>0, <1>2 DEF ServerFits, MayHappen
  <1> QED
    BY <1>1, <1>2 DEF Forward

-----------------------------------------------------------------------------
(* Steps in which no session begins *)

\* Whoever is present stays with its session, or leaves.
SameClients == \A q \in Members : Present(q)' => Present(q) /\ client'[q].session = client[q].session

LEMMA StaysFit ==
  ASSUME MemberInv, SameClients, opened' = opened, DOMAIN client' = Members,
         \A q \in Members : sessions'[q] \in {sessions[q], Nobody},
         \A q \in Members : Present(q)' =>
            /\ client'[q] \in Clients(q)
            /\ \A p \in DOMAIN client'[q].links : LinkOf(client'[q].session, client'[q].links[p])
  PROVE  /\ \A q \in Members : ClientFits(q)' /\ Heard(q) \subseteq Heard(q)'
         /\ \A q \in Members : update'[q] \in {update[q], Nobody} => UpdateFits(q)'
  <1>1. ASSUME NEW q \in Members
        PROVE  ClientFits(q)'
    <2>1. SUFFICES ASSUME Present(q)'
                   PROVE  ClientFits(q)'
      BY DEF ClientFits
    <2>2. Present(q) /\ client'[q].session = client[q].session /\ ClientFits(q)
      BY <2>1 DEF SameClients, MemberInv
    <2>3. client'[q] \in Clients(q)' /\ client'[q].session <= opened'
      BY <2>1, <2>2 DEF ClientFits, Clients, LinksOf, Others
    <2>4. \A p \in Links(q)' : LinkOf(client'[q].session, client'[q].links[p])
      BY <2>1 DEF Links
    <2>5. ASSUME NEW p \in Others(q)
          PROVE  /\ sessions'[p] # Nobody => sessions'[p] # client'[q].session
                 /\ Present(p)' => client'[p].session # client'[q].session
      <3>1. p \in Members
        BY DEF Others
      <3> QED
        BY <2>2, <3>1 DEF ClientFits, SameClients
    <2> QED
      BY <2>3, <2>4, <2>5 DEF ClientFits, LinkOf, Others
  <1>2. ASSUME NEW q \in Members
        PROVE  Heard(q) \subseteq Heard(q)'
    BY DEF Heard, SameClients, Others, Greetings, Pairs, Numbers
  <1>3. ASSUME NEW q \in Members, update'[q] \in {update[q], Nobody}
        PROVE  UpdateFits(q)'
    <2>1. UpdateFits(q)
      BY DEF MemberInv
    <2> QED
      BY <1>3, <2>1 DEF UpdateFits, SameClients, Peers, Others, Numbers
  <1> QED
    BY <1>1, <1>2, <1>3

\* The wires after it, if they were right for the clients before it.
LEMMA WiresFit ==
  ASSUME \A q \in Members : Heard(q) \subseteq Heard(q)' /\ wire'[q] \in Seq(Heard(q))
  PROVE  \A q \in Members : WireFits(q)'
  BY SeqWiden DEF WireFits

LEMMA OneClient ==
  ASSUME MemberInv, NEW m \in Members, Present(m), NEW c \in Clients(m),
         c.session = client[m].session,
         \A p \in DOMAIN c.links : LinkOf(c.session, c.links[p]),
         client' = [client EXCEPT ![m] = c]
  PROVE  /\ SameClients /\ DOMAIN client' = Members
         /\ \A q \in Members : Present(q)' =>
              /\ client'[q] \in Clients(q)
              /\ \A p \in DOMAIN client'[q].links : LinkOf(client'[q].session, client'[q].links[p])
  <1>1. DOMAIN client = Members /\ \A q \in Members : ClientFits(q)
    BY DEF MemberInv
  <1>2. \A q \in Members : client'[q] = IF q = m THEN c ELSE client[q]
    BY <1>1
  <1> QED
    BY <1>1, <1>2 DEF SameClients, Present, ClientFits, Links

LEMMA StepKeeps ==
  ASSUME MemberInv, SameClients, opened' = opened, DOMAIN client' = Members,
         sessions' \in [Members -> 1..opened \cup {Nobody}],
         \A q \in Members : sessions'[q] \in {sessions[q], Nobody},
         \A q \in Members : Present(q)' =>
            /\ client'[q] \in Clients(q)
            /\ \A p \in DOMAIN client'[q].links : LinkOf(client'[q].session, client'[q].links[p]),
         DOMAIN update' = Members, \A q \in Members : update'[q] \in {update[q], Nobody},
         DOMAIN wire' = Members, \A q \in Members : wire'[q] \in Seq(Heard(q)),
         lost' \in Nat, opened + lost' <= MaxEvents
  PROVE  MemberInv'
  <1>1. /\ \A q \in Members : ClientFits(q)' /\ Heard(q) \subseteq Heard(q)'
        /\ \A q \in Members : UpdateFits(q)'
    BY StaysFit
  <1>2. \A q \in Members : WireFits(q)'
    BY <1>1, WiresFit
  <1>3. ServerFits'
    BY DEF MemberInv, ServerFits
  <1> QED
    BY <1>1, <1>2, <1>3 DEF MemberInv

\* What MemberInv says of the parts a step leaves alone.
LEMMA PartsFact ==
  ASSUME MemberInv
  PROVE  /\ DOMAIN client = Members /\ DOMAIN update = Members /\ DOMAIN wire = Members
         /\ opened \in Nat /\ lost \in Nat /\ opened + lost <= MaxEvents
         /\ sessions \in [Members -> 1..opened \cup {Nobody}]
         /\ \A q \in Members : wire[q] \in Seq(Heard(q))
         /\ \A q \in Members : ClientFits(q) /\ UpdateFits(q)
  BY DEF MemberInv, ServerFits, WireFits

LEMMA ShorterWires ==
  ASSUME MemberInv, NEW m \in Members, NEW s \in Seq(Heard(m))
  PROVE  /\ DOMAIN [wire EXCEPT ![m] = s] = Members
         /\ \A q \in Members : [wire EXCEPT ![m] = s][q] \in Seq(Heard(q))
  BY PartsFact

LEMMA DepartKeeps ==
  ASSUME MemberInv, NEW m \in Members, Departs(m),
         \/ sessions' = [sessions EXCEPT ![m] = IF @ = client[m].session THEN Nobody ELSE @]
         \/ UNCHANGED sessions
  PROVE  MemberInv'
  <1>0. USE PartsFact
  <1>1. \A q \in Members : client'[q] = IF q = m THEN Nobody ELSE client[q]
    BY DEF Departs
  <1>2. SameClients /\ DOMAIN client' = Members
    BY <1>1 DEF Departs, SameClients, Present
  <1>3. \A q \in Members : Present(q)' =>
            /\ client'[q] \in Clients(q)
            /\ \A p \in DOMAIN client'[q].links : LinkOf(client'[q].session, client'[q].links[p])
    BY <1>1 DEF Present, ClientFits, Links
  <1>4. <<>> \in Seq(Heard(m))
    BY EmptySeq
  <1>5. DOMAIN wire' = Members /\ \A q \in Members : wire'[q] \in Seq(Heard(q))
    BY <1>4, ShorterWires DEF Departs
  <1>6. /\ sessions' \in [Members -> 1..opened \cup {Nobody}]
        /\ \A q \in Members : sessions'[q] \in {sessions[q], Nobody}
    OBVIOUS
  <1>7. DOMAIN update' = Members /\ \A q \in Members : update'[q] \in {update[q], Nobody}
    BY DEF Departs
  <1> QED
    BY <1>2, <1>3, <1>5, <1>6, <1>7, StepKeeps DEF Departs

LEMMA ExpireKeeps ==
  ASSUME MemberInv, NEW m \in Members, Expire(m)
  PROVE  MemberInv'
  <1>0. USE PartsFact
  <1>1. SameClients /\ DOMAIN client' = Members
    BY DEF Expire, SameClients, Present
  <1>2. \A q \in Members : Present(q)' =>
            /\ client'[q] \in Clients(q)
            /\ \A p \in DOMAIN client'[q].links : LinkOf(client'[q].session, client'[q].links[p])
    BY DEF Expire, Present, ClientFits, Links
  <1>3. /\ sessions' \in [Members -> 1..opened \cup {Nobody}]
        /\ \A q \in Members : sessions'[q] \in {sessions[q], Nobody}
    BY DEF Expire
  <1> QED
    BY <1>1, <1>2, <1>3, StepKeeps DEF Expire

LEMMA BeatenFact ==
  ASSUME NEW m \in Members, NEW own, NEW links \in LinksOf(m),
         \A p \in DOMAIN links : LinkOf(own, links[p])
  PROVE  /\ Beaten(links) \in LinksOf(m) /\ DOMAIN Beaten(links) = DOMAIN links
         /\ \A p \in DOMAIN links : LinkOf(own, Beaten(links)[p])
  <1>1. DOMAIN links \subseteq Others(m) /\ \A p \in DOMAIN links : links[p] \in Bonds
    BY DEF LinksOf
  <1>2. ASSUME NEW p \in DOMAIN links
        PROVE  Beaten(links)[p] \in Bonds /\ LinkOf(own, Beaten(links)[p])
    <2>1. Beaten(links)[p] = [links[p] EXCEPT !.ping = @ \/ Ready(links[p].security)]
      BY DEF Beaten
    <2>2. (links[p].ping \/ Ready(links[p].security)) \in BOOLEAN
      OBVIOUS
    <2>3. links[p] \in Bonds /\ LinkOf(own, links[p])
      BY <1>1
    <2> QED
      BY <2>1, <2>2, <2>3 DEF Bonds, LinkOf
  <1>3. DOMAIN Beaten(links) = DOMAIN links
    BY DEF Beaten
  <1>4. Beaten(links) \in [DOMAIN links -> Bonds]
    BY <1>2, <1>3 DEF Beaten
  <1> QED
    BY <1>1, <1>2, <1>3, <1>4 DEF LinksOf

LEMMA HellosFact ==
  ASSUME NEW m \in Members, NEW own \in 1..opened, NEW links \in LinksOf(m),
         \A p \in DOMAIN links : LinkOf(own, links[p])
  PROVE  FromSession(m, own, Hellos(links))
  <1>0. SUFFICES \A p \in DOMAIN Hellos(links) : p \in Others(m) /\ MadeBy(own, Hellos(links)[p])
    BY DEF FromSession
  <1>1. TAKE p \in DOMAIN Hellos(links)
  <1>2. p \in DOMAIN links /\ Hellos(links)[p] = Hello(links[p].security, Nothing)
    BY DEF Hellos, Unready
  <1>3. p \in Others(m) /\ links[p] \in Bonds
    BY <1>2 DEF LinksOf
  <1>4. LinkOf(own, links[p])
    BY <1>2
  <1> QED
    BY <1>2, <1>3, <1>4, HelloFact

LEMMA RefreshedFact ==
  ASSUME NEW m \in Members, NEW c \in Clients(m),
         \A p \in DOMAIN c.links : LinkOf(c.session, c.links[p]),
         NEW found \in Peers(m),
         \A p \in Others(m) : found[p] # Nobody => found[p] # c.session
  PROVE  /\ Refreshed(c, found) \in LinksOf(m)
         /\ \A p \in DOMAIN Refreshed(c, found) : LinkOf(c.session, Refreshed(c, found)[p])
  <1> DEFINE new == Refreshed(c, found)
             S == {x \in DOMAIN found : found[x] # Nobody}
  <1>1. S \subseteq Others(m) /\ DOMAIN new = S
    BY DEF Refreshed, Peers
  <1>2. ASSUME NEW p \in S
        PROVE  new[p] \in Bonds /\ LinkOf(c.session, new[p])
    <2>1. found[p] \in Numbers /\ found[p] # c.session /\ c.session \in Numbers
      BY DEF Peers, Clients
    <2>2. CASE p \in DOMAIN c.links /\ SameSession(c.links[p], found[p])
      <3>1. new[p] = c.links[p]
        BY <2>2 DEF Refreshed
      <3>2. c.links[p] \in Bonds
        BY <2>2 DEF Clients, LinksOf
      <3> QED
        BY <2>2, <3>1, <3>2
    <2>3. CASE ~(p \in DOMAIN c.links /\ SameSession(c.links[p], found[p]))
      <3>1. new[p] = NewLink(c.session, found[p])
        BY <2>3 DEF Refreshed
      <3> QED
        BY <2>1, <3>1, NewLinkFact
    <2> QED
      BY <2>2, <2>3
  <1>3. new \in [S -> Bonds]
    BY <1>1, <1>2 DEF Refreshed
  <1> QED
    BY <1>1, <1>2, <1>3 DEF LinksOf

\* The heartbeat, with what else happens to the links at that moment.
LEMMA BeatKeeps ==
  ASSUME MemberInv, NEW m \in Members, Present(m),
         NEW links \in LinksOf(m), NEW greeted \in LinksOf(m),
         \A p \in DOMAIN links : LinkOf(client[m].session, links[p]),
         \A p \in DOMAIN greeted : LinkOf(client[m].session, greeted[p]),
         NEW phase \in {"Joining", "Connected"},
         client' = [client EXCEPT ![m].links = links, ![m].phase = phase],
         Forward(m, Hellos(greeted), wire),
         sessions' = sessions, opened' = opened,
         DOMAIN update' = Members, \A q \in Members : update'[q] \in {update[q], Nobody}
  PROVE  MemberInv'
  <1>0. USE PartsFact
  <1>1. client[m] \in Clients(m) /\ client[m].session \in 1..opened
    BY DEF ClientFits, Clients, Numbers
  <1> DEFINE c == [client[m] EXCEPT !.links = links, !.phase = phase]
  <1>2. c \in Clients(m) /\ c.session = client[m].session /\ c.links = links
    BY <1>1 DEF Clients
  <1>3. client' = [client EXCEPT ![m] = c]
    OBVIOUS
  <1>4. \A p \in DOMAIN c.links : LinkOf(c.session, c.links[p])
    BY <1>2
  <1> HIDE DEF c
  <1>5. /\ SameClients /\ DOMAIN client' = Members
        /\ \A q \in Members : Present(q)' =>
              /\ client'[q] \in Clients(q)
              /\ \A p \in DOMAIN client'[q].links : LinkOf(client'[q].session, client'[q].links[p])
    BY <1>2, <1>3, <1>4, OneClient
  <1>6. FromSession(m, client[m].session, Hellos(greeted))
    BY <1>1, HellosFact
  <1>7. /\ DOMAIN wire' = Members /\ \A q \in Members : wire'[q] \in Seq(Heard(q))
        /\ lost' \in Nat /\ opened + lost' <= MaxEvents
    BY <1>6, ForwardFact
  <1> QED
    BY <1>5, <1>7, StepKeeps

LEMMA UpdateKeeps ==
  ASSUME MemberInv, NEW m \in Members, Update(m)
  PROVE  MemberInv'
  <1>0. USE PartsFact
  <1> DEFINE c == client[m]
             links == Refreshed(c, update[m])
  <1>1. /\ Present(m) /\ update[m] \in Peers(m) /\ c \in Clients(m)
        /\ \A p \in DOMAIN c.links : LinkOf(c.session, c.links[p])
        /\ \A p \in Others(m) : update[m][p] # Nobody => update[m][p] # c.session
    BY DEF Update, ClientFits, UpdateFits, Links
  <1>2. links \in LinksOf(m) /\ \A p \in DOMAIN links : LinkOf(c.session, links[p])
    BY <1>1, RefreshedFact
  <1>3. /\ Beaten(links) \in LinksOf(m)
        /\ \A p \in DOMAIN Beaten(links) : LinkOf(c.session, Beaten(links)[p])
    BY <1>2, BeatenFact
  <1>4. /\ client' = [client EXCEPT ![m].links = Beaten(links)]
        /\ Forward(m, Hellos(links), wire)
        /\ sessions' = sessions /\ opened' = opened
        /\ DOMAIN update' = Members /\ \A q \in Members : update'[q] \in {update[q], Nobody}
    BY DEF Update
  <1>5. c.phase \in {"Joining", "Connected"}
    BY <1>1 DEF Clients
  <1>6. client' = [client EXCEPT ![m].links = Beaten(links), ![m].phase = c.phase]
    <2>1. [c EXCEPT !.links = Beaten(links)] = [c EXCEPT !.links = Beaten(links), !.phase = c.phase]
      BY <1>1 DEF Clients
    <2> QED
      BY <1>4, <2>1
  <1> HIDE DEF links
  <1> QED
    BY <1>1, <1>2, <1>3, <1>4, <1>5, <1>6, BeatKeeps

LEMMA TickKeeps ==
  ASSUME MemberInv, NEW m \in Members, Tick(m)
  PROVE  MemberInv'
  <1>0. USE PartsFact
  <1> DEFINE c == client[m]
             links == Beaten(c.links)
             phase == IF Connected(links) THEN "Connected" ELSE "Joining"
  <1>1. /\ Present(m) /\ c \in Clients(m) /\ c.links \in LinksOf(m)
        /\ \A p \in DOMAIN c.links : LinkOf(c.session, c.links[p])
    BY DEF Tick, ClientFits, Links, Clients
  <1>2. links \in LinksOf(m) /\ \A p \in DOMAIN links : LinkOf(c.session, links[p])
    BY <1>1, BeatenFact
  <1>3. /\ client' = [client EXCEPT ![m].links = links, ![m].phase = phase]
        /\ Forward(m, Hellos(links), wire)
        /\ sessions' = sessions /\ opened' = opened /\ update' = update
    BY DEF Tick
  <1>4. phase \in {"Joining", "Connected"}
    OBVIOUS
  <1> HIDE DEF links, phase
  <1> QED
    BY <1>1, <1>2, <1>3, <1>4, BeatKeeps

\* One link of a client changes, to what it may be.
LEMMA OneLink ==
  ASSUME MemberInv, NEW m \in Members, Present(m), NEW p \in Links(m), NEW link \in Bonds,
         LinkOf(client[m].session, link),
         client' = [client EXCEPT ![m] = [client[m] EXCEPT !.links = [@ EXCEPT ![p] = link]]]
  PROVE  /\ SameClients /\ DOMAIN client' = Members
         /\ \A q \in Members : Present(q)' =>
              /\ client'[q] \in Clients(q)
              /\ \A r \in DOMAIN client'[q].links : LinkOf(client'[q].session, client'[q].links[r])
  <1>0. /\ client[m] \in Clients(m) /\ client[m].links \in LinksOf(m) /\ p \in DOMAIN client[m].links
        /\ \A r \in DOMAIN client[m].links : LinkOf(client[m].session, client[m].links[r])
    BY PartsFact DEF ClientFits, Links, Clients
  <1> DEFINE links == [client[m].links EXCEPT ![p] = link]
             c == [client[m] EXCEPT !.links = links]
  <1>1. links \in LinksOf(m) /\ \A r \in DOMAIN links : LinkOf(client[m].session, links[r])
    <2>1. PICK T \in SUBSET Others(m) : client[m].links \in [T -> Bonds]
      BY <1>0 DEF LinksOf
    <2>2. links \in [T -> Bonds]
      BY <2>1
    <2> QED
      BY <1>0, <2>1, <2>2 DEF LinksOf
  <1> HIDE DEF links
  <1>2. c \in Clients(m) /\ c.session = client[m].session /\ c.links = links
    BY <1>0, <1>1 DEF Clients
  <1>3. client' = [client EXCEPT ![m] = c]
    BY DEF links
  <1> HIDE DEF c
  <1>4. \A r \in DOMAIN c.links : LinkOf(c.session, c.links[r])
    BY <1>1, <1>2
  <1> QED
    BY <1>2, <1>3, <1>4, OneClient

LEMMA PongKeeps ==
  ASSUME MemberInv, NEW m \in Members, NEW p \in Others(m), Pong(m, p)
  PROVE  MemberInv'
  <1>0. USE PartsFact
  <1> DEFINE old == client[m].links[p]
             link == [old EXCEPT !.ping = FALSE]
  <1>1. Present(m) /\ p \in Links(m) /\ client[m] \in Clients(m) /\ LinkOf(client[m].session, old)
    BY DEF Pong, Linked, ClientFits
  <1>2. old \in Bonds
    BY <1>1 DEF Clients, LinksOf, Links
  <1>3. link \in Bonds /\ LinkOf(client[m].session, link)
    BY <1>1, <1>2 DEF Bonds, LinkOf
  <1>4. client' = [client EXCEPT ![m] = [client[m] EXCEPT !.links = [@ EXCEPT ![p] = link]]]
    BY DEF Pong
  <1> HIDE DEF link
  <1>5. /\ SameClients /\ DOMAIN client' = Members
        /\ \A q \in Members : Present(q)' =>
              /\ client'[q] \in Clients(q)
              /\ \A r \in DOMAIN client'[q].links : LinkOf(client'[q].session, client'[q].links[r])
    BY <1>1, <1>3, <1>4, OneLink
  <1> QED
    BY <1>5, StepKeeps DEF Pong

\* A hello binds a link only to the session the server named for it.
LEMMA ReceiveKeeps ==
  ASSUME MemberInv, NEW m \in Members, Receive(m)
  PROVE  MemberInv'
  <1>0. USE PartsFact
  <1> DEFINE f == Head(wire[m])
             rest == [wire EXCEPT ![m] = Tail(@)]
  <1>1. Present(m) /\ wire[m] # <<>> /\ client[m] \in Clients(m) /\ client[m].session \in 1..opened
    BY DEF Receive, ClientFits, Clients, Numbers
  <1>2. f \in Heard(m) /\ Tail(wire[m]) \in Seq(Heard(m))
    BY <1>1, HeadTailProperties
  <1>3. DOMAIN rest = Members /\ \A q \in Members : rest[q] \in Seq(Heard(q))
    BY <1>2, ShorterWires
  <1>4. /\ f.from \in Others(m) /\ f.msg \in Greetings /\ f.msg.key = {f.msg.from[1], f.msg.from[2]}
        /\ f.msg.from[1] # client[m].session
    BY <1>1, <1>2 DEF Heard
  <1> DEFINE old == client[m].links[f.from]
             sec == old.security
  <1>5. CASE f.from \in Links(m) /\ Replies(sec, f.msg)
    <2>1. old \in Bonds /\ LinkOf(client[m].session, old)
      BY <1>1, <1>5 DEF Clients, LinksOf, Links, ClientFits
    <2>2. Heeds(sec, f.msg)
      BY <1>5 DEF Replies, Binds
    <2>3. f.msg.from = <<old.session, client[m].session>>
      BY <1>4, <2>1, <2>2, HeedsFact
    <2> DEFINE msgs == [p \in {f.from} |-> Reply(sec, f.msg)]
    <2>4. Forward(m, msgs, rest) /\ sessions' = sessions /\ opened' = opened /\ update' = update
      BY <1>5 DEF Receive
    <2>5. FromSession(m, client[m].session, msgs)
      <3>1. MadeBy(client[m].session, Reply(sec, f.msg))
        <4> HIDE DEF f, old
        <4> QED
          BY <1>1, <1>4, <2>1, ReplyFact
      <3> QED
        BY <1>4, <3>1 DEF FromSession
    <2>6. /\ DOMAIN wire' = Members /\ \A q \in Members : wire'[q] \in Seq(Heard(q))
          /\ lost' \in Nat /\ opened + lost' <= MaxEvents
      <3> HIDE DEF msgs, rest
      <3> QED
        BY <1>1, <1>3, <2>4, <2>5, ForwardFact
    <2>7. /\ SameClients /\ DOMAIN client' = Members
          /\ \A q \in Members : Present(q)' =>
                /\ client'[q] \in Clients(q)
                /\ \A r \in DOMAIN client'[q].links : LinkOf(client'[q].session, client'[q].links[r])
      <3>1. CASE Binds(sec, f.msg)
        <4> DEFINE link == [old EXCEPT !.security = [sec EXCEPT !.remote = f.msg.from]]
        <4>1. f.msg.from \in Pairs
          BY <1>4 DEF Greetings
        <4>2. [sec EXCEPT !.remote = f.msg.from] \in Securities
          BY <2>1, <4>1 DEF Bonds, Securities
        <4>3. link \in Bonds /\ LinkOf(client[m].session, link)
          BY <2>1, <2>3, <4>2 DEF Bonds, Securities, LinkOf
        <4>4. client' = [client EXCEPT ![m] = [client[m] EXCEPT !.links = [@ EXCEPT ![f.from] = link]]]
          BY <1>5, <3>1 DEF Receive, Bound
        <4> HIDE DEF link
        <4> QED
          BY <1>1, <1>5, <4>3, <4>4, OneLink
      <3>2. CASE ~Binds(sec, f.msg)
        <4>1. client' = client
          BY <1>5, <3>2 DEF Receive
        <4> QED
          BY <4>1 DEF SameClients, Present, ClientFits, Links
      <3> QED
        BY <3>1, <3>2
    <2> QED
      BY <2>4, <2>6, <2>7, StepKeeps
  <1>6. CASE ~(f.from \in Links(m) /\ Replies(sec, f.msg))
    <2>1. /\ wire' = rest /\ client' = client /\ lost' = lost
          /\ sessions' = sessions /\ opened' = opened /\ update' = update
      BY <1>6 DEF Receive
    <2>2. /\ SameClients /\ DOMAIN client' = Members
          /\ \A q \in Members : Present(q)' =>
                /\ client'[q] \in Clients(q)
                /\ \A r \in DOMAIN client'[q].links : LinkOf(client'[q].session, client'[q].links[r])
      BY <2>1 DEF SameClients, Present, ClientFits, Links
    <2> HIDE DEF rest
    <2> QED
      BY <1>3, <2>1, <2>2, StepKeeps
  <1> QED
    BY <1>5, <1>6

LEMMA AskKeeps ==
  ASSUME MemberInv, NEW m \in Members, Ask(m)
  PROVE  MemberInv'
  <1> USE EventsAssumption DEF EventsAssumption
  <1>0. USE PartsFact
  <1>1. SameClients /\ DOMAIN client' = Members /\ UNCHANGED <<sessions, opened, client, wire, lost>>
    BY DEF Ask, SameClients, Present
  <1>2. \A q \in Members : Present(q)' =>
            /\ client'[q] \in Clients(q)
            /\ \A p \in DOMAIN client'[q].links : LinkOf(client'[q].session, client'[q].links[p])
    BY <1>1 DEF Present, ClientFits, Links
  <1>3. /\ \A q \in Members : ClientFits(q)' /\ Heard(q) \subseteq Heard(q)'
        /\ \A q \in Members : update'[q] \in {update[q], Nobody} => UpdateFits(q)'
    BY <1>1, <1>2, StaysFit
  <1> DEFINE told == IF sessions[m] # client[m].session THEN Failed
                     ELSE [p \in Others(m) |-> sessions[p]]
  <1>4. DOMAIN update' = Members /\ \A q \in Members : update'[q] = IF q = m THEN told ELSE update[q]
    BY DEF Ask
  <1>5. told \in Peers(m) \cup {Nobody, Failed}
    BY DEF Peers, Others, Numbers
  <1>6. ASSUME told \notin {Nobody, Failed}, NEW p \in Others(m), told[p] # Nobody
        PROVE  /\ told[p] <= opened
               /\ Present(m) => told[p] # client[m].session
    BY <1>6 DEF ClientFits, Others
  <1>7. UpdateFits(m)'
    <2> HIDE DEF told
    <2>1. Others(m)' = Others(m) /\ Peers(m)' = Peers(m)
      BY DEF Others, Peers, Numbers
    <2> QED
      BY <1>1, <1>4, <1>5, <1>6, <2>1 DEF UpdateFits, Present
  <1>8. \A q \in Members : UpdateFits(q)'
    BY <1>3, <1>4, <1>7
  <1>9. \A q \in Members : WireFits(q)'
    BY <1>1, <1>3, WiresFit
  <1>10. ServerFits'
    BY <1>1 DEF ServerFits
  <1> QED
    BY <1>1, <1>3, <1>4, <1>8, <1>9, <1>10 DEF MemberInv

\* A session that begins is one nobody has heard of.
LEMMA EnterKeeps ==
  ASSUME MemberInv, NEW m \in Members, Enter(m)
  PROVE  MemberInv'
  <1> USE EventsAssumption DEF EventsAssumption
  <1>0. USE PartsFact
  <1> DEFINE c == [session |-> opened + 1, links |-> <<>>, phase |-> "Joining"]
  <1>1. /\ opened' = opened + 1 /\ sessions' = [sessions EXCEPT ![m] = opened + 1]
        /\ client' = [client EXCEPT ![m] = c] /\ UNCHANGED <<update, wire, lost>>
        /\ opened + 1 + lost <= MaxEvents
    BY DEF Enter, MayHappen
  <1>2. opened + 1 \in Numbers /\ opened + 1 \notin 1..opened
    BY <1>1 DEF Numbers
  <1>3. <<>> \in LinksOf(m) /\ DOMAIN <<>> = {}
    <2>1. <<>> \in [{} -> Bonds]
      OBVIOUS
    <2> QED
      BY <2>1 DEF LinksOf
  <1>4. c \in Clients(m) /\ c.session = opened + 1 /\ c.links = <<>>
    BY <1>2, <1>3 DEF Clients
  <1> HIDE DEF c
  <1>5. \A q \in Members : client'[q] = IF q = m THEN c ELSE client[q]
    BY <1>1
  <1>6. \A q \in Members : sessions'[q] = IF q = m THEN opened + 1 ELSE sessions[q]
    BY <1>1
  <1>7. ASSUME NEW q \in Members, Present(q)
        PROVE  client[q].session \in 1..opened
    BY <1>7 DEF ClientFits, Clients, Numbers
  <1>8. ASSUME NEW q \in Members, Present(q)'
        PROVE  /\ client'[q] \in Clients(q) /\ client'[q].session <= opened'
               /\ \A p \in DOMAIN client'[q].links : LinkOf(client'[q].session, client'[q].links[p])
    <2>1. CASE q = m
      BY <1>1, <1>3, <1>4, <1>5, <2>1
    <2>2. CASE q # m
      <3>1. Present(q) /\ client'[q] = client[q]
        BY <1>5, <1>8, <2>2 DEF Present
      <3> QED
        BY <1>1, <1>7, <3>1 DEF ClientFits, Links
    <2> QED
      BY <2>1, <2>2
  <1>9. ASSUME NEW q \in Members, Present(q)', NEW p \in Others(q)
        PROVE  /\ sessions'[p] # Nobody => sessions'[p] # client'[q].session
               /\ Present(p)' => client'[p].session # client'[q].session
    <2>0. p \in Members /\ p # q
      BY DEF Others
    <2>1. CASE q = m
      <3>1. sessions'[p] = sessions[p] /\ client'[p] = client[p] /\ client'[q].session = opened + 1
        BY <1>4, <1>5, <1>6, <2>0, <2>1
      <3>2. sessions[p] \in 1..opened \cup {Nobody}
        BY <2>0
      <3> QED
        BY <1>2, <1>7, <2>0, <3>1, <3>2 DEF Present
    <2>2. CASE q # m
      <3>1. Present(q) /\ client'[q] = client[q] /\ client[q].session \in 1..opened
        BY <1>5, <1>7, <1>9, <2>2 DEF Present
      <3>2. CASE p = m
        BY <1>2, <1>4, <1>5, <1>6, <2>0, <3>1, <3>2
      <3>3. CASE p # m
        BY <1>5, <1>6, <2>0, <3>1, <3>3 DEF ClientFits, Present
      <3> QED
        BY <3>2, <3>3
    <2> QED
      BY <2>1, <2>2
  <1>10. ASSUME NEW q \in Members
         PROVE  ClientFits(q)'
    BY <1>8, <1>9 DEF ClientFits, Links, Clients, LinksOf, LinkOf, Others
  <1>11. ASSUME NEW q \in Members
         PROVE  UpdateFits(q)'
    <2>1. /\ update'[q] = update[q] /\ update[q] \in Peers(q) \cup {Nobody, Failed}
          /\ Peers(q)' = Peers(q) /\ Others(q)' = Others(q)
      BY <1>1 DEF UpdateFits, Peers, Others, Numbers
    <2>2. ASSUME update[q] \notin {Nobody, Failed}, NEW p \in Others(q), update[q][p] # Nobody
          PROVE  /\ update[q][p] <= opened'
                 /\ Present(q)' => update[q][p] # client'[q].session
      <3>1. update[q][p] \in Numbers /\ update[q][p] <= opened
        BY <2>1, <2>2 DEF UpdateFits, Peers
      <3>2. CASE q = m
        BY <1>1, <1>4, <1>5, <3>1, <3>2 DEF Numbers
      <3>3. CASE q # m
        <4>1. client'[q] = client[q]
          BY <1>5, <3>3
        <4> QED
          BY <1>1, <2>2, <3>1, <4>1 DEF Numbers, UpdateFits, Present
      <3> QED
        BY <3>2, <3>3
    <2> QED
      BY <2>1, <2>2 DEF UpdateFits
  <1>12. ASSUME NEW q \in Members
         PROVE  Heard(q) \subseteq Heard(q)'
    <2>1. SUFFICES ASSUME NEW f \in Heard(q)
                   PROVE  f \in Heard(q)'
      OBVIOUS
    <2>2. /\ f \in [from: Others(q), msg: Greetings] /\ f.msg.key = {f.msg.from[1], f.msg.from[2]}
          /\ f.msg.from[1] <= opened /\ f.msg.from[1] \in Numbers
          /\ Present(q) => f.msg.from[1] # client[q].session
      BY DEF Heard, Greetings, Pairs
    <2>3. f.msg.from[1] <= opened' /\ [from: Others(q), msg: Greetings]' = [from: Others(q), msg: Greetings]
      BY <1>1, <2>2 DEF Numbers, Others, Greetings, Pairs
    <2>4. Present(q)' => f.msg.from[1] # client'[q].session
      <3>1. CASE q = m
        BY <1>4, <1>5, <2>2, <3>1 DEF Numbers
      <3>2. CASE q # m
        BY <1>5, <2>2, <3>2 DEF Present
      <3> QED
        BY <3>1, <3>2
    <2> QED
      BY <2>2, <2>3, <2>4 DEF Heard
  <1>13. \A q \in Members : WireFits(q)'
    BY <1>1, <1>12, WiresFit
  <1>14. ServerFits'
    <2>1. sessions' \in [Members -> 1..opened' \cup {Nobody}]
      BY <1>1, <1>2
    <2> QED
      BY <1>1, <2>1 DEF ServerFits
  <1> QED
    BY <1>1, <1>10, <1>11, <1>13, <1>14 DEF MemberInv

-----------------------------------------------------------------------------
(* Theorems *)

LEMMA MemberNextKeeps ==
  ASSUME MemberInv, [MemberNext]_memberVars
  PROVE  MemberInv'
  <1>1. CASE UNCHANGED memberVars
    <2>1. SameClients /\ DOMAIN client' = Members
      BY <1>1, PartsFact DEF memberVars, SameClients, Present
    <2>2. \A q \in Members : Present(q)' =>
            /\ client'[q] \in Clients(q)
            /\ \A p \in DOMAIN client'[q].links : LinkOf(client'[q].session, client'[q].links[p])
      BY <1>1, PartsFact DEF memberVars, Present, ClientFits, Links
    <2> QED
      BY <1>1, <2>1, <2>2, PartsFact, StepKeeps DEF memberVars
  <1>2. ASSUME NEW m \in Members,
               \/ Enter(m) \/ Quit(m) \/ Expire(m) \/ Ask(m) \/ Update(m) \/ Refused(m) \/ Tick(m)
               \/ Receive(m) \/ \E p \in Others(m) : Pong(m, p)
        PROVE  MemberInv'
    <2>1. CASE Quit(m) \/ Refused(m)
      BY <2>1, DepartKeeps DEF Quit, Refused
    <2>2. CASE Enter(m) \/ Expire(m) \/ Ask(m)
      BY <2>2, EnterKeeps, ExpireKeeps, AskKeeps
    <2>3. CASE Update(m) \/ Tick(m) \/ Receive(m)
      BY <2>3, UpdateKeeps, TickKeeps, ReceiveKeeps
    <2>4. CASE \E p \in Others(m) : Pong(m, p)
      BY <2>4, PongKeeps
    <2> QED
      BY <1>2, <2>1, <2>2, <2>3, <2>4
  <1> QED
    BY <1>1, <1>2 DEF MemberNext

\* The inductive invariant of a space: sessions are never taken for one another, and a
\* hello under way to a member was made by another session than its own.
THEOREM MemberInvHolds == MemberSpec => []MemberInv
  <1>1. MemberInit => MemberInv
    BY MemberInitFact
  <1>2. MemberInv /\ [MemberNext]_memberVars => MemberInv'
    BY MemberNextKeeps
  <1> QED
    BY <1>1, <1>2, PTL DEF MemberSpec

\* A link of a permanent space is bound to the session the server named for it and to no
\* other, for any number of members and however often they leave, come again and are late.
THEOREM MembersHold == MemberSpec => []MembersAreSound
  <1>1. MemberInv => MembersAreSound
    BY MemberInvImplies
  <1> QED
    BY <1>1, MemberInvHolds, PTL

=============================================================================
