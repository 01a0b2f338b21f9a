------------------------- MODULE TurnRelay_proofs -------------------------
(***************************************************************************)
(* Proofs about TurnRelay, for any number of sessions, clients and ports:   *)
(* what client and server each know of an allocation, although datagrams    *)
(* between them are lost, late or sent again.                               *)
(***************************************************************************)
EXTENDS TurnRelay, TLAPS

States == {"new", "asking", "failed", "ready", "permit", "linked", "gone"}
Clients == [st : States, owner : Session \cup {None}, tries : Nat, cred : BOOLEAN,
            relay : 0..MaxPort, peer : 0..MaxPort, left : 0..Interval]

TurnType ==
    /\ cl \in [Sockets -> Clients]
    /\ client \in [Session -> 0..MaxSockets]
    /\ alloc \in [Sockets -> Allocation \cup {None}]
    /\ tasks \subseteq Sockets \X Port /\ failed \subseteq Sockets \X Port
    /\ losses \in Nat /\ missed \in BOOLEAN

\* The client has named its peer, and will never name another.
Named(s) == s \in Sockets /\ cl[s].st \in {"permit", "linked", "gone"} /\ cl[s].peer # 0

\* What a datagram says is true as long as it is under way.
Truthful(m) ==
    /\ m.m = "allocated" => m.s \in Sockets /\ Live(m.s) /\ alloc[m.s].port = m.p
    /\ m.m = "signed" => m.s \in Sockets /\ (cl[m.s].relay # 0 => Live(m.s))
    /\ m.m \in {"permission", "send"} => Named(m.s) /\ cl[m.s].peer = m.p
    /\ m.m = "relayed" =>
          LET from == m.p[1]
          IN  Named(from) /\ cl[from].relay = m.p[2] /\ cl[from].peer = m.s
    /\ m.m = "data" =>
          LET from == m.p[1]
          IN  /\ Named(m.s) /\ cl[m.s].peer = m.p[2]
              /\ Named(from) /\ cl[from].relay = m.p[2] /\ cl[from].peer = cl[m.s].relay

\* A client has a relay exactly when its loops run, and nothing to renew before; and
\* a peer, when it asks for the permission.
ClientInv(s) ==
    /\ LoopsRun(s) <=> cl[s].relay # 0
    /\ cl[s].st \in {"permit", "linked"} => cl[s].peer # 0
    /\ ~LoopsRun(s) => cl[s].left = 0

\* A live allocation: its task reads the port, unless its socket failed; no other has it,
\* the client that knows a relay knows this one, and it permits nobody but the peer its
\* client has named.
AllocInv(s) == Live(s) =>
    /\ <<s, alloc[s].port>> \in tasks \cup failed
    /\ \A c \in Sockets \ {s} : Live(c) => alloc[c].port # alloc[s].port
    /\ LoopsRun(s) => alloc[s].port = cl[s].relay
    /\ \A p \in alloc[s].perms : Named(s) /\ cl[s].peer = p

\* Between two ticks an allocation has been renewed, or will be by what is under way.
RefreshInv(s) == ~missed /\ LoopsRun(s) =>
    /\ Live(s)
    /\ cl[s].left # 0 => alloc[s].left = Lifetime \/ Msg("refresh", s, 0) \in net

\* One entry of got: who reads named the relay it comes from, and was named by it.
Consented(g) ==
    /\ Named(g[1]) /\ Named(g[2])
    /\ cl[g[1]].peer = g[3] /\ cl[g[2]].relay = g[3] /\ cl[g[2]].peer = cl[g[1]].relay

TurnInv ==
    /\ TurnType
    /\ \A s \in Sockets : ClientInv(s) /\ AllocInv(s) /\ RefreshInv(s)
    /\ \A m \in net : Truthful(m)
    /\ \A g \in got : Consented(g)

-----------------------------------------------------------------------------
(* Types *)

LEMMA Numerals ==
  /\ MaxSockets \in Nat /\ MaxPort \in Nat
  /\ 0 \notin Sockets /\ 0 \notin Port /\ Port \subseteq 0..MaxPort /\ Sockets \subseteq 0..MaxSockets
  /\ Lifetime = 2 /\ Interval = 1
  BY BoundsAssumption DEF BoundsAssumption, Sockets, Port, Lifetime, Interval

LEMMA LiveFact ==
  ASSUME TurnType, NEW s \in Sockets, Live(s)
  PROVE  /\ alloc[s] \in Allocation /\ alloc[s].port \in Port /\ alloc[s].perms \subseteq Port
         /\ alloc[s].left \in 1..2
  BY Numerals DEF TurnType, Live, Allocation

\* One client changes.
LEMMA OneType ==
  ASSUME TurnType, NEW s \in Sockets, NEW c \in Clients, cl' = [cl EXCEPT ![s] = c]
  PROVE  /\ cl' \in [Sockets -> Clients] /\ cl'[s] = c
         /\ \A x \in Sockets \ {s} : cl'[x] = cl[x]
  BY DEF TurnType

\* The fields of a client that changes some of them.
LEMMA StFact ==
  ASSUME NEW c \in Clients, NEW st \in States
  PROVE  \E d \in Clients :
            /\ d = [c EXCEPT !.st = st] /\ d.st = st
            /\ d.relay = c.relay /\ d.peer = c.peer /\ d.left = c.left
  <1> DEFINE d == [c EXCEPT !.st = st]
  <1>1. d \in Clients /\ d.st = st
        /\ d.relay = c.relay /\ d.peer = c.peer /\ d.left = c.left
    BY DEF Clients, States
  <1>2. d = [c EXCEPT !.st = st]
    OBVIOUS
  <1> HIDE DEF d
  <1> QED
    BY <1>1, <1>2

LEMMA TriesFact ==
  ASSUME NEW c \in Clients
  PROVE  \E d \in Clients :
            /\ d = [c EXCEPT !.tries = @ + 1] /\ d.st = c.st
            /\ d.relay = c.relay /\ d.peer = c.peer /\ d.left = c.left
  <1> DEFINE d == [c EXCEPT !.tries = @ + 1]
  <1>1. d \in Clients /\ d.st = c.st
        /\ d.relay = c.relay /\ d.peer = c.peer /\ d.left = c.left
    BY DEF Clients, States
  <1>2. d = [c EXCEPT !.tries = @ + 1]
    OBVIOUS
  <1> HIDE DEF d
  <1> QED
    BY <1>1, <1>2

LEMMA CredFact ==
  ASSUME NEW c \in Clients
  PROVE  \E d \in Clients :
            /\ d = [c EXCEPT !.cred = TRUE, !.tries = @ + 1] /\ d.st = c.st
            /\ d.relay = c.relay /\ d.peer = c.peer /\ d.left = c.left
  <1>0. PICK n \in Nat : n = c.tries + 1
    BY DEF Clients
  <1> DEFINE d == [c EXCEPT !.cred = TRUE, !.tries = n]
  <1>1. d \in Clients /\ d.st = c.st
        /\ d.relay = c.relay /\ d.peer = c.peer /\ d.left = c.left
    BY DEF Clients, States
  <1>2. d = [c EXCEPT !.cred = TRUE, !.tries = @ + 1]
    BY <1>0
  <1> HIDE DEF d
  <1> QED
    BY <1>1, <1>2

LEMMA PeerFact ==
  ASSUME NEW c \in Clients, NEW p \in 0..MaxPort
  PROVE  \E d \in Clients :
            /\ d = [c EXCEPT !.st = "permit", !.peer = p] /\ d.st = "permit"
            /\ d.relay = c.relay /\ d.peer = p /\ d.left = c.left
  <1> DEFINE d == [c EXCEPT !.st = "permit", !.peer = p]
  <1>1. d \in Clients /\ d.st = "permit"
        /\ d.relay = c.relay /\ d.peer = p /\ d.left = c.left
    BY DEF Clients, States
  <1>2. d = [c EXCEPT !.st = "permit", !.peer = p]
    OBVIOUS
  <1> HIDE DEF d
  <1> QED
    BY <1>1, <1>2

LEMMA ReadyFact ==
  ASSUME NEW c \in Clients, NEW p \in 0..MaxPort
  PROVE  \E d \in Clients :
            /\ d = [c EXCEPT !.st = "ready", !.relay = p] /\ d.st = "ready"
            /\ d.relay = p /\ d.peer = c.peer /\ d.left = c.left
  <1> DEFINE d == [c EXCEPT !.st = "ready", !.relay = p]
  <1>1. d \in Clients /\ d.st = "ready"
        /\ d.relay = p /\ d.peer = c.peer /\ d.left = c.left
    BY DEF Clients, States
  <1>2. d = [c EXCEPT !.st = "ready", !.relay = p]
    OBVIOUS
  <1> HIDE DEF d
  <1> QED
    BY <1>1, <1>2

LEMMA LeftFact ==
  ASSUME NEW c \in Clients, NEW n \in 0..Interval
  PROVE  \E d \in Clients :
            /\ d = [c EXCEPT !.left = n] /\ d.st = c.st
            /\ d.relay = c.relay /\ d.peer = c.peer /\ d.left = n
  <1> DEFINE d == [c EXCEPT !.left = n]
  <1>1. d \in Clients /\ d.st = c.st
        /\ d.relay = c.relay /\ d.peer = c.peer /\ d.left = n
    BY DEF Clients, States
  <1>2. d = [c EXCEPT !.left = n]
    OBVIOUS
  <1> HIDE DEF d
  <1> QED
    BY <1>1, <1>2

LEMMA FreshFact ==
  ASSUME NEW e \in Session
  PROVE  LET d == [NoClient EXCEPT !.st = "asking", !.owner = e, !.tries = 1]
         IN  d \in Clients /\ d.st = "asking" /\ d.relay = 0 /\ d.peer = 0 /\ d.left = 0
  <1>1. NoClient \in Clients
    BY Numerals DEF NoClient, Clients, States
  <1>2. PICK c \in Clients : c = NoClient /\ c.relay = 0 /\ c.peer = 0 /\ c.left = 0
    BY <1>1 DEF NoClient
  <1>3. LET d == [c EXCEPT !.st = "asking", !.owner = e, !.tries = 1]
        IN  d \in Clients /\ d.st = "asking" /\ d.relay = 0 /\ d.peer = 0 /\ d.left = 0
    BY <1>2 DEF Clients, States
  <1> QED
    BY <1>2, <1>3

-----------------------------------------------------------------------------
(* What a step may do to the clients without any effect on what was true: as far as *)
(* the rest knows them they are as before. *)

Steady == \A s \in Sockets :
    /\ LoopsRun(s)' <=> LoopsRun(s)
    /\ cl'[s].relay = cl[s].relay
    /\ Named(s) => Named(s)' /\ cl'[s].peer = cl[s].peer
    /\ cl'[s].st \in {"permit", "linked"} => cl'[s].peer # 0

LEMMA TruthStays ==
  ASSUME TurnInv, Steady, NEW m \in net,
         \A s \in Sockets : Live(s) => Live(s)' /\ alloc'[s].port = alloc[s].port
  PROVE  Truthful(m)'
  <1>1. Truthful(m)
    BY DEF TurnInv
  <1>2. \A s : Named(s) => s \in Sockets /\ Named(s)' /\ cl'[s].peer = cl[s].peer /\ cl'[s].relay = cl[s].relay
    BY DEF Steady, Named
  <1>3. m.m = "allocated" => m.s \in Sockets /\ Live(m.s)' /\ alloc'[m.s].port = m.p
    BY <1>1 DEF Truthful
  <1>4. m.m = "signed" => m.s \in Sockets /\ (cl'[m.s].relay # 0 => Live(m.s)')
    BY <1>1 DEF Truthful, Steady
  <1>5. m.m \in {"permission", "send"} => Named(m.s)' /\ cl'[m.s].peer = m.p
    BY <1>1, <1>2 DEF Truthful
  <1>6. m.m = "relayed" => Named(m.p[1])' /\ cl'[m.p[1]].relay = m.p[2] /\ cl'[m.p[1]].peer = m.s
    BY <1>1, <1>2 DEF Truthful
  <1>7. m.m = "data" => /\ Named(m.s)' /\ cl'[m.s].peer = m.p[2]
                        /\ Named(m.p[1])' /\ cl'[m.p[1]].relay = m.p[2]
                        /\ cl'[m.p[1]].peer = cl'[m.s].relay
    BY <1>1, <1>2 DEF Truthful
  <1> QED
    BY <1>3, <1>4, <1>5, <1>6, <1>7 DEF Truthful

LEMMA ConsentStays ==
  ASSUME TurnInv, Steady, NEW g \in got
  PROVE  Consented(g)'
  <1>1. Consented(g)
    BY DEF TurnInv
  <1>2. \A s : Named(s) => s \in Sockets /\ Named(s)' /\ cl'[s].peer = cl[s].peer /\ cl'[s].relay = cl[s].relay
    BY DEF Steady, Named
  <1> QED
    BY <1>1, <1>2 DEF Consented

\* No allocation becomes live or changes its port; what it permits anew is permitted.
LEMMA Keeps ==
  ASSUME TurnInv, TurnType', Steady,
         \A s \in Sockets : LoopsRun(s) \/ cl'[s].left = cl[s].left,
         \A s \in Sockets : Live(s)' =>
            /\ Live(s) /\ alloc'[s].port = alloc[s].port /\ <<s, alloc[s].port>> \in tasks' \cup failed'
            /\ \A p \in alloc'[s].perms : p \in alloc[s].perms \/ (Named(s) /\ cl[s].peer = p),
         \A m \in net' : Truthful(m)',
         \A g \in got' : g \in got \/ Consented(g)',
         \A s \in Sockets : RefreshInv(s)'
  PROVE  TurnInv'
  <1>1. \A g \in got' : Consented(g)'
    BY ConsentStays
  <1>2. ASSUME NEW s \in Sockets PROVE ClientInv(s)'
    BY DEF TurnInv, ClientInv, Steady
  <1>3. ASSUME NEW s \in Sockets, Live(s)' PROVE AllocInv(s)'
    <2>1. AllocInv(s) /\ Live(s)
      BY <1>3 DEF TurnInv
    <2>2. \A c \in Sockets \ {s} : Live(c)' => alloc'[c].port # alloc'[s].port
      BY <1>3, <2>1 DEF AllocInv
    <2>3. LoopsRun(s)' => alloc'[s].port = cl'[s].relay
      BY <1>3, <2>1 DEF AllocInv, Steady
    <2>4. \A p \in alloc'[s].perms : Named(s)' /\ cl'[s].peer = p
      BY <1>3, <2>1 DEF AllocInv, Steady
    <2> QED
      BY <1>3, <2>2, <2>3, <2>4 DEF AllocInv
  <1>4. \A s \in Sockets : AllocInv(s)'
    BY <1>3 DEF AllocInv
  <1> QED
    BY <1>1, <1>2, <1>4 DEF TurnInv

\* What is renewed stays so; what is on its way to be renewed is still, or is renewed.
LEMMA RefreshStays ==
  ASSUME TurnInv,
         \A s \in Sockets : LoopsRun(s)' => LoopsRun(s) /\ cl'[s].left = cl[s].left,
         \A s \in Sockets : Live(s) => Live(s)' /\ alloc'[s].left \in {alloc[s].left, Lifetime},
         ~missed' => /\ ~missed
                     /\ \A s \in Sockets : Live(s) /\ Msg("refresh", s, 0) \in net
                            => Msg("refresh", s, 0) \in net' \/ alloc'[s].left = Lifetime
  PROVE  \A s \in Sockets : RefreshInv(s)'
  <1> SUFFICES ASSUME NEW s \in Sockets, ~missed', LoopsRun(s)'
               PROVE  /\ Live(s)'
                      /\ cl'[s].left # 0 => alloc'[s].left = Lifetime \/ Msg("refresh", s, 0) \in net'
    BY DEF RefreshInv, Msg
  <1>1. RefreshInv(s) /\ LoopsRun(s) /\ ~missed /\ cl'[s].left = cl[s].left
    BY DEF TurnInv
  <1> QED
    BY <1>1 DEF RefreshInv

LEMMA OneClient ==
  ASSUME TurnInv, NEW s \in Sockets, NEW c \in Clients, cl' = [cl EXCEPT ![s] = c],
         UNCHANGED <<server, losses, missed>>, client' \in [Session -> 0..MaxSockets],
         c.relay = cl[s].relay, c.st \in {"ready", "permit", "linked", "gone"} <=> LoopsRun(s),
         cl[s].st \in {"permit", "linked", "gone"} /\ cl[s].peer # 0
            => c.st \in {"permit", "linked", "gone"} /\ c.peer = cl[s].peer,
         c.st \in {"permit", "linked"} => c.peer # 0,
         c.left = cl[s].left \/ (LoopsRun(s) /\ Msg("refresh", s, 0) \in net'),
         \A x \in Sockets : Msg("refresh", x, 0) \in net => Msg("refresh", x, 0) \in net',
         \A m \in net' : m \in net \/ Truthful(m)',
         \A g \in got' : g \in got \/ Consented(g)'
  PROVE  TurnInv'
  <1>1. TurnType
    BY DEF TurnInv
  <1>2. /\ cl' \in [Sockets -> Clients] /\ cl'[s] = c
        /\ \A x \in Sockets \ {s} : cl'[x] = cl[x]
    BY <1>1, OneType
  <1>3. TurnType'
    BY <1>1, <1>2 DEF TurnType, server
  <1>4. Steady
    <2> SUFFICES ASSUME NEW x \in Sockets
                 PROVE  /\ LoopsRun(x)' <=> LoopsRun(x)
                        /\ cl'[x].relay = cl[x].relay
                        /\ Named(x) => Named(x)' /\ cl'[x].peer = cl[x].peer
                        /\ cl'[x].st \in {"permit", "linked"} => cl'[x].peer # 0
      BY DEF Steady
    <2>1. ClientInv(x)
      BY DEF TurnInv
    <2> QED
      BY <1>2, <2>1 DEF LoopsRun, Named, ClientInv
  <1>5. \A x \in Sockets : Live(x)' <=> Live(x)
    BY DEF Live, server
  <1>6. \A m \in net' : Truthful(m)'
    BY <1>4, <1>5, TruthStays DEF server
  <1>7. ASSUME NEW x \in Sockets PROVE RefreshInv(x)'
    <2>1. RefreshInv(x) /\ alloc' = alloc /\ missed' = missed
      BY DEF TurnInv, server
    <2>2. cl'[x].left = cl[x].left \/ Msg("refresh", x, 0) \in net'
      BY <1>2
    <2>3. LoopsRun(x)' <=> LoopsRun(x)
      BY <1>4 DEF Steady
    <2> QED
      BY <1>5, <2>1, <2>2, <2>3 DEF RefreshInv, Msg
  <1>8. \A x \in Sockets : LoopsRun(x) \/ cl'[x].left = cl[x].left
    BY <1>2
  <1>9. ASSUME NEW x \in Sockets, Live(x)'
        PROVE  /\ Live(x) /\ alloc'[x].port = alloc[x].port /\ <<x, alloc[x].port>> \in tasks' \cup failed'
               /\ alloc'[x].perms = alloc[x].perms
    BY <1>5, <1>9 DEF server, TurnInv, AllocInv
  <1> QED
    BY <1>3, <1>4, <1>6, <1>7, <1>8, <1>9, Keeps

\* A step of the server or of the network that leaves the clients alone.
LEMMA Serving ==
  ASSUME TurnInv, TurnType', UNCHANGED cl,
         \A s \in Sockets : Live(s)' <=> Live(s),
         \A s \in Sockets : Live(s) =>
            /\ alloc'[s].port = alloc[s].port /\ <<s, alloc[s].port>> \in tasks' \cup failed'
            /\ \A p \in alloc'[s].perms : p \in alloc[s].perms \/ (Named(s) /\ cl[s].peer = p)
            /\ alloc'[s].left \in {alloc[s].left, Lifetime},
         ~missed' => /\ ~missed
                     /\ \A s \in Sockets : Live(s) /\ Msg("refresh", s, 0) \in net
                            => Msg("refresh", s, 0) \in net' \/ alloc'[s].left = Lifetime,
         \A m \in net' : m \in net \/ Truthful(m)',
         got' = got
  PROVE  TurnInv'
  <1>1. Steady
    BY DEF Steady, Named, LoopsRun, TurnInv, ClientInv
  <1>2. \A m \in net' : Truthful(m)'
    BY <1>1, TruthStays
  <1>3. \A s \in Sockets : RefreshInv(s)'
    <2>1. \A s \in Sockets : LoopsRun(s)' => LoopsRun(s) /\ cl'[s].left = cl[s].left
      BY DEF LoopsRun
    <2> QED
      BY <2>1, RefreshStays
  <1> QED
    BY <1>1, <1>2, <1>3, Keeps

LEMMA PlainFact ==
  ASSUME NEW k \in {"allocate", "challenge", "refused", "permitted", "refresh"}, NEW s, NEW p
  PROVE  Truthful(Msg(k, s, p)) /\ Truthful(Msg(k, s, p))'
  BY DEF Truthful, Msg

-----------------------------------------------------------------------------
(* The client *)

LEMMA OpensKeeps ==
  ASSUME TurnInv, NEW e \in Session, Opens(e)
  PROVE  TurnInv'
  <1>1. PICK s \in Sockets :
           /\ cl[s].st = "new"
           /\ cl' = [cl EXCEPT ![s] = [NoClient EXCEPT !.st = "asking", !.owner = e, !.tries = 1]]
           /\ client' = [client EXCEPT ![e] = s]
           /\ net' = net \cup {Msg("allocate", s, 0)}
    BY DEF Opens
  <1>2. PICK c \in Clients :
           /\ c = [NoClient EXCEPT !.st = "asking", !.owner = e, !.tries = 1]
           /\ c.st = "asking" /\ c.relay = 0 /\ c.peer = 0 /\ c.left = 0
    BY FreshFact
  <1>3. ClientInv(s) /\ TurnType
    BY DEF TurnInv
  <1>4. cl[s].relay = 0 /\ cl[s].left = 0 /\ ~LoopsRun(s)
    BY <1>1, <1>3 DEF ClientInv, LoopsRun
  <1>5. client' \in [Session -> 0..MaxSockets]
    BY <1>1, <1>3, Numerals DEF TurnType
  <1>6. UNCHANGED <<server, losses, missed>> /\ got' = got
    BY DEF Opens, history
  <1>7. cl' = [cl EXCEPT ![s] = c]
    BY <1>1, <1>2
  <1>8. \A m \in net' : m \in net \/ Truthful(m)'
    BY <1>1, PlainFact
  <1>9. /\ c.relay = cl[s].relay /\ c.left = cl[s].left
        /\ c.st \in {"ready", "permit", "linked", "gone"} <=> LoopsRun(s)
        /\ ~(cl[s].st \in {"permit", "linked", "gone"} /\ cl[s].peer # 0)
        /\ c.st \notin {"permit", "linked"}
    BY <1>1, <1>2, <1>4
  <1> QED
    BY <1>1, <1>5, <1>6, <1>7, <1>8, <1>9, OneClient

LEMMA ChallengedKeeps ==
  ASSUME TurnInv, NEW s \in Sockets, Challenged(s)
  PROVE  TurnInv'
  <1>1. ClientInv(s) /\ TurnType /\ client \in [Session -> 0..MaxSockets]
    BY DEF TurnInv, TurnType
  <1>2. UNCHANGED <<server, losses, missed, client>> /\ got' = got
    BY DEF Challenged, history
  <1>3. \A x : Msg("refresh", x, 0) \in net => Msg("refresh", x, 0) \in net'
    BY DEF Challenged, Msg
  <1>4. CASE cl[s].st = "asking" /\ cl[s].tries < Attempts
    <2>1. PICK c \in Clients :
             /\ c = [cl[s] EXCEPT !.cred = TRUE, !.tries = @ + 1] /\ c.st = cl[s].st
             /\ c.relay = cl[s].relay /\ c.peer = cl[s].peer /\ c.left = cl[s].left
      <3>1. cl[s] \in Clients
        BY <1>1 DEF TurnType
      <3> QED
        BY <3>1, CredFact
    <2>2. c.st = "asking" /\ c.relay = cl[s].relay /\ c.peer = cl[s].peer /\ c.left = cl[s].left
      BY <1>4, <2>1
    <2>3. cl' = [cl EXCEPT ![s] = c]
      BY <1>1, <1>4, <2>1 DEF Challenged, TurnType
    <2>4. cl'[s] = c /\ c.relay = 0 /\ ~LoopsRun(s)
      BY <1>1, <1>4, <2>2, <2>3 DEF TurnType, ClientInv, LoopsRun
    <2>5. Truthful(Msg("signed", s, 0))'
      BY <2>4 DEF Truthful, Msg
    <2>6. \A m \in net' : m \in net \/ m = Msg("signed", s, 0)
      BY <1>4 DEF Challenged
    <2> QED
      BY <1>1, <1>2, <1>3, <1>4, <2>2, <2>3, <2>4, <2>5, <2>6, OneClient
  <1>5. CASE ~(cl[s].st = "asking" /\ cl[s].tries < Attempts)
    <2>1. UNCHANGED cl /\ net' \subseteq net
      BY <1>5 DEF Challenged
    <2>2. TurnType'
      BY <1>1, <1>2, <2>1 DEF TurnType, server
    <2> QED
      BY <1>2, <1>3, <2>1, <2>2, Serving DEF server, Live, TurnInv, AllocInv
  <1> QED
    BY <1>4, <1>5

LEMMA StraysKeeps ==
  ASSUME TurnInv, NEW s \in Sockets, Strays(s)
  PROVE  TurnInv'
  <1>1. ClientInv(s) /\ TurnType /\ client \in [Session -> 0..MaxSockets] /\ cl[s] \in Clients
    BY DEF TurnInv, TurnType
  <1>2. UNCHANGED <<server, losses, missed, client>> /\ got' = got
    BY DEF Strays, history
  <1>3. PICK c \in Clients :
           /\ c = [cl[s] EXCEPT !.tries = @ + 1] /\ c.st = cl[s].st
           /\ c.relay = cl[s].relay /\ c.peer = cl[s].peer /\ c.left = cl[s].left
    BY <1>1, TriesFact
  <1>4. cl[s].st = "asking" /\ cl' = [cl EXCEPT ![s] = c]
    BY <1>1, <1>3 DEF Strays, TurnType
  <1>5. cl'[s].relay = 0 /\ ~LoopsRun(s)
    BY <1>1, <1>3, <1>4 DEF TurnType, ClientInv, LoopsRun
  <1>6. Truthful(Msg("signed", s, 0))'
    BY <1>5 DEF Truthful, Msg
  <1>7. \A m \in net' : m \in net \/ Truthful(m)'
    BY <1>6, PlainFact DEF Strays
  <1>8. \A x : Msg("refresh", x, 0) \in net => Msg("refresh", x, 0) \in net'
    BY DEF Strays
  <1>9. c.st \in {"ready", "permit", "linked", "gone"} <=> LoopsRun(s)
    BY <1>3 DEF LoopsRun
  <1> QED
    BY <1>1, <1>2, <1>3, <1>4, <1>7, <1>8, <1>9, OneClient

LEMMA AllocatedKeeps ==
  ASSUME TurnInv, NEW s \in Sockets, Allocated(s)
  PROVE  TurnInv'
  <1>1. PICK p \in Port :
           /\ Msg("allocated", s, p) \in net
           /\ net' = net \ {Msg("allocated", s, p)}
           /\ cl' = IF cl[s].st = "asking" THEN [cl EXCEPT ![s].st = "ready", ![s].relay = p] ELSE cl
           /\ UNCHANGED <<client, server, history>>
    BY DEF Allocated
  <1>2. TurnType /\ cl[s] \in Clients /\ ClientInv(s) /\ UNCHANGED <<alloc, tasks, failed, client, got, losses, missed>>
    BY <1>1 DEF TurnInv, TurnType, server, history
  <1>3. Truthful(Msg("allocated", s, p)) /\ Msg("allocated", s, p).m = "allocated"
        /\ Msg("allocated", s, p).s = s /\ Msg("allocated", s, p).p = p
    BY <1>1 DEF TurnInv, Msg
  <1>4. Live(s) /\ alloc[s].port = p
    BY <1>3 DEF Truthful
  <1>5. \A x : Msg("refresh", x, 0) \in net => Msg("refresh", x, 0) \in net'
    BY <1>1 DEF Msg
  <1>6. CASE cl[s].st # "asking"
    <2>1. UNCHANGED cl /\ net' \subseteq net
      BY <1>1, <1>6
    <2>2. TurnType'
      BY <1>2, <2>1 DEF TurnType
    <2> QED
      BY <1>2, <1>5, <2>1, <2>2, Serving DEF Live, TurnInv, AllocInv
  <1>7. CASE cl[s].st = "asking"
    <2>1. PICK c \in Clients :
             /\ c = [cl[s] EXCEPT !.st = "ready", !.relay = p]
             /\ c.st = "ready" /\ c.relay = p /\ c.peer = cl[s].peer /\ c.left = cl[s].left
      <3>1. p \in 0..MaxPort
        BY Numerals
      <3>2. PICK b \in Clients : b = cl[s]
        BY <1>2
      <3> QED
        <4>1. PICK q \in 0..MaxPort : q = p
          BY <3>1
        <4>2. \E d \in Clients :
                 /\ d = [b EXCEPT !.st = "ready", !.relay = q] /\ d.st = "ready"
                 /\ d.relay = q /\ d.peer = b.peer /\ d.left = b.left
          BY ReadyFact
        <4> QED
          BY <3>2, <4>1, <4>2
    <2>2. cl' = [cl EXCEPT ![s] = c]
      BY <1>1, <1>2, <1>7, <2>1 DEF TurnType
    <2>3. /\ cl' \in [Sockets -> Clients] /\ cl'[s] = c
          /\ \A x \in Sockets \ {s} : cl'[x] = cl[x]
      BY <1>2, <2>2, OneType
    <2>4. ~LoopsRun(s) /\ LoopsRun(s)' /\ ~Named(s) /\ cl[s].relay = 0 /\ c.left = 0 /\ p # 0
      BY <1>2, <1>7, <2>1, <2>3, Numerals DEF LoopsRun, Named, ClientInv
    <2>5. /\ \A x \in Sockets \ {s} : LoopsRun(x)' <=> LoopsRun(x)
          /\ \A x : Named(x) => /\ x \in Sockets /\ x # s /\ Named(x)'
                                /\ cl'[x] = cl[x]
          /\ \A x \in Sockets : Live(x)' <=> Live(x)
      BY <1>2, <2>3, <2>4 DEF LoopsRun, Named, Live
    <2>6. TurnType'
      BY <1>2, <2>3 DEF TurnType
    <2>7. ASSUME NEW x \in Sockets PROVE (ClientInv(x) /\ AllocInv(x) /\ RefreshInv(x))'
      <3>1. ClientInv(x) /\ AllocInv(x) /\ RefreshInv(x)
        BY DEF TurnInv
      <3>2. CASE x = s
        <4>1. ClientInv(x)'
          BY <2>1, <2>3, <2>4, <3>2 DEF ClientInv
        <4>2. AllocInv(x)'
          BY <1>2, <1>4, <2>1, <2>3, <2>4, <2>5, <3>1, <3>2 DEF AllocInv
        <4>3. RefreshInv(x)'
          BY <1>4, <2>1, <2>3, <2>4, <2>5, <3>2 DEF RefreshInv
        <4> QED
          BY <4>1, <4>2, <4>3
      <3>3. CASE x # s
        <4>1. ClientInv(x)'
          BY <2>3, <2>5, <3>1, <3>3 DEF ClientInv
        <4>2. AllocInv(x)'
          BY <1>2, <2>3, <2>5, <3>1, <3>3 DEF AllocInv
        <4>3. RefreshInv(x)'
          BY <1>2, <1>5, <2>3, <2>5, <3>1, <3>3 DEF RefreshInv, Msg
        <4> QED
          BY <4>1, <4>2, <4>3
      <3> QED
        BY <3>2, <3>3
    <2>8. ASSUME NEW m \in net' PROVE Truthful(m)'
      <3>1. Truthful(m)
        BY <1>1, <1>7, <2>8 DEF TurnInv
      <3>2. m.m = "signed" => m.s \in Sockets /\ (cl'[m.s].relay # 0 => Live(m.s)')
        BY <1>4, <2>3, <2>5, <3>1 DEF Truthful
      <3>3. m.m = "allocated" => m.s \in Sockets /\ Live(m.s)' /\ alloc'[m.s].port = m.p
        BY <1>2, <2>5, <3>1 DEF Truthful
      <3>4. m.m \in {"permission", "send"} => Named(m.s)' /\ cl'[m.s].peer = m.p
        BY <2>5, <3>1 DEF Truthful
      <3>5. m.m = "relayed" => Named(m.p[1])' /\ cl'[m.p[1]].relay = m.p[2] /\ cl'[m.p[1]].peer = m.s
        BY <2>5, <3>1 DEF Truthful
      <3>6. m.m = "data" => /\ Named(m.s)' /\ cl'[m.s].peer = m.p[2]
                            /\ Named(m.p[1])' /\ cl'[m.p[1]].relay = m.p[2]
                            /\ cl'[m.p[1]].peer = cl'[m.s].relay
        BY <2>5, <3>1 DEF Truthful
      <3> QED
        BY <3>2, <3>3, <3>4, <3>5, <3>6 DEF Truthful
    <2>9. ASSUME NEW g \in got' PROVE Consented(g)'
      BY <1>2, <2>5 DEF Consented, TurnInv
    <2> QED
      BY <2>6, <2>7, <2>8, <2>9 DEF TurnInv
  <1> QED
    BY <1>6, <1>7

\* A client only moves on to another state.
LEMMA MovesOn ==
  ASSUME TurnInv, NEW s \in Sockets, NEW st \in States, cl' = [cl EXCEPT ![s].st = st],
         UNCHANGED <<server, history>>, client' \in [Session -> 0..MaxSockets],
         st \in {"ready", "permit", "linked", "gone"} <=> LoopsRun(s),
         cl[s].st \in {"permit", "linked", "gone"} => st \in {"permit", "linked", "gone"},
         st \in {"permit", "linked"} => cl[s].st = "permit",
         \A x \in Sockets : Msg("refresh", x, 0) \in net => Msg("refresh", x, 0) \in net',
         net' \subseteq net
  PROVE  TurnInv'
  <1>1. cl \in [Sockets -> Clients] /\ cl[s] \in Clients
    BY DEF TurnInv, TurnType
  <1>2. PICK c \in Clients :
           /\ c = [cl[s] EXCEPT !.st = st] /\ c.st = st
           /\ c.relay = cl[s].relay /\ c.peer = cl[s].peer /\ c.left = cl[s].left
    <2>1. PICK b \in Clients : b = cl[s]
      BY <1>1
    <2> QED
      BY <2>1, StFact
  <1>5. c.st \in {"permit", "linked"} => c.peer # 0
    BY <1>2 DEF TurnInv, ClientInv
  <1>3. cl' = [cl EXCEPT ![s] = c]
    BY <1>1, <1>2
  <1>4. UNCHANGED <<server, losses, missed>> /\ got' = got
    BY DEF history
  <1>6. /\ c.relay = cl[s].relay /\ c.left = cl[s].left
        /\ c.st \in {"ready", "permit", "linked", "gone"} <=> LoopsRun(s)
        /\ cl[s].st \in {"permit", "linked", "gone"} /\ cl[s].peer # 0
              => c.st \in {"permit", "linked", "gone"} /\ c.peer = cl[s].peer
    BY <1>2
  <1>7. /\ \A m \in net' : m \in net \/ Truthful(m)'
        /\ \A g \in got' : g \in got \/ Consented(g)'
    BY <1>4
  <1> QED
    BY <1>3, <1>4, <1>5, <1>6, <1>7, OneClient

\* Of the datagrams taken from the network none is a refresh.
LEMMA OthersStay ==
  ASSUME NEW k \in {"allocate", "challenge", "signed", "allocated", "refused", "permission",
                    "permitted", "send", "relayed", "data"}, NEW x, NEW y, NEW p
  PROVE  Msg("refresh", x, 0) # Msg(k, y, p)
  BY DEF Msg

LEMMA ClientFree ==
  ASSUME TurnInv, NEW e
  PROVE  /\ client \in [Session -> 0..MaxSockets]
         /\ [client EXCEPT ![e] = 0] \in [Session -> 0..MaxSockets]
  <1>1. 0 \in 0..MaxSockets
    BY Numerals
  <1> QED
    BY <1>1 DEF TurnInv, TurnType

LEMMA GivesUpKeeps ==
  ASSUME TurnInv, NEW s \in Sockets, GivesUp(s)
  PROVE  TurnInv'
  <1>1. client' \in [Session -> 0..MaxSockets]
    BY ClientFree DEF GivesUp
  <1>2. "failed" \in States /\ ~LoopsRun(s) /\ cl' = [cl EXCEPT ![s].st = "failed"]
    BY DEF States, GivesUp, LoopsRun
  <1>3. net' \subseteq net /\ \A x \in Sockets : Msg("refresh", x, 0) \in net => Msg("refresh", x, 0) \in net'
    BY OthersStay DEF GivesUp
  <1>4. UNCHANGED <<server, history>> /\ cl[s].st = "asking"
    BY DEF GivesUp
  <1> QED
    BY <1>1, <1>2, <1>3, <1>4, MovesOn

LEMMA PermittedKeeps ==
  ASSUME TurnInv, NEW s \in Sockets, Permitted(s)
  PROVE  TurnInv'
  <1>1. client' \in [Session -> 0..MaxSockets]
    BY ClientFree DEF Permitted
  <1>2. "linked" \in States /\ LoopsRun(s) /\ cl' = [cl EXCEPT ![s].st = "linked"]
        /\ cl[s].st = "permit"
    BY DEF States, Permitted, LoopsRun
  <1>3. net' \subseteq net /\ \A x \in Sockets : Msg("refresh", x, 0) \in net => Msg("refresh", x, 0) \in net'
    BY OthersStay DEF Permitted
  <1>4. UNCHANGED <<server, history>>
    BY DEF Permitted
  <1> QED
    BY <1>1, <1>2, <1>3, <1>4, MovesOn

LEMMA DropsKeeps ==
  ASSUME TurnInv, NEW s \in Sockets, Drops(s)
  PROVE  TurnInv'
  <1>1. client' \in [Session -> 0..MaxSockets]
    BY ClientFree DEF Drops
  <1>2. "gone" \in States /\ LoopsRun(s) /\ cl' = [cl EXCEPT ![s].st = "gone"]
    BY DEF States, Drops, LoopsRun
  <1>3. net' = net /\ UNCHANGED <<server, history>>
    BY DEF Drops
  <1> QED
    BY <1>1, <1>2, <1>3, MovesOn

LEMMA AsksPermissionKeeps ==
  ASSUME TurnInv, NEW s \in Sockets, AsksPermission(s)
  PROVE  TurnInv'
  <1>1. PICK e \in Session :
           /\ client[e] # 0 /\ cl[client[e]].relay # 0
           /\ cl' = [cl EXCEPT ![s].st = "permit", ![s].peer = cl[client[e]].relay]
           /\ net' = net \cup {Msg("permission", s, cl[client[e]].relay)}
    BY DEF AsksPermission
  <1>2. /\ cl \in [Sockets -> Clients] /\ cl[s] \in Clients /\ cl[s].st = "ready"
        /\ client \in [Session -> 0..MaxSockets] /\ MaxSockets \in Nat
        /\ UNCHANGED <<client, server, losses, missed>> /\ got' = got
    BY Numerals DEF TurnInv, TurnType, AsksPermission, history
  <1>3. PICK o \in Sockets : o = client[e]
    BY <1>1, <1>2 DEF Sockets
  <1>4. PICK p \in 0..MaxPort : p = cl[client[e]].relay /\ p # 0
    BY <1>1, <1>2, <1>3 DEF Clients
  <1>5. PICK c \in Clients :
           /\ c = [cl[s] EXCEPT !.st = "permit", !.peer = p] /\ c.st = "permit"
           /\ c.relay = cl[s].relay /\ c.peer = p /\ c.left = cl[s].left
    <2>1. PICK b \in Clients : b = cl[s]
      BY <1>2
    <2> QED
      BY <2>1, PeerFact
  <1>6. cl' = [cl EXCEPT ![s] = c]
    BY <1>1, <1>2, <1>4, <1>5
  <1>7. cl'[s] = c
    BY <1>2, <1>6
  <1>8. Truthful(Msg("permission", s, p))'
    BY <1>4, <1>5, <1>7 DEF Truthful, Named, Msg
  <1>9. \A m \in net' : m \in net \/ Truthful(m)'
    BY <1>1, <1>4, <1>8
  <1>10. /\ c.st \in {"ready", "permit", "linked", "gone"} <=> LoopsRun(s)
         /\ c.peer # 0
         /\ \A x \in Sockets : Msg("refresh", x, 0) \in net => Msg("refresh", x, 0) \in net'
    BY <1>1, <1>2, <1>4, <1>5 DEF LoopsRun
  <1> QED
    BY <1>2, <1>5, <1>6, <1>9, <1>10, OneClient

LEMMA RefreshesKeeps ==
  ASSUME TurnInv, NEW s \in Sockets, Refreshes(s)
  PROVE  TurnInv'
  <1>1. /\ cl \in [Sockets -> Clients] /\ cl[s] \in Clients
        /\ client \in [Session -> 0..MaxSockets]
        /\ UNCHANGED <<client, server, losses, missed>> /\ got' = got
    BY DEF TurnInv, TurnType, Refreshes, history
  <1>2. PICK c \in Clients :
           /\ c = [cl[s] EXCEPT !.left = Interval] /\ c.st = cl[s].st
           /\ c.relay = cl[s].relay /\ c.peer = cl[s].peer /\ c.left = Interval
    <2>1. Interval \in 0..Interval
      BY Numerals
    <2>2. PICK b \in Clients : b = cl[s]
      BY <1>1
    <2> QED
      BY <2>1, <2>2, LeftFact
  <1>3. cl' = [cl EXCEPT ![s] = c] /\ LoopsRun(s)
    BY <1>1, <1>2 DEF Refreshes
  <1>4. net' = net \cup {Msg("refresh", s, 0)}
    BY DEF Refreshes
  <1>5. \A m \in net' : m \in net \/ Truthful(m)'
    BY <1>4, PlainFact
  <1>6. /\ c.st \in {"ready", "permit", "linked", "gone"} <=> LoopsRun(s)
        /\ c.st \in {"permit", "linked"} => c.peer # 0
    BY <1>2 DEF LoopsRun, TurnInv, ClientInv
  <1> QED
    BY <1>1, <1>2, <1>3, <1>4, <1>5, <1>6, OneClient

\* The clients, the server and the counters stay: datagrams and what was read change.
LEMMA OnlyNet ==
  ASSUME TurnInv, UNCHANGED <<cl, client, server, losses, missed>>,
         \A x \in Sockets : Msg("refresh", x, 0) \in net => Msg("refresh", x, 0) \in net',
         \A m \in net' : m \in net \/ Truthful(m)',
         \A g \in got' : g \in got \/ Consented(g)'
  PROVE  TurnInv'
  <1>1. TurnType /\ TurnType'
    BY DEF TurnInv, TurnType, server
  <1>2. Steady
    BY DEF Steady, Named, LoopsRun, TurnInv, ClientInv
  <1>3. \A s \in Sockets : Live(s)' <=> Live(s)
    BY DEF Live, server
  <1>4. \A m \in net' : Truthful(m)'
    BY <1>2, <1>3, TruthStays DEF server
  <1>5. \A s \in Sockets : RefreshInv(s)'
    <2>1. \A s \in Sockets : LoopsRun(s)' => LoopsRun(s) /\ cl'[s].left = cl[s].left
      BY DEF LoopsRun
    <2>2. \A s \in Sockets : Live(s) => Live(s)' /\ alloc'[s].left \in {alloc[s].left, Lifetime}
      BY <1>3 DEF server
    <2> QED
      BY <2>1, <2>2, RefreshStays
  <1>6. ASSUME NEW s \in Sockets, Live(s)'
        PROVE  /\ Live(s) /\ alloc'[s].port = alloc[s].port /\ <<s, alloc[s].port>> \in tasks' \cup failed'
               /\ alloc'[s].perms = alloc[s].perms
    BY <1>3, <1>6 DEF TurnInv, AllocInv, server
  <1> QED
    BY <1>1, <1>2, <1>4, <1>5, <1>6, Keeps

LEMMA SendsKeeps ==
  ASSUME TurnInv, NEW s \in Sockets, Sends(s)
  PROVE  TurnInv'
  <1>1. cl[s].st = "linked" /\ net' = net \cup {Msg("send", s, cl[s].peer)}
        /\ UNCHANGED <<cl, client, server, losses, missed>> /\ got' = got
    BY DEF Sends, history
  <1>2. Named(s) /\ Named(s)'
    BY <1>1 DEF Named, TurnInv, ClientInv
  <1>3. Truthful(Msg("send", s, cl[s].peer))'
    BY <1>1, <1>2 DEF Truthful, Msg
  <1>4. \A m \in net' : m \in net \/ Truthful(m)'
    BY <1>1, <1>3
  <1> QED
    BY <1>1, <1>4, OnlyNet

LEMMA ReceivesKeeps ==
  ASSUME TurnInv, NEW s \in Sockets, Receives(s)
  PROVE  TurnInv'
  <1>1. PICK m \in net :
           /\ m.m = "data" /\ m.s = s /\ net' = net \ {m}
           /\ \/ UNCHANGED got
              \/ got' = got \cup {<<s, m.p[1], m.p[2]>>}
    BY DEF Receives
  <1>2. UNCHANGED <<cl, client, server, losses, missed>>
    BY DEF Receives
  <1>3. Truthful(m)
    BY DEF TurnInv
  <1>4. PICK f, p : f = m.p[1] /\ p = m.p[2]
    OBVIOUS
  <1>5. Consented(<<s, f, p>>)
    BY <1>1, <1>3, <1>4 DEF Truthful, Consented
  <1>6. Consented(<<s, f, p>>)'
    BY <1>2, <1>5 DEF Consented, Named
  <1>7. \A g \in got' : g \in got \/ Consented(g)'
    BY <1>1, <1>4, <1>6
  <1>8. \A x \in Sockets : Msg("refresh", x, 0) \in net => Msg("refresh", x, 0) \in net'
    BY <1>1 DEF Msg
  <1> QED
    BY <1>1, <1>2, <1>7, <1>8, OnlyNet

LEMMA DiscardsKeeps ==
  ASSUME TurnInv, NEW s \in Sockets, Discards(s)
  PROVE  TurnInv'
  <1>1. PICK m \in net : m.m \in {"permitted", "refused", "data"} /\ net' = net \ {m}
    BY DEF Discards
  <1>2. UNCHANGED <<cl, client, server, losses, missed>> /\ got' = got
    BY DEF Discards, history
  <1>3. \A x \in Sockets : Msg("refresh", x, 0) \in net => Msg("refresh", x, 0) \in net'
    BY <1>1 DEF Msg
  <1> QED
    BY <1>1, <1>2, <1>3, OnlyNet

-----------------------------------------------------------------------------
(* The server *)

LEMMA ChallengesKeeps ==
  ASSUME TurnInv, NEW s \in Sockets, Challenges(s)
  PROVE  TurnInv'
  <1>1. /\ net' = (net \ {Msg("allocate", s, 0)}) \cup {Msg("challenge", s, 0)}
        /\ UNCHANGED <<cl, client, server, losses, missed>> /\ got' = got
    BY DEF Challenges, Replies, history
  <1> QED
    BY <1>1, PlainFact, OthersStay, OnlyNet

\* Purging takes nothing that lives.
LEMMA PurgedFact ==
  ASSUME TurnInv
  PROVE  /\ Purged \in [Sockets -> Allocation \cup {None}]
         /\ \A s \in Sockets : Live(s) => Purged[s] = alloc[s] /\ Purged[s] # None /\ Purged[s].left > 0
         /\ \A s \in Sockets : ~Live(s) => Purged[s] = None
         /\ \A s \in Sockets : Known(s) <=> Live(s)
  <1>1. TurnType
    BY DEF TurnInv
  <1>2. ASSUME NEW s \in Sockets PROVE Purged[s] = IF Live(s) THEN alloc[s] ELSE None
    BY DEF Purged
  <1>3. ASSUME NEW s \in Sockets, Live(s) PROVE alloc[s] # None /\ alloc[s].left > 0
    BY <1>3 DEF Live
  <1>4. Purged \in [Sockets -> Allocation \cup {None}]
    BY <1>1 DEF Purged, TurnType
  <1> QED
    BY <1>2, <1>3, <1>4 DEF Known

\* The server forgets what is over, and answers.
LEMMA PurgedKeeps ==
  ASSUME TurnInv, alloc' = Purged, UNCHANGED <<cl, client, tasks, failed, history>>,
         \A x \in Sockets : Msg("refresh", x, 0) \in net => Msg("refresh", x, 0) \in net',
         \A m \in net' : m \in net \/ Truthful(m)'
  PROVE  TurnInv'
  <1>1. \A s \in Sockets : (Live(s)' <=> Live(s)) /\ (Live(s) => alloc'[s] = alloc[s])
    BY PurgedFact DEF Live
  <1>2. TurnType'
    BY PurgedFact DEF TurnInv, TurnType, history
  <1>3. ASSUME NEW s \in Sockets, Live(s)
        PROVE  alloc'[s] = alloc[s] /\ <<s, alloc[s].port>> \in tasks' \cup failed'
    BY <1>1, <1>3 DEF TurnInv, AllocInv
  <1>4. got' = got /\ missed' = missed
    BY DEF history
  <1> QED
    BY <1>1, <1>2, <1>3, <1>4, Serving

LEMMA HandleAllocateKeeps ==
  ASSUME TurnInv, NEW s \in Sockets, HandleAllocate(s)
  PROVE  TurnInv'
  <1>1. Msg("signed", s, 0) \in net /\ UNCHANGED <<cl, client, history>> /\ TurnType
    BY DEF HandleAllocate, TurnInv
  <1>2. CASE /\ Known(s) /\ alloc' = Purged /\ UNCHANGED <<tasks, failed>>
             /\ Replies(Msg("signed", s, 0), {Msg("allocated", s, alloc[s].port)})
    <2>1. Live(s) /\ Live(s)' /\ alloc'[s].port = alloc[s].port
      BY <1>2, PurgedFact DEF Live
    <2>0. PICK o : o = alloc[s].port
      OBVIOUS
    <2>2. Truthful(Msg("allocated", s, o))'
      BY <2>0, <2>1 DEF Truthful, Msg
    <2>3. /\ \A m \in net' : m \in net \/ Truthful(m)'
          /\ \A x \in Sockets : Msg("refresh", x, 0) \in net => Msg("refresh", x, 0) \in net'
      BY <1>2, <2>0, <2>2, OthersStay DEF Replies
    <2> QED
      BY <1>1, <1>2, <2>3, PurgedKeeps
  <1>3. CASE /\ ~Known(s) /\ alloc' = Purged /\ UNCHANGED <<tasks, failed>>
             /\ Replies(Msg("signed", s, 0), {Msg("refused", s, 0)})
    <2>1. /\ \A m \in net' : m \in net \/ Truthful(m)'
          /\ \A x \in Sockets : Msg("refresh", x, 0) \in net => Msg("refresh", x, 0) \in net'
      BY <1>3, PlainFact, OthersStay DEF Replies
    <2> QED
      BY <1>1, <1>3, <2>1, PurgedKeeps
  <1>4. ASSUME ~Known(s), NEW p \in Port \ Bound,
               alloc' = [Purged EXCEPT ![s] = [port |-> p, perms |-> {}, left |-> Lifetime]],
               tasks' = tasks \cup {<<s, p>>}, failed' = failed \ {<<s, p>>},
               Replies(Msg("signed", s, 0), {Msg("allocated", s, p)})
        PROVE  TurnInv'
    <2> DEFINE new == [port |-> p, perms |-> {}, left |-> Lifetime]
    <2>1. new \in Allocation /\ new.port = p /\ new.perms = {} /\ new.left > 0 /\ new # None
      BY Numerals, NoneAssumption DEF Allocation, NoneAssumption
    <2>2. ~Live(s)
      BY <1>4, PurgedFact
    <2>3. /\ alloc' \in [Sockets -> Allocation \cup {None}] /\ alloc'[s] = new
          /\ \A x \in Sockets \ {s} : alloc'[x] = Purged[x]
      BY <1>4, <2>1, PurgedFact
    <2> HIDE DEF new
    <2>4. /\ Live(s)' /\ alloc'[s].port = p /\ alloc'[s].perms = {}
          /\ \A x \in Sockets \ {s} : (Live(x)' <=> Live(x)) /\ (Live(x) => alloc'[x] = alloc[x])
      BY <2>1, <2>3, PurgedFact DEF Live
    <2>5. cl[s].relay = 0 /\ ~LoopsRun(s)
      <3>1. Truthful(Msg("signed", s, 0)) /\ ClientInv(s)
        BY <1>1 DEF TurnInv
      <3> QED
        BY <2>2, <3>1 DEF Truthful, ClientInv, Msg
    <2>6. TurnType'
      BY <1>1, <1>4, <2>3 DEF TurnType, history
    <2>7. /\ cl' = cl /\ got' = got /\ missed' = missed
          /\ \A x : Named(x)' <=> Named(x)
          /\ \A x \in Sockets : LoopsRun(x)' <=> LoopsRun(x)
      BY <1>1 DEF history, Named, LoopsRun
    <2>8. ASSUME NEW x \in Sockets PROVE (ClientInv(x) /\ AllocInv(x) /\ RefreshInv(x))'
      <3>1. ClientInv(x) /\ AllocInv(x) /\ RefreshInv(x)
        BY DEF TurnInv
      <3>2. ClientInv(x)'
        BY <2>7, <3>1 DEF ClientInv
      <3>3. \A c \in Sockets : Live(c) => alloc[c].port # p
        <4>1. ASSUME NEW c \in Sockets, Live(c) PROVE alloc[c].port \in Bound
          BY <4>1 DEF Bound, Live
        <4> QED
          BY <1>4, <4>1
      <3>4. CASE x = s
        <4>1. <<s, p>> \in tasks'
          BY <1>4
        <4>2. AllocInv(x)'
          BY <2>4, <2>5, <2>7, <3>3, <3>4, <4>1 DEF AllocInv
        <4>3. RefreshInv(x)'
          BY <2>5, <2>7, <3>4 DEF RefreshInv
        <4> QED
          BY <3>2, <4>2, <4>3
      <3>5. CASE x # s
        <4>1. AllocInv(x)'
          <5>1. CASE ~Live(x)
            BY <2>4, <3>5, <5>1 DEF AllocInv
          <5>2. CASE Live(x)
            <6>1. <<x, alloc[x].port>> \in tasks' \cup failed'
              BY <1>4, <3>1, <3>5, <5>2 DEF AllocInv
            <6> QED
              BY <2>4, <2>7, <3>1, <3>3, <3>5, <5>2, <6>1 DEF AllocInv
          <5> QED
            BY <5>1, <5>2
        <4>2. Msg("refresh", x, 0) \in net => Msg("refresh", x, 0) \in net'
          BY <1>4, OthersStay DEF Replies
        <4>3. RefreshInv(x)'
          BY <2>4, <2>7, <3>1, <3>5, <4>2 DEF RefreshInv, Msg
        <4> QED
          BY <3>2, <4>1, <4>3
      <3> QED
        BY <3>4, <3>5
    <2>9. ASSUME NEW m \in net' PROVE Truthful(m)'
      <3>1. CASE m = Msg("allocated", s, p)
        BY <2>4, <3>1 DEF Truthful, Msg
      <3>2. CASE m \in net
        <4>1. Steady
          BY <2>7 DEF Steady, TurnInv, ClientInv
        <4>2. \A x \in Sockets : Live(x) => Live(x)' /\ alloc'[x].port = alloc[x].port
          BY <2>2, <2>4
        <4> QED
          BY <3>2, <4>1, <4>2, TruthStays
      <3> QED
        BY <1>4, <3>1, <3>2 DEF Replies
    <2>10. ASSUME NEW g \in got' PROVE Consented(g)'
      BY <2>7 DEF Consented, TurnInv
    <2> QED
      BY <2>6, <2>8, <2>9, <2>10 DEF TurnInv
  <1> QED
    BY <1>2, <1>3, <1>4 DEF HandleAllocate

LEMMA HandlePermissionKeeps ==
  ASSUME TurnInv, NEW s \in Sockets, HandlePermission(s)
  PROVE  TurnInv'
  <1>1. PICK p \in Port :
           /\ Msg("permission", s, p) \in net
           /\ \/ /\ UNCHANGED alloc /\ Replies(Msg("permission", s, p), {Msg("refused", s, 0)})
              \/ /\ Live(s) /\ alloc' = [alloc EXCEPT ![s].perms = @ \cup {p}]
                 /\ Replies(Msg("permission", s, p), {Msg("permitted", s, 0)})
              \/ UNCHANGED alloc /\ Replies(Msg("permission", s, p), {})
    BY DEF HandlePermission
  <1>2. /\ UNCHANGED <<cl, client, tasks, failed, losses, missed>> /\ got' = got
        /\ TurnType
    BY DEF HandlePermission, history, TurnInv
  <1>3. /\ \A m \in net' : m \in net \/ Truthful(m)'
        /\ \A x \in Sockets : Msg("refresh", x, 0) \in net => Msg("refresh", x, 0) \in net'
    BY <1>1, PlainFact, OthersStay DEF Replies
  <1>4. CASE UNCHANGED alloc
    BY <1>2, <1>3, <1>4, OnlyNet DEF server
  <1>5. CASE Live(s) /\ alloc' = [alloc EXCEPT ![s].perms = @ \cup {p}]
    <2>1. /\ alloc[s] \in Allocation /\ alloc[s].perms \subseteq Port /\ alloc[s] # None
          /\ alloc \in [Sockets -> Allocation \cup {None}] /\ alloc[s].left > 0
      BY <1>2, <1>5, LiveFact DEF TurnType, Live
    <2>2. PICK a \in Allocation : /\ a = [alloc[s] EXCEPT !.perms = @ \cup {p}]
                                  /\ a.port = alloc[s].port /\ a.left = alloc[s].left
                                  /\ a.perms = alloc[s].perms \cup {p}
      <3>1. PICK b \in Allocation : b = alloc[s]
        BY <2>1
      <3>2. PICK q \in SUBSET Port : q = b.perms \cup {p}
        BY <2>1, <3>1
      <3> DEFINE a == [b EXCEPT !.perms = q]
      <3>3. a \in Allocation /\ a.port = b.port /\ a.left = b.left /\ a.perms = q
        BY DEF Allocation
      <3>4. a = [alloc[s] EXCEPT !.perms = @ \cup {p}]
        BY <3>1, <3>2
      <3> HIDE DEF a
      <3> QED
        BY <3>1, <3>2, <3>3, <3>4
    <2>3. alloc' = [alloc EXCEPT ![s] = a]
      BY <1>5, <2>1, <2>2
    <2>4. /\ alloc' \in [Sockets -> Allocation \cup {None}] /\ alloc'[s] = a
          /\ \A x \in Sockets \ {s} : alloc'[x] = alloc[x]
      BY <2>1, <2>3
    <2>5. a # None
      BY NoneAssumption DEF NoneAssumption
    <2>6. \A x \in Sockets : Live(x)' <=> Live(x)
      BY <1>5, <2>1, <2>2, <2>4, <2>5 DEF Live
    <2>7. TurnType'
      BY <1>2, <2>4 DEF TurnType
    <2>8. Named(s) /\ cl[s].peer = p
      <3>1. Truthful(Msg("permission", s, p))
        BY <1>1 DEF TurnInv
      <3> QED
        BY <3>1 DEF Truthful, Msg
    <2>9. ASSUME NEW x \in Sockets, Live(x)
          PROVE  /\ alloc'[x].port = alloc[x].port /\ <<x, alloc[x].port>> \in tasks' \cup failed'
                 /\ \A q \in alloc'[x].perms : q \in alloc[x].perms \/ (Named(x) /\ cl[x].peer = q)
                 /\ alloc'[x].left \in {alloc[x].left, Lifetime}
      <3>1. <<x, alloc[x].port>> \in tasks' \cup failed'
        BY <1>2, <2>9 DEF TurnInv, AllocInv
      <3>2. CASE x = s
        BY <2>2, <2>4, <2>8, <3>1, <3>2
      <3>3. CASE x # s
        <4>1. alloc'[x] = alloc[x]
          BY <2>4, <3>3
        <4> QED
          BY <3>1, <4>1
      <3> QED
        BY <3>2, <3>3
    <2> QED
      BY <1>2, <1>3, <2>6, <2>7, <2>9, Serving
  <1> QED
    BY <1>1, <1>4, <1>5

LEMMA HandleSendKeeps ==
  ASSUME TurnInv, NEW s \in Sockets, HandleSend(s)
  PROVE  TurnInv'
  <1>1. PICK p \in Port :
           /\ Msg("send", s, p) \in net
           /\ Replies(Msg("send", s, p),
                      IF MaySend(s, p) /\ HasReader(p) THEN {Msg("relayed", p, <<s, alloc[s].port>>)} ELSE {})
    BY DEF HandleSend
  <1>2. UNCHANGED <<cl, client, server, losses, missed>> /\ got' = got
    BY DEF HandleSend, history
  <1>3. Named(s) /\ cl[s].peer = p /\ Named(s)'
    <2>1. Truthful(Msg("send", s, p))
      BY <1>1 DEF TurnInv
    <2> QED
      BY <1>2, <2>1 DEF Truthful, Msg, Named
  <1>4. ASSUME MaySend(s, p) PROVE Truthful(Msg("relayed", p, <<s, alloc[s].port>>))'
    <2>1. LoopsRun(s) /\ Live(s)
      BY <1>3, <1>4 DEF Named, LoopsRun, MaySend
    <2>2. alloc[s].port = cl[s].relay
      BY <2>1 DEF TurnInv, AllocInv
    <2>3. PICK o : o = alloc[s].port
      OBVIOUS
    <2>4. Truthful(Msg("relayed", p, <<s, o>>))'
      BY <1>2, <1>3, <2>2, <2>3 DEF Truthful, Msg
    <2> QED
      BY <1>2, <2>3, <2>4 DEF server
  <1>5. \A m \in net' : m \in net \/ Truthful(m)'
    <2>1. CASE MaySend(s, p)
      <3>1. PICK n : n = Msg("relayed", p, <<s, alloc[s].port>>)
        OBVIOUS
      <3>2. Truthful(n)'
        BY <1>2, <1>4, <2>1, <3>1 DEF server
      <3>3. \A m \in net' : m \in net \/ m = n
        BY <1>1, <3>1 DEF Replies
      <3> QED
        BY <3>2, <3>3
    <2>2. CASE ~MaySend(s, p)
      BY <1>1, <2>2 DEF Replies
    <2> QED
      BY <2>1, <2>2
  <1>6. \A x \in Sockets : Msg("refresh", x, 0) \in net => Msg("refresh", x, 0) \in net'
    BY <1>1, OthersStay DEF Replies
  <1> QED
    BY <1>2, <1>5, <1>6, OnlyNet

LEMMA HandleRefreshKeeps ==
  ASSUME TurnInv, NEW s \in Sockets, HandleRefresh(s)
  PROVE  TurnInv'
  <1>1. /\ net' = net \ {Msg("refresh", s, 0)}
        /\ UNCHANGED <<cl, client, tasks, failed, losses, missed>> /\ got' = got
        /\ TurnType /\ Lifetime = 2
    BY Numerals DEF HandleRefresh, Replies, history, TurnInv
  <1>2. \A x \in Sockets : x # s => Msg("refresh", x, 0) # Msg("refresh", s, 0)
    BY DEF Msg
  <1>3. CASE ~Live(s)
    <2>1. alloc' = [alloc EXCEPT ![s] = None]
      BY <1>3 DEF HandleRefresh
    <2>2. /\ alloc' \in [Sockets -> Allocation \cup {None}] /\ alloc'[s] = None
          /\ \A x \in Sockets \ {s} : alloc'[x] = alloc[x]
      BY <1>1, <2>1 DEF TurnType
    <2>3. TurnType'
      BY <1>1, <2>2 DEF TurnType
    <2>4. \A x \in Sockets : (Live(x)' <=> Live(x)) /\ (Live(x) => alloc'[x] = alloc[x])
      BY <1>3, <2>2 DEF Live
    <2>5. ASSUME NEW x \in Sockets, Live(x)
          PROVE  alloc'[x] = alloc[x] /\ <<x, alloc[x].port>> \in tasks' \cup failed'
      BY <1>1, <2>4, <2>5 DEF TurnInv, AllocInv
    <2>6. \A x \in Sockets : Live(x) /\ Msg("refresh", x, 0) \in net => Msg("refresh", x, 0) \in net'
      BY <1>1, <1>2, <1>3
    <2> QED
      BY <1>1, <2>3, <2>4, <2>5, <2>6, Serving
  <1>4. CASE Live(s)
    <2>1. alloc[s] \in Allocation /\ alloc' = [alloc EXCEPT ![s].left = Lifetime]
      BY <1>1, <1>4, LiveFact DEF HandleRefresh
    <2>2. PICK a \in Allocation : /\ a = [alloc[s] EXCEPT !.left = Lifetime]
                                  /\ a.port = alloc[s].port /\ a.perms = alloc[s].perms
                                  /\ a.left = Lifetime
      <3>1. PICK b \in Allocation : b = alloc[s]
        BY <2>1
      <3> DEFINE a == [b EXCEPT !.left = Lifetime]
      <3>2. Lifetime \in 0..Lifetime
        BY <1>1
      <3>3. a \in Allocation /\ a.port = b.port /\ a.perms = b.perms /\ a.left = Lifetime
        BY <3>2 DEF Allocation
      <3>4. a = [alloc[s] EXCEPT !.left = Lifetime]
        BY <3>1
      <3> HIDE DEF a
      <3> QED
        BY <3>1, <3>3, <3>4
    <2>3. alloc' = [alloc EXCEPT ![s] = a]
      BY <1>1, <2>1, <2>2 DEF TurnType
    <2>4. /\ alloc' \in [Sockets -> Allocation \cup {None}] /\ alloc'[s] = a /\ a # None
          /\ \A x \in Sockets \ {s} : alloc'[x] = alloc[x]
      BY <1>1, <2>3, NoneAssumption DEF TurnType, NoneAssumption
    <2>5. TurnType'
      BY <1>1, <2>4 DEF TurnType
    <2>6. ASSUME NEW x \in Sockets PROVE Live(x)' <=> Live(x)
      <3>1. CASE x = s
        <4>1. alloc'[s].left > 0
          BY <1>1, <2>2, <2>4
        <4> QED
          BY <1>4, <2>4, <3>1, <4>1 DEF Live
      <3>2. CASE x # s
        <4>1. alloc'[x] = alloc[x]
          BY <2>4, <3>2
        <4> QED
          BY <4>1 DEF Live
      <3> QED
        BY <3>1, <3>2
    <2>7. ASSUME NEW x \in Sockets, Live(x)
          PROVE  /\ alloc'[x].port = alloc[x].port /\ <<x, alloc[x].port>> \in tasks' \cup failed'
                 /\ alloc'[x].perms = alloc[x].perms
                 /\ alloc'[x].left \in {alloc[x].left, Lifetime}
                 /\ x = s => alloc'[x].left = Lifetime
      <3>1. <<x, alloc[x].port>> \in tasks' \cup failed'
        BY <1>1, <2>7 DEF TurnInv, AllocInv
      <3>2. CASE x = s
        BY <2>2, <2>4, <3>1, <3>2
      <3>3. CASE x # s
        <4>1. alloc'[x] = alloc[x]
          BY <2>4, <3>3
        <4> QED
          BY <3>1, <3>3, <4>1
      <3> QED
        BY <3>2, <3>3
    <2>8. \A x \in Sockets : Live(x) /\ Msg("refresh", x, 0) \in net
             => Msg("refresh", x, 0) \in net' \/ alloc'[x].left = Lifetime
      BY <1>1, <1>2, <2>7
    <2> QED
      BY <1>1, <2>5, <2>6, <2>7, <2>8, Serving
  <1> QED
    BY <1>3, <1>4

LEMMA TaskReadsKeeps ==
  ASSUME TurnInv, NEW t \in Sockets \X Port, TaskReads(t)
  PROVE  TurnInv'
  <1>1. PICK s \in Sockets, p \in Port : t = <<s, p>>
    OBVIOUS
  <1>2. PICK m \in net :
           /\ m.m = "relayed" /\ m.s = p
           /\ Replies(m, IF FromPermitted(t, m.p[2]) THEN {Msg("data", s, m.p)} ELSE {})
    BY <1>1 DEF TaskReads
  <1>3. /\ UNCHANGED <<cl, client, server, losses, missed>> /\ got' = got
        /\ alloc[s].port = p
    BY <1>1 DEF TaskReads, history, Current
  <1>4. PICK d, from, port : d = m.p /\ from = d[1] /\ port = d[2]
    OBVIOUS
  <1>5. Named(from) /\ cl[from].relay = port /\ cl[from].peer = p
    BY <1>2, <1>4 DEF TurnInv, Truthful
  <1>6. ASSUME FromPermitted(t, port) PROVE Truthful(Msg("data", s, d))'
    <2>1. Live(s) /\ Named(s) /\ cl[s].peer = port
      BY <1>1, <1>6 DEF FromPermitted, TurnInv, AllocInv
    <2>2. cl[s].relay = p
      BY <1>3, <2>1 DEF TurnInv, AllocInv, Named, LoopsRun
    <2>3. Named(s)' /\ Named(from)'
      BY <1>3, <1>5, <2>1 DEF Named
    <2> QED
      BY <1>3, <1>4, <1>5, <2>1, <2>2, <2>3 DEF Truthful, Msg
  <1>7. \A n \in net' : n \in net \/ Truthful(n)'
    <2>1. CASE FromPermitted(t, port)
      BY <1>2, <1>4, <1>6, <2>1 DEF Replies
    <2>2. CASE ~FromPermitted(t, port)
      BY <1>2, <1>4, <2>2 DEF Replies
    <2> QED
      BY <2>1, <2>2
  <1>8. \A x \in Sockets : Msg("refresh", x, 0) \in net => Msg("refresh", x, 0) \in net'
    <2>1. \A x : Msg("refresh", x, 0) # m
      BY <1>2 DEF Msg
    <2> QED
      BY <1>2, <2>1 DEF Replies
  <1> QED
    BY <1>3, <1>7, <1>8, OnlyNet

LEMMA TaskEndsKeeps ==
  ASSUME TurnInv, NEW t \in Sockets \X Port, TaskEnds(t)
  PROVE  TurnInv'
  <1>1. /\ UNCHANGED <<cl, client, alloc, failed, losses, missed>> /\ got' = got
        /\ tasks' = tasks \ {t} /\ net' = {m \in net : ~(m.m = "relayed" /\ m.s = t[2])}
        /\ ~TaskLives(t) /\ TurnType
    BY DEF TaskEnds, history, TurnInv
  <1>2. ASSUME NEW s \in Sockets, Live(s) PROVE <<s, alloc[s].port>> \in tasks' \cup failed'
    <2>1. <<s, alloc[s].port>> \in tasks \cup failed /\ alloc[s] # None
      BY <1>2 DEF TurnInv, AllocInv, Live
    <2>2. TaskLives(<<s, alloc[s].port>>)
      BY <1>2, <2>1 DEF TaskLives, Current
    <2> QED
      BY <1>1, <2>1, <2>2
  <1>3. TurnType'
    BY <1>1 DEF TurnType
  <1>4. \A s \in Sockets : Live(s)' <=> Live(s)
    BY <1>1 DEF Live
  <1>5. \A x \in Sockets : Msg("refresh", x, 0) \in net => Msg("refresh", x, 0) \in net'
    BY <1>1 DEF Msg
  <1> QED
    BY <1>1, <1>2, <1>3, <1>4, <1>5, Serving

LEMMA TaskFailsKeeps ==
  ASSUME TurnInv, NEW t \in Sockets \X Port, TaskFails(t)
  PROVE  TurnInv'
  <1>1. /\ UNCHANGED <<cl, client, alloc, losses, missed>> /\ got' = got
        /\ tasks' = tasks \ {t} /\ failed' = failed \cup {t}
        /\ net' = {m \in net : ~(m.m = "relayed" /\ m.s = t[2])} /\ TurnType
    BY DEF TaskFails, history, TurnInv
  <1>2. ASSUME NEW s \in Sockets, Live(s) PROVE <<s, alloc[s].port>> \in tasks' \cup failed'
    <2>1. <<s, alloc[s].port>> \in tasks \cup failed
      BY <1>2 DEF TurnInv, AllocInv
    <2> QED
      BY <1>1, <2>1
  <1>3. TurnType'
    BY <1>1 DEF TurnType
  <1>4. \A s \in Sockets : Live(s)' <=> Live(s)
    BY <1>1 DEF Live
  <1>5. \A x \in Sockets : Msg("refresh", x, 0) \in net => Msg("refresh", x, 0) \in net'
    BY <1>1 DEF Msg
  <1> QED
    BY <1>1, <1>2, <1>3, <1>4, <1>5, Serving

LEMMA PurgeKeeps ==
  ASSUME TurnInv, Purge
  PROVE  TurnInv'
  <1>1. alloc' = Purged /\ UNCHANGED <<cl, client, tasks, failed, net, history>>
    BY DEF Purge
  <1> QED
    BY <1>1, PurgedKeeps

-----------------------------------------------------------------------------
(* The network and time *)

LEMMA LoseKeeps ==
  ASSUME TurnInv, Lose
  PROVE  TurnInv'
  <1>1. PICK m \in net : net' = net \ {m} /\ missed' = (missed \/ m.m = "refresh")
    BY DEF Lose
  <1>2. UNCHANGED <<cl, client, server>> /\ got' = got /\ losses' = losses + 1
    BY DEF Lose
  <1>3. TurnType'
    <2>1. losses' \in Nat
      BY <1>2 DEF TurnInv, TurnType
    <2>2. missed' \in BOOLEAN
      BY <1>1 DEF TurnInv, TurnType
    <2> QED
      BY <1>2, <2>1, <2>2 DEF TurnInv, TurnType, server
  <1>4. ~missed' => /\ ~missed
                    /\ \A s \in Sockets : Msg("refresh", s, 0) \in net => Msg("refresh", s, 0) \in net'
    <2>1. \A s : Msg("refresh", s, 0).m = "refresh"
      BY DEF Msg
    <2>2. missed' \/ (~missed /\ m.m # "refresh")
      BY Zenon, <1>1
    <2>3. m.m # "refresh" =>
            \A s \in Sockets : Msg("refresh", s, 0) \in net => Msg("refresh", s, 0) \in net'
      BY <1>1, <2>1
    <2> QED
      BY <2>2, <2>3
  <1>5. \A s \in Sockets : Live(s)' <=> Live(s)
    BY <1>2 DEF Live, server
  <1>6. ASSUME NEW s \in Sockets, Live(s) PROVE alloc' = alloc /\ <<s, alloc[s].port>> \in tasks' \cup failed'
    BY <1>2, <1>6 DEF TurnInv, AllocInv, server
  <1> QED
    BY <1>1, <1>2, <1>3, <1>4, <1>5, <1>6, Serving

LEMMA TickKeeps ==
  ASSUME TurnInv, Tick
  PROVE  TurnInv'
  <1>1. /\ net = {} /\ net' = {} /\ UNCHANGED <<client, tasks, failed, got, losses, missed>>
        /\ cl' = [s \in Sockets |-> IF LoopsRun(s) THEN [cl[s] EXCEPT !.left = @ - 1] ELSE cl[s]]
        /\ alloc' = [s \in Sockets |-> IF Live(s) THEN [alloc[s] EXCEPT !.left = @ - 1] ELSE alloc[s]]
        /\ \A s \in Sockets : LoopsRun(s) => cl[s].left # 0
        /\ TurnType /\ Lifetime = 2 /\ Interval = 1
    BY Numerals DEF Tick, history, TurnInv
  <1>2. ASSUME NEW s \in Sockets
        PROVE  /\ cl'[s] \in Clients /\ cl'[s].st = cl[s].st /\ cl'[s].relay = cl[s].relay
               /\ cl'[s].peer = cl[s].peer
               /\ IF LoopsRun(s) THEN cl'[s].left = 0 ELSE cl'[s].left = cl[s].left
    <2>1. CASE LoopsRun(s)
      <3>1. PICK b \in Clients : b = cl[s] /\ b.left = 1
        BY <1>1, <2>1 DEF TurnType, Clients
      <3>2. PICK n \in 0..Interval : n = 0 /\ n = b.left - 1
        BY <1>1, <3>1
      <3>3. PICK d \in Clients : /\ d = [b EXCEPT !.left = n] /\ d.st = b.st
                                 /\ d.relay = b.relay /\ d.peer = b.peer /\ d.left = n
        BY LeftFact
      <3>4. cl'[s] = d
        BY <1>1, <2>1, <3>1, <3>2, <3>3
      <3> QED
        BY <2>1, <3>1, <3>2, <3>3, <3>4
    <2>2. CASE ~LoopsRun(s)
      BY <1>1, <2>2 DEF TurnType
    <2> QED
      BY <2>1, <2>2
  <1>3. ASSUME NEW s \in Sockets, Live(s)
        PROVE  /\ alloc'[s] \in Allocation /\ alloc'[s].port = alloc[s].port
               /\ alloc'[s].perms = alloc[s].perms /\ alloc'[s].left = alloc[s].left - 1
    <2>1. PICK b \in Allocation : b = alloc[s] /\ b.left \in 1..2
      BY <1>1, <1>3, LiveFact
    <2>2. PICK n \in 0..Lifetime : n = b.left - 1
      BY <1>1, <2>1
    <2>3. [b EXCEPT !.left = n] \in Allocation /\ [b EXCEPT !.left = n].port = b.port
          /\ [b EXCEPT !.left = n].perms = b.perms /\ [b EXCEPT !.left = n].left = n
      BY DEF Allocation
    <2>4. alloc'[s] = [b EXCEPT !.left = n]
      BY <1>1, <1>3, <2>1, <2>2
    <2> QED
      BY <2>1, <2>2, <2>3, <2>4
  <1>4. \A s \in Sockets : ~Live(s) => alloc'[s] = alloc[s]
    BY <1>1
  <1>5. TurnType'
    <2>1. cl' \in [Sockets -> Clients]
      BY <1>1, <1>2
    <2>2. alloc' \in [Sockets -> Allocation \cup {None}]
      BY <1>1, <1>3, <1>4 DEF TurnType
    <2> QED
      BY <1>1, <2>1, <2>2 DEF TurnType
  <1>6. Steady
    BY <1>2 DEF Steady, LoopsRun, Named, TurnInv, ClientInv
  <1>7. \A s \in Sockets : LoopsRun(s) \/ cl'[s].left = cl[s].left
    BY <1>2
  <1>8. ASSUME NEW s \in Sockets, Live(s)'
        PROVE  /\ Live(s) /\ alloc'[s].port = alloc[s].port /\ <<s, alloc[s].port>> \in tasks' \cup failed'
               /\ alloc'[s].perms = alloc[s].perms
    <2>1. Live(s)
      BY <1>4, <1>8 DEF Live
    <2> QED
      BY <1>1, <1>3, <2>1 DEF TurnInv, AllocInv
  <1>9. ASSUME NEW s \in Sockets PROVE RefreshInv(s)'
    <2> SUFFICES ASSUME ~missed', LoopsRun(s)'
                 PROVE  Live(s)' /\ cl'[s].left = 0
      BY DEF RefreshInv
    <2>1. LoopsRun(s) /\ RefreshInv(s) /\ ~missed
      BY <1>1, <1>6 DEF Steady, TurnInv
    <2>2. Live(s) /\ alloc[s].left = 2
      BY <1>1, <2>1 DEF RefreshInv
    <2>3. alloc'[s] \in Allocation /\ alloc'[s].left = 1
      BY <1>3, <2>2
    <2>4. alloc'[s] # None
      BY <2>3, NoneAssumption DEF NoneAssumption
    <2> QED
      BY <1>2, <2>1, <2>3, <2>4 DEF Live
  <1> QED
    BY <1>1, <1>5, <1>6, <1>7, <1>8, <1>9, Keeps

-----------------------------------------------------------------------------
(* The theorems *)

LEMMA ClientKeeps ==
  ASSUME TurnInv, NEW s \in Sockets, Client(s)
  PROVE  TurnInv'
  <1>1. CASE Challenged(s)
    BY <1>1, ChallengedKeeps
  <1>2. CASE Strays(s)
    BY <1>2, StraysKeeps
  <1>3. CASE Allocated(s)
    BY <1>3, AllocatedKeeps
  <1>4. CASE GivesUp(s)
    BY <1>4, GivesUpKeeps
  <1>5. CASE AsksPermission(s)
    BY <1>5, AsksPermissionKeeps
  <1>6. CASE Permitted(s)
    BY <1>6, PermittedKeeps
  <1>7. CASE Drops(s)
    BY <1>7, DropsKeeps
  <1>8. CASE Refreshes(s)
    BY <1>8, RefreshesKeeps
  <1>9. CASE Sends(s)
    BY <1>9, SendsKeeps
  <1>10. CASE Receives(s)
    BY <1>10, ReceivesKeeps
  <1>11. CASE Discards(s)
    BY <1>11, DiscardsKeeps
  <1> QED
    BY <1>1, <1>2, <1>3, <1>4, <1>5, <1>6, <1>7, <1>8, <1>9, <1>10, <1>11 DEF Client

LEMMA ServesKeeps ==
  ASSUME TurnInv, NEW s \in Sockets, Serves(s)
  PROVE  TurnInv'
  <1>1. CASE Challenges(s)
    BY <1>1, ChallengesKeeps
  <1>2. CASE HandleAllocate(s)
    BY <1>2, HandleAllocateKeeps
  <1>3. CASE HandlePermission(s)
    BY <1>3, HandlePermissionKeeps
  <1>4. CASE HandleSend(s)
    BY <1>4, HandleSendKeeps
  <1>5. CASE HandleRefresh(s)
    BY <1>5, HandleRefreshKeeps
  <1> QED
    BY <1>1, <1>2, <1>3, <1>4, <1>5 DEF Serves

LEMMA StutterKeeps ==
  ASSUME TurnInv, UNCHANGED vars
  PROVE  TurnInv'
  <1>1. /\ cl' = cl /\ client' = client /\ alloc' = alloc /\ tasks' = tasks /\ failed' = failed
        /\ net' = net /\ got' = got /\ losses' = losses /\ missed' = missed
    BY DEF vars
  <1>2. TurnType'
    BY <1>1 DEF TurnInv, TurnType
  <1>3. \A s \in Sockets : Live(s)' <=> Live(s)
    BY <1>1 DEF Live
  <1>4. ASSUME NEW s \in Sockets, Live(s) PROVE <<s, alloc[s].port>> \in tasks' \cup failed'
    BY <1>1, <1>4 DEF TurnInv, AllocInv
  <1> QED
    BY <1>1, <1>2, <1>3, <1>4, Serving

LEMMA NextKeeps ==
  ASSUME TurnInv, [Next]_vars
  PROVE  TurnInv'
  <1>1. CASE \E e \in Session : Opens(e)
    BY <1>1, OpensKeeps
  <1>2. CASE \E s \in Sockets : Client(s) \/ Serves(s)
    BY <1>2, ClientKeeps, ServesKeeps
  <1>3. CASE Task
    BY <1>3, TaskReadsKeeps, TaskEndsKeeps, TaskFailsKeeps DEF Task
  <1>4. CASE Purge
    BY <1>4, PurgeKeeps
  <1>5. CASE Lose
    BY <1>5, LoseKeeps
  <1>6. CASE Tick
    BY <1>6, TickKeeps
  <1>7. CASE UNCHANGED vars
    BY <1>7, StutterKeeps
  <1> QED
    BY <1>1, <1>2, <1>3, <1>4, <1>5, <1>6, <1>7 DEF Next

LEMMA InitInv ==
  ASSUME Init
  PROVE  TurnInv
  <1>1. NoClient \in Clients /\ NoClient.st = "new" /\ NoClient.relay = 0 /\ NoClient.left = 0
    BY Numerals DEF NoClient, Clients, States
  <1>2. /\ cl = [s \in Sockets |-> NoClient] /\ client = [e \in Session |-> 0]
        /\ alloc = [s \in Sockets |-> None] /\ tasks = {} /\ failed = {} /\ net = {} /\ got = {}
        /\ losses = 0 /\ missed = FALSE
    BY DEF Init
  <1>3. \A s \in Sockets : cl[s] = NoClient /\ ~Live(s)
    BY <1>2 DEF Live
  <1>4. 0 \in 0..MaxSockets
    BY Numerals
  <1>5. TurnType
    BY <1>1, <1>2, <1>4 DEF TurnType
  <1>6. ASSUME NEW s \in Sockets
        PROVE  ~LoopsRun(s) /\ cl[s].st \notin {"permit", "linked"} /\ cl[s].relay = 0 /\ cl[s].left = 0
    BY <1>1, <1>3 DEF LoopsRun
  <1>7. \A s \in Sockets : ClientInv(s) /\ AllocInv(s) /\ RefreshInv(s)
    BY <1>3, <1>6 DEF ClientInv, AllocInv, RefreshInv
  <1> QED
    BY <1>2, <1>5, <1>7 DEF TurnInv

LEMMA InvIsSound ==
  ASSUME TurnInv
  PROVE  TurnIsSound
  <1>1. TypeOK
    <2>1. \A s \in Sockets : cl[s].st \in States
      BY DEF TurnInv, TurnType, Clients
    <2> QED
      BY <2>1 DEF TurnInv, TurnType, TypeOK, States
  <1>2. ConsentedOnly
    BY DEF ConsentedOnly, TurnInv, Consented
  <1>3. RelayAgrees
    BY DEF RelayAgrees, TurnInv, AllocInv
  <1>4. AllocationsServed
    BY DEF AllocationsServed, TurnInv, AllocInv
  <1>5. StaysAllocated
    BY DEF StaysAllocated, TurnInv, RefreshInv
  <1> QED
    BY <1>1, <1>2, <1>3, <1>4, <1>5 DEF TurnIsSound

\* What client, server and the datagrams between them agree on holds in every state
\* (turn.rs, turn_server.rs), whatever is lost, repeated or late.
THEOREM TurnInvHolds == Spec => []TurnInv
  <1>1. Init => TurnInv
    BY InitInv
  <1>2. TurnInv /\ [Next]_vars => TurnInv'
    BY NextKeeps
  <1> QED
    BY <1>1, <1>2, PTL DEF Spec

\* Data reaches a client only after both ends named each other's relay; a client knows
\* its relay right and shares it with nobody; every live allocation has its task, unless its
\* socket reported an error; and as
\* long as no refresh is lost, no allocation in use expires.
THEOREM TurnHolds == Spec => []TurnIsSound
  BY TurnInvHolds, InvIsSound, PTL

=============================================================================
