----------------------------- MODULE TurnRelay -----------------------------
(***************************************************************************)
(* The built-in TURN server (p2p/turn_server.rs) and its clients           *)
(* (p2p/turn.rs): allocations, permissions, relayed data and the periodic  *)
(* refresh, over datagrams that may be lost or late.                       *)
(*                                                                         *)
(* A socket is one TurnClient: it belongs to one session, and a session    *)
(* that dropped its client opens the next.  A tick is 300 s, half of the   *)
(* lifetime of an allocation; what takes seconds is over within a tick.    *)
(***************************************************************************)
EXTENDS Naturals, FiniteSets

CONSTANTS
  Session,      \* hosts and guests with a TURN service
  None,
  MaxSockets,   \* bound: TURN clients in all
  MaxPort,      \* relay ports of the server, enough for all clients
  Attempts,     \* rounds of the authentication loop (5)
  MaxLosses     \* bound: datagrams that are lost

Sockets == 1..MaxSockets
Port == 1..MaxPort
Lifetime == 2
WholeLifetime == 2
Interval == 1
Allocation == [port : Port, perms : SUBSET Port, left : 0..Lifetime]

ASSUME BoundsAssumption == {MaxSockets, MaxPort, Attempts, MaxLosses} \subseteq Nat
ASSUME NoneAssumption == None \notin Allocation

VARIABLES
  cl,      \* each TURN client
  client,  \* the client each session holds, or 0
  alloc,   \* allocations of the server
  tasks,   \* relay tasks: socket they serve and port they read
  failed,  \* relay tasks that an error of their socket ended
  net,     \* datagrams under way
  got,     \* history: data that reached a client: reader, sender, address
  losses,
  missed   \* history: a refresh was lost

vars == <<cl, client, alloc, tasks, failed, net, got, losses, missed>>
server == <<alloc, tasks, failed>>
history == <<got, losses, missed>>

NoClient == [st |-> "new", owner |-> None, tries |-> 0, cred |-> FALSE,
             relay |-> 0, peer |-> 0, left |-> 0]

Init ==
  /\ cl = [s \in Sockets |-> NoClient]
  /\ client = [e \in Session |-> 0]
  /\ alloc = [s \in Sockets |-> None]
  /\ tasks = {} /\ failed = {} /\ net = {} /\ got = {}
  /\ losses = 0 /\ missed = FALSE

Msg(m, s, p) == [m |-> m, s |-> s, p |-> p]
Live(s) == alloc[s] # None /\ alloc[s].left > 0

\* Ports whose socket an allocation or a task holds.
Bound == {t[2] : t \in tasks} \cup {alloc[s].port : s \in {c \in Sockets : alloc[c] # None}}

\* A peer has to be the relay of another client of this server.
OtherRelay(s, p) == \E c \in Sockets \ {s} : Live(c) /\ alloc[c].port = p

-----------------------------------------------------------------------------
(* The client                                                              *)

\* A session opens a client on a new socket and asks without credentials.
Opens(e) ==
  /\ client[e] = 0
  /\ \E s \in Sockets :
       /\ cl[s].st = "new" /\ \A i \in 1..(s - 1) : cl[i].st # "new"
       /\ cl' = [cl EXCEPT ![s] = [NoClient EXCEPT !.st = "asking", !.owner = e, !.tries = 1]]
       /\ client' = [client EXCEPT ![e] = s]
       /\ net' = net \cup {Msg("allocate", s, 0)}
  /\ UNCHANGED <<server, history>>

\* 401: the request is repeated with the credentials.
Challenged(s) ==
  /\ Msg("challenge", s, 0) \in net
  /\ IF cl[s].st = "asking" /\ cl[s].tries < Attempts
       THEN /\ cl' = [cl EXCEPT ![s].cred = TRUE, ![s].tries = @ + 1]
            /\ net' = (net \ {Msg("challenge", s, 0)}) \cup {Msg("signed", s, 0)}
       ELSE net' = net \ {Msg("challenge", s, 0)} /\ UNCHANGED cl
  /\ UNCHANGED <<client, server, history>>

\* A packet that belongs to nothing: the request is sent again.
Strays(s) ==
  /\ cl[s].st = "asking" /\ cl[s].tries < Attempts
  /\ cl' = [cl EXCEPT ![s].tries = @ + 1]
  /\ net' = net \cup {Msg(IF cl[s].cred THEN "signed" ELSE "allocate", s, 0)}
  /\ UNCHANGED <<client, server, history>>

\* Success starts the receive loop and the refresh loop, whose first tick is
\* immediate.
Allocated(s) ==
  \E p \in Port :
    /\ Msg("allocated", s, p) \in net
    /\ net' = net \ {Msg("allocated", s, p)}
    /\ cl' = IF cl[s].st = "asking" THEN [cl EXCEPT ![s].st = "ready", ![s].relay = p] ELSE cl
    /\ UNCHANGED <<client, server, history>>

\* 3 s without an answer, an error, or no round left.
GivesUp(s) ==
  /\ cl[s].st = "asking"
  /\ cl' = [cl EXCEPT ![s].st = "failed"]
  /\ client' = [client EXCEPT ![cl[s].owner] = 0]
  /\ net' = net \ {Msg("refused", s, 0)}
  /\ UNCHANGED <<server, history>>

\* create_permission for the relay the other session advertised.
AsksPermission(s) ==
  /\ cl[s].st = "ready"
  /\ \E e \in Session \ {cl[s].owner} :
       /\ client[e] # 0 /\ cl[client[e]].relay # 0
       /\ cl' = [cl EXCEPT ![s].st = "permit", ![s].peer = cl[client[e]].relay]
       /\ net' = net \cup {Msg("permission", s, cl[client[e]].relay)}
  /\ UNCHANGED <<client, server, history>>

\* The answer is read by this call or by the receive loop, which drops it; a
\* second without an answer counts as success.
Permitted(s) ==
  /\ cl[s].st = "permit"
  /\ \/ Msg("permitted", s, 0) \in net /\ net' = net \ {Msg("permitted", s, 0)}
     \/ net' = net \ {Msg("refused", s, 0)}
  /\ cl' = [cl EXCEPT ![s].st = "linked"]
  /\ UNCHANGED <<client, server, history>>

\* turn_data_plane takes the client: an error drops it; so does the end of
\* the stream, or a session that falls back to another path.  Its two loops
\* keep the socket.
Drops(s) ==
  /\ cl[s].st \in {"ready", "permit", "linked"}
  /\ cl' = [cl EXCEPT ![s].st = "gone"]
  /\ client' = [client EXCEPT ![cl[s].owner] = 0]
  /\ UNCHANGED <<server, net, history>>

LoopsRun(s) == cl[s].st \in {"ready", "permit", "linked", "gone"}

Refreshes(s) ==
  /\ LoopsRun(s) /\ cl[s].left = 0
  /\ cl' = [cl EXCEPT ![s].left = Interval]
  /\ net' = net \cup {Msg("refresh", s, 0)}
  /\ UNCHANGED <<client, server, history>>

Sends(s) ==
  /\ cl[s].st = "linked" /\ \A g \in got : g[2] # s   \* bound: until it got through once
  /\ net' = net \cup {Msg("send", s, cl[s].peer)}
  /\ UNCHANGED <<cl, client, server, history>>

\* Data that arrives: create_permission, which reads the same socket, drops
\* what it gets, the receive loop queues it.
Receives(s) ==
  /\ LoopsRun(s)
  /\ \E m \in net :
       /\ m.m = "data" /\ m.s = s
       /\ net' = net \ {m}
       /\ \/ cl[s].st = "permit" /\ UNCHANGED got
          \/ got' = got \cup {<<s, m.p[1], m.p[2]>>}
  /\ UNCHANGED <<cl, client, server, losses, missed>>

\* What nobody waits for: the receive loop drops it, a closed socket too.
Discards(s) ==
  /\ \E m \in net :
       /\ m.s = s
       /\ \/ m.m \in {"permitted", "refused"} /\ cl[s].st \notin {"asking", "permit"}
          \/ m.m = "data" /\ ~LoopsRun(s)
       /\ net' = net \ {m}
  /\ UNCHANGED <<cl, client, server, history>>

-----------------------------------------------------------------------------
(* The server: one datagram after the other                                *)

Replies(old, new) == net' = (net \ {old}) \cup new

\* Without credentials the answer is a challenge.
Challenges(s) ==
  /\ Msg("allocate", s, 0) \in net
  /\ Replies(Msg("allocate", s, 0), {Msg("challenge", s, 0)})
  /\ UNCHANGED <<cl, client, server, history>>

\* handle_allocate: a repeated request gets the relay it has.
Purged == [s \in Sockets |-> IF Live(s) THEN alloc[s] ELSE None]
NeverKnown(s) == FALSE
Known(s) == Purged[s] # None

HandleAllocate(s) ==
  /\ Msg("signed", s, 0) \in net
  /\ \/ /\ Known(s)
        /\ alloc' = Purged /\ UNCHANGED <<tasks, failed>>
        /\ Replies(Msg("signed", s, 0), {Msg("allocated", s, alloc[s].port)})
     \/ /\ ~Known(s)       \* 486: other clients hold 256, or 32 of this address
        /\ alloc' = Purged /\ UNCHANGED <<tasks, failed>>
        /\ Replies(Msg("signed", s, 0), {Msg("refused", s, 0)})
     \/ /\ ~Known(s)
        /\ \E p \in Port \ Bound :
             /\ \A q \in 1..(p - 1) : q \in Bound
             /\ alloc' = [Purged EXCEPT ![s] = [port |-> p, perms |-> {}, left |-> Lifetime]]
             /\ tasks' = tasks \cup {<<s, p>>} /\ failed' = failed \ {<<s, p>>}
             /\ Replies(Msg("signed", s, 0), {Msg("allocated", s, p)})
  /\ UNCHANGED <<cl, client, history>>

HandlePermission(s) ==
  \E p \in Port :
    /\ Msg("permission", s, p) \in net
    /\ \/ /\ ~OtherRelay(s, p) /\ UNCHANGED alloc
          /\ Replies(Msg("permission", s, p), {Msg("refused", s, 0)})
       \/ /\ OtherRelay(s, p) /\ Live(s)
          /\ alloc' = [alloc EXCEPT ![s].perms = @ \cup {p}]
          /\ Replies(Msg("permission", s, p), {Msg("permitted", s, 0)})
       \/ /\ OtherRelay(s, p) /\ ~Live(s) /\ UNCHANGED alloc
          /\ Replies(Msg("permission", s, p), {})
    /\ UNCHANGED <<cl, client, tasks, failed, history>>

\* handle_send: from the relay socket of the sender to the peer's, where nobody
\* reads it when the task of that relay is gone.
MaySend(s, p) == OtherRelay(s, p) /\ Live(s) /\ p \in alloc[s].perms
HasReader(p) == \E t \in tasks : t[2] = p
HandleSend(s) ==
  \E p \in Port :
    /\ Msg("send", s, p) \in net
    /\ Replies(Msg("send", s, p), IF MaySend(s, p) /\ HasReader(p)
                                THEN {Msg("relayed", p, <<s, alloc[s].port>>)} ELSE {})
    /\ UNCHANGED <<cl, client, server, history>>

HandleRefresh(s) ==
  /\ Msg("refresh", s, 0) \in net
  /\ Replies(Msg("refresh", s, 0), {})
  /\ alloc' = IF Live(s) THEN [alloc EXCEPT ![s].left = Lifetime] ELSE [alloc EXCEPT ![s] = None]
  /\ UNCHANGED <<cl, client, tasks, failed, history>>

\* A relay task hands on what a permitted peer sent to its port.
Current(t) == alloc[t[1]] # None /\ alloc[t[1]].port = t[2]
FromAnyone(t, p) == Live(t[1])
FromPermitted(t, p) == Live(t[1]) /\ p \in alloc[t[1]].perms
TaskReads(t) ==
  /\ t \in tasks /\ Current(t)
  /\ \E m \in net :
       /\ m.m = "relayed" /\ m.s = t[2]
       /\ Replies(m, IF FromPermitted(t, m.p[2]) THEN {Msg("data", t[1], m.p)} ELSE {})
  /\ UNCHANGED <<cl, client, server, history>>

\* The task ends when its allocation has expired or was replaced.
FirstExpiry(t) == Current(t) /\ alloc[t[1]].left = Lifetime
TaskLives(t) == Current(t) /\ Live(t[1])
TaskEnds(t) ==
  /\ t \in tasks /\ ~TaskLives(t)
  /\ tasks' = tasks \ {t}
  /\ net' = {m \in net : ~(m.m = "relayed" /\ m.s = t[2])}
  /\ UNCHANGED <<cl, client, alloc, failed, history>>

\* An error of the relay socket ends it too, and its allocation lives on: Windows
\* reports one there when an earlier datagram met a closed port (hole_punch.rs:69).
TaskFails(t) ==
  /\ t \in tasks
  /\ tasks' = tasks \ {t} /\ failed' = failed \cup {t}
  /\ net' = {m \in net : ~(m.m = "relayed" /\ m.s = t[2])}
  /\ UNCHANGED <<cl, client, alloc, history>>

\* The purge every 60 s.
Purge ==
  /\ alloc # Purged /\ alloc' = Purged
  /\ UNCHANGED <<cl, client, tasks, failed, net, history>>

-----------------------------------------------------------------------------
Lose ==
  /\ losses < MaxLosses /\ losses' = losses + 1
  /\ \E m \in net : net' = net \ {m} /\ missed' = (missed \/ m.m = "refresh")
  /\ UNCHANGED <<cl, client, server, got>>

\* A session that does without a client does so for a while: what is due in
\* seconds is done, 300 s pass.
Tick ==
  /\ net = {} /\ alloc = Purged /\ \A t \in tasks : TaskLives(t)
  /\ \A s \in Sockets : cl[s].st \notin {"asking", "permit"} /\ ~(LoopsRun(s) /\ cl[s].left = 0)
  /\ \E s \in Sockets : Live(s) \/ LoopsRun(s)
  /\ cl' = [s \in Sockets |-> IF LoopsRun(s) THEN [cl[s] EXCEPT !.left = @ - 1] ELSE cl[s]]
  /\ alloc' = [s \in Sockets |-> IF Live(s) THEN [alloc[s] EXCEPT !.left = @ - 1] ELSE alloc[s]]
  /\ UNCHANGED <<client, tasks, failed, net, history>>

Client(s) == \/ Challenged(s) \/ Strays(s) \/ Allocated(s) \/ GivesUp(s)
             \/ AsksPermission(s) \/ Permitted(s) \/ Drops(s) \/ Refreshes(s) \/ Sends(s)
             \/ Receives(s) \/ Discards(s)
Serves(s) == Challenges(s) \/ HandleAllocate(s) \/ HandlePermission(s) \/ HandleSend(s) \/ HandleRefresh(s)
Task == \E t \in Sockets \X Port : TaskReads(t) \/ TaskEnds(t) \/ TaskFails(t)

Next == \/ \E e \in Session : Opens(e)
        \/ \E s \in Sockets : Client(s) \/ Serves(s)
        \/ Task \/ Purge \/ Lose \/ Tick

Spec == Init /\ [][Next]_vars

-----------------------------------------------------------------------------
TypeOK ==
  /\ \A s \in Sockets : cl[s].st \in {"new", "asking", "failed", "ready", "permit", "linked", "gone"}
  /\ \A s \in Sockets : alloc[s] = None \/ alloc[s] \in Allocation
  /\ tasks \subseteq Sockets \X Port /\ client \in [Session -> 0..MaxSockets]

\* Data reaches a client only from the relay it named, and only after the
\* sender had named its relay in turn.
ConsentedOnly == \A g \in got : cl[g[1]].peer = g[3] /\ cl[g[2]].relay = g[3] /\ cl[g[2]].peer = cl[g[1]].relay

\* Of two live allocations none has the relay of the other, and a client
\* knows its own right, however often it asked.
RelayAgrees ==
  \A s \in Sockets : Live(s) /\ LoopsRun(s) =>
    alloc[s].port = cl[s].relay /\ \A c \in Sockets \ {s} : Live(c) => alloc[c].port # alloc[s].port

\* As long as no refresh is lost an allocation outlives any pause between two
\* refreshes: the client's interval and the server's lifetime fit.
StaysAllocated == ~missed => \A s \in Sockets : LoopsRun(s) => Live(s)

\* Every live allocation, refreshed ones too, has the task that reads its port, unless
\* an error of its socket ended that task: no other way out leaves it without one.
AllocationsServed == \A s \in Sockets : Live(s) => <<s, alloc[s].port>> \in tasks \cup failed

\* A session holds one allocation ("allocated once", commands.rs:1500).
AllocatedOnce ==
  \A e \in Session : Cardinality({s \in Sockets : cl[s].owner = e /\ LoopsRun(s) /\ Live(s)}) <= 1

\* Client and server agree on allocations, permissions and lifetimes.
TurnIsSound ==
  TypeOK /\ ConsentedOnly /\ RelayAgrees /\ AllocationsServed /\ StaysAllocated
=============================================================================
