--------------------------- MODULE DomainIngress ---------------------------
(***************************************************************************)
(* Custom domains (domains/server.rs, storage.rs, client.rs): one domain,  *)
(* the devices that bind, verify and unbind it, the publishers that serve  *)
(* it over a WebSocket each, and the public requests sent through them.    *)
(*                                                                         *)
(* Every call of the database is one transaction of its worker thread; an  *)
(* operation is the calls and locks of its handler in their order, with    *)
(* anything of the others in between.  Expiry may happen at any time.      *)
(***************************************************************************)
EXTENDS Naturals, Sequences, FiniteSets

CONSTANTS
  Device,      \* devices that claim the domain
  Request,     \* public requests
  Absent,      \* no row, no device
  QueueCap,    \* dispatches that wait for a publisher's loop (32)
  MaxBinds,    \* bound: bind operations
  MaxSockets,  \* bound: publisher sessions
  MaxCuts      \* bound: connections of publishers that break

ASSUME DomainAssumption == MaxBinds \in Nat /\ MaxSockets \in Nat

Sockets == 1..MaxSockets

VARIABLES
  bind,      \* row of the domain: owner, token, fresh, verified; or Absent
  tokens,    \* verification tokens issued so far
  zone,      \* tokens the zone of the domain shows, or showed
  op,        \* operation each device has under way
  sock,      \* publisher sessions, from token to end of the socket
  publisher, \* the registered session of the domain, or Absent
  req,       \* public requests
  cuts

domainVars == <<bind, tokens, zone, op, sock, publisher, req, cuts>>
table == <<bind, tokens>>
serving == <<sock, publisher, req, cuts>>

Idle == "idle"
Ended(r, st) == [st |-> st, owner |-> Absent, pub |-> req[r].pub, seen |-> {}]
NoSocket == [st |-> "none", owner |-> Absent, under |-> FALSE, queue |-> <<>>,
             pending |-> {}, cut |-> FALSE]
NewRequest == [st |-> "new", owner |-> Absent, pub |-> 0, seen |-> {}]

DomainInit ==
  /\ bind = Absent /\ tokens = 0 /\ zone = {}
  /\ op = [d \in Device |-> Idle]
  /\ sock = [s \in Sockets |-> NoSocket]
  /\ publisher = 0
  /\ req = [r \in Request |-> NewRequest]
  /\ cuts = 0

OwnedBy(d) == bind # Absent /\ bind.owner = d
Rests(d) == op' = [op EXCEPT ![d] = Idle]

-----------------------------------------------------------------------------
(* The operations of a device                                              *)

\* begin: another device's row refuses, the own row starts over unverified.
Bind(d) ==
  /\ op[d] = Idle /\ tokens < MaxBinds
  /\ bind = Absent \/ OwnedBy(d)
  /\ tokens' = tokens + 1
  /\ bind' = [owner |-> d, token |-> tokens', fresh |-> TRUE, verified |-> FALSE]
  /\ UNCHANGED <<op, zone, serving>>

\* The verification name of the row is read, then the resolvers are asked.
VerifyBegins(d) ==
  /\ op[d] = Idle /\ OwnedBy(d) /\ ~bind.verified
  /\ op' = [op EXCEPT ![d] = "asking"]
  /\ UNCHANGED <<table, zone, serving>>

AnyRecord(d, records) == OwnedBy(d) /\ bind.fresh /\ records # {}
\* The resolvers answered with some records of the zone, old ones included.
Proves(d, records) == OwnedBy(d) /\ bind.fresh /\ bind.token \in records

VerifyCommits(d) ==
  /\ op[d] = "asking"
  /\ Rests(d)
  /\ \E records \in SUBSET zone :
       IF Proves(d, records)
         THEN /\ bind' = [bind EXCEPT !.verified = TRUE, !.fresh = FALSE]
              /\ req' = [r \in Request |-> IF req[r].st \in {"arrived", "looked", "found", "waiting"}
                                              THEN [req[r] EXCEPT !.seen = @ \cup {d}] ELSE req[r]]
         ELSE UNCHANGED <<bind, req>>
  /\ UNCHANGED <<tokens, zone, sock, publisher, cuts>>

\* remove of the row, and then of whatever publisher the domain has.
UnbindRemoves(d) ==
  /\ op[d] = Idle /\ OwnedBy(d)
  /\ bind' = Absent
  /\ op' = [op EXCEPT ![d] = "removed"]
  /\ sock' = [s \in Sockets |-> [sock[s] EXCEPT !.under = FALSE]]
  /\ UNCHANGED <<tokens, zone, publisher, req, cuts>>

UnbindForgets(d) ==
  /\ op[d] = "removed"
  /\ publisher' = 0
  /\ Rests(d)
  /\ UNCHANGED <<table, zone, sock, req, cuts>>

\* issue_session checks the row first and files the session afterwards.
OpenChecks(d) ==
  /\ op[d] = Idle /\ OwnedBy(d) /\ bind.verified
  /\ \E s \in Sockets : sock[s].st = "none"
  /\ op' = [op EXCEPT ![d] = "checked"]
  /\ UNCHANGED <<table, zone, serving>>

OpenIssues(d) ==
  /\ op[d] = "checked"
  /\ Rests(d)
  /\ \/ \E s \in Sockets :
          /\ sock[s].st = "none" /\ \A i \in 1..(s - 1) : sock[i].st # "none"
          /\ sock' = [sock EXCEPT ![s].st = "token", ![s].owner = d]
     \/ UNCHANGED sock       \* the limit of 1024 sessions
  /\ UNCHANGED <<table, zone, publisher, req, cuts>>

TokenExpires ==
  /\ bind # Absent /\ bind.fresh
  /\ bind' = [bind EXCEPT !.fresh = FALSE]
  /\ UNCHANGED <<tokens, zone, op, serving>>

\* The zone of the domain: its holder shows the record of some device.
ShowRecord ==
  /\ \E t \in 1..tokens : t \notin zone /\ zone' = zone \cup {t}
  /\ UNCHANGED <<table, op, serving>>

-----------------------------------------------------------------------------
(* Publishers                                                              *)

SocketAt(s, st) == sock' = [sock EXCEPT ![s].st = st]

SessionExpires(s) ==
  /\ sock[s].st = "token"
  /\ SocketAt(s, "done")
  /\ UNCHANGED <<table, zone, op, publisher, req, cuts>>

\* upgrade consumes the token; the row is not looked at again.
Upgrade(s) ==
  /\ sock[s].st = "token"
  /\ SocketAt(s, "starting")
  /\ UNCHANGED <<table, zone, op, publisher, req, cuts>>

Registers(s) ==
  /\ sock[s].st = "starting"
  /\ sock' = [sock EXCEPT ![s].st = "open", ![s].under = OwnedBy(sock[s].owner)]
  /\ publisher' = s
  /\ UNCHANGED <<table, zone, op, req, cuts>>

Serving(s) == sock[s].st \in {"open", "sending"}

\* The loop takes a dispatch and writes it to the device.  It does nothing else
\* meanwhile, and nothing limits how long a device that does not read holds it up ...
Dispatches(s) ==
  /\ sock[s].st = "open" /\ ~sock[s].cut /\ sock[s].queue # <<>>
  /\ sock' = [sock EXCEPT ![s].st = "sending", ![s].queue = Tail(@),
                          ![s].pending = @ \cup {Head(sock[s].queue)}]
  /\ UNCHANGED <<table, zone, op, publisher, req, cuts>>

Sent(s) ==
  /\ sock[s].st = "sending" /\ ~sock[s].cut
  /\ SocketAt(s, "open")
  /\ UNCHANGED <<table, zone, op, publisher, req, cuts>>

\* ... and its answer, in any order, to the request if that still waits.
Answers(s) ==
  /\ sock[s].st = "open" /\ ~sock[s].cut
  /\ \E r \in sock[s].pending :
       /\ sock' = [sock EXCEPT ![s].pending = @ \ {r}]
       /\ req' = IF req[r].st = "waiting" THEN [req EXCEPT ![r] = Ended(r, "answered")] ELSE req
  /\ UNCHANGED <<table, zone, op, publisher, cuts>>

\* The connection breaks, or the device closes it or sends what is no answer.
Breaks(s) ==
  /\ Serving(s) /\ ~sock[s].cut /\ cuts < MaxCuts
  /\ sock' = [sock EXCEPT ![s].cut = TRUE]
  /\ cuts' = cuts + 1
  /\ UNCHANGED <<table, zone, op, publisher, req>>

\* Requests hold a clone of the sender until they are answered or given up.
HoldsUntilSent(s) == {r \in Request : req[r].pub = s /\ req[r].st = "found"}
HoldsForEver(s) == {r \in Request : req[r].pub = s}
Holders(s) == {r \in Request : req[r].pub = s /\ req[r].st \in {"found", "waiting"}}

LoopEnds(s) ==
  /\ Serving(s)
  /\ \/ sock[s].cut
     \/ sock[s].st = "open" /\ publisher # s /\ sock[s].queue = <<>> /\ Holders(s) = {}
  /\ SocketAt(s, "closing")
  /\ UNCHANGED <<table, zone, op, publisher, req, cuts>>

\* The entry goes only if it is this socket's; what is pending is dropped.
Forgets(s) == IF publisher = s THEN 0 ELSE publisher
SocketEnds(s) ==
  /\ sock[s].st = "closing"
  /\ sock' = [sock EXCEPT ![s].st = "done", ![s].queue = <<>>, ![s].pending = {}, ![s].under = FALSE]
  /\ publisher' = Forgets(s)
  /\ LET dropped == sock[s].pending \cup {sock[s].queue[i] : i \in DOMAIN sock[s].queue} IN
       req' = [r \in Request |-> IF r \in dropped /\ req[r].st = "waiting"
                                   THEN Ended(r, "lost") ELSE req[r]]
  /\ UNCHANGED <<table, zone, op, cuts>>

-----------------------------------------------------------------------------
(* Public requests                                                         *)

Arrive(r) ==
  /\ req[r].st = "new"
  /\ req' = [req EXCEPT ![r].st = "arrived",
               ![r].seen = IF bind # Absent /\ bind.verified THEN {bind.owner} ELSE {}]
  /\ UNCHANGED <<table, zone, op, sock, publisher, cuts>>

Looks(r) ==
  /\ req[r].st = "arrived"
  /\ req' = IF bind # Absent /\ bind.verified
              THEN [req EXCEPT ![r].st = "looked", ![r].owner = bind.owner]
              ELSE [req EXCEPT ![r] = Ended(r, "refused")]
  /\ UNCHANGED <<table, zone, op, sock, publisher, cuts>>

AnyPublisher(r) == publisher # 0
Eligible(r) == publisher # 0 /\ sock[publisher].owner = req[r].owner

Finds(r) ==
  /\ req[r].st = "looked"
  /\ req' = IF Eligible(r) THEN [req EXCEPT ![r].st = "found", ![r].pub = publisher, ![r].owner = Absent]
                           ELSE [req EXCEPT ![r] = Ended(r, "refused")]
  /\ UNCHANGED <<table, zone, op, sock, publisher, cuts>>

\* The body has been read, which may take a slow client any time; then try_send: a
\* full queue and a loop that is gone are both "busy".
Sends(r) ==
  /\ req[r].st = "found"
  /\ LET s == req[r].pub IN
       IF sock[s].st # "done" /\ Len(sock[s].queue) < QueueCap
         THEN /\ sock' = [sock EXCEPT ![s].queue = Append(@, r)]
              /\ req' = [req EXCEPT ![r].st = "waiting"]
         ELSE req' = [req EXCEPT ![r] = Ended(r, "refused")] /\ UNCHANGED sock
  /\ UNCHANGED <<table, zone, op, publisher, cuts>>

\* The request is not allowed, its body is too large, or its client has gone.
GivesUp(r) ==
  /\ req[r].st = "found"
  /\ req' = [req EXCEPT ![r] = Ended(r, "refused")]
  /\ UNCHANGED <<table, zone, op, sock, publisher, cuts>>

RequestTimesOut(r) ==
  /\ req[r].st = "waiting"
  /\ req' = [req EXCEPT ![r] = Ended(r, "timeout")]
  /\ UNCHANGED <<table, zone, op, sock, publisher, cuts>>

-----------------------------------------------------------------------------
Operation(d) == \/ VerifyBegins(d) \/ VerifyCommits(d) \/ Bind(d)
                \/ UnbindRemoves(d) \/ UnbindForgets(d) \/ OpenChecks(d) \/ OpenIssues(d)
Loop(s) == Registers(s) \/ Dispatches(s) \/ LoopEnds(s) \/ SocketEnds(s)
Partner(s) == Sent(s) \/ Answers(s)
Serve(r) == Looks(r) \/ Finds(r) \/ RequestTimesOut(r)
Client(r) == Arrive(r) \/ Sends(r) \/ GivesUp(r)

DomainNext ==
  \/ \E d \in Device : Operation(d)
  \/ TokenExpires \/ ShowRecord
  \/ \E s \in Sockets : SessionExpires(s) \/ Upgrade(s) \/ Breaks(s) \/ Loop(s) \/ Partner(s)
  \/ \E r \in Request : Client(r) \/ Serve(r)

\* The tasks of the server run on and a waiting request times out.  Nothing is
\* assumed of those on the other side of a connection: neither that a device reads
\* and answers, nor that a client sends the body of its request.
DomainFairness == /\ \A s \in Sockets : WF_domainVars(Loop(s))
            /\ \A r \in Request : WF_domainVars(Serve(r))
DomainSpec == DomainInit /\ [][DomainNext]_domainVars /\ DomainFairness

-----------------------------------------------------------------------------
DomainTypeOK ==
  /\ tokens \in 0..MaxBinds /\ zone \subseteq 1..MaxBinds
  /\ bind = Absent \/ bind \in [owner : Device, token : 1..MaxBinds, fresh : BOOLEAN, verified : BOOLEAN]
  /\ publisher \in 0..MaxSockets
  /\ \A s \in Sockets : sock[s].st \in {"none", "token", "starting", "open", "sending", "closing", "done"}

\* A domain is verified only for a device whose own record the zone showed
\* after this very bind, whatever binds, unbinds and DNS answers overlap.
VerifiedWasProved == bind # Absent /\ bind.verified => bind.token \in zone

\* A request that waits for a publisher waits for one of a device that held
\* the verified domain while the request was under way: never for one whose
\* domain had gone to another device before the request came.
ServedByAnOwner ==
  \A r \in Request : req[r].st \in {"found", "waiting"} => sock[req[r].pub].owner \in req[r].seen

\* Replacing or unbinding a publisher does not break the requests it has:
\* they are lost only with the connection of its device.
DrainsBeforeClosing == \A r \in Request : req[r].st = "lost" => sock[req[r].pub].cut

\* A publisher that is no longer registered is closed in the end, once the requests it
\* has are answered or given up; only a client that never sends the body of its request,
\* or a device that reads no more, can keep it.
HeldByClient(s, r) == req[r].st = "found" /\ req[r].pub = s
WithdrawnEnd == \A s \in Sockets :
  Serving(s) /\ publisher # s ~>
     \/ sock[s].st = "done"
     \/ [](sock[s].st = "sending")
     \/ \E r \in Request : []HeldByClient(s, r)

\* The gateway finds the online publisher of the verified domain
\* (docs/src/domain.md:3): the only publisher of the owner, connected under
\* the present binding, is the registered one.
OnlineIsFound ==
  \A s \in Sockets :
    /\ Serving(s) /\ ~sock[s].cut
    /\ bind # Absent /\ bind.verified /\ sock[s].owner = bind.owner /\ sock[s].under
    /\ \A i \in Sockets \ {s} : sock[i].owner # bind.owner
    => publisher = s

\* A public request meets only the device that proved the domain, and is drained there.
IngressIsSound == DomainTypeOK /\ VerifiedWasProved /\ ServedByAnOwner /\ DrainsBeforeClosing
=============================================================================
