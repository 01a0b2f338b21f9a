------------------------------ MODULE NetHelper ------------------------------
(***************************************************************************)
(* The privileged network helper: helper/mod.rs, and the part of           *)
(* p2p/tun.rs that changes the system (devices, routes, forwarding).       *)
(*                                                                         *)
(* A client opens a virtual device over a local connection and owns it as  *)
(* long as the connection lasts.  Routes and forwarding are asked for on   *)
(* connections of their own, by the name of the session, and may be served *)
(* when the asker has given up or gone.  The end of a session is two steps *)
(* of its task: the lease is dropped under the lock of the session map,    *)
(* which takes back forwarding and routes; then the device is closed.  The *)
(* helper may crash: then the kernel closes its devices, and their routes  *)
(* go with them, but what it set by sysctl stays.                          *)
(*                                                                         *)
(* A client's connection is named for the client: it opens another when    *)
(* nothing is left of the last.  Packets, and what a device may carry, are *)
(* left out, and so are the steps only Windows and macOS need (firewall    *)
(* rules, subnet routes).                                                  *)
(***************************************************************************)
EXTENDS Naturals, FiniteSets

CONSTANTS
    Clients,        \* processes that open a device
    Role(_),        \* the device each of them opens
    Cidrs,          \* networks to route
    Admin           \* the administrator's own setting of forwarding

ASSUME ClientsAssumption == IsFiniteSet(Clients) /\ Admin \in BOOLEAN

VARIABLES
    client,         \* of a client: "idle", "asking", "up" or, if the helper refused, "refused"
    task,           \* the helper's task for its connection
    asked,          \* requests for a route, or for forwarding, not served yet
    sessions,       \* the helper's map: the clients that have a session
    routes,         \* of a client: the routes its session recorded
    forward,        \* clients whose session has forwarding on
    FORWARDING,     \* the reference count and the setting to restore
    kernel,         \* [devs, routes, fwd]: devices by their opener, <<role, cidr>>, the sysctl
    lost            \* a device failed, or the helper crashed

network == <<client, task, asked, sessions, routes, forward, FORWARDING, kernel, lost>>

Roles == {Role(c) : c \in Clients}
Wants == Cidrs \cup {"forward"}
NoForwarding == [count |-> 0, prior |-> FALSE]

NetInit ==
    /\ client = [c \in Clients |-> "idle"] /\ task = [c \in Clients |-> "none"]
    /\ asked = {} /\ sessions = {} /\ routes = [c \in Clients |-> {}] /\ forward = {}
    /\ FORWARDING = NoForwarding
    /\ kernel = [devs |-> {}, routes |-> {}, fwd |-> Admin]
    /\ lost = FALSE

-----------------------------------------------------------------------------
(* Clients *)

Unknown(c) == client[c] = "idle" /\ task[c] = "none" /\ \A q \in asked : q[1] # c

\* open: connect and ask.
Dial(c) ==
    /\ client[c] = "idle" /\ Unknown(c)
    /\ client' = [client EXCEPT ![c] = "asking"] /\ task' = [task EXCEPT ![c] = "asked"]
    /\ UNCHANGED <<asked, sessions, routes, forward, FORWARDING, kernel, lost>>

\* The answer comes, and the session is listed in CLIENT_SESSIONS.
Obtain(c) ==
    /\ client[c] = "asking" /\ task[c] = "serving"
    /\ client' = [client EXCEPT ![c] = "up"]
    /\ UNCHANGED <<task, asked, sessions, routes, forward, FORWARDING, kernel, lost>>

\* route, forward: asked for while the device is up; not waited for beyond ten seconds.
Ask(c, want) ==
    /\ client[c] = "up" /\ asked' = asked \cup {<<c, want>>}
    /\ UNCHANGED <<client, task, sessions, routes, forward, FORWARDING, kernel, lost>>

\* The client drops its device, ends, gives up waiting, or has been refused.
Leave(c) ==
    /\ client[c] # "idle" /\ client' = [client EXCEPT ![c] = "idle"]
    /\ UNCHANGED <<task, asked, sessions, routes, forward, FORWARDING, kernel, lost>>

-----------------------------------------------------------------------------
(* The helper *)

\* Open, under the lock of the map: the device may not be had while another has its
\* name, and what is made before a failure is undone.
RoleIsFree(c) == Cardinality(sessions) < 2 /\ \A s \in sessions : Role(s) # Role(c)
NameIsFree(c) == \A d \in kernel.devs : Role(d) # Role(c)
Open(c) ==
    /\ task[c] = "asked"
    /\ \/ /\ RoleIsFree(c) /\ NameIsFree(c)
          /\ sessions' = sessions \cup {c} /\ kernel' = [kernel EXCEPT !.devs = @ \cup {c}]
          /\ task' = [task EXCEPT ![c] = "serving"] /\ UNCHANGED client
       \/ /\ ~(RoleIsFree(c) /\ NameIsFree(c))
          /\ task' = [task EXCEPT ![c] = "none"]
          /\ client' = [client EXCEPT ![c] = IF @ = "asking" THEN "refused" ELSE @]
          /\ UNCHANGED <<sessions, kernel>>
    /\ UNCHANGED <<asked, routes, forward, FORWARDING, lost>>

\* enable_forward_local and release_forward_local
Enabled == IF FORWARDING.count = 0 THEN [count |-> 1, prior |-> kernel.fwd]
           ELSE [FORWARDING EXCEPT !.count = @ + 1]
Released(c) ==
    IF c \notin forward THEN FORWARDING
    ELSE IF FORWARDING.count = 1 THEN NoForwarding ELSE [FORWARDING EXCEPT !.count = @ - 1]
FwdAfterRelease(c) ==
    IF c \in forward /\ FORWARDING.count = 1 THEN FORWARDING.prior ELSE kernel.fwd

\* Route: a session that is gone, a route it has, or one the kernel has by another
\* device changes nothing.
AddRoute(q) ==
    /\ q \in asked /\ q[2] \in Cidrs /\ asked' = asked \ {q}
    /\ LET c == q[1]
           adds == c \in sessions /\ \A r \in Roles : <<r, q[2]>> \notin kernel.routes
       IN  /\ routes' = IF adds THEN [routes EXCEPT ![c] = @ \cup {q[2]}] ELSE routes
           /\ kernel' = IF adds THEN [kernel EXCEPT !.routes = @ \cup {<<Role(c), q[2]>>}] ELSE kernel
    /\ UNCHANGED <<client, task, sessions, forward, FORWARDING, lost>>

\* Forward: once for a session.  Mutant: counted at every request.
Again(c) == FALSE
Already(c) == c \in forward
AddForward(q) ==
    /\ q \in asked /\ q[2] = "forward" /\ asked' = asked \ {q}
    /\ LET adds == q[1] \in sessions /\ ~Already(q[1])
       IN  /\ FORWARDING' = IF adds THEN Enabled ELSE FORWARDING
           /\ kernel' = IF adds THEN [kernel EXCEPT !.fwd = TRUE] ELSE kernel
           /\ forward' = IF adds THEN forward \cup {q[1]} ELSE forward
    /\ UNCHANGED <<client, task, sessions, routes, lost>>

\* The loops of a session end: the client has gone, or the device fails.  The client
\* sees its connection close.
Unserve(c) ==
    /\ task[c] = "serving"
    /\ task' = [task EXCEPT ![c] = "closing"]
    /\ UNCHANGED <<client, asked, sessions, routes, forward, FORWARDING, kernel>>
NoticeLeft(c) == client[c] = "idle" /\ Unserve(c) /\ UNCHANGED lost
DeviceFails(c) == Unserve(c) /\ lost' = TRUE

\* Drop for Lease: the session leaves the map, and OwnedNetwork is dropped.
DropLease(c) ==
    /\ task[c] = "closing"
    /\ sessions' = sessions \ {c} /\ forward' = forward \ {c}
    /\ FORWARDING' = Released(c)
    /\ kernel' = [kernel EXCEPT !.fwd = FwdAfterRelease(c),
                                !.routes = @ \ {<<Role(c), r>> : r \in routes[c]}]
    /\ routes' = [routes EXCEPT ![c] = {}]
    /\ task' = [task EXCEPT ![c] = "closed"]
    /\ UNCHANGED <<client, asked, lost>>

\* The device is closed, and with it go the routes that lead to it.
DropDevice(c) ==
    /\ task[c] = "closed"
    /\ kernel' = [kernel EXCEPT !.devs = @ \ {c},
                                !.routes = {r \in @ : r[1] # Role(c)}]
    /\ task' = [task EXCEPT ![c] = "none"]
    /\ UNCHANGED <<client, asked, sessions, routes, forward, FORWARDING, lost>>

HelperCrash ==
    /\ lost' = TRUE
    /\ task' = [c \in Clients |-> "none"] /\ asked' = {}
    /\ client' = [c \in Clients |-> IF client[c] = "asking" THEN "refused" ELSE client[c]]
    /\ sessions' = {} /\ routes' = [c \in Clients |-> {}] /\ forward' = {}
    /\ FORWARDING' = NoForwarding
    /\ kernel' = [kernel EXCEPT !.devs = {}, !.routes = {}]

HelperStep(c) ==
    \/ Open(c) \/ NoticeLeft(c) \/ DropLease(c) \/ DropDevice(c)
=============================================================================
