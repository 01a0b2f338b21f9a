---------------------------- MODULE RoomSession ----------------------------
(***************************************************************************)
(* The reconnecting sessions of a room with one guest (host_session and    *)
(* guest_session of commands.rs): two loops that know of each other only   *)
(* through the room on the server and try, each by its own timers, a       *)
(* direct path, a TURN path and the TCP relay.  They have to be on the     *)
(* same path at the same time.                                             *)
(*                                                                         *)
(* Time is discrete: a tick is about 2.5 s, time does not pass while a     *)
(* step is due.  The polls of the room (0.5 s and 0.25 s) are immediate.   *)
(***************************************************************************)
EXTENDS Integers

CONSTANTS
  Punch,      \* PUNCH_WINDOW, 3 s
  MaxPunch,   \* MAX_PUNCH_PHASE, 12 s
  TurnWait,   \* 20 polls of 250 ms
  RelayWait,  \* the server drops a connection that waits for 15 s
  Dead,       \* a stream that never hears its peer ends after 15 s
  MaxDelay,   \* reconnect_delay: 1 to 4 s
  Retries,    \* --punch-retries
  Bound,      \* ticks within which the two must meet
  MaxBreaks,  \* bound: paths that break
  MaxFaults   \* bound: failed calls

Side == {"host", "guest"}
Other(s) == IF s = "host" THEN "guest" ELSE "host"

VARIABLES
  env,      \* NAT, forced relays and TURN service, fixed for a session
  phase,    \* where each loop is
  timer,    \* ticks until the phase of each loop times out
  cap,      \* ticks left of the longest punch phase
  joined,   \* the room has an address of the guest
  client,   \* turn_client of each side
  ad,       \* the TURN relay the room holds of each side
  to,       \* the relay each side's TURN stream sends to
  heard,    \* the host's direct stream points at the guest's present socket
  flags,    \* the guest's direct_broke, turn_broke, punch_exhausted, fails; late:
            \* its direct path is that of the final check
  breaks, faults,
  apart     \* ticks since the two were last on one path

vars == <<env, phase, timer, cap, joined, client, ad, to, heard, flags,
          breaks, faults, apart>>
link == <<client, ad, to>>
rare == <<breaks, faults>>

Phases == {"delay", "look", "punch", "turnwait", "turn", "relay", "direct", "ended"}
Relay == {"none", "live", "stale"}

TypeOK ==
  /\ phase \in [Side -> Phases]
  /\ timer \in [Side -> 0..(RelayWait + Dead)]
  /\ cap \in [Side -> 0..MaxPunch]
  /\ client \in [Side -> BOOLEAN]
  /\ ad \in [Side -> Relay] /\ to \in [Side -> Relay]
  /\ joined \in BOOLEAN /\ heard \in BOOLEAN
  /\ flags \in [direct_broke : BOOLEAN, turn_broke : BOOLEAN,
                exhausted : BOOLEAN, fails : 0..Retries, late : BOOLEAN]

Init ==
  /\ env \in [nat : {"open", "oneway", "closed"}, force : SUBSET Side,
              turn : SUBSET Side]
  /\ phase = [s \in Side |-> "delay"]
  /\ timer = [s \in Side |-> 0]
  /\ cap = [s \in Side |-> 0]
  /\ client = [s \in Side |-> FALSE]
  /\ ad = [s \in Side |-> "none"] /\ to = [s \in Side |-> "none"]
  /\ joined = FALSE /\ heard = FALSE
  /\ flags = [direct_broke |-> FALSE, turn_broke |-> FALSE,
              exhausted |-> FALSE, fails |-> 0, late |-> FALSE]
  /\ breaks = 0 /\ faults = 0 /\ apart = 0

Together ==
  \/ phase["host"] = "direct" /\ phase["guest"] = "direct" /\ heard
  \/ \A s \in Side : phase[s] = "turn" /\ to[s] = "live"
  \/ \A s \in Side : phase[s] = "relay"

Forced(s) == s \in env.force
NoPunch == Forced("guest") \/ flags.direct_broke \/ flags.exhausted

Enter(s, p, t) == phase' = [phase EXCEPT ![s] = p] /\ timer' = [timer EXCEPT ![s] = t]
StartOver(s) == \E d \in 1..MaxDelay : Enter(s, "delay", d)

\* The relay of a dropped client answers nobody.
Gone(s, f) == IF f[s] = "live" THEN [f EXCEPT ![s] = "stale"] ELSE f
DropClient(s) ==
  /\ client' = [client EXCEPT ![s] = FALSE]
  /\ ad' = Gone(s, ad) /\ to' = Gone(Other(s), to)

-----------------------------------------------------------------------------
(* One round up to the outcome of the punch phase                          *)

\* What a side hands to the relay branch when punching came to nothing.
WaitsForTurn(s, cl, fl) == cl /\ (s = "guest" => ~fl.turn_broke)
GiveUpPunch(s, cl, fl) ==
  IF WaitsForTurn(s, cl, fl) THEN Enter(s, "turnwait", TurnWait) ELSE Enter(s, "relay", RelayWait)

\* PunchOutcome::TimedOut at the guest; turn_broke is set behind the wait.
ProbesAgain == flags
Exhausts ==
  LET n == flags.fails + 1 IN
    IF Forced("guest") \/ flags.exhausted THEN flags
    ELSE [flags EXCEPT !.fails = n, !.exhausted = n >= Retries]
TryTurnAgain(s, fl) == fl
TurnTried(s, fl) == IF s = "guest" THEN [fl EXCEPT !.turn_broke = TRUE] ELSE fl
Settle(s, cl, fl) == IF WaitsForTurn(s, cl, fl) THEN fl ELSE TurnTried(s, fl)

\* An allocation is tried when there is none and may fail.
AllocateAnyway(s) == ~client[s] /\ s \in env.turn
MayAllocate(s) ==
  /\ ~client[s] /\ ~Forced(s) /\ s \in env.turn
  /\ s = "guest" => ~flags.direct_broke /\ ~flags.turn_broke

\* The new address restarts the other side's window, within its cap.
Restarted(s, t) ==
  IF phase[Other(s)] = "punch" /\ cap[Other(s)] > 0
    THEN [t EXCEPT ![Other(s)] = IF Punch < cap[Other(s)] THEN Punch ELSE cap[Other(s)]]
    ELSE t

\* refresh_room of the host, join_room of the guest.
RegisterIfSome(s, cl) ==
  /\ client' = [client EXCEPT ![s] = cl]
  /\ ad' = [ad EXCEPT ![s] = IF cl THEN "live" ELSE ad[s]]
  /\ to' = [to EXCEPT ![s] = "none"]
Register(s, cl) ==
  /\ client' = [client EXCEPT ![s] = cl]
  /\ ad' = [ad EXCEPT ![s] = IF cl THEN "live" ELSE "none"]
  /\ to' = [to EXCEPT ![s] = "none"]

Goes(s, p, t) ==
  /\ phase' = [phase EXCEPT ![s] = p]
  /\ timer' = Restarted(s, [timer EXCEPT ![s] = t])

GuestBegins ==
  /\ phase["guest"] = "delay" /\ timer["guest"] = 0
  /\ heard' = FALSE /\ joined' = TRUE
  /\ \E cl \in (IF MayAllocate("guest") THEN BOOLEAN ELSE {client["guest"]}) :
       /\ Register("guest", cl)
       /\ \/ /\ NoPunch
             /\ IF WaitsForTurn("guest", cl, flags) THEN Goes("guest", "turnwait", TurnWait)
                ELSE Goes("guest", "relay", RelayWait)
             /\ flags' = Settle("guest", cl, Exhausts) /\ UNCHANGED cap
          \/ /\ ~NoPunch
             /\ Goes("guest", "punch", Punch) /\ cap' = [cap EXCEPT !["guest"] = MaxPunch]
             /\ UNCHANGED flags
  /\ UNCHANGED <<env, rare, apart>>

HostBegins ==
  /\ phase["host"] = "delay" /\ timer["host"] = 0
  /\ heard' = FALSE
  /\ \E cl \in (IF MayAllocate("host") THEN BOOLEAN ELSE {client["host"]}) : Register("host", cl)
  /\ Goes("host", "look", 0)
  /\ UNCHANGED <<env, cap, joined, flags, rare, apart>>

\* host_punch_phase: the first guest opens the window, a forced host passes.
Appears ==
  /\ phase["host"] = "look" /\ joined
  /\ IF Forced("host") THEN GiveUpPunch("host", client["host"], flags) /\ UNCHANGED cap
     ELSE Enter("host", "punch", Punch) /\ cap' = [cap EXCEPT !["host"] = MaxPunch]
  /\ UNCHANGED <<env, joined, link, heard, flags, rare, apart>>

\* accept_direct_probe: a PUNCH convinces the host, its ACK the guest.
HostHears ==
  /\ phase["host"] = "punch" /\ phase["guest"] = "punch" /\ env.nat # "closed"
  /\ Enter("host", "direct", Dead)
  /\ heard' = TRUE
  /\ UNCHANGED <<env, cap, joined, link, flags, rare, apart>>

GuestHears ==
  /\ phase["host"] = "direct" /\ heard /\ phase["guest"] = "punch" /\ env.nat = "open"
  /\ Enter("guest", "direct", Dead)
  /\ UNCHANGED <<env, cap, joined, link, heard, flags, rare, apart>>

PunchFails(s) ==
  /\ phase[s] = "punch" /\ timer[s] = 0
  /\ LET fl == IF s = "guest" THEN Exhausts ELSE flags IN
       /\ GiveUpPunch(s, client[s], fl)
       /\ flags' = Settle(s, client[s], fl)
  /\ UNCHANGED <<env, cap, joined, link, heard, rare, apart>>

-----------------------------------------------------------------------------
(* TURN, relay and the end of a round                                      *)

FindsRelay(s) ==
  /\ phase[s] = "turnwait" /\ ad[Other(s)] # "none"
  /\ Enter(s, "turn", Dead)
  /\ to' = [to EXCEPT ![s] = ad[Other(s)]]
  /\ client' = [client EXCEPT ![s] = FALSE]
  /\ flags' = TurnTried(s, flags)
  /\ UNCHANGED <<env, cap, joined, ad, heard, rare, apart>>

NoRelay(s) ==
  /\ phase[s] = "turnwait" /\ timer[s] = 0 /\ ad[Other(s)] = "none"
  /\ Enter(s, "relay", RelayWait)
  /\ DropClient(s)
  /\ flags' = TurnTried(s, flags)
  /\ UNCHANGED <<env, cap, joined, heard, rare, apart>>

\* final_punch_check: only a guest that may still punch, as it enters the relay.
\* How this path ends is not remembered.
FinalCheck ==
  /\ phase["guest"] = "relay" /\ timer["guest"] = RelayWait
  /\ ~NoPunch /\ env.nat = "open" /\ heard /\ phase["host"] = "direct"
  /\ Enter("guest", "direct", Dead)
  /\ flags' = [flags EXCEPT !.late = TRUE]
  /\ UNCHANGED <<env, cap, joined, link, heard, rare, apart>>

\* A path without a peer ends by its time limit.
Ends(s) ==
  /\ phase[s] \in {"turn", "relay", "direct"} /\ timer[s] = 0 /\ ~Together
  /\ StartOver(s)
  /\ IF phase[s] = "turn" THEN ad' = Gone(s, ad) /\ to' = Gone(Other(s), to) ELSE UNCHANGED <<ad, to>>
  /\ flags' = IF s = "guest" /\ phase[s] = "direct"
                THEN [flags EXCEPT !.direct_broke = ~flags.late, !.late = FALSE] ELSE flags
  /\ UNCHANGED <<env, cap, joined, client, heard, rare, apart>>

\* A working path is closed by one side, or stops carrying data: the relay
\* ends both connections, a datagram stream falls silent for 3 s.
Break ==
  /\ Together /\ breaks < MaxBreaks
  /\ breaks' = breaks + 1
  /\ heard' = FALSE
  /\ \/ /\ phase["host"] = "relay"
        /\ phase' = [s \in Side |-> "delay"]
        /\ timer' \in [Side -> 1..MaxDelay]
        /\ UNCHANGED <<to, flags>>
     \/ /\ phase["host"] # "relay"
        /\ timer' \in [Side -> 1..2] /\ UNCHANGED phase
        /\ to' = [s \in Side |-> "stale"] /\ UNCHANGED flags
     \/ \* closed with a goodbye: the stream of the guest ends without an error
        /\ phase["host"] = "direct"
        /\ phase' = [phase EXCEPT !["guest"] = "delay"]
        /\ \E d \in 1..MaxDelay : timer' = [timer EXCEPT !["guest"] = d, !["host"] = 1]
        /\ flags' = [flags EXCEPT !.direct_broke = FALSE, !.late = FALSE]
        /\ UNCHANGED to
  /\ UNCHANGED <<env, cap, joined, client, ad, faults, apart>>

-----------------------------------------------------------------------------
(* Calls that fail: a loop starts over, takes the next path, or ends       *)

Fault == faults < MaxFaults /\ faults' = faults + 1

\* get_room or join_room; a relay allocated for the round is kept.
QueryFails ==
  /\ Fault /\ phase["guest"] = "delay" /\ timer["guest"] = 0
  /\ StartOver("guest")
  /\ \E cl \in (IF MayAllocate("guest") THEN BOOLEAN ELSE {client["guest"]}) :
       client' = [client EXCEPT !["guest"] = cl]
  /\ UNCHANGED <<env, cap, joined, ad, to, heard, flags, breaks, apart>>

\* What ends the session: no socket; at the host any error of refresh_room; at
\* the guest a room that is not there, or that refuses it.
SessionEnds(s) ==
  /\ Fault /\ phase[s] = "delay" /\ timer[s] = 0
  /\ Enter(s, "ended", 0) /\ DropClient(s)
  /\ UNCHANGED <<env, cap, joined, heard, flags, breaks, apart>>

SocketFails(s) ==
  /\ Fault /\ phase[s] = "punch"
  /\ StartOver(s)
  /\ UNCHANGED <<env, cap, joined, link, heard, flags, breaks, apart>>

PermissionFails(s) ==
  /\ Fault /\ phase[s] = "turn" /\ timer[s] = Dead /\ ~Together
  /\ Enter(s, "relay", RelayWait)
  /\ ad' = Gone(s, ad) /\ to' = Gone(Other(s), to)
  /\ UNCHANGED <<env, cap, joined, client, heard, flags, breaks, apart>>

RelayFails(s) ==
  /\ Fault /\ phase[s] = "relay" /\ timer[s] = RelayWait /\ ~Together
  /\ StartOver(s)
  /\ UNCHANGED <<env, cap, joined, link, heard, flags, breaks, apart>>

-----------------------------------------------------------------------------
Counts(s) == phase[s] \notin {"look", "ended"} /\ ~(Together /\ phase[s] \in {"turn", "relay", "direct"})
Due == \E s \in Side :
         \/ Counts(s) /\ timer[s] = 0
         \/ s = "host" /\ phase[s] = "look" /\ joined
         \/ phase[s] = "turnwait" /\ ad[Other(s)] # "none"

Tick ==
  /\ ~Due /\ ~Together
  /\ timer' = [s \in Side |-> IF Counts(s) THEN timer[s] - 1 ELSE timer[s]]
  /\ cap' = [s \in Side |-> IF cap[s] > 0 /\ phase[s] = "punch" THEN cap[s] - 1 ELSE 0]
  /\ apart' = IF apart > Bound THEN apart ELSE apart + 1
  /\ UNCHANGED <<env, phase, joined, link, heard, flags, rare>>

Reset == /\ Together /\ apart # 0 /\ apart' = 0
         /\ UNCHANGED <<env, phase, timer, cap, joined, link, heard, flags, rare>>

Loop(s) == PunchFails(s) \/ FindsRelay(s) \/ NoRelay(s) \/ Ends(s)
FaultOf(s) == SessionEnds(s) \/ SocketFails(s) \/ PermissionFails(s) \/ RelayFails(s)
Next == \/ GuestBegins \/ HostBegins \/ Appears \/ HostHears \/ GuestHears \/ FinalCheck
        \/ \E s \in Side : Loop(s) \/ FaultOf(s)
        \/ QueryFails \/ Break \/ Tick \/ Reset

\* Clocks and loops run on.
Fairness == WF_vars(Next)
Spec == Init /\ [][Next]_vars /\ Fairness
-----------------------------------------------------------------------------
\* Whatever the two tried, and however often a path broke, they are back on
\* one path within Bound ticks: the timers of the two loops cannot keep
\* missing each other (relay wait and longest cycle of the other side).  A
\* session that ended meets nobody.
MeetsSoon == apart <= Bound \/ \E s \in Side : phase[s] = "ended"

\* A side that was told to use the relay is never on another path, nor does
\* it lead its peer to take one for good.
ForcedStaysRelayed ==
  /\ \A s \in env.force : phase[s] \notin {"direct", "turn", "punch"} /\ ad[s] = "none"
  /\ Together /\ env.force # {} => \A s \in Side : phase[s] = "relay"

\* The two loops find each other, and on a path both may use.
SessionIsSound == TypeOK /\ ForcedStaysRelayed /\ MeetsSoon
=============================================================================
