----------------------------- MODULE MCRoomPaths -----------------------------
(* The paths between a host and a guest, in one run: the relays of the TURN       *)
(* server, and the loops that look for a path.  In a behaviour the one that       *)
(* `part` names moves, the other rests.  A datagram is lost, or a relay task fails. *)
EXTENDS TurnRelay, TLC

CONSTANTS h, g

VARIABLES part,
    env, phase, timer, cap, joined, holds, ad, to, heard, flags, breaks, faults, apart

session == <<env, phase, timer, cap, joined, holds, ad, to, heard, flags, breaks, faults, apart>>

\* The timers scaled to ticks of about two seconds, one path that breaks, one failed call.
Loops == INSTANCE RoomSession WITH
    Punch <- 1, MaxPunch <- 4, TurnWait <- 2, RelayWait <- 6, Dead <- 6, MaxDelay <- 2,
    Retries <- 2, Bound <- 32, MaxBreaks <- 1, MaxFaults <- 1, client <- holds

Alike == Permutations(Session)

PathsInit ==
    /\ Init /\ Loops!Init
    /\ \/ part = "turn" /\ env = [nat |-> "open", force |-> {}, turn |-> {}]
       \/ part = "loops"
PathsNext ==
    /\ UNCHANGED part
    /\ \/ part = "turn" /\ Next /\ losses' + Cardinality(failed') <= 1 /\ UNCHANGED session
       \/ part = "loops" /\ Loops!Next /\ UNCHANGED vars
PathsSpec == PathsInit /\ [][PathsNext]_<<part, vars, session>>

\* RoomSession: the two loops find each other, on a path both may use.
SessionIsSound == Loops!SessionIsSound
=============================================================================
