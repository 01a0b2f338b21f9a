------------------------------- MODULE MCRelays -------------------------------
(* What is forwarded between two connections, in one run: frames of a permanent   *)
(* space, between its members, and those of a bridge tunnel.  In a behaviour the  *)
(* one that `part` names moves, the other rests.                                  *)
EXTENDS SpaceService, Tunnel

CONSTANTS d1, d2, c1, c2, r1

VARIABLE part

\* Two connections in a row: a chunk from the host on the first, one from the
\* guest on the second.
ThenOne == [guest |-> <<0, 1>>, host |-> <<1, 0>>]

\* When the host reads from within a frame nothing is claimed any more: of what comes
\* then, what programs and transport do is left out.
RelaysInit == part \in {"space", "tunnel"} /\ Init /\ BridgeInit
RelaysNext ==
    /\ UNCHANGED part
    /\ \/ part = "space" /\ Next /\ UNCHANGED bridgeVars
       \/ /\ part = "tunnel" /\ BridgeNext /\ UNCHANGED vars
          /\ torn => UNCHANGED <<lost, app>>
\* The fairness of SpaceService and of Tunnel, each while it is the part that moves.
Leasing == part = "space"
Bridging == part = "tunnel"
RelaysSpec ==
    /\ RelaysInit /\ [][RelaysNext]_<<part, vars, bridgeVars>>
    /\ WF_vars(Leasing /\ Revoke)
    /\ \A c \in Conns : /\ WF_vars(Leasing /\ RouteFrame(c))
                        /\ SF_vars(Leasing /\ Ask(c)) /\ SF_vars(Leasing /\ Answer(c))
    /\ WF_bridgeVars(Bridging /\ Tasks)

\* SpaceService: a connection that is no longer entitled is closed in the end.  The
\* connections are interchangeable; one stands for all.
StrangerIsDropped == DroppedInTheEnd(c1)
=============================================================================
