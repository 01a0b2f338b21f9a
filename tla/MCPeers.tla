------------------------------- MODULE MCPeers -------------------------------
(* Links between peers, in one run: those of a mesh host, and the keyed datagrams *)
(* under them.  In a behaviour the one that `part` names moves, the other rests.  *)
(* Of the keyed ends both send, and a stream is replaced while it works; on a      *)
(* prompt network streams die of silence besides.                                 *)
EXTENDS HostMesh, SecureLink

VARIABLE part

PeersInit ==
    /\ Init /\ LinkInit
    /\ \/ part = "mesh" /\ ~prompt
       \/ part = "link" /\ ~forceRelay /\ ~turnClient
PeersNext ==
    /\ UNCHANGED part
    /\ \/ part = "mesh" /\ Next /\ UNCHANGED linkVars
       \/ part = "link" /\ LinkNext /\ UNCHANGED vars
\* The fairness of HostMesh and of SecureLink, each while it is the part that moves.
Meshing == part = "mesh"
Speaking == part = "link"
PeersSpec ==
    /\ PeersInit /\ [][PeersNext]_<<part, vars, linkVars>>
    /\ WF_vars(Meshing /\ Poll)
    /\ \A u \in Guests :
          /\ WF_vars(Meshing /\ WindowEnds(u)) /\ WF_vars(Meshing /\ SpawnRelay(u))
          /\ WF_vars(Meshing /\ TurnLink(u)) /\ WF_vars(Meshing /\ Death(u))
          /\ SF_vars(Meshing /\ RelayPaired(u)) /\ WF_vars(Meshing /\ RelayEnds(u))
    /\ \A e \in Ends :
          /\ WF_linkVars(Speaking /\ DiesOfSilence(e)) /\ WF_linkVars(Speaking /\ Greet(e))
          /\ SF_linkVars(Speaking /\ Greeted(e)) /\ SF_linkVars(Speaking /\ Echoed(e))
=============================================================================
