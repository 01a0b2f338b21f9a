----------------------------- MODULE MCServices -----------------------------
(* The services of a room, in one run: the frames of one session, and the        *)
(* catalogue that the host's sessions serve.  In a behaviour the one that `part` *)
(* names moves, the other rests.                                                 *)
EXTENDS ServiceMux, ServiceRoom

CONSTANTS s1, m1, c1

VARIABLES part

\* The guest's application writes two chunks, of which one fits into a channel, the
\* host's none.
GuestTalks == [guest |-> 2, host |-> 0]

\* A bound: the heartbeat beats until the second chunk, and beside TCP only.
BeatsEarly ==
    loop'["guest"] = PING /\ loop["guest"] # PING =>
        \A id \in Ids : app["guest"][id].sent <= 1 /\ udp[id] = Nothing

ServicesInit == part \in {"mux", "room"} /\ MuxInit /\ RoomInit
ServicesNext ==
    /\ UNCHANGED part
    /\ \/ part = "mux" /\ MuxNext /\ BeatsEarly /\ UNCHANGED roomVars
       \/ part = "room" /\ RoomNext /\ UNCHANGED muxVars
\* The fairness of ServiceMux and of ServiceRoom, each while it is the part that moves.
Carrying == part = "mux"
Serving == part = "room"
ServicesSpec ==
    /\ ServicesInit /\ [][ServicesNext]_<<part, muxVars, roomVars>>
    /\ \A e \in Ends :
          /\ WF_muxVars(Carrying /\ (LoopSends(e) \/ LoopGivesUp(e)))
          /\ WF_muxVars(Carrying /\ (Receive(e) \/ Expires(e) \/ TransportEnds(e)))
          /\ \A id \in Ids : WF_muxVars(Carrying /\ TaskRuns(e, id))
    /\ WF_roomVars(Serving /\ HostTick)
    /\ \A c \in Commands : WF_roomVars(Serving /\ CommandSaves(c))
    /\ \A g \in Members :
          /\ WF_roomVars(Serving /\ Fetch(g)) /\ WF_roomVars(Serving /\ JoinRoom(g))
          /\ WF_roomVars(Serving /\ AttemptEnds(g) /\ member[g].pw # token)
    /\ \A j \in Jobs : /\ SF_roomVars(Serving /\ JobRead(j))
                       /\ WF_roomVars(Serving /\ JobEnds(j) /\ jobs[j].pw # token)
=============================================================================
