----------------------------- MODULE MCMachines -----------------------------
(* Machines and their network devices, in one run: an agent with its helper, and  *)
(* the packets that go between the devices.  In a behaviour the one that `part`   *)
(* names moves, the other rests.                                                  *)
EXTENDS PacketPlane, Node, TLC

CONSTANTS g, h, lan, w1, w2, fore, j0, j1

VARIABLES part

\* Heartbeats with one guest, failures of the other.
Beats == [p \in {g, h} \X {"guest", "host"} |->
             IF p[1] = h THEN 0 ELSE IF p[2] = "guest" THEN 2 ELSE 1]
\* Two guests that expose the same network, one of them also a wider one in which the
\* other guest is.
Networks == g :> {{lan}, {lan, h}} @@ h :> {{lan}}
OnePacket == g :> 1 @@ h :> 0 @@ Host :> 0

\* Two workers, of which one may still be ending when the other begins; and two
\* sessions in the foreground, a host's and a guest's.
RoleOf(c) == IF c = g THEN "frp1" ELSE "frp0"

MachinesInit ==
    /\ Init /\ NodeInit
    /\ \/ part = "packets" /\ job = j0 /\ here = {fore, g}
       \/ part = "node"
MachinesNext ==
    /\ UNCHANGED part
    /\ \/ part = "packets" /\ Next /\ UNCHANGED nodeVars
       \/ part = "node" /\ NodeNext /\ UNCHANGED vars
\* The fairness of PacketPlane and of Node, each while it is the part that moves.
Routing == part = "packets"
Working == part = "node"
MachinesSpec ==
    /\ MachinesInit /\ [][MachinesNext]_<<part, vars, nodeVars>>
    /\ WF_vars(Routing /\ Dispatch)
    /\ \A p \in Guest :
          /\ WF_vars(Routing /\ GuestTask(p)) /\ WF_vars(Routing /\ Reader(p))
          /\ WF_vars(Routing /\ Writer(p)) /\ WF_vars(Routing /\ LinkFails(p))
          /\ WF_vars(Routing /\ Unregister(p))
    /\ WF_nodeVars(Working /\ Supervises) /\ WF_nodeVars(Working /\ Waits)
    /\ WF_nodeVars(Working /\ Serves)
    /\ \A w \in Workers : /\ WF_nodeVars(Working /\ WorkerObeys(w))
                          /\ WF_nodeVars(Working /\ (WorkerGivesUp(w) \/ Connects(w)))
    /\ \A c \in Clients : WF_nodeVars(Working /\ Helps(c))
=============================================================================
