-------------------------------- MODULE Node --------------------------------
(***************************************************************************)
(* A machine: the supervising agent with its workers, and the network      *)
(* helper they take their device from; or one on which sessions run in the *)
(* foreground only, who also ask for routes and forwarding (a worker does  *)
(* that no differently, and is not made to).  The worker hosts a virtual   *)
(* LAN: it opens its device once, ends when that is refused, and is not    *)
(* told of the device's end (run_mesh_host spawns the data plane and does  *)
(* not join it).                                                           *)
(***************************************************************************)
EXTENDS Supervisor, NetHelper

CONSTANTS
    Machines,       \* the processes that may run on one machine
    MaxFaults,      \* bound: processes that fail or are stopped, devices that fail
    MaxAsked        \* bound: requests for routes and forwarding at a time

ASSUME MachinesAssumption == Workers \subseteq Clients /\ MaxFaults \in Nat

VARIABLES faults, here

machine == <<faults, here>>
nodeVars == <<supervision, network, machine>>

\* A machine without workers has no agent either.
Supervised == here \cap Workers # {}
Foreground == here \ Workers
NodeInit ==
    /\ here \in Machines
    /\ SupInit /\ NetInit /\ faults = 0
    /\ ~Supervised => job \in Off
Fault == faults < MaxFaults /\ faults' = faults + 1 /\ UNCHANGED here

\* A process begins with nothing left of a former one of its name.
Supervises ==
    /\ Supervised /\ UNCHANGED <<network, machine>>
    /\ SupStep \/ \E w \in Workers : Unknown(w) /\ Launch(w)
Waits == Supervised /\ DelayEnds /\ UNCHANGED <<network, machine>>
Operates ==
    /\ Supervised /\ UNCHANGED network
    /\ \/ Edit /\ UNCHANGED machine
       \/ StartAgain /\ UNCHANGED machine
       \/ Fault /\ (LaunchFails \/ Shutdown \/ Crash)

\* The end of a process closes its connections.
HangsUp(w) == IF client[w] = "idle" THEN UNCHANGED network ELSE Leave(w)
WorkerObeys(w) == Obeys(w) /\ HangsUp(w) /\ UNCHANGED machine
WorkerGivesUp(w) == client[w] = "refused" /\ Exits(w) /\ HangsUp(w) /\ UNCHANGED machine
WorkerFails(w) == Exits(w) /\ HangsUp(w) /\ Fault

Alive(c) == c \in Workers => proc[c] = "up"
Connects(c) == UNCHANGED <<supervision, machine>> /\ c \in here /\ Alive(c) /\ (Dial(c) \/ Obtain(c))
Requests(c) ==
    /\ c \in Foreground /\ Cardinality(asked) < MaxAsked
    /\ \E want \in Wants : Ask(c, want)
    /\ UNCHANGED <<supervision, machine>>
Serves == UNCHANGED <<supervision, machine>> /\ \E q \in asked : AddRoute(q) \/ AddForward(q)
Helps(c) == UNCHANGED <<supervision, machine>> /\ HelperStep(c)
Breaks == UNCHANGED supervision /\ Fault /\ (HelperCrash \/ \E c \in Clients : DeviceFails(c))
Disconnects(c) == c \in Foreground /\ UNCHANGED <<supervision, machine>> /\ Leave(c)

NodeNext ==
    \/ Supervises \/ Waits \/ Operates \/ Serves \/ Breaks
    \/ \E w \in Workers : WorkerObeys(w) \/ WorkerGivesUp(w) \/ WorkerFails(w)
    \/ \E c \in Clients : Connects(c) \/ Helps(c) \/ Requests(c) \/ Disconnects(c)

\* The supervisor's timer ticks, the service manager restarts one that crashed (none
\* that was shut down), processes and the helper's tasks run.
NodeFairness ==
    /\ WF_nodeVars(Supervises) /\ WF_nodeVars(Waits) /\ WF_nodeVars(Serves)
    /\ \A w \in Workers : /\ WF_nodeVars(WorkerObeys(w))
                          /\ WF_nodeVars(WorkerGivesUp(w) \/ Connects(w))
    /\ \A c \in Clients : WF_nodeVars(Helps(c))
NodeSpec == NodeInit /\ [][NodeNext]_nodeVars /\ NodeFairness

-----------------------------------------------------------------------------
(* Properties *)

Supervisors == [up: BOOLEAN, pc: {"tick", "broken", "changed", "same", "end", "stopped", "crashed"},
                seen: Jobs \cup {Broken, Nobody}, current: Jobs \cup {Nobody},
                lease: {0, 1, Nobody}, due: BOOLEAN, child: Workers \cup {Nobody}]
NodeTypeOK ==
    /\ job \in Jobs \cup {Broken} /\ sup \in Supervisors
    /\ mgr \in [gen: 0..1, phase: Phases, leased: BOOLEAN, cancelled: BOOLEAN]
    /\ proc \in [Workers -> {"none", "up", "told"}]
    /\ client \in [Clients -> {"idle", "asking", "up", "refused"}]
    /\ task \in [Clients -> {"none", "asked", "serving", "closing", "closed"}]
    /\ asked \subseteq Clients \X Wants
    /\ sessions \subseteq Clients /\ routes \in [Clients -> SUBSET Cidrs] /\ forward \subseteq Clients
    /\ FORWARDING \in [count: 0..Cardinality(Clients), prior: BOOLEAN]
    /\ kernel \in [devs: SUBSET Clients, routes: SUBSET (Roles \X Cidrs), fwd: BOOLEAN]
    /\ lost \in BOOLEAN /\ faults \in 0..MaxFaults /\ here \in Machines

\* However the supervisor is stopped, killed or told of other jobs, a worker that
\* runs is the one it keeps, or has lost its pipe and is about to end; so two never
\* run for two jobs at a time.  The published status agrees: nothing is reported as
\* stopped while a worker runs, nor as joining without one; the lease the loop holds
\* is the manager's, so that it never finds a session already active.
WorkersAreKept ==
    /\ \A w \in Workers : proc[w] = "up" => sup.up /\ sup.child = w
    /\ sup.up => /\ mgr.phase = "Joining" => sup.child # Nobody
                 /\ mgr.phase = "Stopped" => ~Running(sup.child)
                 /\ IF sup.lease = Nobody THEN ~mgr.leased
                    ELSE mgr.leased /\ mgr.gen = sup.lease /\ ~mgr.cancelled

\* What the helper changed in the system is what its sessions account for, through
\* requests that come late, clients that vanish and sessions that share the setting
\* for forwarding: no route without a session, none of them shared, and forwarding
\* as the administrator left it when nobody needs it (unless a crash forgot it).
NetworkIsOwned ==
    /\ \A c, d \in sessions : Role(c) = Role(d) => c = d
    /\ sessions \subseteq kernel.devs
    /\ kernel.routes = UNION {{<<Role(c), r>> : r \in routes[c]} : c \in sessions}
    /\ \A c \in Clients : c \notin sessions => routes[c] = {}
    /\ forward \subseteq sessions /\ FORWARDING.count = Cardinality(forward)
    /\ forward # {} => kernel.fwd
    /\ forward = {} /\ ~lost => kernel.fwd = Admin

NodeIsSound == NodeTypeOK /\ WorkersAreKept /\ NetworkIsOwned

\* An enabled job gets its worker and the worker its
\* device, in spite of workers that end, of a supervisor that is killed and of what
\* the workers before it still hold (or the job is changed, the supervisor is shut
\* down, or the helper fails).
ShutDown == At("end") \/ sup.pc = "stopped"
Wanted(j) == job = j /\ j \in On /\ ~lost /\ ~ShutDown
Served(j) == \E w \in Workers : sup.child = w /\ sup.current = j /\ client[w] = "up" /\ w \in sessions
EnabledIsServed == \A j \in On : Wanted(j) ~> (Served(j) \/ ~Wanted(j))

\* A disabled job, or one that cannot be read, ends: no worker is left, and of its
\* network neither device nor route nor forwarding.
Remains == \E w \in Workers : proc[w] # "none" \/ w \in kernel.devs \cup sessions \cup forward
Unwanted == job \in Off \cup {Broken}
DisabledIsGone == Unwanted ~> (~Remains \/ ~Unwanted)

\* What the job file asks for comes to be, in either direction.
JobsAreFollowed == EnabledIsServed /\ DisabledIsGone
=============================================================================
