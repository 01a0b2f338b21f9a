----------------------------- MODULE Supervisor -----------------------------
(***************************************************************************)
(* The supervising agent (`agent run`): agent/mod.rs with the desired job  *)
(* of agent/job.rs and the session lifecycle of runtime/mod.rs.            *)
(*                                                                         *)
(* Once a second a loop compares the job file with the worker process it   *)
(* keeps, and stops, spawns or retries.  Stopping awaits the worker for up *)
(* to three seconds, in which everything else goes on; what the loop does  *)
(* after it rests on the job as it was before.  A worker ends on its own,  *)
(* or when the pipe to its standard input closes: the supervisor drops it, *)
(* or dies.                                                                *)
(*                                                                         *)
(* A job is a model value, the worker's whole life here is to exist; what  *)
(* it does to the network is in NetHelper.  A retry is due or is not: the  *)
(* delays of 2 to 30 seconds are left out.                                 *)
(*                                                                         *)
(* The service manager (install_unix.rs) starts a supervisor that crashed  *)
(* again.  One that was shut down stays down until somebody, or the macOS  *)
(* unit with its KeepAlive, starts it.  A start needs a job that can be    *)
(* read; a start that fails for that counts as a crash.                    *)
(***************************************************************************)
EXTENDS Integers

CONSTANTS
    Nobody,
    Workers,        \* worker processes that may exist at once
    On, Off,        \* jobs that are enabled and jobs that are not
    Broken          \* a job file that cannot be read

ASSUME WorkersAssumption == Nobody \notin Workers \cup {0, 1}

Jobs == On \cup Off
Phases == {"Stopped", "Starting", "Joining", "Reconnecting", "Error"}

VARIABLES
    job,            \* the job file
    sup,            \* the supervisor process
    mgr,            \* its SessionManager
    proc            \* of a worker: "none", "up", or "told" once its pipe is closed

supervision == <<job, sup, mgr, proc>>

-----------------------------------------------------------------------------
(* SessionManager.  Generations are compared for equality only, and no     *)
(* more than two at a time: they alternate.                                *)

NoSession == [gen |-> 0, phase |-> "Stopped", leased |-> FALSE, cancelled |-> FALSE]
Following(g) == 1 - g
Begin(m) == [gen |-> Following(m.gen), phase |-> "Starting", leased |-> TRUE, cancelled |-> FALSE]
RequestStop(m) == [m EXCEPT !.cancelled = TRUE]

\* A lease is its generation, or Nobody.
Transition(m, lease, phase) ==
    IF lease = Nobody \/ lease # m.gen \/ m.cancelled THEN m ELSE [m EXCEPT !.phase = phase]
Drop(m, lease) ==
    IF lease = Nobody \/ lease # m.gen THEN m ELSE
       [m EXCEPT !.leased = FALSE, !.cancelled = TRUE,
                 !.phase = IF @ = "Error" THEN "Error" ELSE "Stopped"]

-----------------------------------------------------------------------------
(* The supervisor's loop *)

Started == [up |-> TRUE, pc |-> "tick", seen |-> Nobody, current |-> Nobody, lease |-> 1,
            due |-> TRUE, child |-> Nobody]
Ended == [Started EXCEPT !.up = FALSE, !.lease = Nobody, !.pc = "stopped"]
Crashed == [Ended EXCEPT !.pc = "crashed"]

SupInit ==
    /\ job \in Jobs
    /\ sup = Started /\ mgr = Transition(Begin(NoSession), 1, "Stopped")
    /\ proc = [w \in Workers |-> "none"]

\* stop: the pipe is closed and the worker awaited.
PipeClosed(w) == [v \in Workers |-> IF v = w /\ proc[v] = "up" THEN "told" ELSE proc[v]]
Running(w) == w # Nobody /\ proc[w] # "none"

At(pc) == sup.up /\ sup.pc = pc
Goes(pc) == [sup EXCEPT !.pc = pc]

\* The job is loaded.  A broken or another one ends the worker first.  Mutant: a
\* change is not looked for while a worker runs.
LooksIdle(seen) == seen # sup.current /\ sup.child = Nobody
Differs(seen) == seen # sup.current
Tick ==
    /\ At("tick")
    /\ LET next == IF job = Broken THEN "broken"
                   ELSE IF Differs(job) THEN "changed" ELSE "same"
       IN  /\ sup' = [sup EXCEPT !.seen = job, !.pc = next]
           /\ proc' = IF next = "same" THEN proc ELSE PipeClosed(sup.child)
    /\ UNCHANGED <<job, mgr>>

\* A shutdown is noticed between two ticks.
Shutdown ==
    /\ At("tick")
    /\ sup' = Goes("end") /\ proc' = PipeClosed(sup.child)
    /\ UNCHANGED <<job, mgr>>

JobBroken ==
    /\ At("broken") /\ ~Running(sup.child)
    /\ LET m == Begin(Drop(mgr, sup.lease))
       IN  /\ mgr' = Transition(m, m.gen, "Error")
           /\ sup' = [Goes("tick") EXCEPT !.lease = m.gen, !.current = Nobody, !.child = Nobody]
    /\ UNCHANGED <<job, proc>>

JobChanged ==
    /\ At("changed") /\ ~Running(sup.child)
    /\ mgr' = Drop(Transition(mgr, sup.lease, "Stopped"), sup.lease)
    /\ sup' = [Goes("same") EXCEPT !.lease = Nobody, !.child = Nobody, !.due = TRUE,
                                   !.current = sup.seen]
    /\ UNCHANGED <<job, proc>>

\* A worker that ended by itself is retried after a delay.  Mutant: it is not
\* forgotten.
WorkerKept ==
    /\ At("same") /\ sup.seen \in On /\ sup.child # Nobody /\ ~Running(sup.child)
    /\ mgr' = Transition(mgr, sup.lease, "Reconnecting")
    /\ sup' = [Goes("tick") EXCEPT !.due = FALSE]
    /\ UNCHANGED <<job, proc>>
WorkerLost ==
    /\ At("same") /\ sup.seen \in On /\ sup.child # Nobody /\ ~Running(sup.child)
    /\ mgr' = Transition(mgr, sup.lease, "Reconnecting")
    /\ sup' = [Goes("tick") EXCEPT !.child = Nobody, !.due = FALSE]
    /\ UNCHANGED <<job, proc>>

\* Nothing to do: the job is disabled, the worker runs, or the retry is not due.
Rest ==
    /\ At("same")
    /\ sup.seen \in Off \/ Running(sup.child) \/ (sup.child = Nobody /\ ~sup.due)
    /\ sup' = Goes("tick")
    /\ UNCHANGED <<job, mgr, proc>>
DelayEnds ==
    /\ sup.up /\ ~sup.due /\ sup' = [sup EXCEPT !.due = TRUE]
    /\ UNCHANGED <<job, mgr, proc>>

\* The profile cannot be loaded, or no process created.
Launches == At("same") /\ sup.seen \in On /\ sup.child = Nobody /\ sup.due
Renewed == Begin(Drop(mgr, sup.lease))
LaunchFails ==
    /\ Launches
    /\ mgr' = Transition(Renewed, Renewed.gen, "Error")
    /\ sup' = [Goes("tick") EXCEPT !.lease = Renewed.gen, !.due = FALSE]
    /\ UNCHANGED <<job, proc>>
Launch(w) ==
    /\ Launches /\ proc[w] = "none"
    /\ mgr' = Transition(Renewed, Renewed.gen, "Joining")
    /\ sup' = [Goes("tick") EXCEPT !.lease = Renewed.gen, !.child = w]
    /\ proc' = [proc EXCEPT ![w] = "up"]
    /\ UNCHANGED job

SupEnds ==
    /\ At("end") /\ ~Running(sup.child)
    /\ mgr' = Drop(RequestStop(Transition(mgr, sup.lease, "Stopped")), sup.lease)
    /\ sup' = Ended
    /\ UNCHANGED <<job, proc>>

\* The supervisor dies: the pipes to its workers close.
Crash ==
    /\ sup.up
    /\ sup' = Crashed /\ mgr' = NoSession /\ proc' = PipeClosed(sup.child)
    /\ UNCHANGED job

\* run_with_startup.  While the job cannot be read every try ends as the last one did.
Starts ==
    /\ job # Broken /\ sup' = Started
    /\ mgr' = Transition(Begin(NoSession), 1, "Stopped") /\ UNCHANGED <<job, proc>>
StartFails == job = Broken /\ sup' = Crashed /\ UNCHANGED <<job, mgr, proc>>
Restart == ~sup.up /\ sup.pc = "crashed" /\ Starts
StartAgain == ~sup.up /\ sup.pc = "stopped" /\ (Starts \/ StartFails)

SupStep == Tick \/ JobBroken \/ JobChanged \/ WorkerLost \/ Rest \/ SupEnds \/ Restart

-----------------------------------------------------------------------------
(* Its surroundings *)

\* Job::save replaces the file in one step; somebody may also spoil it by hand.
Edit ==
    /\ job' \in (Jobs \cup {Broken}) \ {job}
    /\ UNCHANGED <<sup, mgr, proc>>

\* A worker ends: by watch_parent or the kill after three seconds, or by itself.
Obeys(w) == proc[w] = "told" /\ proc' = [proc EXCEPT ![w] = "none"] /\ UNCHANGED <<job, sup, mgr>>
Exits(w) == proc[w] = "up" /\ proc' = [proc EXCEPT ![w] = "none"] /\ UNCHANGED <<job, sup, mgr>>
=============================================================================
