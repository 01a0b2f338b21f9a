---------------------------- MODULE ServiceRoom ----------------------------
(* A room of published services (`dev create`, `dev join`): the host process, the *)
(* commands `dev add`, `dev remove` and `dev revoke` run beside it, its members,  *)
(* and what the signalling server keeps of the room.  Host and commands talk      *)
(* through one control file, which each reads, changes and replaces as a whole    *)
(* without a lock; the host looks at it once a second.  The streams of a member's *)
(* session are the subject of ServiceMux.                                         *)
EXTENDS Integers, FiniteSets

CONSTANTS Members, Commands,
          MaxTokens,  \* bound: room credentials issued
          MaxTries,   \* bound: connection attempts of a member
          MaxJobs,    \* bound: session tasks of the host at a time
          Vacant      \* no attempt, no task

ASSUME RoomAssumption == MaxTokens \in Nat \ {0} /\ MaxTries \in Nat

Tokens == 1..MaxTokens
Jobs == 1..MaxJobs
Kinds == {"add", "remove", "revoke"}

\* Control: the service ids are kept with what each stands for
Control(next, pw, targets) == [next |-> next, password |-> pw, targets |-> targets]
First == {[id |-> 1, to |-> "first"]}

VARIABLES
    token,      \* server: the room's access_token
    catalogue,  \* server: services
    guests,     \* server: member -> attempt it joined with, or Vacant
    file,       \* the control file
    running,    \* the host process has not ended
    pc,         \* where the host is in its tick
    revokeKey,  \* REVOKE
    control,    \* the host's copy of the file
    read,       \* what it has read in this tick
    targets,    \* what new sessions serve
    password,   \* cfg.password: what the host's invitations carry
    jobs,       \* slot -> session task of the host, or Vacant
    clients,    \* member -> attempt a task was started for, or Vacant
    member,     \* member -> its process
    command     \* command -> its process

roomVars == <<token, catalogue, guests, file, running, pc, revokeKey, control, read, targets,
          password, jobs, clients, member, command>>
server == <<token, catalogue, guests>>
hostState == <<running, pc, revokeKey, control, read, targets, password>>

Outside == [st |-> "out", pw |-> 0, try |-> 0, items |-> {}]
Waiting == [st |-> "new", kind |-> "add", copy |-> Control(0, 0, {})]

RoomInit ==
    /\ token = 1 /\ catalogue = First /\ guests = [g \in Members |-> Vacant]
    /\ file = Control(2, 1, First) /\ control = file /\ read = file
    /\ running = TRUE /\ pc = "tick" /\ revokeKey = FALSE
    /\ targets = First /\ password = 1
    /\ jobs = [j \in Jobs |-> Vacant] /\ clients = [g \in Members |-> Vacant]
    /\ member = [g \in Members |-> Outside] /\ command = [c \in Commands |-> Waiting]

(* ---- sessions: a task of the host paired with a member ---- *)

\* The tasks in S are gone, paired or not; their members see the transport end.
EndJobs(S) ==
    LET cut == {jobs[j].g : j \in {k \in S : jobs[k] # Vacant /\ jobs[k].st = "paired"}}
    IN  member' = [g \in Members |-> IF g \in cut /\ member[g].st = "on"
                                       THEN [member[g] EXCEPT !.st = "retry"] ELSE member[g]]

\* jobs.abort_all(): results of aborted tasks are errors, which the loop ignores
AbortAll ==
    /\ jobs' = [j \in Jobs |-> Vacant] /\ clients' = [g \in Members |-> Vacant]
    /\ EndJobs(Jobs)

\* secure_room: a new token; the room's pairs are cancelled, its guests forgotten
SecureRoom ==
    /\ token < MaxTokens /\ token' = token + 1
    /\ guests' = [g \in Members |-> Vacant]
    /\ jobs' = [j \in Jobs |-> IF jobs[j] = Vacant THEN Vacant ELSE [jobs[j] EXCEPT !.st = "ended"]]
    /\ EndJobs(Jobs)
    /\ UNCHANGED <<catalogue, clients>>

(* ---- the commands: read, change, replace ---- *)

CommandReads(c) ==
    /\ command[c].st = "new" /\ running
    /\ \E k \in Kinds : command' = [command EXCEPT ![c] = [st |-> "read", kind |-> k, copy |-> file]]
    /\ UNCHANGED <<server, file, hostState, jobs, clients, member>>

\* apply_change
Added(copy, to) ==
    [copy EXCEPT !.targets = @ \cup {[id |-> copy.next, to |-> to]}, !.next = @ + 1]
Removed(copy, id) == [copy EXCEPT !.targets = {s \in @ : s.id # id}]

Save(c, copy) ==
    /\ file' = copy
    /\ command' = [command EXCEPT ![c].st = "done", ![c].copy = copy]
    /\ UNCHANGED <<server, hostState, jobs, clients, member>>

CommandChanges(c) ==
    LET copy == command[c].copy
    IN  /\ command[c].st = "read"
        /\ \/ command[c].kind = "add" /\ Save(c, Added(copy, c))
           \/ /\ command[c].kind = "remove"
              /\ \E s \in copy.targets :
                   /\ Removed(copy, s.id).targets # {}   \* validate_catalog
                   /\ Save(c, Removed(copy, s.id))

\* The server takes the command's request only under the room's current token.
CommandRevokes(c) ==
    /\ command[c].st = "read" /\ command[c].kind = "revoke"
    /\ command[c].copy.password = token /\ SecureRoom
    /\ command' = [command EXCEPT ![c].st = "secured", ![c].copy.password = token']
    /\ UNCHANGED <<file, hostState>>

CommandSaves(c) == command[c].st = "secured" /\ Save(c, command[c].copy)

(* ---- the host ---- *)

\* The R key.
PressRevoke ==
    /\ running /\ ~revokeKey /\ token < MaxTokens
    /\ revokeKey' = TRUE
    /\ UNCHANGED <<server, file, running, pc, control, read, targets, password, jobs, clients,
                   member, command>>

TickBegins ==
    /\ running /\ pc = "tick"
    /\ revokeKey' = FALSE /\ pc' = IF revokeKey THEN "secure" ELSE "read"
    /\ UNCHANGED <<server, file, running, control, read, targets, password, jobs, clients,
                   member, command>>

HostRevokes ==
    /\ running /\ pc = "secure"
    /\ IF token < MaxTokens THEN SecureRoom ELSE UNCHANGED <<server, jobs, clients, member>>
    /\ control' = [control EXCEPT !.password = token']
    /\ pc' = "save"
    /\ UNCHANGED <<file, running, revokeKey, read, targets, password, command>>

HostSaves ==
    /\ running /\ pc = "save"
    /\ file' = control /\ pc' = "read"
    /\ UNCHANGED <<server, running, revokeKey, control, read, targets, password, jobs, clients,
                   member, command>>

ComparesTargets(f) == f.targets # control.targets
Differs(f) == f # control

HostReads ==
    /\ running /\ pc = "read"
    /\ read' = file
    /\ IF Differs(file) THEN pc' = "publish" /\ targets' = file.targets
                        ELSE pc' = "renew" /\ UNCHANGED targets
    /\ UNCHANGED <<server, file, running, revokeKey, control, password, jobs, clients, member,
                   command>>

KeepSessions == UNCHANGED <<jobs, clients, member>>
RestartSessions == AbortAll

HostPublishes ==
    /\ running /\ pc = "publish"
    /\ catalogue' = targets /\ control' = read /\ pc' = "renew"
    /\ RestartSessions
    /\ UNCHANGED <<token, guests, file, running, revokeKey, read, targets, password, command>>

\* A changed password goes into the invitations and ends every session.
HostRenews ==
    /\ running /\ pc = "renew" /\ pc' = "spawn"
    /\ password' = control.password
    /\ IF password # control.password THEN AbortAll ELSE UNCHANGED <<jobs, clients, member>>
    /\ UNCHANGED <<server, file, running, revokeKey, control, read, targets, command>>

\* get_room: a task for each guest whose present attempt has none; one that served
\* an earlier attempt is aborted.
FreeSlots == {j \in Jobs : jobs[j] = Vacant}
NewJob(g) == [g |-> g, try |-> guests[g], pw |-> control.password, targets |-> targets,
              st |-> "connecting"]

HostSpawns ==
    /\ running /\ pc = "spawn"
    /\ \/ /\ \A g \in Members : guests[g] # Vacant => clients[g] = guests[g]
          /\ pc' = "tick" /\ UNCHANGED <<jobs, clients, member>>
       \/ \E g \in Members :
            LET old == {j \in Jobs : jobs[j] # Vacant /\ jobs[j].g = g /\ jobs[j].st # "ended"
                                       /\ clients[g] = jobs[j].try}
            IN  /\ guests[g] # Vacant /\ clients[g] # guests[g] /\ FreeSlots # {}
                /\ \E j \in FreeSlots :
                     /\ \A i \in FreeSlots : j <= i
                     /\ jobs' = [i \in Jobs |-> IF i = j THEN NewJob(g)
                                                ELSE IF i \in old THEN Vacant ELSE jobs[i]]
                /\ EndJobs(old) /\ clients' = [clients EXCEPT ![g] = guests[g]]
                /\ UNCHANGED pc
    /\ UNCHANGED <<server, file, running, revokeKey, control, read, targets, password, command>>

\* A task ends: it found no partner in time, was refused, or its session failed.
JobEnds(j) ==
    /\ jobs[j] # Vacant /\ jobs[j].st # "ended"
    /\ jobs' = [jobs EXCEPT ![j].st = "ended"] /\ EndJobs({j})
    /\ UNCHANGED <<server, file, hostState, clients, command>>

\* jobs.join_next()
JobRead(j) ==
    /\ running /\ pc = "tick" /\ jobs[j] # Vacant /\ jobs[j].st = "ended"
    /\ jobs' = [jobs EXCEPT ![j] = Vacant]
    /\ clients' = IF clients[jobs[j].g] = jobs[j].try
                    THEN [clients EXCEPT ![jobs[j].g] = Vacant] ELSE clients
    /\ UNCHANGED <<server, file, hostState, member, command>>

(* ---- a member: each attempt fetches the catalogue anew ---- *)

Step(g, st) == member' = [member EXCEPT ![g].st = st]

Invited(g) ==
    /\ running /\ member[g].st = "out"
    /\ member' = [member EXCEPT ![g].st = "retry", ![g].pw = password]
    /\ UNCHANGED <<server, file, hostState, jobs, clients, command>>

RetryAnyway == "retry"
Turned == "refused"

Fetch(g) ==
    /\ member[g].st = "retry" /\ running
    /\ member' = [member EXCEPT ![g].st = IF member[g].pw = token THEN "bound" ELSE Turned,
                                ![g].items = catalogue]
    /\ UNCHANGED <<server, file, hostState, jobs, clients, command>>

JoinRoom(g) ==
    /\ member[g].st = "bound" /\ running
    /\ \/ /\ member[g].pw = token /\ member[g].try < MaxTries
          /\ guests' = [guests EXCEPT ![g] = member[g].try + 1]
          /\ member' = [member EXCEPT ![g].st = "joined", ![g].try = @ + 1]
       \/ member[g].pw # token /\ Step(g, "retry") /\ UNCHANGED guests
    /\ UNCHANGED <<token, catalogue, file, hostState, jobs, clients, command>>

\* The relay pairs by member, under the room's token; which attempt either of the
\* two belongs to it does not know.
Pair(g, j) ==
    /\ member[g].st = "joined" /\ member[g].pw = token
    /\ jobs[j] # Vacant /\ jobs[j].g = g /\ jobs[j].st = "connecting" /\ jobs[j].pw = token
    /\ jobs' = [jobs EXCEPT ![j].st = "paired"] /\ Step(g, "on")
    /\ UNCHANGED <<server, file, hostState, clients, command>>

\* The relay refuses it or its waiting ends, or its own session fails.
AttemptEnds(g) ==
    /\ member[g].st \in {"joined", "on"} /\ Step(g, "retry")
    /\ jobs' = [j \in Jobs |-> IF jobs[j] # Vacant /\ jobs[j].g = g /\ jobs[j].st = "paired"
                                 THEN [jobs[j] EXCEPT !.st = "ended"] ELSE jobs[j]]
    /\ UNCHANGED <<server, file, hostState, clients, command>>

\* The host ends: its tasks are aborted and the room deleted.
HostEnds ==
    /\ running /\ running' = FALSE
    /\ AbortAll /\ guests' = [g \in Members |-> Vacant]
    /\ UNCHANGED <<token, catalogue, file, pc, revokeKey, control, read, targets, password,
                   command>>

HostTick == TickBegins \/ HostRevokes \/ HostSaves \/ HostReads \/ HostPublishes \/ HostRenews
                \/ HostSpawns

RoomNext ==
    \/ HostTick \/ PressRevoke \/ HostEnds
    \/ \E c \in Commands : CommandReads(c) \/ CommandChanges(c) \/ CommandRevokes(c) \/ CommandSaves(c)
    \/ \E j \in Jobs : JobEnds(j) \/ JobRead(j)
    \/ \E g \in Members : Invited(g) \/ Fetch(g) \/ JoinRoom(g) \/ AttemptEnds(g)
    \/ \E g \in Members, j \in Jobs : Pair(g, j)

\* The host's ticks, a command and a started attempt go on; a task that cannot be
\* paired ends.
RoomFairness ==
    /\ WF_roomVars(HostTick) /\ \A c \in Commands : WF_roomVars(CommandSaves(c))
    /\ \A g \in Members : /\ WF_roomVars(Fetch(g)) /\ WF_roomVars(JoinRoom(g))
                          /\ WF_roomVars(AttemptEnds(g) /\ member[g].pw # token)
    /\ \A j \in Jobs : /\ SF_roomVars(JobRead(j))
                       /\ WF_roomVars(JobEnds(j) /\ jobs[j].pw # token)

RoomSpec == RoomInit /\ [][RoomNext]_roomVars /\ RoomFairness
-----------------------------------------------------------------------------

RoomTypeOK ==
    /\ token \in Tokens /\ control.password \in Tokens /\ password \in Tokens
    /\ guests \in [Members -> 1..MaxTries \cup {Vacant}]
    /\ clients \in [Members -> 1..MaxTries \cup {Vacant}]
    /\ \A j \in Jobs : jobs[j] # Vacant => jobs[j].st \in {"connecting", "paired", "ended"}
    /\ \A g \in Members : member[g].st \in {"out", "retry", "bound", "joined", "on", "refused"}

\* No session serves what was withdrawn: once a change is published, every task of
\* the host, waiting or paired, offers exactly the services of the catalogue.
OnlyPublishedServed ==
    pc # "publish" => \A j \in Jobs : jobs[j] # Vacant /\ jobs[j].st # "ended"
                                        => jobs[j].targets = catalogue

RoomIsConsistent == RoomTypeOK /\ OnlyPublishedServed

\* What a command writes into the control file the host adopts, unless another save
\* replaces it before the host looks: a second command's, or the host's own after R,
\* which comes before its look at the file and loses what was written since its last.
ChangesAreAdopted ==
    \A c \in Commands : command[c].st = "done"
                           ~> (control = command[c].copy \/ file # command[c].copy \/ ~running)

\* A member with a revoked invitation does not go on trying for ever.
RevokedMembersLeave ==
    \A g \in Members : (member[g].st \in {"retry", "bound", "joined"} /\ member[g].pw # token)
                           ~> (member[g].st = "refused" \/ ~running)

\* README: a member joins again with an invitation copied after the revocation.
InvitationsWork == <>[](password = token \/ ~running)

\* services.rs: a service's id is never used for another one.
IdsNeverReused ==
    [][\A s \in catalogue, t \in catalogue' : s.id = t.id => s.to = t.to]_roomVars

\* What a command writes, and nobody overwrites, reaches the host, and what is
\* revoked its members.
ChangesReachAll == ChangesAreAdopted /\ RevokedMembersLeave
=============================================================================
