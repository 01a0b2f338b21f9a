---------------------------- MODULE RelayPairing ----------------------------
(***************************************************************************)
(* The TCP relay of signaling/server.rs: handle_relay_conn, one task per   *)
(* connection, and the room operations it runs against.                    *)
(*                                                                         *)
(* Connections that name the same key (a guest's uuid, or "-") and opposite *)
(* roles are paired: the first one to come is left in a slot of the room   *)
(* for up to RELAY_PAIR_TIMEOUT, the second one takes it out and copies    *)
(* between the two.  The room map is locked only for moments: between them *)
(* rooms are deleted, secured, expire and are created again.               *)
(*                                                                         *)
(* There is one room number; each room created under it is an instance.    *)
(* Every instance, and every secure_room, brings a fresh `cancelled` token.*)
(***************************************************************************)
EXTENDS Naturals, FiniteSets

CONSTANTS
    Conns,          \* relay connections
    Hosts,          \* those whose HELLO2 says HOST; the others say GUEST
    Keys, Key,      \* Key[c]: the uuid in the HELLO2 of c
    Dash,           \* the key "-", whose slots are not counted
    None,
    Capacity,       \* 128, pending connections per room
    MaxTokens       \* bound: rooms created and secured

ASSUME ConnsAssumption == Hosts \subseteq Conns /\ Key \in [Conns -> Keys] /\ None \notin Conns
ASSUME CapacityAssumption == Capacity \in Nat \ {0} /\ MaxTokens \in Nat \ {0}

VARIABLES
    room,           \* the instance under the number, 0 if there is none
    token,          \* its `cancelled`, the last one made
    access,         \* the token that came with its access_token, 0 without one
    over,           \* instances whose expires_at has passed
    cancelled,      \* tokens that were cancelled
    pending,        \* connections in relay_host(s) and relay_guest(s)
    pc,             \* where the task of a connection is
    selected,       \* the access token it selected by its R3 line, 0 without one
    owns,           \* the instance whose owner_token its HELLO2 carries
    inst, cap,      \* the instance that admitted it, the `cancelled` it captured
    signalled,      \* its PendingSignal was dropped or fired
    mate            \* the connection whose stream its task copies to and from

roomVars == <<room, token, access, over, cancelled>>
authVars == <<selected, owns>>
vars == <<roomVars, authVars, pending, pc, inst, cap, signalled, mate>>

Init ==
    /\ room = 0 /\ token = 0 /\ access = 0 /\ over = {} /\ cancelled = {}
    /\ pending = {}
    /\ pc = [c \in Conns |-> "new"]
    /\ selected = [c \in Conns |-> 0] /\ owns = [c \in Conns |-> 0]
    /\ inst = [c \in Conns |-> 0] /\ cap = [c \in Conns |-> 0]
    /\ signalled = [c \in Conns |-> FALSE]
    /\ mate = [c \in Conns |-> None]

Expired == room \in over
SameRole(c, d) == c \in Hosts <=> d \in Hosts
\* Whoever waits in the slot that c would be put in, and in the one it looks into.
Slot(c) == {d \in pending : Key[d] = Key[c] /\ SameRole(c, d)}
Opposite(c) == {d \in pending : Key[d] = Key[c] /\ ~SameRole(c, d)}
Counted == {c \in pending : Key[c] # Dash}

\* PendingRelays leave the room; Drop for PendingSignal tells their tasks.
\* Mutant: the signal is not sent.
LeaveUnsignalled(D) == pending' = pending \ D /\ UNCHANGED signalled
Leave(D) ==
    /\ pending' = pending \ D
    /\ signalled' = [c \in Conns |-> signalled[c] \/ c \in D]

-----------------------------------------------------------------------------
(* The room *)

\* bound: so many tokens are made.  Mutant: the bound is forgotten.
MintsForEver == token <= MaxTokens
MayMint == token < MaxTokens

\* create_room, which first drops what has expired.
Create ==
    /\ room = 0 \/ Expired
    /\ MayMint
    /\ room' = token + 1 /\ token' = token + 1 /\ access' = 0
    /\ Leave(pending)
    /\ UNCHANGED <<over, cancelled, authVars, pc, inst, cap, mate>>

\* Any request that finds the room expired removes it (without cancelling).
Purge ==
    /\ room # 0 /\ Expired
    /\ room' = 0
    /\ Leave(pending)
    /\ UNCHANGED <<token, access, over, cancelled, authVars, pc, inst, cap, mate>>

\* delete_room by the owner.
Delete ==
    /\ room # 0
    /\ room' = 0 /\ cancelled' = cancelled \cup {token}
    /\ Leave(pending)
    /\ UNCHANGED <<token, access, over, authVars, pc, inst, cap, mate>>

\* secure_room by the owner: everybody who is connected has to come again.
Secure ==
    /\ room # 0
    /\ MayMint
    /\ cancelled' = cancelled \cup {token}
    /\ token' = token + 1 /\ access' = token + 1
    /\ Leave(pending)
    /\ UNCHANGED <<room, over, authVars, pc, inst, cap, mate>>

\* Time passes the expires_at of the room.
Expire ==
    /\ room # 0 /\ ~Expired
    /\ over' = over \cup {room}
    /\ UNCHANGED <<room, token, access, cancelled, authVars, pending, pc, inst, cap,
                   signalled, mate>>

-----------------------------------------------------------------------------
(* The task of a connection *)

Finish(c) == pc' = [pc EXCEPT ![c] = "ended"]

\* The connection is accepted; an R3 line selects the room's present access token.
Accept(c) ==
    /\ pc[c] = "new"
    /\ \E s \in {0} \cup (IF room # 0 /\ ~Expired THEN {access} ELSE {}) :
          selected' = [selected EXCEPT ![c] = s]
    /\ \E o \in IF c \in Hosts THEN 0..token ELSE {0} : owns' = [owns EXCEPT ![c] = o]
    /\ pc' = [pc EXCEPT ![c] = "hello"]
    /\ UNCHANGED <<roomVars, pending, inst, cap, signalled, mate>>

Admitted(c) ==
    /\ room # 0 /\ ~Expired
    /\ access # 0 => selected[c] # 0
    /\ c \in Hosts => owns[c] = room

\* Bad credentials, no room, a closed or silent connection.
Refuse(c) ==
    /\ pc[c] = "hello"
    /\ Finish(c)
    /\ UNCHANGED <<roomVars, authVars, pending, inst, cap, signalled, mate>>

\* c takes its opposite out of the slot and copies between the two streams.
\* Mutant: the opposite is told, but stays in the slot.
PairInPlace(c) == \E d \in Opposite(c) :
    /\ mate' = [mate EXCEPT ![c] = d]
    /\ signalled' = [signalled EXCEPT ![d] = TRUE]
    /\ pc' = [pc EXCEPT ![c] = "copying"]
    /\ UNCHANGED pending
Pair(c) == \E d \in Opposite(c) :
    /\ mate' = [mate EXCEPT ![c] = d]
    /\ Leave({d})
    /\ pc' = [pc EXCEPT ![c] = "copying"]

\* HELLO2 under the first lock, with the opposite there already.
HelloPairs(c) ==
    /\ pc[c] = "hello" /\ Admitted(c)
    /\ inst' = [inst EXCEPT ![c] = room] /\ cap' = [cap EXCEPT ![c] = token]
    /\ Pair(c)
    /\ UNCHANGED <<roomVars, authVars>>

\* HELLO2 without an opposite: the lock is released and WAIT is written.
HelloWaits(c) ==
    /\ pc[c] = "hello" /\ Admitted(c)
    /\ Opposite(c) = {}
    /\ Cardinality(Counted) < Capacity
    /\ inst' = [inst EXCEPT ![c] = room] /\ cap' = [cap EXCEPT ![c] = token]
    /\ pc' = [pc EXCEPT ![c] = "wait"]
    /\ UNCHANGED <<roomVars, authVars, pending, signalled, mate>>

\* After WAIT, under the second lock: may this connection still be left in the room?
\* Mutant: the captured `cancelled` is not looked at again.
ValidIfAlive(c) == room # 0 /\ ~Expired
StillValid(c) == room # 0 /\ cap[c] \notin cancelled /\ ~Expired

\* Mutant: the opposite slot is not looked at again.
NobodyCame(c) == TRUE
StillAlone(c) == Opposite(c) = {}

RelockPairs(c) ==
    /\ pc[c] = "wait" /\ StillValid(c)
    /\ ~StillAlone(c)
    /\ Pair(c)
    /\ UNCHANGED <<roomVars, authVars, inst, cap>>

\* c is left in its slot; whoever was there is dropped.
RelockInserts(c) ==
    /\ pc[c] = "wait" /\ StillValid(c)
    /\ StillAlone(c)
    /\ pending' = (pending \ Slot(c)) \cup {c}
    /\ signalled' = [d \in Conns |-> signalled[d] \/ d \in Slot(c)]
    /\ pc' = [pc EXCEPT ![c] = "waiting"]
    /\ UNCHANGED <<roomVars, authVars, inst, cap, mate>>

\* WAIT could not be written, or the room is not what it was.
RelockFails(c) ==
    /\ pc[c] = "wait"
    /\ Finish(c)
    /\ UNCHANGED <<roomVars, authVars, pending, inst, cap, signalled, mate>>

\* The task learns that its stream was taken, replaced or dropped, or that the room ended.
Told(c) ==
    /\ pc[c] = "waiting"
    /\ signalled[c] \/ cap[c] \in cancelled
    /\ Finish(c)
    /\ UNCHANGED <<roomVars, authVars, pending, inst, cap, signalled, mate>>

\* RELAY_PAIR_TIMEOUT.
TimesOut(c) ==
    /\ pc[c] = "waiting"
    /\ pc' = [pc EXCEPT ![c] = "late"]
    /\ UNCHANGED <<roomVars, authVars, pending, inst, cap, signalled, mate>>

\* What a task that timed out finds in its slot and removes.
\* Mutant: without comparing the id.
WholeSlot(c) == Slot(c)
OwnEntry(c) == Slot(c) \cap {c}

TimeoutCleans(c) ==
    /\ pc[c] = "late"
    /\ Leave(IF room # 0 THEN OwnEntry(c) ELSE {})
    /\ Finish(c)
    /\ UNCHANGED <<roomVars, authVars, inst, cap, mate>>

\* The copying ends with `cancelled`, with expires_at, or when a side closes.
Cut(c) ==
    /\ pc[c] = "copying"
    /\ cap[c] \in cancelled \/ inst[c] \in over
    /\ Finish(c)
    /\ UNCHANGED <<roomVars, authVars, pending, inst, cap, signalled, mate>>

Closed(c) ==
    /\ pc[c] = "copying"
    /\ Finish(c)
    /\ UNCHANGED <<roomVars, authVars, pending, inst, cap, signalled, mate>>

-----------------------------------------------------------------------------
Rooms == Create \/ Purge \/ Delete \/ Secure \/ Expire
Task(c) ==
    \/ Accept(c) \/ Refuse(c) \/ HelloPairs(c) \/ HelloWaits(c)
    \/ RelockPairs(c) \/ RelockInserts(c) \/ RelockFails(c)
    \/ Told(c) \/ TimesOut(c) \/ TimeoutCleans(c) \/ Cut(c) \/ Closed(c)

Next == Rooms \/ \E c \in Conns : Task(c)

Spec == Init /\ [][Next]_vars

-----------------------------------------------------------------------------
(* Properties *)

\* Every variable keeps its type.
TypeOK ==
    /\ room \in 0..token /\ token \in 0..MaxTokens /\ access \in 0..token
    /\ over \subseteq 1..token /\ cancelled \subseteq 1..token
    /\ pending \subseteq Conns
    /\ pc \in [Conns -> {"new", "hello", "wait", "waiting", "late", "copying", "ended"}]
    /\ selected \in [Conns -> 0..token] /\ owns \in [Conns -> 0..token]
    /\ inst \in [Conns -> 0..token] /\ cap \in [Conns -> 0..token]
    /\ signalled \in [Conns -> BOOLEAN]
    /\ mate \in [Conns -> Conns \cup {None}]

\* Two connections that look for each other never both lie in a slot: whoever
\* comes second finds the first, although the lock is released to write WAIT.
NoMissedPair == \A c, d \in pending : Key[c] = Key[d] => SameRole(c, d)

\* A slot holds one connection; its task still waits for it, has not been told
\* otherwise, and the room it was admitted to was not deleted or secured since.
PendingIsAwaited ==
    /\ \A c, d \in pending : Key[c] = Key[d] /\ SameRole(c, d) => c = d
    /\ \A c \in pending : /\ pc[c] \in {"waiting", "late"} /\ ~signalled[c]
                          /\ cap[c] \notin cancelled /\ room # 0

\* A task waits only while its stream lies in the room: otherwise it has been told.
WaiterIsPending == \A c \in Conns :
    pc[c] \in {"waiting", "late"} => c \in pending \/ signalled[c]

\* Slots and tasks agree: what lies in a slot is awaited, and who waits lies in a
\* slot or has been told (signaling/server.rs:839).
SlotsAndTasksAgree == PendingIsAwaited /\ WaiterIsPending

\* A stream is handed to one task only, whose connection asked for it.
MatesAreExclusive == \A c \in Conns : mate[c] # None =>
    /\ Key[mate[c]] = Key[c] /\ ~SameRole(c, mate[c])
    /\ mate[c] \notin pending /\ mate[mate[c]] = None
    /\ \A d \in Conns \ {c} : mate[d] # mate[c]

\* Two connections are only paired if one room admitted both, in the same state
\* of its authorization - unless the room of one had expired in the meantime.
PairedInOneRoom == \A c \in Conns : mate[c] # None =>
    cap[c] = cap[mate[c]] \/ inst[c] \in over \/ inst[mate[c]] \in over

\* A waiting connection loses its place only to a partner, to a later connection
\* of its own kind, to its own timeout, or because the room ended or was secured.
KeepsItsPlace == \A c \in pending \ pending' :
    \/ \E d \in Conns : mate'[d] = c
    \/ \E d \in pending' \ pending : Key[d] = Key[c] /\ SameRole(c, d)
    \/ pc[c] = "late"
    \/ room' # room \/ token' # token
PlacesAreKept == [][KeepsItsPlace]_vars

\* Slots, tasks and pairs agree, whatever the room did between two locks.
PairingIsSound ==
    TypeOK /\ NoMissedPair /\ SlotsAndTasksAgree /\ MatesAreExclusive /\ PairedInOneRoom

-----------------------------------------------------------------------------
(* The inductive invariant behind the safety properties *)

\* Before its second lock a connection is in no slot and has nothing to be told.
Outside == \A c \in Conns :
    pc[c] \in {"new", "hello", "wait"} => c \notin pending /\ ~signalled[c]

\* What an admitted connection captured is the room as it is, or a token that was
\* cancelled, or a room whose time was over: the only ways for a room to change.
Captured == \A c \in Conns : pc[c] \in {"wait", "waiting", "late"} =>
    \/ cap[c] = token /\ room # 0 /\ inst[c] = room
    \/ cap[c] \in cancelled
    \/ inst[c] \in over

\* Who has a partner copies or has done so; who was taken out never comes back.
Mated == \A c \in Conns : mate[c] # None =>
    pc[c] \in {"copying", "ended"} /\ pc[mate[c]] \in {"waiting", "late", "ended"}

RelayInv ==
    /\ NoMissedPair /\ PendingIsAwaited /\ WaiterIsPending
    /\ MatesAreExclusive /\ PairedInOneRoom
    /\ Outside /\ Captured /\ Mated
=============================================================================
