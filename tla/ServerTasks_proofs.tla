-------------------------- MODULE ServerTasks_proofs ---------------------------
(***************************************************************************)
(* Proofs about two kinds of tasks of the server.                          *)
(*                                                                         *)
(* RelayPairing, for any number of connections, hosts, keys, rooms and     *)
(* secures, and any capacity: a pending connection finds its mate.         *)
(*                                                                         *)
(* DomainIngress, for any devices, requests and bounds: a public request   *)
(* meets only a device that held the domain while it was under way.        *)
(***************************************************************************)
EXTENDS RelayPairing, DomainIngress, Integers, TLAPS

\* The initial state is well typed.
LEMMA InitType == Init => TypeOK
  BY CapacityAssumption DEF Init, TypeOK

\* The steps of the room keep the types.
LEMMA RoomType ==
  ASSUME TypeOK, Rooms
  PROVE  TypeOK'
  <1>1. token \in Nat /\ token \in 0..MaxTokens /\ MaxTokens \in Nat
    BY CapacityAssumption DEF TypeOK
  <1>2. MayMint => token + 1 \in 0..MaxTokens /\ token + 1 \in 1..(token + 1)
                   /\ 0..token \subseteq 0..(token + 1) /\ 1..token \subseteq 1..(token + 1)
    BY <1>1 DEF MayMint
  <1>3. room # 0 => token \in 1..token /\ room \in 1..token
    BY <1>1 DEF TypeOK
  <1>4. CASE Create
    BY <1>1, <1>2, <1>4 DEF TypeOK, Create, Leave, authVars
  <1>5. CASE Purge
    BY <1>1, <1>5 DEF TypeOK, Purge, Leave, authVars
  <1>6. CASE Delete
    BY <1>1, <1>3, <1>6 DEF TypeOK, Delete, Leave, authVars
  <1>7. CASE Secure
    BY <1>1, <1>2, <1>3, <1>7 DEF TypeOK, Secure, Leave, authVars
  <1>8. CASE Expire
    BY <1>3, <1>8 DEF TypeOK, Expire, authVars
  <1> QED
    BY <1>4, <1>5, <1>6, <1>7, <1>8 DEF Rooms

\* The steps of a task keep the types.
LEMMA TaskType ==
  ASSUME TypeOK, NEW c \in Conns, Task(c)
  PROVE  TypeOK'
  <1>1. CASE Accept(c)
    BY <1>1, CapacityAssumption DEF TypeOK, Accept, roomVars
  <1>2. CASE Refuse(c) \/ RelockFails(c) \/ Told(c) \/ Cut(c) \/ Closed(c) \/ TimesOut(c)
    BY <1>2 DEF TypeOK, Refuse, RelockFails, Told, Cut, Closed, TimesOut, Finish, roomVars, authVars
  <1>3. CASE HelloPairs(c) \/ RelockPairs(c)
    <2>1. Pair(c) /\ UNCHANGED <<roomVars, authVars>>
      BY <1>3 DEF HelloPairs, RelockPairs
    <2>2. room \in 0..token /\ token \in 0..token
      BY DEF TypeOK
    <2>3. inst' \in [Conns -> 0..token] /\ cap' \in [Conns -> 0..token]
      BY <1>3, <2>2 DEF TypeOK, HelloPairs, RelockPairs
    <2>4. PICK d \in Opposite(c) : /\ mate' = [mate EXCEPT ![c] = d]
                                   /\ Leave({d})
                                   /\ pc' = [pc EXCEPT ![c] = "copying"]
      BY <2>1 DEF Pair
    <2>5. d \in Conns
      BY DEF TypeOK, Opposite
    <2> QED
      BY <2>1, <2>3, <2>4, <2>5 DEF TypeOK, Leave, roomVars, authVars
  <1>4. CASE HelloWaits(c)
    BY <1>4, CapacityAssumption DEF TypeOK, HelloWaits, roomVars, authVars
  <1>5. CASE RelockInserts(c)
    BY <1>5 DEF TypeOK, RelockInserts, Slot, roomVars, authVars
  <1>6. CASE TimeoutCleans(c)
    BY <1>6 DEF TypeOK, TimeoutCleans, Leave, Finish, roomVars, authVars
  <1> QED
    BY <1>1, <1>2, <1>3, <1>4, <1>5, <1>6 DEF Task

\* So does every step.
LEMMA NextType == TypeOK /\ [Next]_vars => TypeOK'
  <1>1. CASE UNCHANGED vars
    BY <1>1 DEF vars, roomVars, authVars, TypeOK
  <1> QED
    BY <1>1, RoomType, TaskType DEF Next

\* Every variable of the relay keeps its type, and no token is made beyond the bound.
THEOREM RelayTypes == Spec => []TypeOK
  BY InitType, NextType, PTL DEF Spec

-----------------------------------------------------------------------------
USE DEF RelayInv

\* At first nobody has come.
LEMMA InitRelay == Init => RelayInv
  BY DEF Init, NoMissedPair, PendingIsAwaited, WaiterIsPending, MatesAreExclusive,
         PairedInOneRoom, Outside, Captured, Mated

\* The steps of the room.  All but Expire empty it; a token or a room that is
\* left behind is cancelled or over.
LEMMA RoomStep ==
  ASSUME TypeOK, RelayInv, Rooms
  PROVE  RelayInv'
  <1>1. UNCHANGED <<pc, inst, cap, mate>>
    BY DEF Rooms, Create, Purge, Delete, Secure, Expire
  <1>2. \/ Leave(pending)
        \/ Expire /\ UNCHANGED <<pending, signalled, room, cancelled, token>>
    BY DEF Rooms, Create, Purge, Delete, Secure, Expire
  <1>3. /\ \A c \in Conns : signalled[c] => signalled'[c]
        /\ pending' \subseteq pending
        /\ \A c \in Conns : c \in pending => c \in pending' \/ signalled'[c]
        /\ \A c \in Conns : c \notin pending => signalled'[c] = signalled[c]
    BY <1>2 DEF TypeOK, Leave
  <1>4. NoMissedPair' /\ WaiterIsPending' /\ MatesAreExclusive' /\ Outside' /\ Mated'
    BY <1>1, <1>3 DEF TypeOK, NoMissedPair, WaiterIsPending, MatesAreExclusive, Outside,
                      Mated, SameRole
  <1>5. over \subseteq over' /\ cancelled \subseteq cancelled'
    BY DEF Rooms, Create, Purge, Delete, Secure, Expire
  <1>6. PendingIsAwaited'
    <2>1. CASE Leave(pending)
      BY <2>1 DEF Leave, PendingIsAwaited
    <2>2. CASE UNCHANGED <<pending, signalled, room, cancelled>>
      BY <1>1, <2>2 DEF PendingIsAwaited, SameRole
    <2> QED
      BY <1>2, <2>1, <2>2
  <1>7. PairedInOneRoom'
    BY <1>1, <1>5 DEF PairedInOneRoom
  <1>8. Captured'
    <2>1. SUFFICES ASSUME NEW c \in Conns, pc[c] \in {"wait", "waiting", "late"},
                          cap[c] = token, room # 0, inst[c] = room
                   PROVE  \/ cap[c] = token' /\ room' # 0 /\ inst[c] = room'
                          \/ cap[c] \in cancelled' \/ inst[c] \in over'
      BY <1>1, <1>5 DEF Captured
    <2>2. CASE Create \/ Purge
      BY <2>1, <2>2 DEF Create, Purge, Expired
    <2>3. CASE Delete \/ Secure
      BY <2>1, <2>3 DEF Delete, Secure
    <2>4. CASE Expire
      BY <2>1, <2>4 DEF Expire
    <2> QED
      BY <2>2, <2>3, <2>4 DEF Rooms
  <1> QED
    BY <1>4, <1>6, <1>7, <1>8

\* Steps of a task after which its connection is in no slot, or still waits in it.
LEMMA QuietStep ==
  ASSUME TypeOK, RelayInv, NEW c \in Conns, UNCHANGED <<roomVars, pending, inst, cap, signalled, mate>>,
         NEW p, pc' = [pc EXCEPT ![c] = p],
         \/ pc[c] = "new" /\ p = "hello"
         \/ pc[c] \in {"hello", "wait", "copying"} /\ p = "ended"
         \/ pc[c] = "waiting" /\ p = "late"
         \/ pc[c] = "waiting" /\ p = "ended" /\ c \notin pending
  PROVE  RelayInv'
  <1>1. \A d \in Conns : pc'[d] = IF d = c THEN p ELSE pc[d]
    BY DEF TypeOK
  <1>2. UNCHANGED <<room, token, over, cancelled>>
    BY DEF roomVars
  <1>3. NoMissedPair' /\ MatesAreExclusive' /\ PairedInOneRoom'
    BY <1>2 DEF NoMissedPair, MatesAreExclusive, PairedInOneRoom, SameRole
  <1>4. PendingIsAwaited' /\ WaiterIsPending' /\ Outside'
    BY <1>1, <1>2 DEF PendingIsAwaited, WaiterIsPending, Outside, SameRole
  <1>5. Captured' /\ Mated'
    BY <1>1, <1>2 DEF Captured, Mated
  <1> QED
    BY <1>3, <1>4, <1>5

\* An admitted connection that finds no opposite captures the room.
LEMMA HelloWaitsStep ==
  ASSUME TypeOK, RelayInv, NEW c \in Conns, HelloWaits(c)
  PROVE  RelayInv'
  <1>1. /\ UNCHANGED <<room, token, over, cancelled, pending, signalled, mate>>
        /\ pc[c] = "hello" /\ room # 0
        /\ \A d \in Conns : /\ pc'[d] = IF d = c THEN "wait" ELSE pc[d]
                            /\ cap'[d] = IF d = c THEN token ELSE cap[d]
                            /\ inst'[d] = IF d = c THEN room ELSE inst[d]
    BY DEF TypeOK, HelloWaits, Admitted, roomVars
  <1>2. c \notin pending /\ ~signalled[c] /\ mate[c] = None
    BY <1>1 DEF Outside, Mated
  <1>3. \A d \in Conns : mate[d] # None => d # c /\ mate[d] # c /\ mate[d] \in Conns
    BY <1>1 DEF Mated, TypeOK
  <1>4. NoMissedPair' /\ MatesAreExclusive' /\ PairedInOneRoom'
    BY <1>1, <1>3 DEF NoMissedPair, MatesAreExclusive, PairedInOneRoom, SameRole
  <1>5. PendingIsAwaited' /\ WaiterIsPending' /\ Outside'
    BY <1>1, <1>2 DEF PendingIsAwaited, WaiterIsPending, Outside, SameRole, TypeOK
  <1>6. Captured' /\ Mated'
    BY <1>1, <1>3 DEF Captured, Mated
  <1> QED
    BY <1>4, <1>5, <1>6

\* c takes d out of its slot.  That the two were admitted to one room follows from
\* Captured: neither brings a cancelled token.
LEMMA PairStep ==
  ASSUME TypeOK, RelayInv, NEW c \in Conns, HelloPairs(c) \/ RelockPairs(c)
  PROVE  RelayInv'
  <1>1. PICK d \in Opposite(c) : /\ mate' = [mate EXCEPT ![c] = d]
                                 /\ Leave({d})
                                 /\ pc' = [pc EXCEPT ![c] = "copying"]
    BY DEF HelloPairs, RelockPairs, Pair
  <1>2. UNCHANGED <<room, token, over, cancelled>> /\ pc[c] \in {"hello", "wait"}
    BY DEF HelloPairs, RelockPairs, roomVars
  <1>3. /\ d \in Conns /\ d \in pending /\ Key[d] = Key[c] /\ ~SameRole(c, d)
        /\ pc[d] \in {"waiting", "late"} /\ cap[d] \notin cancelled /\ d # c
    BY <1>2 DEF Opposite, TypeOK, PendingIsAwaited
  <1>4. /\ c \notin pending /\ ~signalled[c] /\ mate[c] = None /\ mate[d] = None
        /\ \A e \in Conns : mate[e] # c
    BY <1>2, <1>3, ConnsAssumption DEF Outside, Mated, TypeOK
  <1>5. \A e \in Conns : /\ pc'[e] = IF e = c THEN "copying" ELSE pc[e]
                         /\ mate'[e] = IF e = c THEN d ELSE mate[e]
                         /\ signalled'[e] = (signalled[e] \/ e = d)
                         /\ e # c => cap'[e] = cap[e] /\ inst'[e] = inst[e]
    BY <1>1 DEF TypeOK, Leave, HelloPairs, RelockPairs
  <1>6. pending' = pending \ {d}
    BY <1>1 DEF Leave
  <1>7. NoMissedPair' /\ WaiterIsPending' /\ Outside'
    BY <1>3, <1>4, <1>5, <1>6 DEF NoMissedPair, WaiterIsPending, Outside, SameRole
  <1>8. PendingIsAwaited'
    <2>1. pending' \subseteq pending \ {c, d}
      BY <1>4, <1>6
    <2>2. pending \subseteq Conns
      BY DEF TypeOK
    <2> QED
      BY <1>2, <1>5, <2>1, <2>2 DEF PendingIsAwaited, SameRole
  <1>9. MatesAreExclusive'
    <2>1. \A e \in Conns : mate[e] # None => mate[e] \in Conns /\ mate[e] # d /\ mate[e] # c
      BY <1>3, <1>4 DEF MatesAreExclusive, TypeOK
    <2>2. None \notin Conns
      BY ConnsAssumption
    <2>3. ASSUME NEW e \in Conns, e # c, mate[e] # None
          PROVE  /\ Key[mate'[e]] = Key[e] /\ ~SameRole(e, mate'[e])
                 /\ mate'[e] \notin pending' /\ mate'[mate'[e]] = None
                 /\ \A x \in Conns \ {e} : mate'[x] # mate'[e]
      <3>1. mate'[e] = mate[e] /\ mate[e] \in Conns /\ mate[e] # c /\ mate[e] # d
        BY <1>5, <2>1, <2>3
      <3>2. /\ Key[mate[e]] = Key[e] /\ ~SameRole(e, mate[e])
            /\ mate[e] \notin pending /\ mate[mate[e]] = None
            /\ \A x \in Conns \ {e} : mate[x] # mate[e]
        BY <2>3 DEF MatesAreExclusive
      <3> QED
        BY <1>5, <1>6, <3>1, <3>2
    <2>4. /\ Key[mate'[c]] = Key[c] /\ ~SameRole(c, mate'[c])
          /\ mate'[c] \notin pending' /\ mate'[mate'[c]] = None
          /\ \A x \in Conns \ {c} : mate'[x] # mate'[c]
      BY <1>3, <1>4, <1>5, <1>6, <2>1, <2>2
    <2>5. \A e \in Conns : mate'[e] # None => e = c \/ mate[e] # None
      BY <1>5
    <2> QED
      BY <2>3, <2>4, <2>5 DEF MatesAreExclusive, SameRole
  <1>10. PairedInOneRoom'
    <2>1. \/ cap'[c] = token
          \/ inst'[c] \in over
      <3>1. CASE HelloPairs(c)
        BY <3>1 DEF HelloPairs, TypeOK
      <3>2. CASE RelockPairs(c)
        BY <3>2 DEF RelockPairs, StillValid, Captured
      <3> QED
        BY <3>1, <3>2
    <2>2. \/ cap'[d] = token
          \/ inst'[d] \in over
      BY <1>3, <1>5 DEF Captured
    <2>3. cap'[c] = cap'[mate'[c]] \/ inst'[c] \in over' \/ inst'[mate'[c]] \in over'
      BY <1>2, <1>5, <2>1, <2>2
    <2>4. ASSUME NEW e \in Conns, e # c, mate'[e] # None
          PROVE  cap'[e] = cap'[mate'[e]] \/ inst'[e] \in over' \/ inst'[mate'[e]] \in over'
      <3>1. mate'[e] = mate[e] /\ mate[e] \in Conns /\ mate[e] # c
        BY <1>4, <1>5, <2>4 DEF TypeOK
      <3> QED
        BY <1>2, <1>5, <2>4, <3>1 DEF PairedInOneRoom
    <2> QED
      BY <2>3, <2>4 DEF PairedInOneRoom
  <1>11. Captured'
    BY <1>2, <1>5 DEF Captured
  <1>12. Mated'
    <2>1. \A e \in Conns : mate[e] # None => mate[e] \in Conns /\ mate[e] # c /\ e # c
      BY <1>4 DEF TypeOK
    <2> QED
      BY <1>3, <1>5, <2>1 DEF Mated
  <1> QED
    BY <1>7, <1>8, <1>9, <1>10, <1>11, <1>12

\* c is left in its slot; whoever was there is told.
LEMMA InsertStep ==
  ASSUME TypeOK, RelayInv, NEW c \in Conns, RelockInserts(c)
  PROVE  RelayInv'
  <1>1. /\ UNCHANGED <<room, token, over, cancelled, inst, cap, mate>>
        /\ pc[c] = "wait" /\ room # 0 /\ cap[c] \notin cancelled /\ Opposite(c) = {}
        /\ pending' = (pending \ Slot(c)) \cup {c}
        /\ \A d \in Conns : /\ pc'[d] = IF d = c THEN "waiting" ELSE pc[d]
                            /\ signalled'[d] = (signalled[d] \/ d \in Slot(c))
    BY DEF TypeOK, RelockInserts, StillValid, StillAlone, roomVars
  <1>2. c \notin pending /\ ~signalled[c] /\ mate[c] = None /\ c \notin Slot(c)
    BY <1>1 DEF Outside, Mated, Slot
  <1>3. pending \subseteq Conns /\ \A d \in pending : Key[d] = Key[c] <=> d \in Slot(c)
    BY <1>1 DEF TypeOK, Slot, Opposite
  <1>4. \A d \in Conns : mate[d] # None => mate[d] # c /\ d # c /\ mate[d] \in Conns
    BY <1>1 DEF Mated, TypeOK
  <1>5. NoMissedPair'
    BY <1>1, <1>3 DEF NoMissedPair, SameRole
  <1>6. PendingIsAwaited'
    BY <1>1, <1>2, <1>3 DEF PendingIsAwaited, SameRole
  <1>7. WaiterIsPending' /\ Outside'
    BY <1>1, <1>2, <1>3 DEF WaiterIsPending, Outside, Slot
  <1>8. MatesAreExclusive' /\ PairedInOneRoom'
    BY <1>1, <1>4 DEF MatesAreExclusive, PairedInOneRoom, SameRole
  <1>9. Captured' /\ Mated'
    BY <1>1, <1>4 DEF Captured, Mated
  <1> QED
    BY <1>5, <1>6, <1>7, <1>8, <1>9

\* A task that timed out takes its own entry only.
LEMMA CleanStep ==
  ASSUME TypeOK, RelayInv, NEW c \in Conns, TimeoutCleans(c)
  PROVE  RelayInv'
  <1>1. /\ UNCHANGED <<room, token, over, cancelled, inst, cap, mate>>
        /\ pc[c] = "late"
        /\ \A d \in Conns : pc'[d] = IF d = c THEN "ended" ELSE pc[d]
    BY DEF TypeOK, TimeoutCleans, Finish, roomVars
  <1>2. PICK D \in SUBSET {c} : D \subseteq pending /\ Leave(D) /\ (c \in pending /\ room # 0 => D = {c})
    BY <1>1 DEF TimeoutCleans, OwnEntry, Slot, SameRole
  <1>3. c \in pending => D = {c}
    BY <1>2 DEF PendingIsAwaited
  <1>4. /\ pending' = pending \ {c}
        /\ \A d \in Conns : /\ signalled[d] => signalled'[d]
                            /\ d # c => signalled'[d] = signalled[d]
    BY <1>2, <1>3 DEF Leave, TypeOK
  <1>5. NoMissedPair' /\ WaiterIsPending' /\ Outside'
    BY <1>1, <1>4 DEF NoMissedPair, WaiterIsPending, Outside, SameRole
  <1>6. PendingIsAwaited'
    BY <1>1, <1>4 DEF PendingIsAwaited, SameRole, TypeOK
  <1>7. MatesAreExclusive' /\ PairedInOneRoom'
    BY <1>1, <1>4 DEF MatesAreExclusive, PairedInOneRoom, SameRole
  <1>8. Captured' /\ Mated'
    BY <1>1 DEF Captured, Mated, TypeOK
  <1> QED
    BY <1>5, <1>6, <1>7, <1>8

\* Every step of a task keeps the invariant.
LEMMA TaskStep ==
  ASSUME TypeOK, RelayInv, NEW c \in Conns, Task(c)
  PROVE  RelayInv'
  <1>1. CASE Accept(c)
    BY <1>1, QuietStep DEF Accept
  <1>2. CASE Refuse(c) \/ RelockFails(c) \/ Cut(c) \/ Closed(c)
    BY <1>2, QuietStep DEF Refuse, RelockFails, Cut, Closed, Finish
  <1>3. CASE TimesOut(c)
    BY <1>3, QuietStep DEF TimesOut
  <1>4. CASE Told(c)
    <2>1. c \notin pending
      BY <1>4 DEF Told, PendingIsAwaited
    <2> QED
      BY <1>4, <2>1, QuietStep DEF Told, Finish
  <1> QED
    BY <1>1, <1>2, <1>3, <1>4, HelloWaitsStep, PairStep, InsertStep, CleanStep DEF Task

\* Every step does.
LEMMA RelayStep == TypeOK /\ RelayInv /\ [Next]_vars => RelayInv'
  <1>1. ASSUME TypeOK, RelayInv, UNCHANGED vars
        PROVE  RelayInv'
    BY <1>1 DEF vars, roomVars, authVars, NoMissedPair, PendingIsAwaited, WaiterIsPending,
                MatesAreExclusive, PairedInOneRoom, Outside, Captured, Mated, SameRole
  <1> QED
    BY <1>1, RoomStep, TaskStep DEF Next

\* The slots, the waiting tasks, the pairs and the captured tokens stay consistent
\* although the lock is released between the steps of a task.
THEOREM RelayCorrect == Spec => []RelayInv
  BY InitRelay, RelayStep, RelayTypes, PTL DEF Spec

\* Of two connections that look for each other, whoever comes second finds the first.
THEOREM NobodyIsMissed == Spec => []NoMissedPair
  BY RelayCorrect, PTL

\* A slot holds one connection, whose task awaits it in the room that admitted it;
\* and a task does not wait for a stream that has left the room without telling it.
THEOREM WaitingAgrees == Spec => []SlotsAndTasksAgree
  <1>1. RelayInv => SlotsAndTasksAgree
    BY DEF RelayInv, SlotsAndTasksAgree
  <1> QED
    BY <1>1, RelayCorrect, PTL

\* No stream is handed to two tasks, nor to one that did not ask for it.
THEOREM StreamsAreHandedOnce == Spec => []MatesAreExclusive
  BY RelayCorrect, PTL

\* Only what one room admitted under one authorization is joined together.
THEOREM OneRoomAdmittedBoth == Spec => []PairedInOneRoom
  BY RelayCorrect, PTL

\* A waiting connection loses its place for the stated reasons only.
THEOREM PlacesKept == Spec => PlacesAreKept
  <1>1. ASSUME TypeOK, RelayInv, [Next]_vars
        PROVE  [KeepsItsPlace]_vars
    <2>1. SUFFICES ASSUME NEW c \in pending \ pending', Next
                   PROVE  \/ \E d \in Conns : mate'[d] = c
                          \/ \E d \in pending' \ pending : Key[d] = Key[c] /\ SameRole(c, d)
                          \/ pc[c] = "late"
                          \/ room' # room \/ token' # token
      BY <1>1 DEF KeepsItsPlace
    <2>2. CASE Rooms
      <3>1. token + 1 # token
        BY <1>1 DEF TypeOK
      <3> QED
        BY <2>1, <2>2, <3>1 DEF Rooms, Create, Purge, Delete, Secure, Expire, Leave
    <2>3. ASSUME NEW x \in Conns, Task(x)
          PROVE  \/ \E d \in Conns : mate'[d] = c
                 \/ \E d \in pending' \ pending : Key[d] = Key[c] /\ SameRole(c, d)
                 \/ pc[c] = "late"
      <3>1. CASE Pair(x)
        <4>1. PICK d \in Opposite(x) : mate' = [mate EXCEPT ![x] = d] /\ Leave({d})
          BY <3>1 DEF Pair
        <4>2. c = d /\ mate'[x] = d
          BY <2>1, <4>1, <1>1 DEF Leave, TypeOK
        <4> QED
          BY <4>2
      <3>2. CASE RelockInserts(x)
        BY <1>1, <2>1, <3>2 DEF RelockInserts, Slot, SameRole, Outside
      <3>3. CASE TimeoutCleans(x)
        BY <2>1, <3>3 DEF TimeoutCleans, Leave, OwnEntry
      <3> QED
        BY <2>1, <2>3, <3>1, <3>2, <3>3 DEF Task, Accept, Refuse, HelloPairs, HelloWaits,
             RelockPairs, RelockFails, Told, TimesOut, Cut, Closed
    <2> QED
      BY <2>1, <2>2, <2>3 DEF Next
  <1> QED
    BY <1>1, RelayTypes, RelayCorrect, PTL DEF Spec, PlacesAreKept

\* Slots, tasks and pairs agree, for any number of connections, keys and rooms.
THEOREM PairingHolds == Spec => []PairingIsSound
  <1>1. /\ TypeOK /\ NoMissedPair /\ SlotsAndTasksAgree /\ MatesAreExclusive /\ PairedInOneRoom
        => PairingIsSound
    BY DEF PairingIsSound
  <1> QED
    BY <1>1, RelayTypes, NobodyIsMissed, WaitingAgrees, StreamsAreHandedOnce,
       OneRoomAdmittedBoth, PTL

-----------------------------------------------------------------------------
(* Custom domains *)
HIDE DEF RelayInv

SocketStates == {"none", "token", "starting", "open", "sending", "closing", "done"}
SocketRecs == [st : SocketStates, owner : Device \cup {Absent}, under : BOOLEAN, queue : Seq(Request),
               pending : SUBSET Request, cut : BOOLEAN]
RequestStates == {"new", "arrived", "looked", "found", "waiting", "refused", "answered", "lost", "timeout"}
RequestRecs == [st : RequestStates, owner : Device \cup {Absent}, pub : 0..MaxSockets, seen : SUBSET Device]
Rows == [owner : Device, token : 1..MaxBinds, fresh : BOOLEAN, verified : BOOLEAN]

DomainTypes ==
    /\ tokens \in 0..MaxBinds /\ zone \subseteq 1..tokens
    /\ bind = Absent \/ bind \in Rows
    /\ publisher \in 0..MaxSockets
    /\ sock \in [Sockets -> SocketRecs] /\ req \in [Request -> RequestRecs]

\* A session has its device from the start; the registered one is connected, or cut off
\* and about to be forgotten.
RegisteredInv ==
    publisher # 0 => /\ publisher \in Sockets
                     /\ \/ Serving(publisher)
                        \/ sock[publisher].st = "closing" /\ sock[publisher].cut

\* What a publisher has to do is a request that was sent to it; and without having been cut
\* off it leaves only when nothing can come and nobody waits.
Work(s) == {sock[s].queue[i] : i \in DOMAIN sock[s].queue} \cup sock[s].pending
Early == {"new", "arrived", "looked"}
Left(s) == sock[s].st \in {"closing", "done"} /\ ~sock[s].cut
SocketInv(s) ==
    /\ \A r \in Work(s) : req[r].pub = s /\ req[r].st \notin Early
    /\ Left(s) => publisher # s /\ Holders(s) = {}

\* Whoever holds the verified domain while a request is under way has been seen by it, and so
\* has the owner of the publisher it was brought to.
UnderWay == {"arrived", "looked", "found", "waiting"}
Live == {"open", "sending", "closing", "done"}
RequestInv(r) ==
    /\ req[r].st \in UnderWay /\ bind # Absent /\ bind.verified => bind.owner \in req[r].seen
    /\ req[r].st = "looked" => req[r].owner \in req[r].seen
    /\ req[r].st \in {"found", "waiting"} =>
          /\ req[r].pub \in Sockets /\ sock[req[r].pub].st \in Live
          /\ sock[req[r].pub].owner \in req[r].seen
    /\ req[r].st = "lost" => req[r].pub \in Sockets /\ sock[req[r].pub].cut

IngressInv ==
    /\ DomainTypes /\ VerifiedWasProved /\ RegisteredInv
    /\ \A s \in Sockets : SocketInv(s)
    /\ \A r \in Request : RequestInv(r)

-----------------------------------------------------------------------------
(* Kinds of steps *)

LEMMA DomainSizes ==
  MaxBinds \in Nat /\ MaxSockets \in Nat /\ Sockets \subseteq Nat \ {0} /\ Sockets \subseteq 0..MaxSockets
  BY DomainAssumption DEF DomainAssumption, Sockets

\* A step of the row: of the rest only the time a publisher was connected may change.
LEMMA RowStep ==
  ASSUME IngressInv, tokens' \in 0..MaxBinds, zone' \subseteq 1..tokens',
         bind' = Absent \/ bind' \in Rows, VerifiedWasProved',
         bind' # Absent /\ bind'.verified =>
            bind # Absent /\ bind.verified /\ bind'.owner = bind.owner,
         publisher' \in {0, publisher}, req' = req,
         sock' \in [Sockets -> SocketRecs],
         \A s \in Sockets : /\ sock'[s].st = sock[s].st /\ sock'[s].owner = sock[s].owner
                            /\ sock'[s].queue = sock[s].queue /\ sock'[s].pending = sock[s].pending
                            /\ sock'[s].cut = sock[s].cut
  PROVE  IngressInv'
  <1>1. DomainTypes'
    BY DomainSizes DEF IngressInv, DomainTypes
  <1>2. RegisteredInv'
    BY DEF IngressInv, RegisteredInv, Serving
  <1>3. ASSUME NEW s \in Sockets PROVE SocketInv(s)'
    <2>1. Work(s)' = Work(s) /\ Holders(s)' = Holders(s) /\ (Left(s)' <=> Left(s))
      BY DEF Work, Holders, Left
    <2>2. SocketInv(s) /\ s # 0
      BY DomainSizes DEF IngressInv
    <2> QED
      BY <2>1, <2>2 DEF SocketInv
  <1>4. ASSUME NEW r \in Request PROVE RequestInv(r)'
    <2>1. RequestInv(r)
      BY DEF IngressInv
    <2> QED
      BY <2>1 DEF RequestInv
  <1> QED
    BY <1>1, <1>2, <1>3, <1>4 DEF IngressInv

\* A step of one publisher.
LEMMA SocketStep ==
  ASSUME IngressInv, NEW s \in Sockets, NEW x \in SocketRecs, sock' = [sock EXCEPT ![s] = x],
         UNCHANGED <<bind, tokens, zone, req>>, publisher' \in {publisher, s},
         sock[s].st \in Live => x.st \in Live /\ x.owner = sock[s].owner,
         sock[s].cut => x.cut,
         Work(s)' \subseteq Work(s), Left(s)' => publisher' # s /\ Holders(s) = {},
         publisher' = s => x.st \in {"open", "sending"} \/ (x.st = "closing" /\ x.cut)
  PROVE  IngressInv'
  <1>0. DomainTypes
    BY DEF IngressInv
  <1>1. /\ sock' \in [Sockets -> SocketRecs] /\ sock'[s] = x
        /\ \A i \in Sockets \ {s} : sock'[i] = sock[i]
    BY <1>0 DEF DomainTypes
  <1>2. DomainTypes' /\ VerifiedWasProved'
    BY <1>0, <1>1, DomainSizes DEF DomainTypes, IngressInv, VerifiedWasProved
  <1>3. RegisteredInv'
    BY <1>1, DomainSizes DEF IngressInv, RegisteredInv, Serving
  <1>4. ASSUME NEW i \in Sockets PROVE SocketInv(i)'
    <2>0. SocketInv(i) /\ Holders(i)' = Holders(i)
      BY DEF IngressInv, Holders
    <2>1. CASE i = s
      BY <2>0, <2>1 DEF SocketInv
    <2>2. CASE i # s
      <3>1. Work(i)' = Work(i) /\ (Left(i)' <=> Left(i))
        BY <1>1, <2>2 DEF Work, Left
      <3> QED
        BY <2>0, <2>2, <3>1 DEF SocketInv
    <2> QED
      BY <2>1, <2>2
  <1>5. ASSUME NEW r \in Request PROVE RequestInv(r)'
    <2>1. RequestInv(r)
      BY DEF IngressInv
    <2>2. \A i \in Sockets : /\ sock[i].st \in Live => sock'[i].st \in Live /\ sock'[i].owner = sock[i].owner
                             /\ sock[i].cut => sock'[i].cut
      BY <1>1
    <2> QED
      BY <2>1, <2>2 DEF RequestInv
  <1> QED
    BY <1>2, <1>3, <1>4, <1>5 DEF IngressInv

\* A step of one request, or of it and what a publisher has to do.
LEMMA RequestStep ==
  ASSUME IngressInv, NEW r \in Request, NEW y \in RequestRecs, req' = [req EXCEPT ![r] = y],
         UNCHANGED <<bind, tokens, zone, publisher>>, sock' \in [Sockets -> SocketRecs],
         \A s \in Sockets : /\ sock'[s].st = sock[s].st /\ sock'[s].owner = sock[s].owner
                            /\ sock'[s].cut = sock[s].cut
                            /\ Work(s)' \subseteq Work(s) \/ (y.pub = s /\ Work(s)' \subseteq Work(s) \cup {r}),
         y.st \in Early => req[r].st \in Early /\ \A s \in Sockets : Work(s)' \subseteq Work(s),
         req[r].st \notin Early => y.pub = req[r].pub,
         y.st \in {"found", "waiting"} =>
            \/ req[r].st \in {"found", "waiting"} /\ y.pub = req[r].pub
            \/ publisher # 0 /\ y.pub = publisher,
         RequestInv(r)'
  PROVE  IngressInv'
  <1>0. DomainTypes /\ RegisteredInv
    BY DEF IngressInv
  <1>1. req' \in [Request -> RequestRecs] /\ req'[r] = y /\ \A q \in Request \ {r} : req'[q] = req[q]
    BY <1>0 DEF DomainTypes
  <1>2. DomainTypes' /\ VerifiedWasProved' /\ RegisteredInv'
    BY <1>0, <1>1 DEF DomainTypes, IngressInv, VerifiedWasProved, RegisteredInv, Serving
  <1>3. ASSUME NEW s \in Sockets PROVE SocketInv(s)'
    <2>0. SocketInv(s) /\ (Left(s)' <=> Left(s))
      BY DEF IngressInv, Left
    <2>1. ASSUME NEW q \in Work(s)' PROVE req'[q].pub = s /\ req'[q].st \notin Early
      <3>0. q \in Request
        BY DEF Work, SocketRecs
      <3>1. CASE q # r
        <4>1. q \in Work(s)
          BY <2>1, <3>1
        <4> QED
          BY <1>1, <2>0, <3>0, <3>1, <4>1 DEF SocketInv
      <3>2. CASE q = r /\ r \in Work(s)
        <4>1. req[r].pub = s /\ req[r].st \notin Early
          BY <2>0, <3>2 DEF SocketInv
        <4> QED
          BY <1>1, <3>2, <4>1
      <3>3. CASE q = r /\ r \notin Work(s)
        <4>1. y.pub = s /\ y.st \notin Early
          BY <2>1, <3>3
        <4> QED
          BY <1>1, <3>3, <4>1
      <3> QED
        BY <3>1, <3>2, <3>3
    <2>2. ASSUME Left(s) PROVE publisher' # s /\ Holders(s)' = {}
      <3>1. publisher # s /\ Holders(s) = {}
        BY <2>0, <2>2 DEF SocketInv
      <3>2. ASSUME NEW q \in Holders(s)' PROVE FALSE
        <4>1. q \in Request /\ req'[q].pub = s /\ req'[q].st \in {"found", "waiting"}
          BY DEF Holders
        <4>2. q = r
          BY <1>1, <3>1, <4>1 DEF Holders
        <4>3. y.pub = s /\ y.st \in {"found", "waiting"}
          BY <1>1, <4>1, <4>2
        <4> QED
          BY <3>1, <4>3 DEF Holders
      <3> QED
        BY <3>1, <3>2
    <2> QED
      BY <2>0, <2>1, <2>2 DEF SocketInv
  <1>4. ASSUME NEW q \in Request PROVE RequestInv(q)'
    <2>1. CASE q = r
      BY <2>1
    <2>2. CASE q # r
      <3>1. RequestInv(q) /\ req'[q] = req[q]
        BY <1>1, <2>2 DEF IngressInv
      <3> QED
        BY <3>1 DEF RequestInv
    <2> QED
      BY <2>1, <2>2
  <1> QED
    BY <1>2, <1>3, <1>4 DEF IngressInv

-----------------------------------------------------------------------------
(* The operations of a device *)

LEMMA BindKeeps ==
  ASSUME IngressInv, NEW d \in Device, Bind(d)
  PROVE  IngressInv'
  <1>1. tokens \in 0..MaxBinds /\ zone \subseteq 1..tokens /\ tokens < MaxBinds /\ tokens' = tokens + 1
    BY DEF IngressInv, DomainTypes, Bind
  <1>2. tokens' \in 0..MaxBinds /\ tokens' \in 1..MaxBinds /\ zone' \subseteq 1..tokens'
    BY <1>1, DomainSizes DEF Bind, serving
  <1>3. bind' \in Rows /\ ~bind'.verified
    BY <1>2 DEF Bind, Rows
  <1>4. UNCHANGED <<sock, publisher, req>> /\ sock \in [Sockets -> SocketRecs]
    BY DEF Bind, serving, IngressInv, DomainTypes
  <1> QED
    BY <1>2, <1>3, <1>4, RowStep DEF VerifiedWasProved

\* Nothing but the operation of a device.
LEMMA StillKeeps ==
  ASSUME IngressInv, UNCHANGED <<bind, tokens, zone, sock, publisher, req>>
  PROVE  IngressInv'
  <1>1. DomainTypes' /\ VerifiedWasProved' /\ RegisteredInv'
    BY DEF IngressInv, DomainTypes, VerifiedWasProved, RegisteredInv, Serving
  <1>2. \A s \in Sockets : SocketInv(s)'
    BY DEF IngressInv, SocketInv, Work, Left, Holders
  <1>3. \A r \in Request : RequestInv(r)'
    BY DEF IngressInv, RequestInv
  <1> QED
    BY <1>1, <1>2, <1>3 DEF IngressInv

LEMMA VerifyKeeps ==
  ASSUME IngressInv, NEW d \in Device, VerifyCommits(d)
  PROVE  IngressInv'
  <1>0. DomainTypes /\ UNCHANGED <<tokens, zone, sock, publisher>>
    BY DEF IngressInv, VerifyCommits
  <1>1. PICK records \in SUBSET zone :
           IF Proves(d, records)
           THEN /\ bind' = [bind EXCEPT !.verified = TRUE, !.fresh = FALSE]
                /\ req' = [r \in Request |-> IF req[r].st \in {"arrived", "looked", "found", "waiting"}
                                                THEN [req[r] EXCEPT !.seen = @ \cup {d}] ELSE req[r]]
           ELSE UNCHANGED <<bind, req>>
    BY DEF VerifyCommits
  <1>2. CASE ~Proves(d, records)
    BY <1>0, <1>1, <1>2, StillKeeps
  <1>3. CASE Proves(d, records)
    <2>1. PICK row \in Rows : row = bind /\ bind # Absent /\ row.owner = d /\ row.token \in zone
      BY <1>0, <1>3 DEF Proves, OwnedBy, DomainTypes
    <2>2. bind' \in Rows /\ bind'.owner = d /\ bind'.token \in zone
      <3>1. bind' = [row EXCEPT !.verified = TRUE, !.fresh = FALSE]
        BY <1>1, <1>3, <2>1
      <3> QED
        BY <2>1, <3>1 DEF Rows
    <2>3. ASSUME NEW r \in Request
          PROVE  /\ req'[r] \in RequestRecs /\ req'[r].st = req[r].st /\ req'[r].pub = req[r].pub
                 /\ req'[r].owner = req[r].owner /\ req[r].seen \subseteq req'[r].seen
                 /\ req[r].st \in UnderWay => d \in req'[r].seen
      <3>1. PICK q \in RequestRecs : q = req[r]
        BY <1>0 DEF DomainTypes
      <3>2. req'[r] = IF q.st \in UnderWay THEN [q EXCEPT !.seen = @ \cup {d}] ELSE q
        BY <1>1, <1>3, <3>1 DEF UnderWay
      <3> QED
        BY <3>1, <3>2 DEF RequestRecs
    <2>4. DomainTypes' /\ VerifiedWasProved'
      <3>1. req' \in [Request -> RequestRecs]
        <4>1. req' = [r \in Request |-> req'[r]]
          BY <1>1, <1>3
        <4> QED
          BY <2>3, <4>1
      <3> QED
        BY <1>0, <2>2, <3>1 DEF DomainTypes, VerifiedWasProved
    <2>5. RegisteredInv'
      BY <1>0 DEF IngressInv, RegisteredInv, Serving
    <2>6. ASSUME NEW s \in Sockets PROVE SocketInv(s)'
      <3>1. SocketInv(s) /\ Work(s) \subseteq Request
        BY <1>0 DEF IngressInv, DomainTypes, Work, SocketRecs
      <3>2. Work(s)' = Work(s) /\ Holders(s)' = Holders(s) /\ (Left(s)' <=> Left(s))
        BY <1>0, <2>3 DEF Work, Holders, Left
      <3> QED
        BY <1>0, <2>3, <3>1, <3>2 DEF SocketInv
    <2>7. ASSUME NEW r \in Request PROVE RequestInv(r)'
      <3>1. RequestInv(r)
        BY DEF IngressInv
      <3> QED
        BY <1>0, <2>2, <2>3, <3>1 DEF RequestInv
    <2> QED
      BY <2>4, <2>5, <2>6, <2>7 DEF IngressInv
  <1> QED
    BY <1>2, <1>3

LEMMA OperationKeeps ==
  ASSUME IngressInv, NEW d \in Device, Operation(d)
  PROVE  IngressInv'
  <1>0. DomainTypes /\ sock \in [Sockets -> SocketRecs]
    BY DEF IngressInv, DomainTypes
  <1>1. CASE VerifyBegins(d) \/ OpenChecks(d)
    BY <1>1, StillKeeps DEF VerifyBegins, OpenChecks, table, serving
  <1>2. CASE UnbindRemoves(d)
    <2>1. bind' = Absent /\ UNCHANGED <<tokens, zone, publisher, req>>
      BY <1>2 DEF UnbindRemoves
    <2>2. ASSUME NEW s \in Sockets
          PROVE  /\ sock'[s] \in SocketRecs
                 /\ sock'[s].st = sock[s].st /\ sock'[s].owner = sock[s].owner
                 /\ sock'[s].queue = sock[s].queue /\ sock'[s].pending = sock[s].pending
                 /\ sock'[s].cut = sock[s].cut
      <3>1. PICK x \in SocketRecs : x = sock[s]
        BY <1>0
      <3>2. sock'[s] = [x EXCEPT !.under = FALSE]
        BY <1>2, <3>1 DEF UnbindRemoves
      <3> QED
        BY <3>1, <3>2 DEF SocketRecs
    <2>3. sock' \in [Sockets -> SocketRecs]
      <3>1. sock' = [s \in Sockets |-> sock'[s]]
        BY <1>2 DEF UnbindRemoves
      <3> QED
        BY <2>2, <3>1
    <2> QED
      BY <1>0, <2>1, <2>2, <2>3, RowStep DEF DomainTypes, VerifiedWasProved
  <1>3. CASE UnbindForgets(d)
    <2>1. publisher' = 0 /\ UNCHANGED <<bind, tokens, zone, sock, req>>
      BY <1>3 DEF UnbindForgets, table
    <2>2. VerifiedWasProved'
      BY <2>1 DEF IngressInv, VerifiedWasProved
    <2> QED
      BY <1>0, <2>1, <2>2, RowStep DEF DomainTypes
  <1>4. CASE OpenIssues(d)
    <2>1. UNCHANGED <<bind, tokens, zone, publisher, req>>
      BY <1>4 DEF OpenIssues, table
    <2>2. CASE UNCHANGED sock
      BY <2>1, <2>2, StillKeeps
    <2>3. CASE \E s \in Sockets : sock[s].st = "none" /\ sock' = [sock EXCEPT ![s].st = "token", ![s].owner = d]
      <3>1. PICK s \in Sockets : sock[s].st = "none" /\ sock' = [sock EXCEPT ![s].st = "token", ![s].owner = d]
        BY <2>3
      <3>2. PICK x \in SocketRecs : x = sock[s]
        BY <1>0
      <3> DEFINE z == [x EXCEPT !.st = "token", !.owner = d]
      <3>3. z \in SocketRecs /\ z.st = "token" /\ z.cut = x.cut /\ z.queue = x.queue /\ z.pending = x.pending
        BY DEF SocketRecs, SocketStates
      <3>4. sock' = [sock EXCEPT ![s] = z]
        BY <1>0, <3>1, <3>2
      <3> HIDE DEF z
      <3>5. sock'[s] = z
        BY <1>0, <3>4
      <3>6. Work(s)' = Work(s) /\ ~Left(s)'
        BY <3>2, <3>3, <3>5 DEF Work, Left
      <3>7. publisher # s
        BY <3>1, DomainSizes DEF IngressInv, RegisteredInv, Serving
      <3>8. sock[s].st \notin Live
        BY <3>1 DEF Live
      <3> QED
        BY <2>1, <3>2, <3>3, <3>4, <3>6, <3>7, <3>8, SocketStep
    <2> QED
      BY <1>4, <2>2, <2>3 DEF OpenIssues
  <1> QED
    BY <1>1, <1>2, <1>3, <1>4, BindKeeps, VerifyKeeps DEF Operation

LEMMA RecordKeeps ==
  ASSUME IngressInv, TokenExpires \/ ShowRecord
  PROVE  IngressInv'
  <1>0. DomainTypes /\ sock \in [Sockets -> SocketRecs] /\ UNCHANGED <<sock, publisher, req, tokens>>
    BY DEF IngressInv, DomainTypes, TokenExpires, ShowRecord, table, serving
  <1>1. CASE TokenExpires
    <2>1. PICK row \in Rows : row = bind /\ bind # Absent
      BY <1>0, <1>1 DEF DomainTypes, TokenExpires
    <2>2. bind' = [row EXCEPT !.fresh = FALSE] /\ zone' = zone
      BY <1>1, <2>1 DEF TokenExpires
    <2>3. /\ bind' \in Rows /\ bind'.owner = row.owner /\ bind'.token = row.token
          /\ bind'.verified = row.verified
      BY <2>2 DEF Rows
    <2>4. VerifiedWasProved'
      BY <2>1, <2>2, <2>3 DEF IngressInv, VerifiedWasProved
    <2> QED
      BY <1>0, <2>1, <2>2, <2>3, <2>4, RowStep DEF DomainTypes
  <1>2. CASE ShowRecord
    <2>1. bind' = bind /\ zone \subseteq zone' /\ zone' \subseteq 1..tokens
      BY <1>0, <1>2 DEF ShowRecord, table, DomainTypes
    <2>2. VerifiedWasProved'
      BY <2>1 DEF IngressInv, VerifiedWasProved
    <2> QED
      BY <1>0, <2>1, <2>2, RowStep DEF DomainTypes
  <1> QED
    BY <1>1, <1>2

-----------------------------------------------------------------------------
(* Publishers *)

\* Of one publisher only the state changes.
LEMMA StateStep ==
  ASSUME IngressInv, NEW s \in Sockets, NEW st \in SocketStates, SocketAt(s, st),
         UNCHANGED <<bind, tokens, zone, publisher, req>>,
         sock[s].st \in Live => st \in Live,
         st \in {"closing", "done"} /\ ~sock[s].cut => publisher # s /\ Holders(s) = {},
         publisher = s => st \in {"open", "sending"} \/ (st = "closing" /\ sock[s].cut)
  PROVE  IngressInv'
  <1>0. sock \in [Sockets -> SocketRecs]
    BY DEF IngressInv, DomainTypes
  <1>1. PICK x \in SocketRecs : x = sock[s]
    BY <1>0
  <1> DEFINE z == [x EXCEPT !.st = st]
  <1>2. /\ z \in SocketRecs /\ z.st = st /\ z.owner = x.owner /\ z.cut = x.cut
        /\ z.queue = x.queue /\ z.pending = x.pending
    BY DEF SocketRecs
  <1>3. sock' = [sock EXCEPT ![s] = z]
    BY <1>0, <1>1 DEF SocketAt
  <1> HIDE DEF z
  <1>4. sock'[s] = z
    BY <1>0, <1>3
  <1>5. Work(s)' = Work(s) /\ (Left(s)' => st \in {"closing", "done"} /\ ~sock[s].cut)
    BY <1>1, <1>2, <1>4 DEF Work, Left
  <1> QED
    BY <1>1, <1>2, <1>3, <1>5, SocketStep

LEMMA NobodyHolds ==
  ASSUME IngressInv, NEW s \in Sockets, sock[s].st \notin Live
  PROVE  publisher # s /\ Holders(s) = {}
  <1>1. publisher # s
    BY DomainSizes DEF IngressInv, RegisteredInv, Serving, Live
  <1>2. ASSUME NEW r \in Holders(s) PROVE FALSE
    BY DEF Holders, IngressInv, RequestInv
  <1> QED
    BY <1>1, <1>2

LEMMA SessionKeeps ==
  ASSUME IngressInv, NEW s \in Sockets, SessionExpires(s) \/ Upgrade(s)
  PROVE  IngressInv'
  <1>1. UNCHANGED <<bind, tokens, zone, publisher, req>> /\ sock[s].st = "token"
    BY DEF SessionExpires, Upgrade, table
  <1>2. publisher # s /\ Holders(s) = {} /\ sock[s].st \notin Live
    BY <1>1, NobodyHolds DEF Live
  <1>3. SocketAt(s, "done") \/ SocketAt(s, "starting")
    BY DEF SessionExpires, Upgrade
  <1>4. "done" \in SocketStates /\ "starting" \in SocketStates
    BY DEF SocketStates
  <1> QED
    BY <1>1, <1>2, <1>3, <1>4, StateStep

LEMMA RegistersKeeps ==
  ASSUME IngressInv, NEW s \in Sockets, Registers(s)
  PROVE  IngressInv'
  <1>0. sock \in [Sockets -> SocketRecs]
    BY DEF IngressInv, DomainTypes
  <1>1. PICK x \in SocketRecs : x = sock[s]
    BY <1>0
  <1>2. PICK b \in BOOLEAN : b = OwnedBy(sock[s].owner)
    BY DEF OwnedBy
  <1> DEFINE z == [x EXCEPT !.st = "open", !.under = b]
  <1>3. /\ z \in SocketRecs /\ z.st = "open" /\ z.cut = x.cut
        /\ z.queue = x.queue /\ z.pending = x.pending
    BY DEF SocketRecs, SocketStates
  <1>4. sock' = [sock EXCEPT ![s] = z]
    BY <1>0, <1>1, <1>2 DEF Registers
  <1> HIDE DEF z
  <1>5. sock'[s] = z
    BY <1>0, <1>4
  <1>6. Work(s)' = Work(s) /\ ~Left(s)'
    BY <1>1, <1>3, <1>5 DEF Work, Left
  <1>7. sock[s].st \notin Live /\ publisher' = s /\ UNCHANGED <<bind, tokens, zone, req>>
    BY DEF Registers, Live, table
  <1> QED
    BY <1>1, <1>3, <1>4, <1>6, <1>7, SocketStep

LEMMA DispatchesKeeps ==
  ASSUME IngressInv, NEW s \in Sockets, Dispatches(s)
  PROVE  IngressInv'
  <1>0. sock \in [Sockets -> SocketRecs]
    BY DEF IngressInv, DomainTypes
  <1>1. PICK x \in SocketRecs : x = sock[s]
    BY <1>0
  <1>2. x.queue \in Seq(Request) /\ x.queue # <<>> /\ x.st = "open" /\ x.pending \subseteq Request
    BY <1>1 DEF Dispatches, SocketRecs
  <1>12. Tail(x.queue) \in Seq(Request) /\ Head(x.queue) \in Request
    BY <1>2
  <1>3. PICK q \in Seq(Request) : q = Tail(x.queue)
    BY <1>12
  <1>4. PICK p \in SUBSET Request : p = x.pending \cup {Head(x.queue)}
    BY <1>2, <1>12
  <1>5. /\ \A i \in DOMAIN q : i + 1 \in DOMAIN x.queue /\ q[i] = x.queue[i + 1]
        /\ Head(x.queue) = x.queue[1] /\ 1 \in DOMAIN x.queue
    BY <1>2, <1>3
  <1> DEFINE z == [x EXCEPT !.st = "sending", !.queue = q, !.pending = p]
  <1>6. /\ z \in SocketRecs /\ z.st = "sending" /\ z.cut = x.cut /\ z.owner = x.owner
        /\ z.queue = q /\ z.pending = p
    BY <1>2 DEF SocketRecs, SocketStates
  <1>7. sock' = [sock EXCEPT ![s] = z]
    BY <1>0, <1>1, <1>3, <1>4 DEF Dispatches
  <1> HIDE DEF z
  <1>8. sock'[s] = z
    BY <1>0, <1>7
  <1>9. Work(s)' \subseteq Work(s)
    BY <1>1, <1>4, <1>5, <1>6, <1>8 DEF Work
  <1>10. ~Left(s)' /\ z.st \in Live
    BY <1>6, <1>8 DEF Left, Live
  <1>11. UNCHANGED <<bind, tokens, zone, req, publisher>>
    BY DEF Dispatches, table
  <1> QED
    BY <1>1, <1>6, <1>7, <1>9, <1>10, <1>11, SocketStep

LEMMA SentKeeps ==
  ASSUME IngressInv, NEW s \in Sockets, Sent(s)
  PROVE  IngressInv'
  <1>1. SocketAt(s, "open") /\ UNCHANGED <<bind, tokens, zone, req, publisher>>
    BY DEF Sent, table
  <1>2. "open" \in SocketStates /\ "open" \in Live
    BY DEF SocketStates, Live
  <1> QED
    BY <1>1, <1>2, StateStep

LEMMA BreaksKeeps ==
  ASSUME IngressInv, NEW s \in Sockets, Breaks(s)
  PROVE  IngressInv'
  <1>0. sock \in [Sockets -> SocketRecs]
    BY DEF IngressInv, DomainTypes
  <1>1. PICK x \in SocketRecs : x = sock[s]
    BY <1>0
  <1> DEFINE z == [x EXCEPT !.cut = TRUE]
  <1>2. /\ z \in SocketRecs /\ z.st = x.st /\ z.cut /\ z.owner = x.owner
        /\ z.queue = x.queue /\ z.pending = x.pending
    BY DEF SocketRecs
  <1>3. sock' = [sock EXCEPT ![s] = z]
    BY <1>0, <1>1 DEF Breaks
  <1> HIDE DEF z
  <1>4. sock'[s] = z
    BY <1>0, <1>3
  <1>5. Work(s)' = Work(s) /\ ~Left(s)' /\ x.st \in {"open", "sending"} /\ UNCHANGED <<bind, tokens, zone, req, publisher>>
    BY <1>1, <1>2, <1>4 DEF Work, Left, Breaks, Serving, table
  <1> QED
    BY <1>1, <1>2, <1>3, <1>5, SocketStep

LEMMA LoopEndsKeeps ==
  ASSUME IngressInv, NEW s \in Sockets, LoopEnds(s)
  PROVE  IngressInv'
  <1>1. /\ SocketAt(s, "closing")
        /\ sock[s].cut \/ (publisher # s /\ Holders(s) = {})
        /\ UNCHANGED <<bind, tokens, zone, req, publisher>>
    BY DEF LoopEnds, Serving, table
  <1>2. "closing" \in SocketStates /\ "closing" \in Live
    BY DEF SocketStates, Live
  <1> QED
    BY <1>1, <1>2, StateStep

LEMMA EndedFact ==
  ASSUME NEW r \in Request, req[r] \in RequestRecs, NEW st \in RequestStates
  PROVE  Ended(r, st) \in RequestRecs /\ Ended(r, st).st = st /\ Ended(r, st).pub = req[r].pub
  BY DEF Ended, RequestRecs

LEMMA AnswersKeeps ==
  ASSUME IngressInv, NEW s \in Sockets, Answers(s)
  PROVE  IngressInv'
  <1>0. sock \in [Sockets -> SocketRecs] /\ req \in [Request -> RequestRecs]
    BY DEF IngressInv, DomainTypes
  <1>1. PICK x \in SocketRecs : x = sock[s]
    BY <1>0
  <1>2. PICK r \in x.pending :
           /\ sock' = [sock EXCEPT ![s].pending = @ \ {r}]
           /\ req' = IF req[r].st = "waiting" THEN [req EXCEPT ![r] = Ended(r, "answered")] ELSE req
    BY <1>1 DEF Answers
  <1>3. r \in Request
    BY DEF SocketRecs
  <1> DEFINE z == [x EXCEPT !.pending = @ \ {r}]
             y == IF req[r].st = "waiting" THEN Ended(r, "answered") ELSE req[r]
  <1>4. /\ z \in SocketRecs /\ z.st = x.st /\ z.cut = x.cut /\ z.owner = x.owner
        /\ z.queue = x.queue /\ z.pending = x.pending \ {r}
    BY DEF SocketRecs
  <1>5. /\ sock' \in [Sockets -> SocketRecs] /\ sock'[s] = z
        /\ \A i \in Sockets \ {s} : sock'[i] = sock[i]
    BY <1>0, <1>1, <1>2, <1>4
  <1>6. /\ y \in RequestRecs /\ y.pub = req[r].pub
        /\ y.st = "answered" \/ y = req[r]
    BY <1>0, <1>3, EndedFact DEF RequestStates
  <1>7. req' = [req EXCEPT ![r] = y]
    BY <1>0, <1>2, <1>3
  <1>8. req'[r] = y
    BY <1>0, <1>3, <1>7
  <1> HIDE DEF z, y
  <1>9. \A i \in Sockets : /\ sock'[i].st = sock[i].st /\ sock'[i].owner = sock[i].owner
                           /\ sock'[i].cut = sock[i].cut /\ Work(i)' \subseteq Work(i)
    BY <1>1, <1>4, <1>5 DEF Work
  <1>10. UNCHANGED <<bind, tokens, zone, publisher>>
    BY DEF Answers, table
  <1>11. RequestInv(r) /\ req[r].st \notin Early
    BY <1>1, <1>3 DEF IngressInv, SocketInv, Work
  <1>12. RequestInv(r)'
    <2>1. CASE y.st = "answered"
      BY <1>8, <2>1 DEF RequestInv, UnderWay
    <2>2. CASE y = req[r]
      BY <1>8, <1>9, <1>10, <1>11, <2>2 DEF RequestInv
    <2> QED
      BY <1>6, <2>1, <2>2
  <1>13. y.st \notin Early /\ (y.st \in {"found", "waiting"} => req[r].st \in {"found", "waiting"})
    BY <1>6, <1>11 DEF Early
  <1> QED
    BY <1>3, <1>5, <1>6, <1>7, <1>9, <1>10, <1>12, <1>13, RequestStep

LEMMA SocketEndsKeeps ==
  ASSUME IngressInv, NEW s \in Sockets, SocketEnds(s)
  PROVE  IngressInv'
  <1>0. DomainTypes /\ sock \in [Sockets -> SocketRecs] /\ req \in [Request -> RequestRecs] /\ SocketInv(s)
    BY DEF IngressInv, DomainTypes
  <1>1. PICK x \in SocketRecs : x = sock[s]
    BY <1>0
  <1> DEFINE z == [x EXCEPT !.st = "done", !.queue = <<>>, !.pending = {}, !.under = FALSE]
  <1>2. /\ z \in SocketRecs /\ z.st = "done" /\ z.cut = x.cut /\ z.owner = x.owner
        /\ z.queue = <<>> /\ z.pending = {}
    <2>1. <<>> \in Seq(Request) /\ {} \in SUBSET Request /\ "done" \in SocketStates
      BY DEF SocketStates
    <2> QED
      BY <2>1 DEF SocketRecs
  <1>3. sock' = [sock EXCEPT ![s] = z] /\ x.st = "closing"
    BY <1>0, <1>1 DEF SocketEnds
  <1> HIDE DEF z
  <1>4. /\ sock' \in [Sockets -> SocketRecs] /\ sock'[s] = z
        /\ \A i \in Sockets \ {s} : sock'[i] = sock[i]
    BY <1>0, <1>2, <1>3
  <1>5. /\ publisher' = IF publisher = s THEN 0 ELSE publisher
        /\ UNCHANGED <<bind, tokens, zone>>
        /\ req' = [r \in Request |-> IF r \in Work(s) /\ req[r].st = "waiting"
                                        THEN Ended(r, "lost") ELSE req[r]]
    BY DEF SocketEnds, Forgets, Work, table
  <1>6. ASSUME NEW r \in Request
        PROVE  /\ req'[r] \in RequestRecs /\ req'[r].pub = req[r].pub
               /\ \/ req'[r] = req[r]
                  \/ req'[r].st = "lost" /\ req[r].st = "waiting" /\ req[r].pub = s /\ x.cut
    <2>1. CASE r \in Work(s) /\ req[r].st = "waiting"
      <3>1. req'[r] = Ended(r, "lost") /\ req[r].pub = s
        BY <1>0, <1>5, <2>1 DEF SocketInv
      <3>2. r \in Holders(s)
        BY <2>1, <3>1 DEF Holders
      <3>3. x.cut
        BY <1>0, <1>1, <1>3, <3>2 DEF SocketInv, Left
      <3> QED
        BY <1>0, <2>1, <3>1, <3>3, EndedFact DEF RequestStates
    <2>2. CASE ~(r \in Work(s) /\ req[r].st = "waiting")
      BY <1>0, <1>5, <2>2
    <2> QED
      BY <2>1, <2>2
  <1>7. DomainTypes' /\ VerifiedWasProved'
    <2>1. req' \in [Request -> RequestRecs]
      BY <1>5, <1>6
    <2>2. VerifiedWasProved'
      BY <1>5 DEF IngressInv, VerifiedWasProved
    <2> QED
      BY <1>0, <1>4, <1>5, <2>1, <2>2, DomainSizes DEF DomainTypes
  <1>8. RegisteredInv'
    BY <1>4, <1>5, DomainSizes DEF IngressInv, RegisteredInv, Serving
  <1>9. ASSUME NEW i \in Sockets PROVE SocketInv(i)'
    <2>0. SocketInv(i) /\ i # 0
      BY DomainSizes DEF IngressInv
    <2>1. Holders(i)' \subseteq Holders(i)
      BY <1>6 DEF Holders
    <2>2. CASE i = s
      <3>1. Work(s)' = {} /\ (Left(s)' => Left(s)) /\ publisher' # s
        BY <1>1, <1>2, <1>3, <1>4, <1>5, <2>0, <2>2 DEF Work, Left
      <3> QED
        BY <2>0, <2>1, <2>2, <3>1 DEF SocketInv
    <2>3. CASE i # s
      <3>1. Work(i)' = Work(i) /\ (Left(i)' <=> Left(i)) /\ publisher' \in {0, publisher}
        BY <1>4, <1>5, <2>3 DEF Work, Left
      <3>2. Work(i) \subseteq Request
        BY <1>0 DEF Work, SocketRecs
      <3>3. \A r \in Work(i)' : req'[r].pub = i /\ req'[r].st \notin Early
        BY <1>6, <2>0, <3>1, <3>2 DEF SocketInv, Early
      <3> QED
        BY <2>0, <2>1, <3>1, <3>3 DEF SocketInv
    <2> QED
      BY <2>2, <2>3
  <1>10. ASSUME NEW r \in Request PROVE RequestInv(r)'
    <2>0. RequestInv(r)
      BY DEF IngressInv
    <2>1. \A i \in Sockets : /\ sock[i].st \in Live => sock'[i].st \in Live
                             /\ sock'[i].owner = sock[i].owner /\ sock'[i].cut = sock[i].cut
      BY <1>1, <1>2, <1>4 DEF Live
    <2>2. CASE req'[r] = req[r]
      BY <1>5, <2>0, <2>1, <2>2 DEF RequestInv
    <2>3. CASE req'[r].st = "lost" /\ req[r].st = "waiting" /\ req[r].pub = s /\ x.cut
      BY <1>1, <1>6, <2>1, <2>3 DEF RequestInv, UnderWay
    <2> QED
      BY <1>6, <2>2, <2>3
  <1> QED
    BY <1>7, <1>8, <1>9, <1>10 DEF IngressInv

-----------------------------------------------------------------------------
(* Public requests *)

\* A step of a request alone.
LEMMA OneRequest ==
  ASSUME IngressInv, NEW r \in Request, NEW y \in RequestRecs, req' = [req EXCEPT ![r] = y],
         UNCHANGED <<bind, tokens, zone, publisher, sock>>,
         y.st \in Early => req[r].st \in Early,
         req[r].st \notin Early => y.pub = req[r].pub,
         y.st \in {"found", "waiting"} => publisher # 0 /\ y.pub = publisher,
         RequestInv(r)'
  PROVE  IngressInv'
  <1>1. sock' \in [Sockets -> SocketRecs] /\ \A s \in Sockets : Work(s)' = Work(s) /\ sock'[s] = sock[s]
    BY DEF IngressInv, DomainTypes, Work
  <1> QED
    BY <1>1, RequestStep

LEMMA ArriveKeeps ==
  ASSUME IngressInv, NEW r \in Request, Arrive(r)
  PROVE  IngressInv'
  <1>0. req \in [Request -> RequestRecs] /\ (bind = Absent \/ bind \in Rows)
    BY DEF IngressInv, DomainTypes
  <1>1. PICK q \in RequestRecs : q = req[r]
    BY <1>0
  <1>2. PICK seen \in SUBSET Device : seen = IF bind # Absent /\ bind.verified THEN {bind.owner} ELSE {}
    BY <1>0 DEF Rows
  <1> DEFINE y == [q EXCEPT !.st = "arrived", !.seen = seen]
  <1>3. y \in RequestRecs /\ y.st = "arrived" /\ y.seen = seen
    BY DEF RequestRecs, RequestStates
  <1>4. req' = [req EXCEPT ![r] = y]
    BY <1>0, <1>1, <1>2 DEF Arrive
  <1> HIDE DEF y
  <1>5. req'[r] = y /\ UNCHANGED <<bind, tokens, zone, publisher, sock>> /\ q.st = "new"
    BY <1>0, <1>1, <1>4 DEF Arrive, table
  <1>6. RequestInv(r)'
    BY <1>2, <1>3, <1>5 DEF RequestInv
  <1> QED
    BY <1>1, <1>3, <1>4, <1>5, <1>6, OneRequest DEF Early

\* A request that is over.
LEMMA EndKeeps ==
  ASSUME IngressInv, NEW r \in Request, NEW st \in {"refused", "timeout"},
         req' = [req EXCEPT ![r] = Ended(r, st)], UNCHANGED <<bind, tokens, zone, publisher, sock>>
  PROVE  IngressInv'
  <1>0. req \in [Request -> RequestRecs]
    BY DEF IngressInv, DomainTypes
  <1> DEFINE y == Ended(r, st)
  <1>1. y \in RequestRecs /\ y.st = st /\ y.pub = req[r].pub
    BY <1>0, EndedFact DEF RequestStates
  <1>2. req' = [req EXCEPT ![r] = y]
    OBVIOUS
  <1> HIDE DEF y
  <1>3. req'[r] = y
    BY <1>0, <1>2
  <1>4. RequestInv(r)'
    BY <1>1, <1>3 DEF RequestInv, UnderWay
  <1> QED
    BY <1>1, <1>2, <1>4, OneRequest DEF Early

LEMMA LooksKeeps ==
  ASSUME IngressInv, NEW r \in Request, Looks(r)
  PROVE  IngressInv'
  <1>0. req \in [Request -> RequestRecs] /\ (bind = Absent \/ bind \in Rows)
    BY DEF IngressInv, DomainTypes
  <1>1. UNCHANGED <<bind, tokens, zone, publisher, sock>> /\ req[r].st = "arrived"
    BY DEF Looks, table
  <1>2. CASE bind # Absent /\ bind.verified
    <2>1. PICK q \in RequestRecs : q = req[r]
      BY <1>0
    <2>2. PICK d \in Device : d = bind.owner
      BY <1>0, <1>2 DEF Rows
    <2> DEFINE y == [q EXCEPT !.st = "looked", !.owner = d]
    <2>3. y \in RequestRecs /\ y.st = "looked" /\ y.seen = q.seen /\ y.owner = d
      BY DEF RequestRecs, RequestStates
    <2>4. req' = [req EXCEPT ![r] = y]
      BY <1>0, <1>2, <2>1, <2>2 DEF Looks
    <2> HIDE DEF y
    <2>5. req'[r] = y
      BY <1>0, <2>4
    <2>6. d \in q.seen
      BY <1>1, <1>2, <2>1, <2>2 DEF IngressInv, RequestInv, UnderWay
    <2>7. RequestInv(r)'
      BY <1>1, <2>2, <2>3, <2>5, <2>6 DEF RequestInv
    <2> QED
      BY <1>1, <2>3, <2>4, <2>7, OneRequest DEF Early
  <1>3. CASE ~(bind # Absent /\ bind.verified)
    BY <1>1, <1>3, EndKeeps DEF Looks
  <1> QED
    BY <1>2, <1>3

LEMMA FindsKeeps ==
  ASSUME IngressInv, NEW r \in Request, Finds(r)
  PROVE  IngressInv'
  <1>0. req \in [Request -> RequestRecs] /\ publisher \in 0..MaxSockets
    BY DEF IngressInv, DomainTypes
  <1>1. UNCHANGED <<bind, tokens, zone, publisher, sock>> /\ req[r].st = "looked"
    BY DEF Finds, table
  <1>2. CASE Eligible(r)
    <2>1. PICK q \in RequestRecs : q = req[r]
      BY <1>0
    <2> DEFINE y == [q EXCEPT !.st = "found", !.pub = publisher, !.owner = Absent]
    <2>2. y \in RequestRecs /\ y.st = "found" /\ y.seen = q.seen /\ y.pub = publisher
      BY <1>0 DEF RequestRecs, RequestStates
    <2>3. req' = [req EXCEPT ![r] = y]
      BY <1>0, <1>2, <2>1 DEF Finds
    <2> HIDE DEF y
    <2>4. req'[r] = y
      BY <1>0, <2>3
    <2>5. /\ publisher # 0 /\ publisher \in Sockets /\ sock[publisher].st \in Live
          /\ sock[publisher].owner \in q.seen
      BY <1>1, <1>2, <2>1 DEF Eligible, IngressInv, RegisteredInv, Serving, RequestInv, Live
    <2>6. bind # Absent /\ bind.verified => bind.owner \in q.seen
      BY <1>1, <2>1 DEF IngressInv, RequestInv, UnderWay
    <2>7. RequestInv(r)'
      BY <1>1, <2>2, <2>4, <2>5, <2>6 DEF RequestInv
    <2> QED
      BY <1>1, <2>2, <2>3, <2>5, <2>7, OneRequest DEF Early
  <1>3. CASE ~Eligible(r)
    BY <1>1, <1>3, EndKeeps DEF Finds
  <1> QED
    BY <1>2, <1>3

LEMMA SendsKeeps ==
  ASSUME IngressInv, NEW r \in Request, Sends(r)
  PROVE  IngressInv'
  <1>0. req \in [Request -> RequestRecs] /\ sock \in [Sockets -> SocketRecs] /\ RequestInv(r)
    BY DEF IngressInv, DomainTypes
  <1>1. UNCHANGED <<bind, tokens, zone, publisher>> /\ req[r].st = "found"
    BY DEF Sends, table
  <1>2. PICK q \in RequestRecs : q = req[r]
    BY <1>0
  <1>3. PICK s \in Sockets : s = q.pub
    BY <1>0, <1>1, <1>2 DEF RequestInv
  <1>4. CASE /\ sock' = [sock EXCEPT ![s].queue = Append(@, r)]
             /\ req' = [req EXCEPT ![r].st = "waiting"]
    <2>1. PICK x \in SocketRecs : x = sock[s]
      BY <1>0
    <2>2. x.queue \in Seq(Request)
      BY DEF SocketRecs
    <2>11. Append(x.queue, r) \in Seq(Request)
      BY <2>2
    <2>3. PICK w \in Seq(Request) : w = Append(x.queue, r)
      BY <2>11
    <2>4. \A i \in DOMAIN w : w[i] = r \/ (i \in DOMAIN x.queue /\ w[i] = x.queue[i])
      BY <2>2, <2>3
    <2> DEFINE z == [x EXCEPT !.queue = w]
               y == [q EXCEPT !.st = "waiting"]
    <2>5. /\ z \in SocketRecs /\ z.st = x.st /\ z.cut = x.cut /\ z.owner = x.owner
          /\ z.queue = w /\ z.pending = x.pending
      BY DEF SocketRecs
    <2>6. y \in RequestRecs /\ y.st = "waiting" /\ y.pub = s /\ y.seen = q.seen
      BY <1>3 DEF RequestRecs, RequestStates
    <2>7. req' = [req EXCEPT ![r] = y] /\ sock' = [sock EXCEPT ![s] = z]
      BY <1>0, <1>2, <1>4, <2>1, <2>3
    <2> HIDE DEF z, y
    <2>8. /\ sock' \in [Sockets -> SocketRecs] /\ sock'[s] = z /\ req'[r] = y
          /\ \A i \in Sockets \ {s} : sock'[i] = sock[i]
      BY <1>0, <2>5, <2>7
    <2>9. ASSUME NEW i \in Sockets
          PROVE  /\ sock'[i].st = sock[i].st /\ sock'[i].owner = sock[i].owner
                 /\ sock'[i].cut = sock[i].cut
                 /\ Work(i)' \subseteq Work(i) \/ (y.pub = i /\ Work(i)' \subseteq Work(i) \cup {r})
      <3>1. CASE i = s
        BY <2>1, <2>4, <2>5, <2>6, <2>8, <3>1 DEF Work
      <3>2. CASE i # s
        BY <2>8, <3>2 DEF Work
      <3> QED
        BY <3>1, <3>2
    <2>10. RequestInv(r)'
      BY <1>0, <1>1, <1>2, <1>3, <2>6, <2>8, <2>9 DEF RequestInv, UnderWay
    <2>12. /\ y.st \notin Early /\ y.pub = req[r].pub /\ req[r].st \in {"found", "waiting"}
           /\ sock' \in [Sockets -> SocketRecs]
      BY <1>1, <1>2, <1>3, <2>6, <2>8 DEF Early
    <2> QED
      BY <1>1, <2>6, <2>7, <2>9, <2>10, <2>12, RequestStep
  <1>5. CASE req' = [req EXCEPT ![r] = Ended(r, "refused")] /\ UNCHANGED sock
    BY <1>1, <1>5, EndKeeps
  <1> QED
    BY <1>2, <1>3, <1>4, <1>5 DEF Sends

LEMMA ServeKeeps ==
  ASSUME IngressInv, NEW r \in Request, Serve(r)
  PROVE  IngressInv'
  <1>1. CASE RequestTimesOut(r)
    BY <1>1, EndKeeps DEF RequestTimesOut, table
  <1> QED
    BY <1>1, LooksKeeps, FindsKeeps DEF Serve

LEMMA ClientKeeps ==
  ASSUME IngressInv, NEW r \in Request, Client(r)
  PROVE  IngressInv'
  <1>1. CASE GivesUp(r)
    BY <1>1, EndKeeps DEF GivesUp, table
  <1> QED
    BY <1>1, ArriveKeeps, SendsKeeps DEF Client

LEMMA DomainNextKeeps ==
  ASSUME IngressInv, [DomainNext]_domainVars
  PROVE  IngressInv'
  <1>1. CASE UNCHANGED domainVars
    BY <1>1, StillKeeps DEF domainVars
  <1>2. ASSUME NEW s \in Sockets, Loop(s) PROVE IngressInv'
    BY <1>2, RegistersKeeps, DispatchesKeeps, LoopEndsKeeps, SocketEndsKeeps DEF Loop
  <1>3. ASSUME NEW s \in Sockets, Partner(s) PROVE IngressInv'
    BY <1>3, SentKeeps, AnswersKeeps DEF Partner
  <1> QED
    BY <1>1, <1>2, <1>3, OperationKeeps, RecordKeeps, SessionKeeps, BreaksKeeps, ClientKeeps, ServeKeeps
       DEF DomainNext

LEMMA DomainInitInv ==
  ASSUME DomainInit
  PROVE  IngressInv
  <1>1. NoSocket \in SocketRecs /\ NewRequest \in RequestRecs
    <2>1. <<>> \in Seq(Request)
      OBVIOUS
    <2> QED
      BY <2>1, DomainSizes DEF NoSocket, NewRequest, SocketRecs, RequestRecs, SocketStates, RequestStates
  <1>2. DomainTypes /\ VerifiedWasProved /\ RegisteredInv
    BY <1>1, DomainSizes DEF DomainInit, DomainTypes, VerifiedWasProved, RegisteredInv, Serving
  <1>3. ASSUME NEW s \in Sockets PROVE SocketInv(s)
    <2>1. sock[s] = NoSocket
      BY DEF DomainInit
    <2> QED
      BY <2>1 DEF NoSocket, SocketInv, Work, Left
  <1>4. ASSUME NEW r \in Request PROVE RequestInv(r)
    <2>1. req[r].st = "new"
      BY DEF DomainInit, NewRequest
    <2> QED
      BY <2>1 DEF RequestInv, UnderWay
  <1> QED
    BY <1>2, <1>3, <1>4 DEF IngressInv

LEMMA IngressInvShows == IngressInv => IngressIsSound
  <1> SUFFICES ASSUME IngressInv PROVE IngressIsSound
    OBVIOUS
  <1>1. DomainTypeOK
    BY DomainSizes DEF IngressInv, DomainTypes, DomainTypeOK, Rows, SocketRecs, SocketStates
  <1>2. ServedByAnOwner /\ DrainsBeforeClosing
    BY DEF IngressInv, RequestInv, ServedByAnOwner, DrainsBeforeClosing
  <1> QED
    BY <1>1, <1>2 DEF IngressInv, IngressIsSound

\* The inductive invariant of a domain: whoever holds it while a request is under way has been
\* seen by the request, and a publisher leaves uncut only when nobody can come to it or waits.
THEOREM IngressInvHolds == DomainSpec => []IngressInv
  BY DomainInitInv, DomainNextKeeps, PTL DEF DomainSpec

\* A public request meets only a device that held the verified domain meanwhile, and is lost
\* only with the connection of that device, whatever binds, unbinds and publishers overlap.
THEOREM IngressHolds == DomainSpec => []IngressIsSound
  BY IngressInvHolds, IngressInvShows, PTL

=============================================================================
