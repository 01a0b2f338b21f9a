---------------------------- MODULE RoomRegistry ----------------------------
(***************************************************************************)
(* The room registry of signaling/server.rs: the map from room numbers to  *)
(* rooms, which every handler locks for all of its work.                   *)
(*                                                                         *)
(* A room is created by its owner, who alone may secure and delete it.     *)
(* Guests join, again and again: each join registers the guest under its   *)
(* visitor id (or, without one, under its address) and gives it a virtual  *)
(* address.  No guest ever leaves: the registrations go with the room, or  *)
(* when it is secured.  A room past its expires_at stays in the map until  *)
(* a request stumbles over it.                                             *)
(*                                                                         *)
(* auth_middleware gives its verdict under a lock of its own, about the    *)
(* room of that moment; so a join may meet any room, secured or not.       *)
(* How members are reached (addresses, subnets, relays), their names and   *)
(* the catalogue of services are left out.                                 *)
(***************************************************************************)
EXTENDS Naturals, FiniteSets, Sequences, Functions

CONSTANTS
    Numbers,        \* room numbers
    Visitors,        \* guests that send a visitor_id
    Anons,          \* guests that do not: "anon-<addr>"
    IPs,            \* virtual addresses a guest may ask for: private ones
    Setups,         \* the <<tun_ip, guest_ips>> that owners choose
    None,
    MaxRooms, MaxMembers, MaxTotal,     \* the operator's ServerLimits
    MaxCreated      \* bound: rooms created

ASSUME GuestsAssumption == Visitors \cap Anons = {} /\ None \notin IPs
ASSUME SetupsAssumption == Setups \subseteq (IPs \cup {None}) \X Seq(IPs)
ASSUME LimitsAssumption ==
    MaxRooms \in Nat \ {0} /\ MaxMembers \in Nat \ {0, 1} /\ MaxTotal \in Nat \ {0}
ASSUME CreatedAssumption == MaxCreated \in Nat

Guests == Visitors \cup Anons

VARIABLES
    rooms,          \* the map; None where there is no room
    created         \* rooms created so far; the last one is its `born`

vars == <<rooms, created>>

Init == rooms = [n \in Numbers |-> None] /\ created = 0

-----------------------------------------------------------------------------
(* What the handlers read *)

Open(rs) == {n \in Numbers : rs[n] # None}
Registered(r) == {g \in Guests : r.guests[g] # None}
\* Memberships across all rooms, the owners included.
Memberships(rs) == {m \in Numbers \X Guests : m[1] \in Open(rs) /\ m[2] \in Registered(rs[m[1]])}
Total(rs) == Cardinality(Open(rs)) + Cardinality(Memberships(rs))

\* map.retain: every room that has expired goes.  Mutant: they are kept.
KeepAll(rs) == rs
Retain(rs) == [n \in Numbers |-> IF n \in Open(rs) /\ rs[n].over THEN None ELSE rs[n]]

\* A room has its tun_ip, and a guest its address, to itself.  A guest without a
\* visitor id is refused even the address it has.  Mutant: only the owner counts.
OwnersOnly(r, g, ip) == ip = r.tun
Conflict(r, g, ip) ==
    \/ ip = r.tun
    \/ \E h \in Registered(r) : ~(h = g /\ g \in Visitors) /\ r.guests[h].ip = ip

\* The pool addresses that no device was given.  Mutant: those no guest has now.
InUse(r) == {r.guests[g].ip : g \in Registered(r)}
Taken(r) == {r.assigned[d] : d \in Visitors} \ {None}
Free(r) == {i \in DOMAIN r.pool : r.pool[i] \notin Taken(r)}
FirstFree(r) == IF Free(r) = {} THEN None
                ELSE r.pool[CHOOSE i \in Free(r) : \A j \in Free(r) : i <= j]

\* The address of the pool for a device that asks for `ip`, or does not (None).
FromPool(r, ip) == IF ip \in Range(r.pool) \ Taken(r) THEN ip ELSE FirstFree(r)

\* The address a guest gets: what the device has comes before what it asks for.  (The
\* comment on join_room and docs/src/cli.md name the other order.)
Address(r, g, ip) ==
    IF r.pool = <<>> THEN ip
    ELSE IF g \in Anons THEN None
    ELSE IF r.assigned[g] # None THEN r.assigned[g] ELSE FromPool(r, ip)

\* The limits a join and a create meet.  Mutant: off by one.
TooLateFor(rs, n, g) ==
    /\ rs[n].guests[g] = None
    /\ Total(rs) > MaxTotal \/ Cardinality(Registered(rs[n])) > MaxMembers
Full(rs, n, g) ==
    /\ rs[n].guests[g] = None
    /\ Total(rs) >= MaxTotal \/ 1 + Cardinality(Registered(rs[n])) >= MaxMembers

-----------------------------------------------------------------------------
(* The handlers *)

\* bound: rooms created.  Mutant: the bound is forgotten.
CreatesForEver == created <= MaxCreated
MayCreate == created < MaxCreated

CreateRoom(n) == LET rs == Retain(rooms) IN
    /\ MayCreate
    /\ Cardinality(Open(rs)) < MaxRooms /\ Total(rs) < MaxTotal
    /\ n \notin Open(rs)
    /\ \E u \in Setups :
          rooms' = [rs EXCEPT ![n] =
            [born |-> created + 1, over |-> FALSE, secured |-> FALSE,
             tun |-> u[1], pool |-> u[2],
             guests |-> [g \in Guests |-> None], assigned |-> [d \in Visitors |-> None]]]
    /\ created' = created + 1

\* The room with guest g at an address; the pool remembers its devices.
Joined(r, g, given) ==
    [r EXCEPT !.guests[g] = [ip |-> given],
              !.assigned = IF r.pool # <<>> /\ g \in Visitors
                           THEN [@ EXCEPT ![g] = given] ELSE @]

\* Guest g joins, asking for an address or not.
Join(n, g) == LET rs == Retain(rooms) IN
    /\ n \in Open(rs)
    /\ ~Full(rs, n, g)
    /\ \E ip \in IPs \cup {None} :
          /\ ip # None => ~Conflict(rs[n], g, ip)
          /\ rooms' = [rs EXCEPT ![n] = Joined(@, g, Address(@, g, ip))]
    /\ UNCHANGED created

\* A create or a join that is refused has still swept the map.
Refused ==
    /\ rooms' = Retain(rooms)
    /\ UNCHANGED created

\* get_room and refresh_room drop a room that they find expired.
DropExpired(n) ==
    /\ n \in Open(rooms) /\ rooms[n].over
    /\ rooms' = [rooms EXCEPT ![n] = None]
    /\ UNCHANGED created

DeleteRoom(n) ==
    /\ n \in Open(rooms)
    /\ rooms' = [rooms EXCEPT ![n] = None]
    /\ UNCHANGED created

\* Everybody has to join again; what the pool gave out stays given out.
\* Mutant: the pool starts afresh.
SecureAfresh(n) ==
    /\ n \in Open(rooms)
    /\ rooms' = [rooms EXCEPT ![n].secured = TRUE, ![n].guests = [g \in Guests |-> None],
                              ![n].assigned = [d \in Visitors |-> None]]
    /\ UNCHANGED created
Secure(n) ==
    /\ n \in Open(rooms)
    /\ rooms' = [rooms EXCEPT ![n].secured = TRUE, ![n].guests = [g \in Guests |-> None]]
    /\ UNCHANGED created

\* Time passes expires_at.
Expire(n) ==
    /\ n \in Open(rooms) /\ ~rooms[n].over
    /\ rooms' = [rooms EXCEPT ![n].over = TRUE]
    /\ UNCHANGED created

Next ==
    \/ Refused
    \/ \E n \in Numbers :
          \/ CreateRoom(n) \/ DropExpired(n) \/ DeleteRoom(n) \/ Secure(n) \/ Expire(n)
          \/ \E g \in Guests : Join(n, g)

Spec == Init /\ [][Next]_vars

-----------------------------------------------------------------------------
(* Properties *)

Rooms == [born : 1..created, over : BOOLEAN, secured : BOOLEAN,
          tun : IPs \cup {None}, pool : Seq(IPs),
          guests : [Guests -> {None} \cup [ip : IPs \cup {None}]],
          assigned : [Visitors -> IPs \cup {None}]]

\* Every room of the map is well formed and was set up as its owner chose.
TypeOK ==
    /\ created \in 0..MaxCreated
    /\ rooms \in [Numbers -> {None} \cup Rooms]
    /\ \A n \in Open(rooms) : <<rooms[n].tun, rooms[n].pool>> \in Setups

\* In a room no two guests have the same virtual address, and none the owner's, unless
\* the owner itself put its own address into the pool: nobody compares the two.
Distinct(r) == \A g, h \in Registered(r) :
    LET ip == r.guests[g].ip
    IN ip # None => /\ ip = r.tun => ip \in Range(r.pool)
                    /\ ip = r.guests[h].ip => g = h
AddressesDistinct == \A n \in Open(rooms) : Distinct(rooms[n])

\* In a room with a pool a device has the address the pool gave it, and the pool
\* gives each address once, to devices that are gone as well.
Followed(r) == r.pool # <<>> =>
    /\ \A d \in Visitors : /\ r.guests[d] # None => r.guests[d].ip = r.assigned[d]
                          /\ r.assigned[d] \in Range(r.pool) \cup {None}
    /\ \A d, e \in Visitors : r.assigned[d] = r.assigned[e] => d = e \/ r.assigned[d] = None
PoolIsFollowed == \A n \in Open(rooms) : Followed(rooms[n])

\* The operator's limits hold for the whole map, expired rooms included.
LimitsKept ==
    /\ Cardinality(Open(rooms)) <= MaxRooms /\ Total(rooms) <= MaxTotal
    /\ \A n \in Open(rooms) : 1 + Cardinality(Registered(rooms[n])) <= MaxMembers

Same(n) == n \in Open(rooms) /\ rooms'[n] # None /\ rooms'[n].born = rooms[n].born

\* As long as a room lives, whatever happens to it and whatever the device asks for, it
\* keeps the address that the pool gave it.
KeepsAddress == \A n \in Numbers, d \in Visitors :
    Same(n) /\ rooms[n].assigned[d] # None => rooms'[n].assigned[d] = rooms[n].assigned[d]
AddressesAreStable == [][KeepsAddress]_vars

\* Nobody is registered in a room whose time is over.
NoLateGuests == \A n \in Numbers :
    Same(n) /\ rooms[n].over => Registered(rooms'[n]) \subseteq Registered(rooms[n])
                                /\ rooms'[n].assigned = rooms[n].assigned
OverIsOver == [][NoLateGuests]_vars

\* The map is sound in every state: addresses, pools and limits.
RegistryIsSound == TypeOK /\ AddressesDistinct /\ PoolIsFollowed /\ LimitsKept

\* What a room has given stays given, and a room that is over gives nothing.
HistoryIsKept == AddressesAreStable /\ OverIsOver
=============================================================================
