-------------------------- MODULE RoomRegistry_proofs --------------------------
(***************************************************************************)
(* Proofs about the rooms of the signalling server and of a host that      *)
(* publishes services.                                                     *)
(*                                                                         *)
(* RoomRegistry, for any numbers, guests, pools and limits.                *)
(*                                                                         *)
(* ServiceRoom, for any members, commands, credentials and tasks: no task  *)
(* of the host serves what was withdrawn.                                  *)
(*                                                                         *)
(* ServiceMux, for any number of streams, chunks and sources and any       *)
(* capacities and limits: what comes out of a stream is what went in.      *)
(***************************************************************************)
EXTENDS RoomRegistry, ServiceRoom, ServiceMux, FiniteSetTheorems, TLAPS

\* A set of natural numbers that is not empty has a least element.
LEMMA Least ==
  ASSUME NEW S \in SUBSET Nat, S # {}
  PROVE  \E i \in S : \A j \in S : i <= j
  <1>1. IsWellFoundedOn(OpToRel(<, Nat), Nat)
    BY NatLessThanWellFounded
  <1>2. PICK i \in S : \A j \in S : ~(<<j, i>> \in OpToRel(<, Nat))
    BY <1>1, WFMin
  <1>3. \A j \in S : ~(j < i)
    BY <1>2 DEF OpToRel
  <1> QED
    BY <1>3

-----------------------------------------------------------------------------
(* One room *)

\* A guest without a visitor id gets no address from a pool.
Plain(r) == r.pool # <<>> => \A a \in Anons : r.guests[a] # None => r.guests[a].ip = None

\* What is invariant about a room.
Sound(r) ==
    /\ r \in Rooms /\ <<r.tun, r.pool>> \in Setups
    /\ Distinct(r) /\ Followed(r) /\ Plain(r)

\* The first free address is one of the pool that no device was given.
LEMMA FirstFreeFact ==
  ASSUME NEW r \in Rooms
  PROVE  FirstFree(r) = None \/ FirstFree(r) \in Range(r.pool) \ Taken(r)
  <1>1. SUFFICES ASSUME Free(r) # {}
                 PROVE  FirstFree(r) \in Range(r.pool) \ Taken(r)
    BY DEF FirstFree
  <1>2. r.pool \in Seq(IPs) /\ DOMAIN r.pool = 1..Len(r.pool) /\ Len(r.pool) \in Nat
    BY DEF Rooms
  <1>3. Free(r) \in SUBSET Nat
    BY <1>2 DEF Free
  <1>4. PICK i \in Free(r) : \A j \in Free(r) : i <= j
    BY <1>1, <1>3, Least
  <1>5. (CHOOSE k \in Free(r) : \A j \in Free(r) : k <= j) \in Free(r)
    BY <1>4
  <1> QED
    BY <1>1, <1>5 DEF FirstFree, Free, Range

\* So is what a device is given when it asks for an address.
LEMMA FromPoolFact ==
  ASSUME NEW r \in Rooms, NEW ip
  PROVE  FromPool(r, ip) = None \/ FromPool(r, ip) \in Range(r.pool) \ Taken(r)
  BY FirstFreeFact DEF FromPool

\* The address a guest gets: in a room with a pool, what it has or what nobody was given.
LEMMA AddressFact ==
  ASSUME NEW r, Sound(r), NEW g \in Guests, NEW ip \in IPs \cup {None}
  PROVE  /\ Address(r, g, ip) \in IPs \cup {None}
         /\ r.pool = <<>> => Address(r, g, ip) = ip
         /\ r.pool # <<>> /\ g \in Anons => Address(r, g, ip) = None
         /\ r.pool # <<>> /\ g \in Visitors =>
              /\ Address(r, g, ip) \in Range(r.pool) \cup {None}
              /\ r.assigned[g] # None => Address(r, g, ip) = r.assigned[g]
              /\ \A e \in Visitors \ {g} :
                    Address(r, g, ip) = None \/ r.assigned[e] # Address(r, g, ip)
  <1>1. r \in Rooms
    BY DEF Sound
  <1>2. Range(r.pool) \subseteq IPs
    BY <1>1 DEF Rooms, Range
  <1>3. g \notin Anons => g \in Visitors
    BY DEF Guests
  <1>4. g \in Visitors => g \notin Anons
    BY GuestsAssumption
  <1>5. CASE r.pool = <<>>
    BY <1>5 DEF Address
  <1>6. CASE r.pool # <<>> /\ g \in Anons
    BY <1>4, <1>6 DEF Address
  <1>7. CASE r.pool # <<>> /\ g \in Visitors /\ r.assigned[g] # None
    <2>1. Address(r, g, ip) = r.assigned[g]
      BY <1>4, <1>7 DEF Address
    <2>2. r.assigned[g] \in Range(r.pool)
      BY <1>7 DEF Sound, Followed
    <2>3. \A e \in Visitors \ {g} : r.assigned[e] # r.assigned[g]
      BY <1>7 DEF Sound, Followed
    <2> QED
      BY <1>2, <1>4, <1>7, <2>1, <2>2, <2>3
  <1>8. CASE r.pool # <<>> /\ g \in Visitors /\ r.assigned[g] = None
    <2>1. Address(r, g, ip) = FromPool(r, ip)
      BY <1>4, <1>8 DEF Address
    <2>2. FromPool(r, ip) = None \/ FromPool(r, ip) \in Range(r.pool) \ Taken(r)
      BY <1>1, FromPoolFact
    <2>3. \A e \in Visitors : r.assigned[e] \in Taken(r) \cup {None}
      BY DEF Taken
    <2> QED
      BY <1>2, <1>4, <1>8, <2>1, <2>2, <2>3
  <1> QED
    BY <1>3, <1>5, <1>6, <1>7, <1>8

\* A guest that joins leaves the room sound.
LEMMA JoinSound ==
  ASSUME NEW r, Sound(r), NEW g \in Guests, NEW ip \in IPs \cup {None},
         ip # None => ~Conflict(r, g, ip),
         NEW given, given = Address(r, g, ip), NEW q, q = Joined(r, g, given)
  PROVE  Sound(q)
  <1>1. r \in Rooms /\ given \in IPs \cup {None}
    BY AddressFact DEF Sound
  <1>2. /\ q \in Rooms
        /\ q.tun = r.tun /\ q.pool = r.pool /\ q.guests[g].ip = given
        /\ \A h \in Guests : h # g => q.guests[h] = r.guests[h]
        /\ \A d \in Visitors : q.assigned[d] =
               IF r.pool # <<>> /\ d = g THEN given ELSE r.assigned[d]
    BY <1>1 DEF Rooms, Joined
  <1>3. <<q.tun, q.pool>> \in Setups
    BY <1>2 DEF Sound
  <1>4. Plain(q)
    BY <1>2, AddressFact DEF Sound, Plain, Guests
  <1>5. Followed(q)
    <2>1. SUFFICES ASSUME r.pool # <<>> PROVE Followed(q)
      BY <1>2 DEF Followed
    <2>2. ASSUME NEW d \in Visitors
          PROVE  /\ q.guests[d] # None => q.guests[d].ip = q.assigned[d]
                 /\ q.assigned[d] \in Range(q.pool) \cup {None}
      <3>1. d \in Guests
        BY DEF Guests
      <3>2. CASE d = g
        BY <1>2, <2>1, <3>2, AddressFact
      <3>3. CASE d # g
        BY <1>2, <2>1, <3>1, <3>3 DEF Sound, Followed
      <3> QED
        BY <3>2, <3>3
    <2>3. ASSUME NEW d \in Visitors, NEW e \in Visitors, q.assigned[d] = q.assigned[e], d # e
          PROVE  q.assigned[d] = None
      <3>1. CASE d = g
        BY <1>2, <2>1, <2>3, <3>1, AddressFact
      <3>2. CASE e = g
        BY <1>2, <2>1, <2>3, <3>2, AddressFact
      <3>3. CASE d # g /\ e # g
        BY <1>2, <2>1, <2>3, <3>3 DEF Sound, Followed
      <3> QED
        BY <3>1, <3>2, <3>3
    <2> QED
      BY <2>2, <2>3 DEF Followed
  <1>6. Distinct(q)
    <2>1. ASSUME NEW h \in Registered(r), h # g, given # None
          PROVE  r.guests[h].ip # given
      <3>1. h \in Guests /\ r.guests[h] # None
        BY <2>1 DEF Registered
      <3>2. CASE r.pool = <<>>
        BY <2>1, <3>2, AddressFact DEF Conflict
      <3>3. CASE r.pool # <<>>
        <4>1. g \in Visitors
          BY <2>1, <3>3, AddressFact DEF Guests
        <4>2. CASE h \in Visitors
          <5>1. r.guests[h].ip = r.assigned[h]
            BY <3>1, <3>3, <4>2 DEF Sound, Followed
          <5> QED
            BY <2>1, <3>3, <4>1, <4>2, <5>1, AddressFact
        <4>3. CASE h \in Anons
          BY <2>1, <3>1, <3>3, <4>3 DEF Sound, Plain
        <4> QED
          BY <3>1, <4>2, <4>3 DEF Guests
      <3> QED
        BY <3>2, <3>3
    <2>2. given # None => (given = r.tun => given \in Range(r.pool))
      <3>1. CASE r.pool = <<>>
        BY <3>1, AddressFact DEF Conflict
      <3>2. CASE r.pool # <<>>
        BY <3>2, AddressFact DEF Guests
      <3> QED
        BY <3>1, <3>2
    <2>3. ASSUME NEW x \in Registered(q), NEW y \in Registered(q), q.guests[x].ip # None
          PROVE  /\ q.guests[x].ip = q.tun => q.guests[x].ip \in Range(q.pool)
                 /\ q.guests[x].ip = q.guests[y].ip => x = y
      <3>1. x \in Guests /\ y \in Guests
        BY <2>3 DEF Registered
      <3>2. /\ x # g => x \in Registered(r) /\ q.guests[x] = r.guests[x]
            /\ y # g => y \in Registered(r) /\ q.guests[y] = r.guests[y]
        BY <1>2, <2>3, <3>1 DEF Registered
      <3>3. CASE x = g
        BY <1>2, <2>1, <2>2, <2>3, <3>2, <3>3
      <3>4. CASE x # g /\ y = g
        BY <1>2, <2>1, <2>3, <3>2, <3>4 DEF Sound, Distinct
      <3>5. CASE x # g /\ y # g
        BY <1>2, <2>3, <3>2, <3>5 DEF Sound, Distinct
      <3> QED
        BY <3>3, <3>4, <3>5
    <2> QED
      BY <2>3 DEF Distinct
  <1> QED
    BY <1>2, <1>3, <1>4, <1>5, <1>6 DEF Sound

-----------------------------------------------------------------------------
(* The map *)

Fresh(u) == [born |-> created + 1, over |-> FALSE, secured |-> FALSE,
             tun |-> u[1], pool |-> u[2],
             guests |-> [g \in Guests |-> None], assigned |-> [d \in Visitors |-> None]]
Lapsed(r) == [r EXCEPT !.over = TRUE]
Secured(r) == [r EXCEPT !.secured = TRUE, !.guests = [g \in Guests |-> None]]

\* Everything that a step may do to the entry n of the map.
Kept(n) == n \in Open(rooms) /\ rooms'[n] = rooms[n]
Lapses(n) == n \in Open(rooms) /\ rooms'[n] = Lapsed(rooms[n])
Hardened(n) == n \in Open(rooms) /\ rooms'[n] = Secured(rooms[n])
Grows(n) == /\ n \in Open(rooms) /\ ~rooms[n].over
            /\ \E g \in Guests, ip \in IPs \cup {None} :
                  /\ ip # None => ~Conflict(rooms[n], g, ip)
                  /\ rooms'[n] = Joined(rooms[n], g, Address(rooms[n], g, ip))
Begins(n) == created' = created + 1 /\ \E u \in Setups : rooms'[n] = Fresh(u)

Changes(n) == rooms'[n] = None \/ Kept(n) \/ Lapses(n) \/ Hardened(n) \/ Grows(n) \/ Begins(n)

\* The sweep leaves the rooms whose time is not over.
LEMMA RetainFact ==
  ASSUME TypeOK, NEW rs, rs = Retain(rooms)
  PROVE  /\ rs = [n \in Numbers |-> rs[n]]
         /\ \A n \in Numbers : \/ rs[n] = None
                               \/ n \in Open(rooms) /\ rs[n] = rooms[n] /\ ~rooms[n].over
  BY DEF TypeOK, Retain, Open

\* created counts the rooms that begin, and every entry changes as said.
LEMMA NextFact ==
  ASSUME TypeOK, Next
  PROVE  /\ created' \in 0..MaxCreated /\ (created' = created \/ created' = created + 1)
         /\ rooms' = [n \in Numbers |-> rooms'[n]]
         /\ \A n \in Numbers : Changes(n)
  <1>1. created \in Nat /\ created \in 0..MaxCreated /\ rooms = [n \in Numbers |-> rooms[n]]
    BY DEF TypeOK
  <1>2. PICK rs : rs = Retain(rooms)
    OBVIOUS
  <1>3. /\ rs = [n \in Numbers |-> rs[n]]
        /\ \A n \in Numbers : \/ rs[n] = None
                              \/ n \in Open(rooms) /\ rs[n] = rooms[n] /\ ~rooms[n].over
    BY <1>2, RetainFact
  <1>4. \A n \in Numbers : rooms[n] = None \/ n \in Open(rooms)
    BY DEF Open
  <1>5. CASE Refused
    BY <1>1, <1>2, <1>3, <1>5 DEF Refused, Changes, Kept
  <1>6. ASSUME NEW m \in Numbers, CreateRoom(m)
        PROVE  /\ created' \in 0..MaxCreated /\ (created' = created \/ created' = created + 1)
               /\ rooms' = [n \in Numbers |-> rooms'[n]]
               /\ \A n \in Numbers : Changes(n)
    <2>1. PICK u \in Setups : rooms' = [rs EXCEPT ![m] = Fresh(u)]
      BY <1>2, <1>6 DEF CreateRoom, Fresh
    <2>2. created' = created + 1 /\ created' \in 0..MaxCreated
      BY <1>1, <1>6, CreatedAssumption DEF CreateRoom, MayCreate
    <2>3. rooms'[m] = Fresh(u) /\ \A n \in Numbers : n # m => rooms'[n] = rs[n]
      BY <1>3, <2>1
    <2>4. Begins(m)
      BY <2>2, <2>3 DEF Begins
    <2>5. \A n \in Numbers : Changes(n)
      BY <1>3, <2>3, <2>4 DEF Changes, Kept
    <2> QED
      BY <1>3, <2>1, <2>2, <2>5
  <1>7. ASSUME NEW m \in Numbers, NEW g \in Guests, Join(m, g)
        PROVE  /\ created' \in 0..MaxCreated /\ (created' = created \/ created' = created + 1)
               /\ rooms' = [n \in Numbers |-> rooms'[n]]
               /\ \A n \in Numbers : Changes(n)
    <2>1. m \in Open(rs) /\ m \in Open(rooms) /\ rs[m] = rooms[m] /\ ~rooms[m].over
      BY <1>2, <1>3, <1>7 DEF Join, Open
    <2>2. PICK ip \in IPs \cup {None} :
             /\ ip # None => ~Conflict(rs[m], g, ip)
             /\ rooms' = [rs EXCEPT ![m] = Joined(rs[m], g, Address(rs[m], g, ip))]
      BY <1>2, <1>7 DEF Join
    <2>3. /\ rooms'[m] = Joined(rooms[m], g, Address(rooms[m], g, ip))
          /\ \A n \in Numbers : n # m => rooms'[n] = rs[n]
      BY <1>3, <2>1, <2>2
    <2>4. \A n \in Numbers : Changes(n)
      BY <1>3, <2>1, <2>2, <2>3 DEF Changes, Grows, Kept
    <2> QED
      BY <1>1, <1>3, <1>7, <2>2, <2>4 DEF Join
  <1>8. ASSUME NEW m \in Numbers, DropExpired(m) \/ DeleteRoom(m) \/ Secure(m) \/ Expire(m)
        PROVE  /\ created' \in 0..MaxCreated /\ (created' = created \/ created' = created + 1)
               /\ rooms' = [n \in Numbers |-> rooms'[n]]
               /\ \A n \in Numbers : Changes(n)
    <2>1. PICK q : /\ rooms' = [rooms EXCEPT ![m] = q]
                   /\ q = None \/ q = Lapsed(rooms[m]) \/ q = Secured(rooms[m])
      BY <1>8 DEF DropExpired, DeleteRoom, Secure, Expire, Lapsed, Secured
    <2>2. m \in Open(rooms) /\ created' = created
      BY <1>8 DEF DropExpired, DeleteRoom, Secure, Expire
    <2>3. rooms'[m] = q /\ \A n \in Numbers : n # m => rooms'[n] = rooms[n]
      BY <1>1, <2>1
    <2>4. \A n \in Numbers : Changes(n)
      BY <1>4, <2>1, <2>2, <2>3 DEF Changes, Lapses, Hardened, Kept
    <2> QED
      BY <1>1, <2>1, <2>2, <2>4
  <1> QED
    BY <1>5, <1>6, <1>7, <1>8 DEF Next

-----------------------------------------------------------------------------
(* The addresses *)

AllSound == \A n \in Open(rooms) : Sound(rooms[n])
RegistryInv == TypeOK /\ AllSound

\* At first there is no room.
LEMMA InitRegistry == Init => RegistryInv
  BY CreatedAssumption DEF Init, RegistryInv, TypeOK, AllSound, Open

\* A room that begins: nobody is in it.
LEMMA FreshSound ==
  ASSUME TypeOK, created' = created + 1, NEW u \in Setups, NEW r, r = Fresh(u)
  PROVE  Sound(r)' /\ r.born = created + 1
  <1>1. created \in Nat
    BY CreatedAssumption DEF TypeOK
  <1>2. u[1] \in IPs \cup {None} /\ u[2] \in Seq(IPs) /\ u = <<u[1], u[2]>>
    BY SetupsAssumption
  <1>3. r \in Rooms'
    BY <1>1, <1>2 DEF Fresh, Rooms
  <1>4. /\ r.tun = u[1] /\ r.pool = u[2]
        /\ \A g \in Guests : r.guests[g] = None
        /\ \A d \in Visitors : r.assigned[d] = None
    BY DEF Fresh
  <1>5. Visitors \subseteq Guests /\ Anons \subseteq Guests
    BY DEF Guests
  <1>6. Distinct(r)' /\ Followed(r)' /\ Plain(r)'
    BY <1>4, <1>5 DEF Distinct, Registered, Followed, Plain
  <1>7. <<r.tun, r.pool>> \in Setups
    BY <1>2, <1>4
  <1> QED
    BY <1>3, <1>6, <1>7 DEF Sound, Fresh

\* However an entry changes, what is in it is sound.
LEMMA ChangeSound ==
  ASSUME RegistryInv, created' = created \/ created' = created + 1,
         NEW n \in Numbers, Changes(n), rooms'[n] # None
  PROVE  Sound(rooms[n])'
  <1>1. created \in Nat /\ created <= created'
    BY CreatedAssumption DEF RegistryInv, TypeOK
  <1>2. ASSUME NEW r, Sound(r) PROVE Sound(r)'
    <2>1. 1..created \subseteq 1..created'
      BY <1>1
    <2>2. r \in Rooms => r \in Rooms'
      BY <2>1 DEF Rooms
    <2>3. Distinct(r)' = Distinct(r) /\ Followed(r)' = Followed(r) /\ Plain(r)' = Plain(r)
      BY DEF Distinct, Registered, Followed, Plain
    <2> QED
      BY <1>2, <2>2, <2>3 DEF Sound
  <1>r. PICK q : q = rooms'[n]
    OBVIOUS
  <1>s. Sound(q)' => Sound(rooms[n])'
    BY <1>r
  <1>3. n \in Open(rooms) => Sound(rooms[n]) /\ rooms[n] \in Rooms
    BY DEF RegistryInv, AllSound, Sound
  <1>4. CASE Kept(n)
    BY <1>2, <1>3, <1>4, <1>r, <1>s DEF Kept
  <1>5. ASSUME NEW r, NEW t, Sound(r), t = Lapsed(r) PROVE Sound(t)
    <2>1. /\ t \in Rooms /\ t.tun = r.tun /\ t.pool = r.pool
          /\ t.guests = r.guests /\ t.assigned = r.assigned
      BY <1>5 DEF Lapsed, Rooms, Sound
    <2> QED
      BY <1>5, <2>1 DEF Sound, Distinct, Registered, Followed, Plain
  <1>6. ASSUME NEW r, NEW t, Sound(r), t = Secured(r) PROVE Sound(t)
    <2>1. /\ t \in Rooms /\ t.tun = r.tun /\ t.pool = r.pool /\ t.assigned = r.assigned
          /\ \A g \in Guests : t.guests[g] = None
      BY <1>6 DEF Secured, Rooms, Sound
    <2>2. Visitors \subseteq Guests /\ Anons \subseteq Guests
      BY DEF Guests
    <2> QED
      BY <1>6, <2>1, <2>2 DEF Sound, Distinct, Registered, Followed, Plain
  <1>7. CASE Lapses(n)
    BY <1>2, <1>3, <1>5, <1>7, <1>r, <1>s DEF Lapses
  <1>8. CASE Hardened(n)
    BY <1>2, <1>3, <1>6, <1>8, <1>r, <1>s DEF Hardened
  <1>9. CASE Grows(n)
    <2>1. PICK g \in Guests, ip \in IPs \cup {None} :
             /\ ip # None => ~Conflict(rooms[n], g, ip)
             /\ rooms'[n] = Joined(rooms[n], g, Address(rooms[n], g, ip))
      BY <1>9 DEF Grows
    <2>2. Sound(q)
      BY <1>3, <1>9, <1>r, <2>1, JoinSound DEF Grows
    <2> QED
      BY <1>2, <1>s, <2>2
  <1>10. CASE Begins(n)
    <2>1. Sound(q)'
      BY <1>10, <1>r, FreshSound DEF Begins, RegistryInv
    <2> QED
      BY <1>s, <2>1
  <1> QED
    BY <1>4, <1>7, <1>8, <1>9, <1>10 DEF Changes

\* Every step keeps the map sound.
LEMMA RegistryStep == RegistryInv /\ [Next]_vars => RegistryInv'
  <1>1. ASSUME RegistryInv, Next
        PROVE  RegistryInv'
    <2>1. /\ created' \in 0..MaxCreated /\ (created' = created \/ created' = created + 1)
          /\ rooms' = [n \in Numbers |-> rooms'[n]]
          /\ \A n \in Numbers : Changes(n)
      BY <1>1, NextFact DEF RegistryInv
    <2>2. \A n \in Numbers : rooms'[n] # None => Sound(rooms[n])'
      BY <1>1, <2>1, ChangeSound
    <2>3. AllSound'
      BY <2>2 DEF AllSound, Open
    <2>4. \A n \in Numbers : rooms'[n] # None =>
             rooms'[n] \in Rooms' /\ <<rooms'[n].tun, rooms'[n].pool>> \in Setups
      BY <2>2 DEF Sound
    <2>5. TypeOK'
      BY <2>1, <2>4 DEF TypeOK, Open
    <2> QED
      BY <2>3, <2>5 DEF RegistryInv
  <1>2. ASSUME RegistryInv, UNCHANGED vars
        PROVE  RegistryInv'
    BY <1>2 DEF vars, RegistryInv, TypeOK, AllSound, Open, Sound, Rooms, Distinct, Registered,
                Followed, Plain
  <1> QED
    BY <1>1, <1>2

\* Every room of the map is well formed, and its addresses are sound: the pool is
\* followed, and in a room with a pool nobody has an address from elsewhere.
THEOREM RegistryCorrect == Spec => []RegistryInv
  BY InitRegistry, RegistryStep, PTL DEF Spec

\* Every variable keeps its type.
THEOREM RegistryTypes == Spec => []TypeOK
  <1>1. RegistryInv => TypeOK
    BY DEF RegistryInv
  <1> QED
    BY <1>1, RegistryCorrect, PTL

\* No two guests of a room have one address, and none the owner's, unless the owner put
\* its own address into the pool.
THEOREM NoTwoHaveOneAddress == Spec => []AddressesDistinct
  <1>1. RegistryInv => AddressesDistinct
    BY DEF RegistryInv, AllSound, Sound, AddressesDistinct
  <1> QED
    BY <1>1, RegistryCorrect, PTL

\* A pool gives each address to one device for the life of the room.
THEOREM PoolGivesOnce == Spec => []PoolIsFollowed
  <1>1. RegistryInv => PoolIsFollowed
    BY DEF RegistryInv, AllSound, Sound, PoolIsFollowed
  <1> QED
    BY <1>1, RegistryCorrect, PTL

\* What a step leaves of a room that lives on.
LEMMA LivesOn ==
  ASSUME RegistryInv, Next, NEW n \in Numbers, Same(n)
  PROVE  /\ \A d \in Visitors : rooms[n].assigned[d] # None =>
               rooms'[n].assigned[d] = rooms[n].assigned[d]
         /\ rooms[n].over => /\ rooms'[n].assigned = rooms[n].assigned
                             /\ Registered(rooms'[n]) \subseteq Registered(rooms[n])
  <1>1. Changes(n) /\ rooms'[n] # None
    BY NextFact DEF RegistryInv, Same
  <1>2. PICK r : r = rooms[n]
    OBVIOUS
  <1>3. PICK q : q = rooms'[n]
    OBVIOUS
  <1>4. r \in Rooms /\ Sound(r) /\ q.born = r.born
    BY <1>2, <1>3 DEF Same, RegistryInv, AllSound, Sound
  <1>5. CASE Kept(n)
    BY <1>5 DEF Kept
  <1>6. CASE Lapses(n)
    <2>1. q.assigned = r.assigned /\ q.guests = r.guests
      BY <1>2, <1>3, <1>4, <1>6 DEF Lapses, Lapsed, Rooms
    <2> QED
      BY <1>2, <1>3, <2>1 DEF Registered
  <1>7. CASE Hardened(n)
    <2>1. q.assigned = r.assigned /\ \A g \in Guests : q.guests[g] = None
      BY <1>2, <1>3, <1>4, <1>7 DEF Hardened, Secured, Rooms
    <2> QED
      BY <1>2, <1>3, <2>1 DEF Registered
  <1>8. CASE Grows(n)
    <2>1. PICK g \in Guests, ip \in IPs \cup {None} : q = Joined(r, g, Address(r, g, ip))
      BY <1>2, <1>3, <1>8 DEF Grows
    <2>2. PICK given : given = Address(r, g, ip)
      OBVIOUS
    <2>3. \A d \in Visitors : q.assigned[d] =
             IF r.pool # <<>> /\ d = g THEN given ELSE r.assigned[d]
      BY <1>4, <2>1, <2>2 DEF Joined, Rooms
    <2>4. r.pool # <<>> /\ g \in Visitors /\ r.assigned[g] # None => given = r.assigned[g]
      BY <1>4, <2>2, AddressFact
    <2>5. \A d \in Visitors : r.assigned[d] # None => q.assigned[d] = r.assigned[d]
      BY <2>3, <2>4
    <2>6. ~r.over
      BY <1>2, <1>8 DEF Grows
    <2> QED
      BY <1>2, <1>3, <2>5, <2>6
  <1>9. CASE Begins(n)
    <2>1. q.born = created + 1
      BY <1>3, <1>9, FreshSound DEF Begins, RegistryInv
    <2>2. created \in Nat /\ r.born \in 1..created
      BY <1>4, CreatedAssumption DEF RegistryInv, TypeOK, Rooms
    <2> QED
      BY <1>4, <2>1, <2>2
  <1> QED
    BY <1>1, <1>5, <1>6, <1>7, <1>8, <1>9 DEF Changes

\* A device keeps its address of the pool as long as the room lives.
THEOREM StableAddresses == Spec => AddressesAreStable
  <1>1. RegistryInv /\ [Next]_vars => [KeepsAddress]_vars
    BY LivesOn DEF KeepsAddress
  <1> QED
    BY <1>1, RegistryCorrect, PTL DEF Spec, AddressesAreStable

\* A room whose time is over takes nobody in.
THEOREM NoLateGuest == Spec => OverIsOver
  <1>1. RegistryInv /\ [Next]_vars => [NoLateGuests]_vars
    BY LivesOn DEF NoLateGuests
  <1> QED
    BY <1>1, RegistryCorrect, PTL DEF Spec, OverIsOver

-----------------------------------------------------------------------------
(* The limits *)

\* The limits for a map, which are about finite sets.
Limited(rs) ==
    /\ IsFiniteSet(Open(rs)) /\ IsFiniteSet(Memberships(rs))
    /\ Cardinality(Open(rs)) <= MaxRooms /\ Total(rs) <= MaxTotal
    /\ \A n \in Open(rs) : /\ IsFiniteSet(Registered(rs[n]))
                           /\ 1 + Cardinality(Registered(rs[n])) <= MaxMembers

\* Fewer rooms with fewer guests in them.
Within(rs, rt) == \A n \in Open(rs) : n \in Open(rt) /\ Registered(rs[n]) \subseteq Registered(rt[n])

\* With fewer rooms and guests the limits hold all the more.
LEMMA WithinFact ==
  ASSUME NEW rs, NEW rt, Within(rs, rt), Limited(rt)
  PROVE  /\ Limited(rs)
         /\ Cardinality(Open(rs)) <= Cardinality(Open(rt)) /\ Total(rs) <= Total(rt)
  <1>1. Open(rs) \in SUBSET Open(rt) /\ Memberships(rs) \in SUBSET Memberships(rt)
    BY DEF Within, Memberships, Open
  <1>2. /\ IsFiniteSet(Open(rs)) /\ Cardinality(Open(rs)) <= Cardinality(Open(rt))
        /\ Cardinality(Open(rs)) \in Nat /\ Cardinality(Open(rt)) \in Nat
    BY <1>1, FS_Subset, FS_CardinalityType DEF Limited
  <1>3. /\ IsFiniteSet(Memberships(rs))
        /\ Cardinality(Memberships(rs)) <= Cardinality(Memberships(rt))
        /\ Cardinality(Memberships(rs)) \in Nat /\ Cardinality(Memberships(rt)) \in Nat
    BY <1>1, FS_Subset, FS_CardinalityType DEF Limited
  <1>4. ASSUME NEW n \in Open(rs)
        PROVE  /\ IsFiniteSet(Registered(rs[n]))
               /\ 1 + Cardinality(Registered(rs[n])) <= MaxMembers
    <2>1. /\ n \in Open(rt) /\ Registered(rs[n]) \in SUBSET Registered(rt[n])
          /\ IsFiniteSet(Registered(rt[n])) /\ 1 + Cardinality(Registered(rt[n])) <= MaxMembers
      BY <1>4 DEF Within, Limited
    <2>2. /\ IsFiniteSet(Registered(rs[n]))
          /\ Cardinality(Registered(rs[n])) <= Cardinality(Registered(rt[n]))
          /\ Cardinality(Registered(rs[n])) \in Nat /\ Cardinality(Registered(rt[n])) \in Nat
      BY <2>1, FS_Subset, FS_CardinalityType
    <2> QED
      BY <2>1, <2>2, LimitsAssumption
  <1>5. Total(rs) <= Total(rt) /\ Total(rs) \in Nat /\ Total(rt) \in Nat
    BY <1>2, <1>3 DEF Total
  <1>6. Cardinality(Open(rt)) <= MaxRooms /\ Total(rt) <= MaxTotal
    BY DEF Limited
  <1>7. Cardinality(Open(rs)) <= MaxRooms /\ Total(rs) <= MaxTotal
    BY <1>2, <1>5, <1>6, LimitsAssumption
  <1> QED
    BY <1>2, <1>3, <1>4, <1>5, <1>7 DEF Limited

\* One room more, with nobody in it, below the limits.
LEMMA OneRoomMore ==
  ASSUME NEW rs, NEW rt, Limited(rs), NEW n \in Numbers,
         Cardinality(Open(rs)) < MaxRooms, Total(rs) < MaxTotal,
         Registered(rt[n]) = {}, \A m \in Numbers \ {n} : rt[m] = rs[m]
  PROVE  Limited(rt)
  <1>1. /\ Open(rt) \in SUBSET (Open(rs) \cup {n})
        /\ Memberships(rt) \in SUBSET Memberships(rs)
    BY DEF Open, Memberships
  <1>2. /\ IsFiniteSet(Open(rs) \cup {n})
        /\ Cardinality(Open(rs) \cup {n}) <= Cardinality(Open(rs)) + 1
        /\ Cardinality(Open(rs)) \in Nat
    BY SMTT(30), FS_AddElement, FS_CardinalityType DEF Limited
  <1>3. /\ IsFiniteSet(Open(rt)) /\ Cardinality(Open(rt)) <= Cardinality(Open(rs) \cup {n})
        /\ Cardinality(Open(rt)) \in Nat /\ Cardinality(Open(rs) \cup {n}) \in Nat
    BY <1>1, <1>2, FS_Subset, FS_CardinalityType
  <1>4. /\ IsFiniteSet(Memberships(rt))
        /\ Cardinality(Memberships(rt)) <= Cardinality(Memberships(rs))
        /\ Cardinality(Memberships(rt)) \in Nat /\ Cardinality(Memberships(rs)) \in Nat
    BY <1>1, FS_Subset, FS_CardinalityType DEF Limited
  <1>5. Total(rs) = Cardinality(Open(rs)) + Cardinality(Memberships(rs))
        /\ Total(rt) = Cardinality(Open(rt)) + Cardinality(Memberships(rt))
    BY DEF Total
  <1>6. Cardinality(Open(rt)) <= MaxRooms /\ Total(rt) <= MaxTotal
    BY <1>2, <1>3, <1>4, <1>5, LimitsAssumption
  <1>7. ASSUME NEW m \in Open(rt)
        PROVE  /\ IsFiniteSet(Registered(rt[m]))
               /\ 1 + Cardinality(Registered(rt[m])) <= MaxMembers
    <2>1. CASE m = n
      BY <2>1, FS_EmptySet, LimitsAssumption
    <2>2. CASE m # n
      BY <2>2 DEF Limited, Open
    <2> QED
      BY <2>1, <2>2
  <1> QED
    BY <1>3, <1>4, <1>6, <1>7 DEF Limited

\* One guest more in a room, registered there before or below the limits.
LEMMA OneGuestMore ==
  ASSUME NEW rs, NEW rt, Limited(rs), NEW n \in Open(rs), NEW g \in Guests,
         ~Full(rs, n, g),
         Registered(rt[n]) \subseteq Registered(rs[n]) \cup {g},
         \A m \in Numbers \ {n} : rt[m] = rs[m]
  PROVE  Limited(rt)
  <1>1. n \in Numbers /\ Open(rt) \in SUBSET Open(rs)
    BY DEF Open
  <1>2. CASE g \in Registered(rs[n])
    <2>1. Within(rt, rs)
      BY <1>1, <1>2 DEF Within, Open
    <2> QED
      BY <2>1, WithinFact
  <1>3. CASE g \notin Registered(rs[n])
    <2>1. Total(rs) < MaxTotal /\ 1 + Cardinality(Registered(rs[n])) < MaxMembers
      <3>1. rs[n].guests[g] = None
        BY <1>3 DEF Registered
      <3>2. ~(Total(rs) >= MaxTotal) /\ ~(1 + Cardinality(Registered(rs[n])) >= MaxMembers)
        BY <3>1 DEF Full
      <3>3. Cardinality(Open(rs)) \in Nat /\ Cardinality(Memberships(rs)) \in Nat
            /\ Cardinality(Registered(rs[n])) \in Nat
        BY FS_CardinalityType DEF Limited
      <3>4. Total(rs) \in Nat
        BY <3>3 DEF Total
      <3> QED
        BY <3>2, <3>3, <3>4, LimitsAssumption
    <2>2. Memberships(rt) \in SUBSET (Memberships(rs) \cup {<<n, g>>})
      <3>1. ASSUME NEW p \in Memberships(rt)
            PROVE  p \in Memberships(rs) \cup {<<n, g>>}
        <4>1. /\ p \in Numbers \X Guests /\ p = <<p[1], p[2]>>
              /\ p[1] \in Open(rs) /\ p[2] \in Registered(rt[p[1]])
          BY <1>1, <3>1 DEF Memberships
        <4>2. p[2] \in Registered(rs[p[1]]) \/ (p[1] = n /\ p[2] = g)
          BY <4>1
        <4> QED
          BY <4>1, <4>2 DEF Memberships
      <3> QED
        BY <3>1
    <2>3. /\ IsFiniteSet(Memberships(rs) \cup {<<n, g>>})
          /\ Cardinality(Memberships(rs) \cup {<<n, g>>}) <= Cardinality(Memberships(rs)) + 1
          /\ Cardinality(Memberships(rs)) \in Nat
      <3>1. IsFiniteSet(Memberships(rs)) /\ Cardinality(Memberships(rs)) \in Nat
        BY FS_CardinalityType DEF Limited
      <3>2. PICK p : p = <<n, g>>
        OBVIOUS
      <3>3. /\ IsFiniteSet(Memberships(rs) \cup {p})
            /\ Cardinality(Memberships(rs) \cup {p}) <= Cardinality(Memberships(rs)) + 1
        BY SMTT(30), <3>1, FS_AddElement
      <3> QED
        BY <3>1, <3>2, <3>3
    <2>4. /\ IsFiniteSet(Memberships(rt))
          /\ Cardinality(Memberships(rt)) <= Cardinality(Memberships(rs) \cup {<<n, g>>})
          /\ Cardinality(Memberships(rt)) \in Nat
          /\ Cardinality(Memberships(rs) \cup {<<n, g>>}) \in Nat
      BY <2>2, <2>3, FS_Subset, FS_CardinalityType
    <2>5. /\ IsFiniteSet(Open(rt)) /\ Cardinality(Open(rt)) <= Cardinality(Open(rs))
          /\ Cardinality(Open(rt)) \in Nat /\ Cardinality(Open(rs)) \in Nat
          /\ Cardinality(Open(rs)) <= MaxRooms
      BY <1>1, FS_Subset, FS_CardinalityType DEF Limited
    <2>6. Total(rs) = Cardinality(Open(rs)) + Cardinality(Memberships(rs))
          /\ Total(rt) = Cardinality(Open(rt)) + Cardinality(Memberships(rt))
      BY DEF Total
    <2>7. Cardinality(Open(rt)) <= MaxRooms /\ Total(rt) <= MaxTotal
      BY <2>1, <2>3, <2>4, <2>5, <2>6, LimitsAssumption
    <2>8. /\ IsFiniteSet(Registered(rt[n]))
          /\ 1 + Cardinality(Registered(rt[n])) <= MaxMembers
      <3>1. /\ IsFiniteSet(Registered(rs[n]) \cup {g})
            /\ Cardinality(Registered(rs[n]) \cup {g}) = Cardinality(Registered(rs[n])) + 1
            /\ Cardinality(Registered(rs[n])) \in Nat
        BY <1>3, FS_AddElement, FS_CardinalityType DEF Limited
      <3>2. /\ IsFiniteSet(Registered(rt[n])) /\ Cardinality(Registered(rt[n])) \in Nat
            /\ Cardinality(Registered(rt[n])) <= Cardinality(Registered(rs[n]) \cup {g})
        BY <3>1, FS_Subset, FS_CardinalityType
      <3> QED
        BY <2>1, <3>1, <3>2, LimitsAssumption
    <2>9. \A m \in Open(rt) : m # n => rt[m] = rs[m] /\ m \in Open(rs)
      BY <1>1 DEF Open
    <2> QED
      BY <2>4, <2>5, <2>7, <2>8, <2>9 DEF Limited
  <1> QED
    BY <1>2, <1>3

\* Every step keeps the limits.
LEMMA LimitStep ==
  ASSUME TypeOK, Limited(rooms), [Next]_vars
  PROVE  Limited(rooms')
  <1>1. rooms = [n \in Numbers |-> rooms[n]]
    BY DEF TypeOK
  <1>2. PICK rs : rs = Retain(rooms)
    OBVIOUS
  <1>3. /\ rs = [n \in Numbers |-> rs[n]]
        /\ \A n \in Numbers : rs[n] = None \/ (n \in Open(rooms) /\ rs[n] = rooms[n])
    BY <1>2, RetainFact
  <1>4. Within(rs, rooms)
    BY <1>3 DEF Within, Open
  <1>5. Limited(rs)
    BY <1>4, WithinFact
  <1>6. PICK rt : rt = rooms'
    OBVIOUS
  <1>7. CASE Refused
    BY <1>2, <1>5, <1>7 DEF Refused
  <1>8. ASSUME NEW n \in Numbers, CreateRoom(n)
        PROVE  Limited(rooms')
    <2>1. PICK u \in Setups : rt = [rs EXCEPT ![n] = Fresh(u)]
      BY <1>2, <1>6, <1>8 DEF CreateRoom, Fresh
    <2>2. rt[n] = Fresh(u) /\ \A m \in Numbers \ {n} : rt[m] = rs[m]
      BY <1>3, <2>1
    <2>3. Registered(rt[n]) = {}
      BY <2>2 DEF Registered, Fresh
    <2>4. Cardinality(Open(rs)) < MaxRooms /\ Total(rs) < MaxTotal
      BY <1>2, <1>8 DEF CreateRoom
    <2> QED
      BY <1>5, <1>6, <2>2, <2>3, <2>4, OneRoomMore
  <1>9. ASSUME NEW n \in Numbers, NEW g \in Guests, Join(n, g)
        PROVE  Limited(rooms')
    <2>1. n \in Open(rs) /\ ~Full(rs, n, g)
      BY <1>2, <1>9 DEF Join
    <2>2. PICK given : rt = [rs EXCEPT ![n] = Joined(rs[n], g, given)]
      BY <1>2, <1>6, <1>9 DEF Join
    <2>3. rt[n] = Joined(rs[n], g, given) /\ \A m \in Numbers \ {n} : rt[m] = rs[m]
      BY <1>3, <2>2
    <2>4. PICK r : r = rs[n]
      OBVIOUS
    <2>5. r \in Rooms
      BY <1>3, <2>1, <2>4 DEF TypeOK, Open
    <2>6. \A h \in Guests : h # g => rt[n].guests[h] = r.guests[h]
      BY <2>3, <2>4, <2>5 DEF Joined, Rooms
    <2>7. Registered(rt[n]) \subseteq Registered(rs[n]) \cup {g}
      BY <2>4, <2>6 DEF Registered
    <2> QED
      BY <1>5, <1>6, <2>1, <2>3, <2>7, OneGuestMore
  <1>10. ASSUME NEW n \in Numbers, DropExpired(n) \/ DeleteRoom(n) \/ Secure(n) \/ Expire(n)
         PROVE  Limited(rooms')
    <2>1. PICK q : /\ rt = [rooms EXCEPT ![n] = q]
                   /\ q = None \/ q = Lapsed(rooms[n]) \/ q = Secured(rooms[n])
      BY <1>6, <1>10 DEF DropExpired, DeleteRoom, Secure, Expire, Lapsed, Secured
    <2>2. n \in Open(rooms)
      BY <1>10 DEF DropExpired, DeleteRoom, Secure, Expire
    <2>3. rt[n] = q /\ \A m \in Numbers : m # n => rt[m] = rooms[m]
      BY <1>1, <2>1
    <2>4. PICK r : r = rooms[n]
      OBVIOUS
    <2>5. r \in Rooms
      BY <2>2, <2>4 DEF TypeOK, Open
    <2>6. q # None => Registered(q) \subseteq Registered(r)
      <3>1. q = Lapsed(r) => q.guests = r.guests
        BY <2>5 DEF Lapsed, Rooms
      <3>2. q = Secured(r) => \A g \in Guests : q.guests[g] = None
        BY <2>5 DEF Secured, Rooms
      <3>3. q = Lapsed(r) => Registered(q) = Registered(r)
        BY <3>1 DEF Registered
      <3>4. q = Secured(r) => Registered(q) = {}
        BY <3>2 DEF Registered
      <3> QED
        BY <2>1, <2>4, <3>3, <3>4
    <2>7. Within(rt, rooms)
      BY <2>2, <2>3, <2>4, <2>6 DEF Within, Open
    <2> QED
      BY <1>6, <2>7, WithinFact
  <1>11. CASE UNCHANGED vars
    BY <1>11 DEF vars
  <1> QED
    BY <1>7, <1>8, <1>9, <1>10, <1>11 DEF Next

\* The operator's limits hold for the whole map: a room or a guest is only let in
\* below them, after the sweep, and nothing else adds any.
THEOREM LimitsAreKept == Spec => []LimitsKept
  <1>1. Init => Limited(rooms)
    <2>1. ASSUME Init
          PROVE  Open(rooms) = {} /\ Memberships(rooms) = {}
      BY <2>1 DEF Init, Open, Memberships
    <2>2. ASSUME Init
          PROVE  Limited(rooms)
      BY <2>1, <2>2, FS_EmptySet, LimitsAssumption DEF Limited, Total
    <2> QED
      BY <2>2
  <1>2. TypeOK /\ Limited(rooms) /\ [Next]_vars => Limited(rooms)'
    BY LimitStep
  <1>3. Limited(rooms) => LimitsKept
    BY DEF Limited, LimitsKept
  <1> QED
    BY <1>1, <1>2, <1>3, RegistryTypes, PTL DEF Spec

\* The map is sound, for any numbers, guests, pools and limits.
THEOREM RegistryHolds == Spec => []RegistryIsSound
  <1>1. TypeOK /\ AddressesDistinct /\ PoolIsFollowed /\ LimitsKept => RegistryIsSound
    BY DEF RegistryIsSound
  <1> QED
    BY <1>1, RegistryTypes, NoTwoHaveOneAddress, PoolGivesOnce, LimitsAreKept, PTL

\* Rooms keep what they gave, and give nothing when they are over.
THEOREM HistoryHolds == Spec => HistoryIsKept
  <1>1. AddressesAreStable /\ OverIsOver => HistoryIsKept
    BY DEF HistoryIsKept
  <1> QED
    BY <1>1, StableAddresses, NoLateGuest, PTL

-----------------------------------------------------------------------------
(* ServiceRoom *)

Services == [id : Nat, to : Commands \cup {"first"}]
Controls(pws) == [next : Nat, password : pws, targets : SUBSET Services]
Tasks == [g : Members, try : 1..MaxTries, pw : Tokens, targets : SUBSET Services,
          st : {"connecting", "paired", "ended"}]
Processes == [st : {"out", "retry", "bound", "joined", "on", "refused"}, pw : 0..MaxTokens,
              try : 0..MaxTries, items : SUBSET Services]
Runs == [st : {"new", "read", "secured", "done"}, kind : Kinds, copy : Controls(0..MaxTokens)]

\* What the server keeps; the control file and its copies; the processes.
ServerTypes ==
    /\ token \in Tokens /\ catalogue \subseteq Services
    /\ guests \in [Members -> 1..MaxTries \cup {Vacant}]
CopiesInv ==
    /\ file \in Controls(Tokens) /\ control \in Controls(Tokens) /\ read \in Controls(Tokens)
    /\ targets \subseteq Services /\ password \in Tokens
    /\ command \in [Commands -> Runs]
    /\ \A c \in Commands : command[c].st # "new" => command[c].copy.password \in Tokens
MembersTypes == member \in [Members -> Processes]
TasksTypes ==
    /\ clients \in [Members -> 1..MaxTries \cup {Vacant}]
    /\ \A j \in Jobs : jobs[j] # Vacant => jobs[j] \in Tasks
    /\ jobs = [j \in Jobs |-> jobs[j]]
\* No task serves anything but the catalogue, and a new one would not either, unless the
\* host is about to publish what it has just read.
Served(ts, cat) == \A j \in Jobs : ts[j] # Vacant /\ ts[j].st # "ended" => ts[j].targets = cat
NextServed == pc # "publish" => targets = catalogue

\* The inductive invariant of a room of services.
ServicesInv ==
    /\ ServerTypes /\ CopiesInv /\ MembersTypes /\ TasksTypes
    /\ Served(jobs, catalogue) /\ NextServed

-----------------------------------------------------------------------------
(* Tasks of the host *)

\* What the members see of tasks that go.
LEMMA EndJobsFact ==
  ASSUME MembersTypes, NEW S, EndJobs(S)
  PROVE  MembersTypes'
  <1>1. PICK lost : member' = [g \in Members |-> IF g \in lost /\ member[g].st = "on"
                                 THEN [member[g] EXCEPT !.st = "retry"] ELSE member[g]]
    BY DEF EndJobs
  <1> QED
    BY <1>1 DEF MembersTypes, Processes

LEMMA AbortAllFact ==
  ASSUME MembersTypes, AbortAll
  PROVE  MembersTypes' /\ TasksTypes' /\ \A cat : Served(jobs', cat)
  <1>1. MembersTypes'
    BY EndJobsFact DEF AbortAll
  <1> QED
    BY <1>1 DEF AbortAll, TasksTypes, Served

LEMMA EndedTask ==
  ASSUME NEW x \in Tasks
  PROVE  [x EXCEPT !.st = "ended"] \in Tasks /\ [x EXCEPT !.st = "ended"].st = "ended"
  BY DEF Tasks

\* Tasks that end, or are read, serve nothing more.
LEMMA TasksLess ==
  ASSUME TasksTypes, NEW cat, Served(jobs, cat),
         jobs' = [j \in Jobs |-> jobs'[j]], clients' \in [Members -> 1..MaxTries \cup {Vacant}],
         \A j \in Jobs : \/ jobs'[j] = jobs[j] \/ jobs'[j] = Vacant
                         \/ jobs[j] # Vacant /\ jobs'[j] = [jobs[j] EXCEPT !.st = "ended"]
                         \/ /\ jobs[j] # Vacant /\ jobs[j].st # "ended"
                            /\ jobs'[j] = [jobs[j] EXCEPT !.st = "paired"]
  PROVE  TasksTypes' /\ Served(jobs', cat)
  <1>1. ASSUME NEW j \in Jobs, jobs'[j] # Vacant
        PROVE  jobs'[j] \in Tasks /\ (jobs'[j].st # "ended" => jobs'[j].targets = cat)
    <2>1. CASE jobs'[j] = jobs[j]
      BY <1>1, <2>1 DEF TasksTypes, Served
    <2>2. CASE jobs[j] # Vacant /\ jobs'[j] = [jobs[j] EXCEPT !.st = "ended"]
      BY <2>2, EndedTask DEF TasksTypes
    <2>3. CASE /\ jobs[j] # Vacant /\ jobs[j].st # "ended"
               /\ jobs'[j] = [jobs[j] EXCEPT !.st = "paired"]
      BY <2>3 DEF TasksTypes, Tasks, Served
    <2> QED
      BY <1>1, <2>1, <2>2, <2>3
  <1> QED
    BY <1>1 DEF TasksTypes, Served

\* A new token: the room's pairs end, its guests are forgotten.
LEMMA SecureFact ==
  ASSUME ServicesInv, SecureRoom
  PROVE  /\ ServerTypes' /\ MembersTypes' /\ TasksTypes' /\ Served(jobs', catalogue')
         /\ token' \in Tokens /\ catalogue' = catalogue
  <1>1. /\ token < MaxTokens /\ token' = token + 1 /\ guests' = [g \in Members |-> Vacant]
        /\ jobs' = [j \in Jobs |-> IF jobs[j] = Vacant THEN Vacant ELSE [jobs[j] EXCEPT !.st = "ended"]]
        /\ EndJobs(Jobs) /\ UNCHANGED <<catalogue, clients>>
    BY DEF SecureRoom
  <1>2. token' \in Tokens
    BY <1>1, RoomAssumption DEF RoomAssumption, ServicesInv, ServerTypes, Tokens
  <1>3. ServerTypes'
    BY <1>1, <1>2 DEF ServicesInv, ServerTypes, Services, Tokens
  <1>4. MembersTypes'
    BY <1>1, EndJobsFact DEF ServicesInv
  <1>5. TasksTypes' /\ Served(jobs', catalogue)
    <2>1. clients' \in [Members -> 1..MaxTries \cup {Vacant}]
      BY <1>1 DEF ServicesInv, TasksTypes
    <2>2. \A j \in Jobs : \/ jobs'[j] = Vacant
                          \/ jobs[j] # Vacant /\ jobs'[j] = [jobs[j] EXCEPT !.st = "ended"]
      BY <1>1
    <2>3. jobs' = [j \in Jobs |-> jobs'[j]]
      BY <1>1
    <2> QED
      BY <2>1, <2>2, <2>3, TasksLess DEF ServicesInv
  <1> QED
    BY <1>1, <1>2, <1>3, <1>4, <1>5

-----------------------------------------------------------------------------
(* The commands *)

LEMMA CommandReadsKeeps ==
  ASSUME ServicesInv, NEW c \in Commands, CommandReads(c)
  PROVE  ServicesInv'
  <1>1. PICK k \in Kinds : command' = [command EXCEPT ![c] = [st |-> "read", kind |-> k, copy |-> file]]
    BY DEF CommandReads
  <1>2. UNCHANGED <<token, catalogue, guests, file, pc, control, read, targets, password, jobs, clients, member>>
    BY DEF CommandReads, server, hostState
  <1>3. file \in Controls(Tokens) /\ file \in Controls(0..MaxTokens) /\ file.password \in Tokens
    BY DEF ServicesInv, CopiesInv, Controls, Tokens
  <1>4. [st |-> "read", kind |-> k, copy |-> file] \in Runs
    BY <1>3 DEF Runs
  <1>5. CopiesInv'
    BY <1>1, <1>2, <1>3, <1>4 DEF ServicesInv, CopiesInv, Tokens, Services, Runs, Controls
  <1> QED
    BY <1>2, <1>5 DEF ServicesInv, ServerTypes, MembersTypes, TasksTypes, Served, NextServed

LEMMA CommandFact ==
  ASSUME ServicesInv, NEW c \in Commands, command[c].st \in {"read", "secured"}
  PROVE  command[c] \in Runs /\ command[c].copy \in Controls(Tokens)
  BY DEF ServicesInv, CopiesInv, Runs, Controls

LEMMA SaveKeeps ==
  ASSUME ServicesInv, NEW c \in Commands, command[c].st \in {"read", "secured"},
         NEW copy \in Controls(Tokens), Save(c, copy)
  PROVE  ServicesInv'
  <1>1. /\ file' = copy /\ command' = [command EXCEPT ![c].st = "done", ![c].copy = copy]
        /\ UNCHANGED <<token, catalogue, guests, pc, control, read, targets, password, jobs, clients, member>>
    BY DEF Save, server, hostState
  <1>2. command \in [Commands -> Runs]
    BY DEF ServicesInv, CopiesInv
  <1>3. copy \in Controls(0..MaxTokens) /\ copy.password \in Tokens
    BY DEF Controls, Tokens
  <1>4. command'[c] = [command[c] EXCEPT !.st = "done", !.copy = copy]
    BY <1>1, <1>2
  <1>5. command'[c] \in Runs /\ command'[c].copy = copy
    BY <1>2, <1>3, <1>4 DEF Runs
  <1>6. /\ command' \in [Commands -> Runs]
        /\ \A d \in Commands : d # c => command'[d] = command[d]
        /\ command'[c].copy = copy
    BY <1>1, <1>2, <1>5
  <1>7. CopiesInv'
    BY <1>1, <1>3, <1>6 DEF ServicesInv, CopiesInv
  <1> QED
    BY <1>1, <1>7 DEF ServicesInv, ServerTypes, MembersTypes, TasksTypes, Served, NextServed

LEMMA CommandChangesKeeps ==
  ASSUME ServicesInv, NEW c \in Commands, CommandChanges(c)
  PROVE  ServicesInv'
  <1> DEFINE copy == command[c].copy
  <1>1. command[c].st = "read" /\ copy \in Controls(Tokens)
    BY CommandFact DEF CommandChanges
  <1>2. CASE Save(c, Added(copy, c))
    <2> HIDE DEF copy
    <2>1. [id |-> copy.next, to |-> c] \in Services /\ copy.next + 1 \in Nat
      BY <1>1 DEF Controls, Services
    <2>2. Added(copy, c) \in Controls(Tokens)
      <3> DEFINE new == copy.targets \cup {[id |-> copy.next, to |-> c]}
      <3>1. new \subseteq Services
        BY <1>1, <2>1 DEF Controls
      <3>2. Added(copy, c) = [copy EXCEPT !.targets = new, !.next = copy.next + 1]
        BY DEF Added
      <3> HIDE DEF new
      <3> QED
        BY <1>1, <2>1, <3>1, <3>2 DEF Controls
    <2> QED
      BY <1>1, <1>2, <2>2, SaveKeeps
  <1>3. ASSUME NEW s \in copy.targets, Save(c, Removed(copy, s.id))
        PROVE  ServicesInv'
    <2> HIDE DEF copy
    <2>1. Removed(copy, s.id) \in Controls(Tokens)
      BY <1>1 DEF Removed, Controls
    <2> QED
      BY <1>1, <1>3, <2>1, SaveKeeps
  <1> QED
    BY <1>2, <1>3 DEF CommandChanges

LEMMA CommandRevokesKeeps ==
  ASSUME ServicesInv, NEW c \in Commands, CommandRevokes(c)
  PROVE  ServicesInv'
  <1>1. /\ command[c].st = "read" /\ SecureRoom
        /\ command' = [command EXCEPT ![c].st = "secured", ![c].copy.password = token']
        /\ UNCHANGED <<file, pc, control, read, targets, password>>
    BY DEF CommandRevokes, hostState
  <1>2. /\ ServerTypes' /\ MembersTypes' /\ TasksTypes' /\ Served(jobs', catalogue')
        /\ token' \in Tokens /\ catalogue' = catalogue
    BY <1>1, SecureFact
  <1>3. command \in [Commands -> Runs]
    BY DEF ServicesInv, CopiesInv
  <1>4. token' \in 0..MaxTokens
    BY <1>2 DEF Tokens
  <1>5. /\ command' \in [Commands -> Runs] /\ command'[c].copy.password = token'
        /\ \A d \in Commands : d # c => command'[d] = command[d]
    <2> DEFINE x == [command[c] EXCEPT !.st = "secured", !.copy = [command[c].copy EXCEPT !.password = token']]
    <2>1. command' = [command EXCEPT ![c] = x]
      BY <1>1, <1>3 DEF Runs, Controls
    <2>2. [command[c].copy EXCEPT !.password = token'] \in Controls(0..MaxTokens)
      BY <1>3, <1>4 DEF Runs, Controls
    <2>3. x \in Runs /\ x.copy.password = token'
      BY <1>3, <2>2 DEF Runs, Controls
    <2> HIDE DEF x
    <2> QED
      BY <1>3, <2>1, <2>3
  <1>6. CopiesInv'
    BY <1>1, <1>2, <1>5 DEF ServicesInv, CopiesInv
  <1> QED
    BY <1>1, <1>2, <1>6 DEF ServicesInv, NextServed

-----------------------------------------------------------------------------
(* The host *)

\* A step of the host that leaves tasks and members alone, and says the truth of what
\* it will serve next.
LEMMA HostOnlyKeeps ==
  ASSUME ServicesInv, UNCHANGED <<token, catalogue, guests, jobs, clients, member, command>>,
         file' \in Controls(Tokens), control' \in Controls(Tokens), read' \in Controls(Tokens),
         targets' \subseteq Services, password' \in Tokens, NextServed'
  PROVE  ServicesInv'
  <1>1. CopiesInv'
    BY DEF ServicesInv, CopiesInv
  <1> QED
    BY <1>1 DEF ServicesInv, ServerTypes, MembersTypes, TasksTypes, Served

LEMMA HostFact ==
  ASSUME ServicesInv
  PROVE  /\ file \in Controls(Tokens) /\ control \in Controls(Tokens) /\ read \in Controls(Tokens)
         /\ targets \subseteq Services /\ password \in Tokens /\ NextServed
         /\ file.targets \subseteq Services /\ control.password \in Tokens
  BY DEF ServicesInv, CopiesInv, Controls

LEMMA QuietKeeps ==
  ASSUME ServicesInv, PressRevoke \/ TickBegins \/ HostSaves \/ HostReads
  PROVE  ServicesInv'
  <1>0. USE HostFact
  <1>1. CASE PressRevoke
    BY <1>1, HostOnlyKeeps DEF PressRevoke, server, NextServed
  <1>2. CASE TickBegins
    BY <1>2, HostOnlyKeeps DEF TickBegins, server, NextServed
  <1>3. CASE HostSaves
    BY <1>3, HostOnlyKeeps DEF HostSaves, server, NextServed
  <1>4. CASE HostReads
    BY <1>4, HostOnlyKeeps DEF HostReads, server, NextServed
  <1> QED
    BY <1>1, <1>2, <1>3, <1>4

LEMMA HostRevokesKeeps ==
  ASSUME ServicesInv, HostRevokes
  PROVE  ServicesInv'
  <1>1. /\ pc = "secure" /\ pc' = "save" /\ control' = [control EXCEPT !.password = token']
        /\ UNCHANGED <<file, read, targets, password, command>>
        /\ SecureRoom \/ UNCHANGED <<token, catalogue, guests, jobs, clients, member>>
    BY DEF HostRevokes, server
  <1>2. /\ ServerTypes' /\ MembersTypes' /\ TasksTypes' /\ Served(jobs', catalogue')
        /\ token' \in Tokens /\ catalogue' = catalogue
    <2>1. CASE SecureRoom
      BY <2>1, SecureFact
    <2>2. CASE UNCHANGED <<token, catalogue, guests, jobs, clients, member>>
      BY <2>2 DEF ServicesInv, ServerTypes, MembersTypes, TasksTypes, Served
    <2> QED
      BY <1>1, <2>1, <2>2
  <1>3. control' \in Controls(Tokens)
    BY <1>1, <1>2, HostFact DEF Controls
  <1>4. CopiesInv'
    BY <1>1, <1>3 DEF ServicesInv, CopiesInv
  <1> QED
    BY <1>1, <1>2, <1>4 DEF ServicesInv, NextServed

LEMMA HostPublishesKeeps ==
  ASSUME ServicesInv, HostPublishes
  PROVE  ServicesInv'
  <1>1. /\ catalogue' = targets /\ control' = read /\ AbortAll
        /\ UNCHANGED <<token, guests, file, read, targets, password, command>>
    BY DEF HostPublishes, RestartSessions
  <1>2. MembersTypes' /\ TasksTypes' /\ Served(jobs', catalogue')
    BY <1>1, AbortAllFact DEF ServicesInv
  <1>3. ServerTypes' /\ CopiesInv'
    BY <1>1, HostFact DEF ServicesInv, ServerTypes, CopiesInv
  <1> QED
    BY <1>1, <1>2, <1>3 DEF ServicesInv, NextServed

LEMMA HostRenewsKeeps ==
  ASSUME ServicesInv, HostRenews \/ HostEnds
  PROVE  ServicesInv'
  <1>1. /\ catalogue' = catalogue /\ token' = token
        /\ guests' = guests \/ guests' = [g \in Members |-> Vacant]
        /\ password' \in {password, control.password}
        /\ pc' = pc \/ pc = "renew"
        /\ UNCHANGED <<file, control, read, targets, command>>
        /\ AbortAll \/ UNCHANGED <<jobs, clients, member>>
    BY DEF HostRenews, HostEnds, server
  <1>2. MembersTypes' /\ TasksTypes' /\ Served(jobs', catalogue')
    <2>1. CASE AbortAll
      BY <2>1, AbortAllFact DEF ServicesInv
    <2>2. CASE UNCHANGED <<jobs, clients, member>>
      BY <1>1, <2>2 DEF ServicesInv, MembersTypes, TasksTypes, Served
    <2> QED
      BY <1>1, <2>1, <2>2
  <1>3. ServerTypes' /\ CopiesInv'
    BY <1>1, HostFact DEF ServicesInv, ServerTypes, CopiesInv
  <1> QED
    BY <1>1, <1>2, <1>3 DEF ServicesInv, NextServed

\* A new task serves what the host has published.
LEMMA HostSpawnsKeeps ==
  ASSUME ServicesInv, HostSpawns
  PROVE  ServicesInv'
  <1>1. /\ pc = "spawn" /\ UNCHANGED <<token, catalogue, guests, file, control, read, targets, password, command>>
        /\ pc' \in {"spawn", "tick"}
    BY DEF HostSpawns, server
  <1>2. targets = catalogue
    BY <1>1 DEF ServicesInv, NextServed
  <1>3. ServerTypes' /\ CopiesInv' /\ NextServed'
    BY <1>1, <1>2, HostFact DEF ServicesInv, ServerTypes, CopiesInv, NextServed
  <1>4. CASE UNCHANGED <<jobs, clients, member>>
    BY <1>1, <1>3, <1>4 DEF ServicesInv, MembersTypes, TasksTypes, Served
  <1>5. ASSUME NEW g \in Members, NEW old, NEW i \in Jobs,
               guests[g] # Vacant,
               jobs' = [j \in Jobs |-> IF j = i THEN NewJob(g)
                                       ELSE IF j \in old THEN Vacant ELSE jobs[j]],
               EndJobs(old), clients' = [clients EXCEPT ![g] = guests[g]]
        PROVE  ServicesInv'
    <2>1. MembersTypes'
      BY <1>5, EndJobsFact DEF ServicesInv
    <2>2. guests[g] \in 1..MaxTries
      BY <1>5 DEF ServicesInv, ServerTypes
    <2>3. NewJob(g) \in Tasks /\ NewJob(g).targets = catalogue
      BY <1>2, <2>2, HostFact DEF NewJob, Tasks
    <2>4. TasksTypes'
      BY <1>5, <2>2, <2>3 DEF ServicesInv, TasksTypes
    <2>5. Served(jobs', catalogue')
      BY <1>1, <1>5, <2>3 DEF ServicesInv, Served
    <2> QED
      BY <1>3, <2>1, <2>4, <2>5 DEF ServicesInv
  <1> QED
    BY <1>4, <1>5 DEF HostSpawns, FreeSlots

\* A step of tasks and members that leaves host and commands alone.
LEMMA OutsideKeeps ==
  ASSUME ServicesInv, UNCHANGED <<token, catalogue, file, hostState, command>>,
         guests' \in [Members -> 1..MaxTries \cup {Vacant}],
         MembersTypes', TasksTypes', Served(jobs', catalogue)
  PROVE  ServicesInv'
  <1>1. UNCHANGED <<pc, control, read, targets, password>>
    BY DEF hostState
  <1>2. ServerTypes' /\ CopiesInv'
    BY <1>1 DEF ServicesInv, ServerTypes, CopiesInv
  <1> QED
    BY <1>1, <1>2 DEF ServicesInv, NextServed

LEMMA JobsKeep ==
  ASSUME ServicesInv, NEW i \in Jobs, JobEnds(i) \/ JobRead(i)
  PROVE  ServicesInv'
  <1>1. /\ UNCHANGED <<token, catalogue, guests, file, hostState, command>>
        /\ jobs' = [jobs EXCEPT ![i].st = "ended"] \/ jobs' = [jobs EXCEPT ![i] = Vacant]
        /\ jobs[i] # Vacant
        /\ EndJobs({i}) \/ UNCHANGED member
        /\ \/ UNCHANGED clients
           \/ clients' = [clients EXCEPT ![jobs[i].g] = Vacant]
    BY DEF JobEnds, JobRead, server
  <1>2. MembersTypes'
    <2>1. CASE EndJobs({i})
      BY <2>1, EndJobsFact DEF ServicesInv
    <2>2. CASE UNCHANGED member
      BY <2>2 DEF ServicesInv, MembersTypes
    <2> QED
      BY <1>1, <2>1, <2>2
  <1>3. jobs = [j \in Jobs |-> jobs[j]] /\ clients \in [Members -> 1..MaxTries \cup {Vacant}]
    BY DEF ServicesInv, TasksTypes
  <1>4. /\ jobs' = [j \in Jobs |-> jobs'[j]]
        /\ \A j \in Jobs : \/ jobs'[j] = jobs[j] \/ jobs'[j] = Vacant
                           \/ jobs[j] # Vacant /\ jobs'[j] = [jobs[j] EXCEPT !.st = "ended"]
    <2>1. CASE jobs' = [jobs EXCEPT ![i].st = "ended"]
      <3>1. jobs' = [j \in Jobs |-> IF j = i THEN [jobs[i] EXCEPT !.st = "ended"] ELSE jobs[j]]
        BY <1>3, <2>1
      <3> QED
        BY <1>1, <3>1
    <2>2. CASE jobs' = [jobs EXCEPT ![i] = Vacant]
      <3>1. jobs' = [j \in Jobs |-> IF j = i THEN Vacant ELSE jobs[j]]
        BY <1>3, <2>2
      <3> QED
        BY <3>1
    <2> QED
      BY <1>1, <2>1, <2>2
  <1>5. clients' \in [Members -> 1..MaxTries \cup {Vacant}]
    BY <1>1, <1>3
  <1>6. TasksTypes' /\ Served(jobs', catalogue)
    BY <1>4, <1>5, TasksLess DEF ServicesInv
  <1>7. guests' \in [Members -> 1..MaxTries \cup {Vacant}]
    BY <1>1 DEF ServicesInv, ServerTypes
  <1> QED
    BY <1>1, <1>2, <1>6, <1>7, OutsideKeeps

-----------------------------------------------------------------------------
(* The members *)

LEMMA MembersKeep ==
  ASSUME ServicesInv, NEW g \in Members,
         Invited(g) \/ Fetch(g) \/ JoinRoom(g)
  PROVE  ServicesInv'
  <1>1. /\ UNCHANGED <<token, catalogue, file, hostState, command>>
        /\ UNCHANGED <<jobs, clients>>
    BY DEF Invited, Fetch, JoinRoom, server
  <1>2. /\ member \in [Members -> Processes] /\ password \in Tokens /\ catalogue \subseteq Services
        /\ guests \in [Members -> 1..MaxTries \cup {Vacant}]
    BY DEF ServicesInv, MembersTypes, CopiesInv, ServerTypes
  <1>3. password \in 0..MaxTokens
    BY <1>2 DEF Tokens
  <1>4. MembersTypes' /\ guests' \in [Members -> 1..MaxTries \cup {Vacant}]
    <2>1. CASE Invited(g)
      <3>1. guests' = guests /\ member' = [member EXCEPT ![g].st = "retry", ![g].pw = password]
        BY <2>1 DEF Invited, server
      <3> QED
        BY <1>2, <1>3, <3>1 DEF MembersTypes, Processes
    <2>2. CASE Fetch(g)
      <3>1. PICK st \in {"bound", "refused"} :
              guests' = guests /\ member' = [member EXCEPT ![g].st = st, ![g].items = catalogue]
        BY <2>2 DEF Fetch, server, Turned
      <3> QED
        BY <1>2, <3>1 DEF MembersTypes, Processes
    <2>3. CASE /\ JoinRoom(g) /\ member[g].try < MaxTries
               /\ guests' = [guests EXCEPT ![g] = member[g].try + 1]
               /\ member' = [member EXCEPT ![g].st = "joined", ![g].try = @ + 1]
      <3>1. member[g] \in Processes /\ member[g].try \in 0..MaxTries
        BY <1>2 DEF Processes
      <3>2. member[g].try + 1 \in 1..MaxTries /\ member[g].try + 1 \in 0..MaxTries
        BY <2>3, <3>1, RoomAssumption DEF RoomAssumption
      <3>3. member' \in [Members -> Processes]
        <4> DEFINE x == [member[g] EXCEPT !.st = "joined", !.try = member[g].try + 1]
        <4>1. x \in Processes
          BY <3>1, <3>2 DEF Processes
        <4>2. member' = [member EXCEPT ![g] = x]
          BY <1>2, <2>3
        <4> HIDE DEF x
        <4> QED
          BY <1>2, <4>1, <4>2
      <3>4. guests' \in [Members -> 1..MaxTries \cup {Vacant}]
        BY <1>2, <2>3, <3>2
      <3> QED
        BY <3>3, <3>4 DEF MembersTypes
    <2>4. CASE Step(g, "retry") /\ UNCHANGED guests
      BY <1>2, <2>4 DEF Step, MembersTypes, Processes
    <2> QED
      BY <2>1, <2>2, <2>3, <2>4 DEF JoinRoom
  <1>5. TasksTypes' /\ Served(jobs', catalogue)
    BY <1>1 DEF ServicesInv, TasksTypes, Served
  <1> QED
    BY <1>1, <1>4, <1>5, OutsideKeeps

LEMMA PairKeeps ==
  ASSUME ServicesInv, NEW g \in Members, NEW i \in Jobs, Pair(g, i)
  PROVE  ServicesInv'
  <1>1. /\ UNCHANGED <<token, catalogue, guests, file, hostState, clients, command>>
        /\ jobs[i] # Vacant /\ jobs[i].st = "connecting"
        /\ jobs' = [jobs EXCEPT ![i].st = "paired"] /\ Step(g, "on")
    BY DEF Pair, server
  <1>2. /\ member \in [Members -> Processes] /\ jobs = [j \in Jobs |-> jobs[j]]
        /\ clients \in [Members -> 1..MaxTries \cup {Vacant}]
        /\ guests \in [Members -> 1..MaxTries \cup {Vacant}]
    BY DEF ServicesInv, MembersTypes, TasksTypes, ServerTypes
  <1>3. MembersTypes'
    BY <1>1, <1>2 DEF Step, MembersTypes, Processes
  <1>4. jobs' = [j \in Jobs |-> IF j = i THEN [jobs[i] EXCEPT !.st = "paired"] ELSE jobs[j]]
    BY <1>1, <1>2
  <1>5. /\ jobs' = [j \in Jobs |-> jobs'[j]]
        /\ \A j \in Jobs : \/ jobs'[j] = jobs[j]
                           \/ /\ jobs[j] # Vacant /\ jobs[j].st # "ended"
                              /\ jobs'[j] = [jobs[j] EXCEPT !.st = "paired"]
    BY <1>1, <1>4
  <1>6. TasksTypes' /\ Served(jobs', catalogue)
    BY <1>1, <1>2, <1>5, TasksLess DEF ServicesInv
  <1> QED
    BY <1>1, <1>2, <1>3, <1>6, OutsideKeeps

LEMMA AttemptEndsKeeps ==
  ASSUME ServicesInv, NEW g \in Members, AttemptEnds(g)
  PROVE  ServicesInv'
  <1>1. /\ UNCHANGED <<token, catalogue, guests, file, hostState, clients, command>>
        /\ Step(g, "retry")
        /\ jobs' = [j \in Jobs |-> IF jobs[j] # Vacant /\ jobs[j].g = g /\ jobs[j].st = "paired"
                                   THEN [jobs[j] EXCEPT !.st = "ended"] ELSE jobs[j]]
    BY DEF AttemptEnds, server
  <1>2. /\ member \in [Members -> Processes] /\ clients \in [Members -> 1..MaxTries \cup {Vacant}]
        /\ guests \in [Members -> 1..MaxTries \cup {Vacant}]
    BY DEF ServicesInv, MembersTypes, TasksTypes, ServerTypes
  <1>3. MembersTypes'
    BY <1>1, <1>2 DEF Step, MembersTypes, Processes
  <1>4. /\ jobs' = [j \in Jobs |-> jobs'[j]]
        /\ \A j \in Jobs : \/ jobs'[j] = jobs[j]
                           \/ jobs[j] # Vacant /\ jobs'[j] = [jobs[j] EXCEPT !.st = "ended"]
    BY <1>1
  <1>5. TasksTypes' /\ Served(jobs', catalogue)
    BY <1>1, <1>2, <1>4, TasksLess DEF ServicesInv
  <1> QED
    BY <1>1, <1>2, <1>3, <1>5, OutsideKeeps

-----------------------------------------------------------------------------
(* The room *)

LEMMA ServicesInitFact ==
  ASSUME RoomInit
  PROVE  ServicesInv
  <1>1. 1 \in Tokens /\ 0 \in 0..MaxTokens /\ 0 \in 0..MaxTries
    BY RoomAssumption DEF RoomAssumption, Tokens
  <1>2. First \subseteq Services /\ {} \subseteq Services
    BY DEF First, Services
  <1>3. Control(2, 1, First) \in Controls(Tokens) /\ Control(0, 0, {}) \in Controls(0..MaxTokens)
    BY <1>1, <1>2 DEF Control, Controls
  <1>4. Waiting \in Runs /\ Waiting.st = "new" /\ Outside \in Processes
    BY <1>1, <1>2, <1>3 DEF Waiting, Runs, Kinds, Outside, Processes
  <1>5. ServerTypes
    BY <1>1, <1>2 DEF RoomInit, ServerTypes
  <1>6. CopiesInv
    BY <1>1, <1>2, <1>3, <1>4 DEF RoomInit, CopiesInv
  <1>7. MembersTypes /\ TasksTypes /\ Served(jobs, catalogue) /\ NextServed
    BY <1>4 DEF RoomInit, MembersTypes, TasksTypes, Served, NextServed
  <1> QED
    BY <1>5, <1>6, <1>7 DEF ServicesInv

LEMMA ServicesStep ==
  ASSUME ServicesInv, [RoomNext]_roomVars
  PROVE  ServicesInv'
  <1>1. CASE HostTick \/ PressRevoke \/ HostEnds
    BY <1>1, QuietKeeps, HostRevokesKeeps, HostPublishesKeeps, HostRenewsKeeps, HostSpawnsKeeps
       DEF HostTick
  <1>2. ASSUME NEW c \in Commands,
               CommandReads(c) \/ CommandChanges(c) \/ CommandRevokes(c) \/ CommandSaves(c)
        PROVE  ServicesInv'
    <2>1. CASE CommandSaves(c)
      BY <2>1, CommandFact, SaveKeeps DEF CommandSaves
    <2> QED
      BY <1>2, <2>1, CommandReadsKeeps, CommandChangesKeeps, CommandRevokesKeeps
  <1>3. ASSUME NEW i \in Jobs, JobEnds(i) \/ JobRead(i)
        PROVE  ServicesInv'
    BY <1>3, JobsKeep
  <1>4. ASSUME NEW g \in Members, Invited(g) \/ Fetch(g) \/ JoinRoom(g) \/ AttemptEnds(g)
        PROVE  ServicesInv'
    BY <1>4, MembersKeep, AttemptEndsKeeps
  <1>5. ASSUME NEW g \in Members, NEW i \in Jobs, Pair(g, i)
        PROVE  ServicesInv'
    BY <1>5, PairKeeps
  <1>6. CASE UNCHANGED roomVars
    BY <1>6 DEF roomVars, ServicesInv, ServerTypes, CopiesInv, MembersTypes, TasksTypes, Served, NextServed
  <1> QED
    BY <1>1, <1>2, <1>3, <1>4, <1>5, <1>6 DEF RoomNext

LEMMA ServicesImply ==
  ASSUME ServicesInv
  PROVE  RoomIsConsistent
  <1>1. RoomTypeOK
    BY DEF ServicesInv, ServerTypes, CopiesInv, MembersTypes, TasksTypes, RoomTypeOK, Controls, Tasks, Processes
  <1>2. OnlyPublishedServed
    BY DEF ServicesInv, Served, OnlyPublishedServed
  <1> QED
    BY <1>1, <1>2 DEF RoomIsConsistent

\* The inductive invariant of a room of services: the host's tasks, waiting or paired,
\* serve what is published, and what it would serve next is that too unless it is about to
\* publish what it has just read from the control file.
THEOREM ServicesInvHolds == RoomSpec => []ServicesInv
  BY ServicesInitFact, ServicesStep, PTL DEF RoomSpec

\* No session serves what was withdrawn, whatever commands, members and the R key do.
THEOREM ServicesHold == RoomSpec => []RoomIsConsistent
  BY ServicesInvHolds, ServicesImply, PTL

-----------------------------------------------------------------------------
(* ServiceMux *)

Frames == {f \in [kind : {"open", "data", "fin", "reset", "ping", "pong"}, id : Ids \cup {0}, n : Nat] :
             /\ f.kind \in {"open", "data", "fin", "reset"} => f.id \in Ids
             /\ f.kind = "open" => f.n = 0}
StreamTasks == [st : {"none", "dial", "run", "ending", "done", "gone"}, chan : Seq(Frames),
             hold : Frames \cup {Nothing}, rdone : BOOLEAN, wdone : BOOLEAN]
Apps == [sent : Nat, got : Seq(Nat), eof : BOOLEAN]
Events == [kind : {"tcp", "udp", "datagram", "close"}, id : Ids]

MuxTypes ==
    /\ session \in [Ends -> BOOLEAN] /\ broken \in BOOLEAN
    /\ queue \in [Ends -> Seq(Frames)] /\ loop \in [Ends -> Frames \cup {Nothing}]
    /\ streams \in [Ends -> SUBSET Ids]
    /\ task \in [Ends -> [Ids -> StreamTasks]] /\ app \in [Ends -> [Ids -> Apps]]
    /\ udp \in [Ids -> Sources \cup {Nothing}] /\ counter \in 1..(MaxIds + 1)
    /\ flows \in [Sources -> Ids \cup {Nothing}] /\ events \in Seq(Events)
Bounds ==
    /\ \A e \in Ends : /\ Len(queue[e]) <= QueueCap /\ Cardinality(streams[e]) <= Limit
                       /\ \A id \in Ids : Len(task[e][id].chan) <= ChanCap
    /\ Len(events) <= EventCap

\* What is over holds nothing.
Still(t) == t.chan = <<>> /\ t.hold = Nothing /\ ~t.rdone /\ ~t.wdone
TasksInv == \A e \in Ends, id \in Ids :
    LET t == task[e][id]
    IN  /\ t.st \in {"none", "done", "gone"} => Still(t)
        /\ t.st = "dial" => t.hold = Nothing /\ ~t.rdone /\ ~t.wdone
        /\ t.hold # Nothing => t.st = "run" /\ t.hold.id = id /\ t.hold.kind \in {"data", "fin"}
EndedInv ==
    /\ \A e \in Ends : ~session[e] =>
          /\ streams[e] = {} /\ loop[e] = Nothing /\ queue[Other(e)] = <<>>
          /\ \A id \in Ids : task[e][id] = Gone
    /\ ~session["guest"] => events = <<>>
    /\ broken => \A e \in Ends : queue[e] = <<>>

\* Which frames and events there may be.
KindsInv ==
    /\ \A i \in 1..Len(queue["host"]) : queue["host"][i].kind # "open"
    /\ loop["host"] # Nothing => loop["host"].kind # "open"
    /\ \A e \in Ends : loop[e] # Nothing => /\ loop[e].kind # "fin"
                                            /\ loop[e].kind = "data" => udp[loop[e].id] # Nothing
IsNew(v) == v.kind \in {"tcp", "udp"}
Listed(id) == \E i \in 1..Len(events) : IsNew(events[i]) /\ events[i].id = id
ListInv ==
    /\ \A i, j \in 1..Len(events) :
          IsNew(events[i]) /\ IsNew(events[j]) /\ events[i].id = events[j].id => i = j
    /\ \A i \in 1..Len(events) : /\ events[i].id < counter
                                 /\ ~IsNew(events[i]) => udp[events[i].id] # Nothing
    /\ \A s \in Sources : flows[s] # Nothing => flows[s] < counter /\ udp[flows[s]] # Nothing

\* The frames of a TCP stream in a queue.
IsData(f, id) == f.id = id /\ f.kind = "data"
IsFin(f, id) == f.id = id /\ f.kind = "fin"
IsPart(f, id) == f.id = id /\ f.kind \in {"data", "fin"}
NoParts(q, id) == \A i \in 1..Len(q) : ~IsPart(q[i], id)
HasFin(q, id) == \E i \in 1..Len(q) : IsFin(q[i], id)
InOrder(q, id) == \A i, j \in 1..Len(q) : i < j /\ IsPart(q[i], id) /\ IsPart(q[j], id) =>
    q[i].kind = "data" /\ (q[j].kind = "data" => q[i].n < q[j].n)
Covered(q, id, put) == \A i \in 1..Len(q) : IsData(q[i], id) => q[i].n \in 1..put
Preceded(q, id, k, n) == \E i \in 1..k : IsData(q[i], id) /\ q[i].n = n
Gapless(q, id, base) == \A j \in 1..Len(q) : IsData(q[j], id) =>
    base < q[j].n /\ (q[j].n = base + 1 \/ Preceded(q, id, j - 1, q[j].n - 1))
FinLast(q, id, base, put) == \A j \in 1..Len(q) : IsFin(q[j], id) => put = base \/ Preceded(q, id, j - 1, put)
Reached(q, id, base, put) == put = base \/ Preceded(q, id, Len(q), put)

\* A stream nobody knows yet.
Opened(id) == \E i \in 1..Len(queue["guest"]) : queue["guest"][i] = OPEN(id)
HostUnopened(id) ==
    /\ id \notin streams["host"] /\ task["host"][id] \in {Unopened, Gone}
    /\ session["host"] => task["host"][id] = Unopened
    /\ app["host"][id] = Silent /\ (udp[id] = Nothing => NoParts(queue["host"], id))
GuestUnopened(id) ==
    /\ task["guest"][id] = Unopened /\ app["guest"][id] = Silent
    /\ udp[id] = Nothing => NoParts(queue["guest"], id)
    /\ ~Opened(id)
Coming(id) == session["guest"] /\ (counter <= id \/ Listed(id))
ComingInv == \A id \in Ids : Coming(id) =>
    HostUnopened(id) /\ GuestUnopened(id) /\ id \notin streams["guest"] /\ loop["guest"] # OPEN(id)
OpeningInv == \A id \in Ids : loop["guest"] = OPEN(id) => HostUnopened(id) /\ GuestUnopened(id)
OpensFirst(q, id, tcp) == \A i, j \in 1..Len(q) : q[i] = OPEN(id) =>
    /\ q[j] = OPEN(id) => i = j
    /\ tcp /\ IsPart(q[j], id) => i < j
OpenedInv == \A id \in Ids :
    /\ Opened(id) => HostUnopened(id)
    /\ OpensFirst(queue["guest"], id, udp[id] = Nothing)

\* The sender of a stream: what it has put into the queue, and whether more may come.
Put(e, id) == IF task[e][id].hold = DATA(id, app[e][id].sent) THEN app[e][id].sent - 1 ELSE app[e][id].sent
Pending(e, id) ==
    LET t == task[e][id]
    IN  t.st \in {"none", "dial"} \/ (t.st = "run" /\ (~t.rdone \/ t.hold # Nothing))
SenderInv(e, id) ==
    LET t == task[e][id]
    IN  /\ t.hold # Nothing => t.hold = FIN(id) \/ t.hold = DATA(id, app[e][id].sent)
        /\ t.hold = FIN(id) => t.rdone
        /\ t.hold = DATA(id, app[e][id].sent) => ~t.rdone /\ app[e][id].sent > 0
\* The receiver: whether what comes is still taken, how much it has.
Tracked(e, id) ==
    \/ id \in streams[e] /\ task[e][id].st \in {"none", "dial", "run"}
    \/ e = "host" /\ Opened(id)
Have(e, id) == Len(app[e][id].got)
Base(e, id) == Have(e, id) + Len(task[e][id].chan)
Chain(c, id, have) == \A i \in 1..Len(c) :
    IsPart(c[i], id) /\ (c[i].kind = "data" => c[i].n = have + i) /\ (c[i].kind = "fin" => i = Len(c))
LastIsFin(c) == c # <<>> /\ c[Len(c)].kind = "fin"
FlowInv(e, id) ==
    LET q == queue[Other(e)]
        put == Put(Other(e), id)
    IN  /\ InOrder(q, id) /\ Covered(q, id, put) /\ (HasFin(q, id) => ~Pending(Other(e), id))
        /\ Tracked(e, id) => Gapless(q, id, Base(e, id)) /\ FinLast(q, id, Base(e, id), put)
        /\ Tracked(e, id) /\ Pending(Other(e), id) /\ ~broken => Reached(q, id, Base(e, id), put)
ReceiverInv(e, id) ==
    LET c == task[e][id].chan
        put == Put(Other(e), id)
    IN  /\ Chain(c, id, Have(e, id))
        /\ IF LastIsFin(c) THEN ~Pending(Other(e), id) /\ Base(e, id) = put + 1
                           ELSE Base(e, id) <= put
        /\ app[e][id].eof => c = <<>> /\ ~Pending(Other(e), id) /\ Have(e, id) = put
        /\ app[e][id].eof \/ LastIsFin(c) => NoParts(queue[Other(e)], id)
        /\ \A k \in 1..Have(e, id) : app[e][id].got[k] = k
StreamsInv == \A e \in Ends, id \in Ids : udp[id] = Nothing =>
    SenderInv(e, id) /\ FlowInv(e, id) /\ ReceiverInv(e, id)

MuxInv ==
    /\ MuxTypes /\ Bounds /\ TasksInv /\ EndedInv /\ KindsInv /\ ListInv
    /\ ComingInv /\ OpeningInv /\ OpenedInv /\ EntriesHaveTasks /\ StreamsInv

-----------------------------------------------------------------------------
(* Queues *)

LEMMA FrameFact ==
  ASSUME NEW id \in Ids
  PROVE  /\ OPEN(id) \in Frames /\ FIN(id) \in Frames /\ RESET(id) \in Frames
         /\ \A n \in Nat : DATA(id, n) \in Frames /\ DATA(id, n) # FIN(id)
         /\ PING \in Frames /\ PONG \in Frames
         /\ \A f \in Frames : f # Nothing
  <1>1. id \in Nat
    BY DEF Ids
  <1>2. ASSUME NEW f \in Frames
        PROVE  f # Nothing
    <2>1. /\ f \in [kind : {"open", "data", "fin", "reset", "ping", "pong"}, id : Ids \cup {0}, n : Nat]
          /\ Ids \cup {0} \subseteq Nat
      BY DEF Frames, Ids
    <2> QED
      BY <2>1, NothingAssumption DEF NothingAssumption
  <1>3. OPEN(id) \in Frames /\ FIN(id) \in Frames /\ RESET(id) \in Frames /\ PING \in Frames /\ PONG \in Frames
    BY <1>1 DEF Frames, OPEN, FIN, RESET, PING, PONG, Frame
  <1>4. \A n \in Nat : DATA(id, n) \in Frames /\ DATA(id, n) # FIN(id)
    BY <1>1 DEF Frames, FIN, DATA, Frame
  <1> QED
    BY <1>2, <1>3, <1>4

LEMMA OtherFact == \A e \in Ends : Other(e) \in Ends /\ Other(e) # e /\ Other(Other(e)) = e
  BY DEF Ends, Other

\* d is c with f behind it; d is c without its first.
IsMore(d, c, f) ==
    /\ Len(d) = Len(c) + 1 /\ d[Len(c) + 1] = f
    /\ \A i \in 1..Len(c) : d[i] = c[i]
IsRest(d, c) ==
    /\ Len(c) > 0 /\ Len(d) = Len(c) - 1
    /\ \A i \in 1..Len(d) : d[i] = c[i + 1] /\ i + 1 \in 1..Len(c)

LEMMA AppendIsMore ==
  ASSUME NEW c \in Seq(Frames), NEW f \in Frames
  PROVE  Append(c, f) \in Seq(Frames) /\ IsMore(Append(c, f), c, f)
  BY DEF IsMore

LEMMA TailIsRest ==
  ASSUME NEW c \in Seq(Frames), c # <<>>
  PROVE  Tail(c) \in Seq(Frames) /\ IsRest(Tail(c), c) /\ Head(c) = c[1] /\ c[1] \in Frames
  BY DEF IsRest

LEMMA MoreAt ==
  ASSUME NEW c \in Seq(Frames), NEW d \in Seq(Frames), NEW f, IsMore(d, c, f)
  PROVE  /\ Len(d) = Len(c) + 1 /\ Len(c) \in Nat /\ Len(d) \in Nat /\ d # <<>>
         /\ \A i \in 1..Len(c) : d[i] = c[i] /\ i \in 1..Len(d)
         /\ d[Len(c) + 1] = f
         /\ \A i \in 1..Len(d) : i \in 1..Len(c) \/ i = Len(c) + 1
  BY DEF IsMore

LEMMA RestAt ==
  ASSUME NEW c \in Seq(Frames), NEW d \in Seq(Frames), IsRest(d, c)
  PROVE  /\ Len(d) = Len(c) - 1 /\ Len(c) \in Nat /\ Len(c) > 0 /\ Len(d) \in Nat
         /\ c # <<>> /\ 1 \in 1..Len(c) /\ c[1] \in Frames
         /\ \A i \in 1..Len(d) : d[i] = c[i + 1] /\ i + 1 \in 1..Len(c)
  BY DEF IsRest

LEMMA PrefixAt ==
  ASSUME NEW q \in Seq(Frames), NEW n \in 0..Len(q)
  PROVE  /\ SubSeq(q, 1, n) \in Seq(Frames) /\ Len(SubSeq(q, 1, n)) = n
         /\ \A i \in 1..n : SubSeq(q, 1, n)[i] = q[i] /\ i \in 1..Len(q)
  OBVIOUS

\* What the parts of a stream in one queue keep in another: their order, and that they
\* are the next ones for whoever has `base` of them.
Keeps(q, r, id) ==
    /\ InOrder(q, id) => InOrder(r, id)
    /\ \A put \in Nat : Covered(q, id, put) => Covered(r, id, put)
    /\ HasFin(r, id) => HasFin(q, id)
    /\ NoParts(q, id) => NoParts(r, id)
Follows(q, r, id) ==
    /\ \A base \in Nat : Gapless(q, id, base) => Gapless(r, id, base)
    /\ \A base \in Nat, put \in Nat : FinLast(q, id, base, put) => FinLast(r, id, base, put)
Reaches(q, r, id) ==
    \A base \in Nat, put \in Nat : Reached(q, id, base, put) => Reached(r, id, base, put)

LEMMA SameKeeps ==
  ASSUME NEW q, NEW id
  PROVE  Keeps(q, q, id) /\ Follows(q, q, id) /\ Reaches(q, q, id)
  BY DEF Keeps, Follows, Reaches

LEMMA NoPartsFact ==
  ASSUME NEW q \in Seq(Frames), NEW id, NoParts(q, id)
  PROVE  /\ InOrder(q, id) /\ ~HasFin(q, id)
         /\ \A put : Covered(q, id, put)
         /\ \A base : Gapless(q, id, base)
         /\ \A base, put : FinLast(q, id, base, put)
  BY DEF NoParts, InOrder, HasFin, Covered, Gapless, FinLast, IsPart, IsData, IsFin

LEMMA EmptyKeeps ==
  ASSUME NEW q, NEW id
  PROVE  Keeps(q, <<>>, id) /\ Follows(q, <<>>, id) /\ NoParts(<<>>, id)
  <1>1. NoParts(<<>>, id) /\ <<>> \in Seq(Frames)
    BY DEF NoParts
  <1> QED
    BY <1>1, NoPartsFact DEF Keeps, Follows

LEMMA PrecededMore ==
  ASSUME NEW q \in Seq(Frames), NEW a \in Seq(Frames), NEW f, IsMore(a, q, f),
         NEW id, NEW k \in 0..Len(q), NEW n
  PROVE  Preceded(a, id, k, n) <=> Preceded(q, id, k, n)
  <1>1. \A i \in 1..k : i \in 1..Len(q)
    OBVIOUS
  <1> QED
    BY <1>1, MoreAt DEF Preceded

LEMMA MoreKeeps ==
  ASSUME NEW q \in Seq(Frames), NEW a \in Seq(Frames), NEW f, IsMore(a, q, f), NEW id, ~IsPart(f, id)
  PROVE  Keeps(q, a, id) /\ Follows(q, a, id) /\ Reaches(q, a, id)
  <1>1. /\ Len(a) = Len(q) + 1 /\ Len(q) \in Nat
        /\ \A i \in 1..Len(q) : a[i] = q[i]
        /\ a[Len(q) + 1] = f
        /\ \A i \in 1..Len(a) : i \in 1..Len(q) \/ i = Len(q) + 1
    BY MoreAt
  <1>2. ~IsPart(a[Len(q) + 1], id) /\ ~IsData(a[Len(q) + 1], id) /\ ~IsFin(a[Len(q) + 1], id)
    BY <1>1 DEF IsPart, IsData, IsFin
  <1>3. \A k \in 0..Len(q) : \A n : Preceded(q, id, k, n) => Preceded(a, id, k, n)
    BY PrecededMore
  <1>4. \A n : Preceded(q, id, Len(q), n) => Preceded(a, id, Len(a), n)
    BY <1>1 DEF Preceded
  <1>5. Keeps(q, a, id)
    BY <1>1, <1>2 DEF Keeps, InOrder, Covered, HasFin, NoParts
  <1>6. ASSUME NEW base \in Nat, Gapless(q, id, base)
        PROVE  Gapless(a, id, base)
    <2>1. SUFFICES ASSUME NEW j \in 1..Len(a), IsData(a[j], id)
                   PROVE  base < a[j].n /\ (a[j].n = base + 1 \/ Preceded(a, id, j - 1, a[j].n - 1))
      BY DEF Gapless
    <2>2. j \in 1..Len(q) /\ a[j] = q[j] /\ j - 1 \in 0..Len(q)
      BY <1>1, <1>2, <2>1
    <2> QED
      BY <1>3, <1>6, <2>1, <2>2 DEF Gapless
  <1>7. ASSUME NEW base \in Nat, NEW put \in Nat, FinLast(q, id, base, put)
        PROVE  FinLast(a, id, base, put)
    <2>1. SUFFICES ASSUME NEW j \in 1..Len(a), IsFin(a[j], id)
                   PROVE  put = base \/ Preceded(a, id, j - 1, put)
      BY DEF FinLast
    <2>2. j \in 1..Len(q) /\ a[j] = q[j] /\ j - 1 \in 0..Len(q)
      BY <1>1, <1>2, <2>1
    <2> QED
      BY <1>3, <1>7, <2>1, <2>2 DEF FinLast
  <1>8. Reaches(q, a, id)
    BY <1>4 DEF Reaches, Reached
  <1> QED
    BY <1>5, <1>6, <1>7, <1>8 DEF Follows

LEMMA PrefixKeeps ==
  ASSUME NEW q \in Seq(Frames), NEW n \in 0..Len(q), NEW id
  PROVE  Keeps(q, SubSeq(q, 1, n), id) /\ Follows(q, SubSeq(q, 1, n), id)
  <1> DEFINE p == SubSeq(q, 1, n)
  <1>1. Len(p) = n /\ n \in Nat /\ \A i \in 1..Len(p) : p[i] = q[i] /\ i \in 1..Len(q)
    BY PrefixAt
  <1>2. \A k \in 0..n : \A m : Preceded(q, id, k, m) => Preceded(p, id, k, m)
    BY <1>1 DEF Preceded
  <1> HIDE DEF p
  <1>3. Keeps(q, p, id)
    BY <1>1 DEF Keeps, InOrder, Covered, HasFin, NoParts
  <1>4. ASSUME NEW base \in Nat, Gapless(q, id, base)
        PROVE  Gapless(p, id, base)
    <2>1. SUFFICES ASSUME NEW j \in 1..Len(p), IsData(p[j], id)
                   PROVE  base < p[j].n /\ (p[j].n = base + 1 \/ Preceded(p, id, j - 1, p[j].n - 1))
      BY DEF Gapless
    <2>2. j - 1 \in 0..n /\ j \in 1..Len(q) /\ p[j] = q[j]
      BY <1>1
    <2> QED
      BY <1>2, <1>4, <2>1, <2>2 DEF Gapless
  <1>5. ASSUME NEW base \in Nat, NEW put \in Nat, FinLast(q, id, base, put)
        PROVE  FinLast(p, id, base, put)
    <2>1. SUFFICES ASSUME NEW j \in 1..Len(p), IsFin(p[j], id)
                   PROVE  put = base \/ Preceded(p, id, j - 1, put)
      BY DEF FinLast
    <2>2. j - 1 \in 0..n /\ j \in 1..Len(q) /\ p[j] = q[j]
      BY <1>1
    <2> QED
      BY <1>2, <1>5, <2>1, <2>2 DEF FinLast
  <1> QED
    BY <1>3, <1>4, <1>5 DEF Follows, p

LEMMA PrecededRest ==
  ASSUME NEW q \in Seq(Frames), NEW t \in Seq(Frames), IsRest(t, q), NEW id, NEW k \in 1..Len(q), NEW n,
         Preceded(q, id, k, n)
  PROVE  (IsData(q[1], id) /\ q[1].n = n) \/ Preceded(t, id, k - 1, n)
  <1>1. PICK i \in 1..k : IsData(q[i], id) /\ q[i].n = n
    BY DEF Preceded
  <1>2. CASE i = 1
    BY <1>1, <1>2
  <1>3. CASE i # 1
    <2>1. i - 1 \in 1..(k - 1) /\ i - 1 \in 1..Len(t) /\ (i - 1) + 1 = i
      BY <1>1, <1>3, RestAt
    <2>2. t[i - 1] = q[i]
      BY <2>1, RestAt
    <2> QED
      BY <1>1, <2>1, <2>2 DEF Preceded
  <1> QED
    BY <1>2, <1>3

LEMMA RestKeeps ==
  ASSUME NEW q \in Seq(Frames), NEW t \in Seq(Frames), IsRest(t, q), NEW id
  PROVE  /\ Keeps(q, t, id)
         /\ ~IsPart(q[1], id) => Follows(q, t, id) /\ Reaches(q, t, id)
  <1>1. /\ Len(t) = Len(q) - 1 /\ Len(q) \in Nat /\ Len(q) > 0 /\ Len(t) \in Nat
        /\ \A i \in 1..Len(t) : t[i] = q[i + 1] /\ i + 1 \in 1..Len(q)
    BY RestAt
  <1>2. \A k \in 1..Len(q) : \A n : Preceded(q, id, k, n) /\ ~IsPart(q[1], id) => Preceded(t, id, k - 1, n)
    BY PrecededRest DEF IsPart, IsData
  <1>3. Keeps(q, t, id)
    <2>1. InOrder(q, id) => InOrder(t, id)
      <3>1. SUFFICES ASSUME InOrder(q, id), NEW i \in 1..Len(t), NEW j \in 1..Len(t), i < j,
                            IsPart(t[i], id), IsPart(t[j], id)
                     PROVE  t[i].kind = "data" /\ (t[j].kind = "data" => t[i].n < t[j].n)
        BY DEF InOrder
      <3>2. t[i] = q[i + 1] /\ t[j] = q[j + 1] /\ i + 1 \in 1..Len(q) /\ j + 1 \in 1..Len(q) /\ i + 1 < j + 1
        BY <1>1, <3>1
      <3> QED
        BY <3>1, <3>2 DEF InOrder
    <2>2. \A put \in Nat : Covered(q, id, put) => Covered(t, id, put)
      BY <1>1 DEF Covered
    <2>3. (HasFin(t, id) => HasFin(q, id)) /\ (NoParts(q, id) => NoParts(t, id))
      BY <1>1 DEF HasFin, NoParts
    <2> QED
      BY <2>1, <2>2, <2>3 DEF Keeps
  <1>4. ASSUME ~IsPart(q[1], id)
        PROVE  Follows(q, t, id) /\ Reaches(q, t, id)
    <2>1. ASSUME NEW base \in Nat, Gapless(q, id, base), NEW j \in 1..Len(t), IsData(t[j], id)
          PROVE  base < t[j].n /\ (t[j].n = base + 1 \/ Preceded(t, id, j - 1, t[j].n - 1))
      <3>1. t[j] = q[j + 1] /\ j + 1 \in 1..Len(q) /\ (j + 1) - 1 = j /\ j \in 1..Len(q)
        BY <1>1
      <3>2. base < t[j].n /\ (t[j].n = base + 1 \/ Preceded(q, id, j, t[j].n - 1))
        BY <2>1, <3>1 DEF Gapless
      <3> QED
        BY <1>2, <1>4, <3>1, <3>2
    <2>2. ASSUME NEW base \in Nat, NEW put \in Nat, FinLast(q, id, base, put), NEW j \in 1..Len(t), IsFin(t[j], id)
          PROVE  put = base \/ Preceded(t, id, j - 1, put)
      <3>1. t[j] = q[j + 1] /\ j + 1 \in 1..Len(q) /\ (j + 1) - 1 = j /\ j \in 1..Len(q)
        BY <1>1
      <3>2. put = base \/ Preceded(q, id, j, put)
        BY <2>2, <3>1 DEF FinLast
      <3> QED
        BY <1>2, <1>4, <3>1, <3>2
    <2>3. ASSUME NEW base \in Nat, NEW put \in Nat, Reached(q, id, base, put)
          PROVE  Reached(t, id, base, put)
      <3>1. Len(q) \in 1..Len(q) /\ Len(q) - 1 = Len(t)
        BY <1>1
      <3> QED
        BY <1>2, <1>4, <2>3, <3>1 DEF Reached
    <2> QED
      BY <2>1, <2>2, <2>3 DEF Follows, Reaches, Gapless, FinLast
  <1> QED
    BY <1>3, <1>4

\* The next part of a stream is the one its receiver has not got yet; with it, so is the
\* one behind it.
LEMMA RestTakes ==
  ASSUME NEW q \in Seq(Frames), NEW t \in Seq(Frames), IsRest(t, q), NEW h, h = q[1],
         NEW id, NEW base \in Nat, NEW put \in Nat,
         InOrder(q, id), Covered(q, id, put), Gapless(q, id, base), FinLast(q, id, base, put)
  PROVE  /\ IsData(h, id) =>
              /\ h.n = base + 1 /\ base + 1 <= put
              /\ Gapless(t, id, base + 1) /\ FinLast(t, id, base + 1, put)
              /\ Reached(q, id, base, put) => Reached(t, id, base + 1, put)
         /\ IsFin(h, id) => NoParts(t, id) /\ put = base
  <1>1. /\ Len(t) = Len(q) - 1 /\ Len(q) \in Nat /\ Len(q) > 0 /\ Len(t) \in Nat
        /\ \A i \in 1..Len(t) : t[i] = q[i + 1] /\ i + 1 \in 1..Len(q)
        /\ h = q[1] /\ 1 \in 1..Len(q)
    BY RestAt
  <1>2. \A k \in 1..Len(q) : \A n : Preceded(q, id, k, n) /\ h.n # n => Preceded(t, id, k - 1, n)
    BY PrecededRest
  <1>3. ~Preceded(q, id, 0, put) /\ \A n : ~Preceded(q, id, 0, n)
    BY DEF Preceded
  <1>4. ASSUME IsData(h, id)
        PROVE  /\ h.n = base + 1 /\ base + 1 <= put
               /\ Gapless(t, id, base + 1) /\ FinLast(t, id, base + 1, put)
               /\ Reached(q, id, base, put) => Reached(t, id, base + 1, put)
    <2>1. h.n = base + 1 /\ base + 1 <= put
      <3>1. base < h.n /\ (h.n = base + 1 \/ Preceded(q, id, 1 - 1, h.n - 1))
        BY <1>1, <1>4 DEF Gapless
      <3>2. h.n \in 1..put
        BY <1>1, <1>4 DEF Covered
      <3> QED
        BY <1>3, <3>1, <3>2
    <2>2. ASSUME NEW j \in 1..Len(t), IsData(t[j], id)
          PROVE  base + 1 < t[j].n /\ (t[j].n = (base + 1) + 1 \/ Preceded(t, id, j - 1, t[j].n - 1))
      <3>1. t[j] = q[j + 1] /\ j + 1 \in 1..Len(q) /\ (j + 1) - 1 = j /\ j \in 1..Len(q) /\ 1 < j + 1
        BY <1>1
      <3>2. base < t[j].n /\ (t[j].n = base + 1 \/ Preceded(q, id, j, t[j].n - 1))
        BY <2>2, <3>1 DEF Gapless
      <3>3. h.n < t[j].n
        BY <1>1, <1>4, <2>2, <3>1 DEF InOrder, IsData, IsPart
      <3>4. t[j].n \in Nat
        BY <1>1 DEF Frames
      <3>5. Preceded(q, id, j, t[j].n - 1) => h.n = t[j].n - 1 \/ Preceded(t, id, j - 1, t[j].n - 1)
        BY <1>2, <3>1
      <3> QED
        BY <2>1, <3>2, <3>3, <3>4, <3>5
    <2>3. ASSUME NEW k \in 1..Len(q), put = base \/ Preceded(q, id, k, put)
          PROVE  put = base + 1 \/ Preceded(t, id, k - 1, put)
      BY <1>2, <2>1, <2>3
    <2>4. FinLast(t, id, base + 1, put)
      <3>1. SUFFICES ASSUME NEW j \in 1..Len(t), IsFin(t[j], id)
                     PROVE  put = base + 1 \/ Preceded(t, id, j - 1, put)
        BY DEF FinLast
      <3>2. t[j] = q[j + 1] /\ j + 1 \in 1..Len(q) /\ (j + 1) - 1 = j /\ j \in 1..Len(q)
        BY <1>1
      <3>3. put = base \/ Preceded(q, id, j, put)
        BY <3>1, <3>2 DEF FinLast
      <3> QED
        BY <2>3, <3>2, <3>3
    <2>5. Reached(q, id, base, put) => Reached(t, id, base + 1, put)
      <3>1. Len(q) \in 1..Len(q) /\ Len(q) - 1 = Len(t)
        BY <1>1
      <3> QED
        BY <2>3, <3>1 DEF Reached
    <2> QED
      BY <2>1, <2>2, <2>4, <2>5 DEF Gapless
  <1>5. ASSUME IsFin(h, id)
        PROVE  NoParts(t, id) /\ put = base
    <2>1. put = base
      <3>1. put = base \/ Preceded(q, id, 1 - 1, put)
        BY <1>1, <1>5 DEF FinLast
      <3> QED
        BY <1>3, <3>1
    <2>2. ASSUME NEW j \in 1..Len(t), IsPart(t[j], id)
          PROVE  FALSE
      <3>1. t[j] = q[j + 1] /\ j + 1 \in 1..Len(q) /\ 1 < j + 1
        BY <1>1
      <3> QED
        BY <1>1, <1>5, <2>2, <3>1 DEF InOrder, IsFin, IsPart
    <2> QED
      BY <2>1, <2>2 DEF NoParts
  <1> QED
    BY <1>4, <1>5

\* The sender's next part.
LEMMA MoreData ==
  ASSUME NEW q \in Seq(Frames), NEW a \in Seq(Frames), NEW id, NEW base \in Nat, NEW put \in Nat,
         NEW f, IsMore(a, q, f), f = DATA(id, put + 1), InOrder(q, id), Covered(q, id, put), ~HasFin(q, id)
  PROVE  /\ InOrder(a, id) /\ Covered(a, id, put + 1) /\ ~HasFin(a, id)
         /\ Gapless(q, id, base) /\ Reached(q, id, base, put) /\ base <= put =>
               Gapless(a, id, base) /\ Reached(a, id, base, put + 1)
  <1>1. IsPart(f, id) /\ IsData(f, id) /\ ~IsFin(f, id) /\ f.n = put + 1 /\ f.kind = "data"
    BY DEF DATA, Frame, IsPart, IsData, IsFin
  <1>2. /\ Len(a) = Len(q) + 1 /\ Len(q) \in Nat /\ Len(a) \in Nat
        /\ \A i \in 1..Len(q) : a[i] = q[i]
        /\ a[Len(q) + 1] = f
        /\ \A i \in 1..Len(a) : i \in 1..Len(q) \/ i = Len(q) + 1
    BY MoreAt
  <1>3. \A k \in 0..Len(q) : \A n : Preceded(a, id, k, n) <=> Preceded(q, id, k, n)
    BY PrecededMore
  <1>4. \A i \in 1..Len(q) : IsPart(q[i], id) => q[i].kind = "data" /\ q[i].n \in 1..put
    BY DEF HasFin, IsPart, IsData, IsFin, Covered
  <1>5. InOrder(a, id)
    BY <1>1, <1>2, <1>4 DEF InOrder
  <1>6. Covered(a, id, put + 1) /\ ~HasFin(a, id)
    BY <1>1, <1>2 DEF Covered, HasFin
  <1>7. ASSUME Gapless(q, id, base), Reached(q, id, base, put), base <= put
        PROVE  Gapless(a, id, base) /\ Reached(a, id, base, put + 1)
    <2>1. ASSUME NEW j \in 1..Len(a), IsData(a[j], id)
          PROVE  base < a[j].n /\ (a[j].n = base + 1 \/ Preceded(a, id, j - 1, a[j].n - 1))
      <3>1. CASE j \in 1..Len(q)
        BY <1>2, <1>3, <1>7, <2>1, <3>1 DEF Gapless
      <3>2. CASE j = Len(q) + 1
        <4>1. a[j].n = put + 1 /\ j - 1 = Len(q) /\ a[j].n - 1 = put
          BY <1>1, <1>2, <3>2
        <4> QED
          BY <1>2, <1>3, <1>7, <4>1 DEF Reached
      <3> QED
        BY <1>2, <3>1, <3>2
    <2>2. Preceded(a, id, Len(a), put + 1)
      BY <1>1, <1>2 DEF Preceded
    <2> QED
      BY <2>1, <2>2 DEF Gapless, Reached
  <1> QED
    BY <1>5, <1>6, <1>7

LEMMA MoreFin ==
  ASSUME NEW q \in Seq(Frames), NEW a \in Seq(Frames), NEW id, NEW base \in Nat, NEW put \in Nat,
         NEW f, IsMore(a, q, f), f = FIN(id), InOrder(q, id), Covered(q, id, put), ~HasFin(q, id)
  PROVE  /\ InOrder(a, id) /\ Covered(a, id, put)
         /\ Gapless(q, id, base) => Gapless(a, id, base)
         /\ Reached(q, id, base, put) => FinLast(a, id, base, put)
  <1>1. IsPart(f, id) /\ ~IsData(f, id) /\ IsFin(f, id) /\ f.kind = "fin"
    BY DEF FIN, Frame, IsPart, IsData, IsFin
  <1>2. /\ Len(a) = Len(q) + 1 /\ Len(q) \in Nat /\ Len(a) \in Nat
        /\ \A i \in 1..Len(q) : a[i] = q[i]
        /\ a[Len(q) + 1] = f
        /\ \A i \in 1..Len(a) : i \in 1..Len(q) \/ i = Len(q) + 1
    BY MoreAt
  <1>3. \A k \in 0..Len(q) : \A n : Preceded(a, id, k, n) <=> Preceded(q, id, k, n)
    BY PrecededMore
  <1>4. \A i \in 1..Len(q) : IsPart(q[i], id) => q[i].kind = "data" /\ ~IsFin(q[i], id)
    BY DEF HasFin, IsPart, IsFin
  <1>5. InOrder(a, id)
    BY <1>1, <1>2, <1>4 DEF InOrder
  <1>6. Covered(a, id, put)
    BY <1>1, <1>2 DEF Covered
  <1>7. ASSUME Gapless(q, id, base), NEW j \in 1..Len(a), IsData(a[j], id)
        PROVE  base < a[j].n /\ (a[j].n = base + 1 \/ Preceded(a, id, j - 1, a[j].n - 1))
    <2>1. j \in 1..Len(q) /\ j - 1 \in 0..Len(q) /\ a[j] = q[j]
      BY <1>1, <1>2, <1>7
    <2> QED
      BY <1>3, <1>7, <2>1 DEF Gapless
  <1>8. ASSUME Reached(q, id, base, put), NEW j \in 1..Len(a), IsFin(a[j], id)
        PROVE  put = base \/ Preceded(a, id, j - 1, put)
    <2>1. j = Len(q) + 1 /\ j - 1 = Len(q) /\ j - 1 \in 0..Len(q)
      BY <1>2, <1>4, <1>8 DEF IsFin, IsPart
    <2> QED
      BY <1>3, <1>8, <2>1 DEF Reached
  <1> QED
    BY <1>5, <1>6, <1>7, <1>8 DEF Gapless, FinLast

-----------------------------------------------------------------------------
(* One stream in one direction *)

LEMMA FieldsFact ==
  ASSUME MuxTypes, NEW e \in Ends, NEW id \in Ids
  PROVE  /\ task[e][id] \in StreamTasks /\ task[e][id].chan \in Seq(Frames)
         /\ task[e][id].st \in {"none", "dial", "run", "ending", "done", "gone"}
         /\ task[e][id].hold \in Frames \cup {Nothing}
         /\ task[e][id].rdone \in BOOLEAN /\ task[e][id].wdone \in BOOLEAN
         /\ app[e][id] \in Apps /\ app[e][id].sent \in Nat /\ app[e][id].got \in Seq(Nat)
         /\ app[e][id].eof \in BOOLEAN
         /\ queue[e] \in Seq(Frames) /\ Len(queue[e]) \in Nat
         /\ Have(e, id) \in Nat /\ Base(e, id) \in Nat /\ Have(e, id) <= Base(e, id)
         /\ Base(e, id) = Have(e, id) + Len(task[e][id].chan) /\ Len(task[e][id].chan) \in Nat
  <1>1. task[e][id] \in StreamTasks /\ app[e][id] \in Apps /\ queue[e] \in Seq(Frames)
    BY DEF MuxTypes
  <1>2. /\ task[e][id].chan \in Seq(Frames) /\ task[e][id].hold \in Frames \cup {Nothing}
        /\ task[e][id].st \in {"none", "dial", "run", "ending", "done", "gone"}
        /\ task[e][id].rdone \in BOOLEAN /\ task[e][id].wdone \in BOOLEAN
    BY <1>1 DEF StreamTasks
  <1>3. app[e][id].sent \in Nat /\ app[e][id].got \in Seq(Nat) /\ app[e][id].eof \in BOOLEAN
    BY <1>1 DEF Apps
  <1>4. /\ Len(queue[e]) \in Nat /\ Len(task[e][id].chan) \in Nat /\ Have(e, id) \in Nat
        /\ Base(e, id) = Have(e, id) + Len(task[e][id].chan)
    BY <1>1, <1>2, <1>3 DEF Have, Base
  <1>5. \A have, len, base : have \in Nat /\ len \in Nat /\ base = have + len => base \in Nat /\ have <= base
    OBVIOUS
  <1>6. Base(e, id) \in Nat /\ Have(e, id) <= Base(e, id)
    BY ONLY <1>4, <1>5
  <1> QED
    BY <1>1, <1>2, <1>3, <1>4, <1>6

LEMMA PutFact ==
  ASSUME MuxTypes, NEW e \in Ends, NEW id \in Ids, SenderInv(e, id)
  PROVE  Put(e, id) \in Nat
  BY FieldsFact DEF Put, SenderInv

LEMMA MoreCovered ==
  ASSUME NEW q, NEW id, NEW put \in Nat, Covered(q, id, put)
  PROVE  Covered(q, id, put + 1)
  BY DEF Covered

LEMMA NoFinLast ==
  ASSUME NEW q, NEW id, ~HasFin(q, id), NEW base, NEW put
  PROVE  FinLast(q, id, base, put)
  BY DEF FinLast, HasFin

\* Nothing is taken, nothing is put into the queue, and what comes is taken as before or
\* not at all.
LEMMA FlowQuiet ==
  ASSUME MuxTypes, MuxTypes', NEW e \in Ends, NEW id \in Ids, NEW o \in Ends, o = Other(e),
         SenderInv(o, id), FlowInv(e, id), ReceiverInv(e, id), SenderInv(o, id)',
         app'[e][id].got = app[e][id].got, app'[e][id].eof = app[e][id].eof,
         task'[e][id].chan = task[e][id].chan \/ (task'[e][id].chan = <<>> /\ ~Tracked(e, id)'),
         Keeps(queue[o], queue'[o], id),
         Tracked(e, id)' => Tracked(e, id) /\ Follows(queue[o], queue'[o], id),
         Put(o, id)' = Put(o, id) \/ (Put(o, id)' = Put(o, id) + 1 /\ Pending(o, id)),
         Pending(o, id)' => Pending(o, id),
         Tracked(e, id)' /\ Pending(o, id)' /\ ~broken' =>
             ~broken /\ Put(o, id)' = Put(o, id) /\ Reaches(queue[o], queue'[o], id)
  PROVE  FlowInv(e, id)' /\ ReceiverInv(e, id)'
  <1> DEFINE q == queue[o]
             r == queue'[o]
             c == task[e][id].chan
             d == task'[e][id].chan
             put == Put(o, id)
             base == Base(e, id)
  <1>1. /\ Put(o, id) \in Nat /\ Base(e, id) \in Nat /\ Have(e, id) \in Nat /\ Have(e, id) <= Base(e, id)
        /\ Base(e, id) = Have(e, id) + Len(c) /\ Len(c) \in Nat
    BY FieldsFact, PutFact
  <1>2. Have(e, id)' = Have(e, id) /\ (d = c => Base(e, id)' = Base(e, id)) /\ (d = <<>> => Base(e, id)' = Have(e, id))
    <2>1. Have(e, id)' = Have(e, id)
      BY DEF Have
    <2>2. d = c => Base(e, id)' = Base(e, id)
      BY <2>1 DEF Base
    <2>3. d = <<>> => Base(e, id)' = Have(e, id) + Len(<<>>)
      BY <2>1 DEF Base
    <2> QED
      BY <1>1, <2>1, <2>2, <2>3
  <1>3. /\ InOrder(q, id) /\ Covered(q, id, put) /\ (HasFin(q, id) => ~Pending(o, id))
        /\ Tracked(e, id) => Gapless(q, id, base) /\ FinLast(q, id, base, put)
        /\ Tracked(e, id) /\ Pending(o, id) /\ ~broken => Reached(q, id, base, put)
    BY DEF FlowInv
  <1>4. /\ InOrder(r, id) /\ Covered(r, id, put) /\ (HasFin(r, id) => HasFin(q, id))
        /\ NoParts(q, id) => NoParts(r, id)
    BY <1>1, <1>3 DEF Keeps
  <1>5. Put(o, id)' # put => Put(o, id)' = put + 1 /\ ~HasFin(q, id) /\ ~HasFin(r, id)
    BY <1>3, <1>4
  <1>6. Covered(r, id, Put(o, id)')
    BY <1>1, <1>4, <1>5, MoreCovered
  <1>7. Tracked(e, id)' => Gapless(r, id, base) /\ FinLast(r, id, base, put) /\ d = c
    BY <1>1, <1>3 DEF Follows
  <1>8. Tracked(e, id)' => FinLast(r, id, base, Put(o, id)')
    BY <1>5, <1>7, NoFinLast
  <1>9. Tracked(e, id)' /\ Pending(o, id)' /\ ~broken' => Reached(r, id, base, Put(o, id)')
    BY <1>1, <1>3 DEF Reaches
  <1>10. FlowInv(e, id)'
    <2>1. /\ InOrder(r, id) /\ Covered(r, id, Put(o, id)') /\ (HasFin(r, id) => ~Pending(o, id)')
          /\ Tracked(e, id)' => Gapless(r, id, Base(e, id)') /\ FinLast(r, id, Base(e, id)', Put(o, id)')
          /\ Tracked(e, id)' /\ Pending(o, id)' /\ ~broken' => Reached(r, id, Base(e, id)', Put(o, id)')
      BY <1>2, <1>3, <1>4, <1>6, <1>7, <1>8, <1>9
    <2> QED
      BY <2>1 DEF FlowInv
  <1>11. ReceiverInv(e, id)'
    <2>1. /\ Chain(c, id, Have(e, id))
          /\ IF LastIsFin(c) THEN ~Pending(o, id) /\ Base(e, id) = put + 1 ELSE Base(e, id) <= put
          /\ app[e][id].eof => c = <<>> /\ ~Pending(o, id) /\ Have(e, id) = put
          /\ app[e][id].eof \/ LastIsFin(c) => NoParts(q, id)
          /\ \A k \in 1..Have(e, id) : app[e][id].got[k] = k
      BY DEF ReceiverInv
    <2>2. Chain(d, id, Have(e, id)')
      BY <1>2, <2>1 DEF Chain
    <2>3. IF LastIsFin(d) THEN ~Pending(o, id)' /\ Base(e, id)' = Put(o, id)' + 1 ELSE Base(e, id)' <= Put(o, id)'
      <3>1. CASE d = c
        BY <1>1, <1>2, <2>1, <3>1
      <3>2. CASE d = <<>> /\ d # c
        <4>1. Len(c) > 0 /\ ~LastIsFin(d)
          BY <1>1, <3>2, FieldsFact DEF LastIsFin
        <4>2. Have(e, id) <= put
          BY <1>1, <2>1, <4>1
        <4> QED
          BY <1>1, <1>2, <3>2, <4>1, <4>2
      <3> QED
        BY <3>1, <3>2
    <2>4. /\ app'[e][id].eof => d = <<>> /\ ~Pending(o, id)' /\ Have(e, id)' = Put(o, id)'
          /\ app'[e][id].eof \/ LastIsFin(d) => NoParts(r, id)
          /\ \A k \in 1..Have(e, id)' : app'[e][id].got[k] = k
      <3>1. d = c \/ (d = <<>> /\ ~LastIsFin(d))
        BY DEF LastIsFin
      <3> QED
        BY <1>2, <1>4, <2>1, <3>1
    <2> QED
      BY <2>2, <2>3, <2>4 DEF ReceiverInv
  <1> QED
    BY <1>10, <1>11

\* A stream is opened.
LEMMA FlowStarts ==
  ASSUME MuxTypes', NEW e \in Ends, NEW id \in Ids, NEW o \in Ends, o = Other(e),
         NoParts(queue'[o], id), app'[e][id] = Silent, task'[e][id].chan = <<>>, Put(o, id)' = 0
  PROVE  FlowInv(e, id)' /\ ReceiverInv(e, id)'
  <1>1. queue'[o] \in Seq(Frames)
    BY DEF MuxTypes
  <1>2. Have(e, id)' = 0 /\ Base(e, id)' = 0 /\ ~LastIsFin(task'[e][id].chan) /\ ~app'[e][id].eof
    BY DEF Have, Base, Silent, LastIsFin
  <1>3. FlowInv(e, id)'
    <2>1. /\ InOrder(queue'[o], id) /\ Covered(queue'[o], id, 0) /\ ~HasFin(queue'[o], id)
          /\ Gapless(queue'[o], id, 0) /\ FinLast(queue'[o], id, 0, 0)
      BY <1>1, NoPartsFact
    <2>2. Reached(queue'[o], id, 0, 0)
      BY DEF Reached
    <2> QED
      BY <1>2, <2>1, <2>2 DEF FlowInv
  <1>4. ReceiverInv(e, id)'
    BY <1>2 DEF ReceiverInv, Chain
  <1> QED
    BY <1>3, <1>4

LEMMA OpenIsNoPart ==
  ASSUME NEW f, NEW id, f.kind \notin {"data", "fin"}
  PROVE  ~IsPart(f, id) /\ ~IsData(f, id) /\ ~IsFin(f, id)
  BY DEF IsPart, IsData, IsFin

\* The sender puts its next part into the queue.
LEMMA FlowPut ==
  ASSUME MuxTypes, MuxTypes', NEW e \in Ends, NEW id \in Ids, NEW o \in Ends, o = Other(e),
         SenderInv(o, id), FlowInv(e, id), ReceiverInv(e, id),
         NEW h, h = task[o][id].hold, h # Nothing, task[o][id].st = "run",
         NEW q \in Seq(Frames), q = queue[o], NEW r \in Seq(Frames), r = queue'[o], IsMore(r, q, h),
         task'[o][id].hold = Nothing, task'[o][id].st = "run", task'[o][id].rdone = task[o][id].rdone,
         task'[e][id] = task[e][id],
         app'[e][id] = app[e][id], app'[o][id] = app[o][id], Tracked(e, id)' => Tracked(e, id), ~broken
  PROVE  SenderInv(o, id)' /\ FlowInv(e, id)' /\ ReceiverInv(e, id)'
  <1>1. PICK put \in Nat, base \in Nat, have \in Nat, sent \in Nat, c \in Seq(Frames) :
          /\ put = Put(o, id) /\ base = Base(e, id) /\ have = Have(e, id)
          /\ sent = app[o][id].sent /\ c = task[e][id].chan
    BY FieldsFact, PutFact
  <1>2. Have(e, id)' = have /\ Base(e, id)' = base
    BY <1>1 DEF Have, Base
  <1>3. Nothing # DATA(id, sent) /\ Nothing # FIN(id)
    BY FrameFact
  <1>4. Pending(o, id) /\ Put(o, id)' = sent
    BY <1>1, <1>3 DEF Pending, Put
  <1>5. SenderInv(o, id)'
    BY <1>1, <1>3 DEF SenderInv
  <1>6. InOrder(q, id) /\ Covered(q, id, put) /\ ~HasFin(q, id)
    BY <1>1, <1>4 DEF FlowInv
  <1>7. Tracked(e, id) => Gapless(q, id, base) /\ Reached(q, id, base, put)
    BY <1>1, <1>4 DEF FlowInv
  <1>8. /\ Chain(c, id, have) /\ ~LastIsFin(c) /\ base <= put /\ ~app[e][id].eof
        /\ \A k \in 1..have : app[e][id].got[k] = k
    BY <1>1, <1>4 DEF ReceiverInv
  <1>9. CASE h = DATA(id, sent)
    <2>1. put + 1 = sent
      BY <1>1, <1>9 DEF Put, SenderInv
    <2>2. /\ InOrder(r, id) /\ Covered(r, id, put + 1) /\ ~HasFin(r, id)
          /\ Gapless(q, id, base) /\ Reached(q, id, base, put) /\ base <= put =>
                Gapless(r, id, base) /\ Reached(r, id, base, put + 1)
      BY <1>6, <1>9, <2>1, MoreData
    <2>3. FlowInv(e, id)'
      <3>1. FinLast(r, id, base, sent)
        BY <2>2, NoFinLast
      <3> QED
        BY <1>2, <1>4, <1>7, <1>8, <2>1, <2>2, <3>1 DEF FlowInv
    <2>4. ReceiverInv(e, id)'
      <3>1. base <= sent
        BY <1>1, <1>8, <2>1
      <3> QED
        BY <1>1, <1>2, <1>4, <1>8, <3>1 DEF ReceiverInv
    <2> QED
      BY <1>5, <2>3, <2>4
  <1>10. CASE h = FIN(id)
    <2>1. put = sent /\ task[o][id].rdone
      BY <1>1, <1>10 DEF Put, SenderInv, DATA, FIN, Frame
    <2>2. ~Pending(o, id)'
      BY <2>1 DEF Pending
    <2>3. /\ InOrder(r, id) /\ Covered(r, id, put)
          /\ Gapless(q, id, base) => Gapless(r, id, base)
          /\ Reached(q, id, base, put) => FinLast(r, id, base, put)
      BY <1>6, <1>10, MoreFin
    <2>4. FlowInv(e, id)'
      BY <1>2, <1>4, <1>7, <2>1, <2>2, <2>3 DEF FlowInv
    <2>5. ReceiverInv(e, id)'
      BY <1>1, <1>2, <1>4, <1>8, <2>1 DEF ReceiverInv
    <2> QED
      BY <1>5, <2>4, <2>5
  <1> QED
    BY <1>1, <1>9, <1>10 DEF SenderInv

\* A channel that gets one more part.
LEMMA ChainGrows ==
  ASSUME NEW c \in Seq(Frames), NEW d \in Seq(Frames), NEW f, IsMore(d, c, f),
         NEW id, NEW have \in Nat, Chain(c, id, have), ~LastIsFin(c),
         IsPart(f, id), NEW base, base = have + Len(c), f.kind = "data" => f.n = base + 1
  PROVE  Len(d) = Len(c) + 1 /\ d # <<>> /\ Chain(d, id, have) /\ (LastIsFin(d) <=> f.kind = "fin")
  <1>1. /\ Len(d) = Len(c) + 1 /\ Len(c) \in Nat /\ \A i \in 1..Len(c) : d[i] = c[i]
        /\ d[Len(c) + 1] = f /\ \A i \in 1..Len(d) : i \in 1..Len(c) \/ i = Len(c) + 1
        /\ d # <<>> /\ Len(c) + 1 = Len(d)
    BY MoreAt
  <1>2. ASSUME NEW i \in 1..Len(c)
        PROVE  /\ IsPart(c[i], id) /\ (c[i].kind = "data" => c[i].n = have + i) /\ c[i].kind # "fin"
               /\ d[i] = c[i]
    <2>1. c # <<>>
      BY <1>1
    <2> QED
      BY <1>1, <2>1 DEF Chain, LastIsFin
  <1>3. Chain(d, id, have)
    <2>1. SUFFICES ASSUME NEW i \in 1..Len(d)
                   PROVE  /\ IsPart(d[i], id) /\ (d[i].kind = "data" => d[i].n = have + i)
                          /\ d[i].kind = "fin" => i = Len(d)
      BY DEF Chain
    <2>2. CASE i \in 1..Len(c)
      BY <1>2, <2>2
    <2>3. CASE i = Len(c) + 1
      BY <1>1, <2>3
    <2> QED
      BY <1>1, <2>2, <2>3
  <1>4. LastIsFin(d) <=> f.kind = "fin"
    BY <1>1 DEF LastIsFin
  <1> QED
    BY <1>1, <1>3, <1>4

\* A part is put into the stream's channel.
LEMMA FlowTakes ==
  ASSUME MuxTypes, MuxTypes', NEW e \in Ends, NEW id \in Ids, NEW o \in Ends, o = Other(e),
         SenderInv(o, id), FlowInv(e, id), ReceiverInv(e, id), Tracked(e, id),
         NEW q \in Seq(Frames), q = queue[o], NEW r \in Seq(Frames), r = queue'[o], IsRest(r, q),
         NEW f, f = q[1], IsPart(f, id),
         NEW c \in Seq(Frames), c = task[e][id].chan, NEW d \in Seq(Frames), d = task'[e][id].chan,
         IsMore(d, c, f),
         app'[e][id] = app[e][id], app'[o][id] = app[o][id], task'[o][id] = task[o][id], broken' = broken
  PROVE  FlowInv(e, id)' /\ ReceiverInv(e, id)'
  <1>1. PICK put \in Nat, base \in Nat, have \in Nat :
          /\ put = Put(o, id) /\ base = Base(e, id) /\ have = Have(e, id)
          /\ base = have + Len(c) /\ Len(c) \in Nat
    BY FieldsFact, PutFact
  <1>2. Have(e, id)' = have /\ Put(o, id)' = put /\ (Pending(o, id)' <=> Pending(o, id))
    BY <1>1 DEF Have, Put, Pending
  <1>3. /\ InOrder(q, id) /\ Covered(q, id, put) /\ (HasFin(q, id) => ~Pending(o, id))
        /\ Gapless(q, id, base) /\ FinLast(q, id, base, put)
        /\ Pending(o, id) /\ ~broken => Reached(q, id, base, put)
    BY <1>1 DEF FlowInv
  <1>4. InOrder(r, id) /\ Covered(r, id, put) /\ (HasFin(r, id) => ~Pending(o, id))
    BY <1>1, <1>3, RestKeeps DEF Keeps
  <1>5. ~NoParts(q, id) /\ (IsFin(f, id) => HasFin(q, id))
    BY RestAt DEF NoParts, HasFin
  <1>6. /\ Chain(c, id, have) /\ ~LastIsFin(c) /\ base <= put /\ ~app[e][id].eof
        /\ \A k \in 1..have : app[e][id].got[k] = k
    BY <1>1, <1>5 DEF ReceiverInv
  <1>7. IsData(f, id) =>
            /\ f.n = base + 1 /\ base + 1 <= put
            /\ Gapless(r, id, base + 1) /\ FinLast(r, id, base + 1, put)
            /\ Reached(q, id, base, put) => Reached(r, id, base + 1, put)
    BY <1>3, RestTakes
  <1>8. IsFin(f, id) => /\ NoParts(r, id) /\ put = base
                        /\ Gapless(r, id, base + 1) /\ FinLast(r, id, base + 1, put)
    <2>1. IsFin(f, id) => NoParts(r, id) /\ put = base
      BY <1>3, RestTakes
    <2> QED
      BY <2>1, NoPartsFact
  <1>9. IsData(f, id) \/ (IsFin(f, id) /\ f.kind = "fin")
    BY DEF IsPart, IsData, IsFin
  <1>10. Len(d) = Len(c) + 1 /\ d # <<>> /\ Chain(d, id, have) /\ (LastIsFin(d) <=> f.kind = "fin")
    <2>1. f.kind = "data" => f.n = base + 1
      BY <1>7 DEF IsPart, IsData
    <2>2. base = have + Len(c)
      BY <1>1
    <2>3. Chain(c, id, have) /\ ~LastIsFin(c)
      BY <1>6
    <2>4. c \in Seq(Frames) /\ d \in Seq(Frames) /\ have \in Nat /\ IsMore(d, c, f) /\ IsPart(f, id)
      OBVIOUS
    <2> QED
      BY ONLY <2>1, <2>2, <2>3, <2>4, ChainGrows
  <1>11. Base(e, id)' = base + 1
    <2>1. Base(e, id)' = have + Len(d)
      BY <1>2 DEF Base
    <2>2. have + Len(d) = (have + Len(c)) + 1
      BY ONLY <1>1, <1>10
    <2> QED
      BY <1>1, <2>1, <2>2
  <1>12. FlowInv(e, id)'
    <2>1. Gapless(r, id, base + 1) /\ FinLast(r, id, base + 1, put)
      BY <1>7, <1>8, <1>9
    <2>2. Pending(o, id) /\ ~broken => Reached(r, id, base + 1, put)
      BY <1>3, <1>5, <1>7, <1>9
    <2> QED
      BY <1>2, <1>4, <1>11, <2>1, <2>2 DEF FlowInv
  <1>13. ReceiverInv(e, id)'
    <2>1. IF LastIsFin(d) THEN ~Pending(o, id)' /\ Base(e, id)' = Put(o, id)' + 1
                          ELSE Base(e, id)' <= Put(o, id)'
      BY <1>2, <1>3, <1>5, <1>7, <1>8, <1>9, <1>10, <1>11 DEF IsData
    <2>2. ~app'[e][id].eof /\ (LastIsFin(d) => NoParts(r, id))
      BY <1>6, <1>8, <1>9, <1>10 DEF IsData
    <2>3. Chain(d, id, Have(e, id)') /\ \A k \in 1..Have(e, id)' : app'[e][id].got[k] = k
      BY <1>2, <1>6, <1>10
    <2> QED
      BY <2>1, <2>2, <2>3 DEF ReceiverInv
  <1> QED
    BY <1>12, <1>13

\* What is first in a channel, and what is left behind it.
LEMMA ChannelRest ==
  ASSUME NEW c \in Seq(Frames), NEW d \in Seq(Frames), IsRest(d, c), NEW id, NEW have \in Nat,
         Chain(c, id, have)
  PROVE  /\ c[1].kind = "data" =>
               /\ c[1].n = have + 1 /\ (LastIsFin(d) <=> LastIsFin(c))
               /\ Chain(d, id, have + 1)
         /\ c[1].kind = "fin" => Len(c) = 1 /\ LastIsFin(c) /\ d = <<>> /\ ~LastIsFin(d)
  <1>1. Len(c) \in Nat /\ Len(d) \in Nat /\ 1 \in 1..Len(c) /\ c # <<>> /\ (d = <<>> <=> Len(d) = 0)
        /\ Len(d) = Len(c) - 1 /\ \A i \in 1..Len(d) : d[i] = c[i + 1] /\ i + 1 \in 1..Len(c)
    BY DEF IsRest
  <1>2. Chain(d, id, have + 1)
    <2>1. SUFFICES ASSUME NEW i \in 1..Len(d)
                   PROVE  /\ IsPart(d[i], id) /\ (d[i].kind = "data" => d[i].n = (have + 1) + i)
                          /\ d[i].kind = "fin" => i = Len(d)
      BY DEF Chain
    <2>2. d[i] = c[i + 1] /\ i + 1 \in 1..Len(c) /\ have + (i + 1) = (have + 1) + i /\ (i + 1 = Len(c) => i = Len(d))
      BY <1>1
    <2> QED
      BY <2>2 DEF Chain
  <1>3. ASSUME c[1].kind = "data"
        PROVE  c[1].n = have + 1 /\ (LastIsFin(d) <=> LastIsFin(c))
    <2>0. c[1].n = have + 1
      BY <1>1, <1>3 DEF Chain
    <2>1. CASE Len(c) = 1
      BY <1>1, <1>3, <2>0, <2>1 DEF LastIsFin
    <2>2. CASE Len(c) # 1
      <3>1. Len(d) \in 1..Len(d) /\ Len(d) + 1 = Len(c)
        BY <1>1, <2>2
      <3>2. d[Len(d)] = c[Len(c)] /\ d # <<>>
        BY <1>1, <3>1
      <3> QED
        BY <1>1, <1>3, <2>0, <3>2 DEF LastIsFin
    <2> QED
      BY <2>0, <2>1, <2>2
  <1>4. ASSUME c[1].kind = "fin"
        PROVE  Len(c) = 1 /\ LastIsFin(c) /\ d = <<>> /\ ~LastIsFin(d)
    <2>1. Len(c) = 1 /\ d = <<>>
      BY <1>1, <1>4 DEF Chain
    <2> QED
      BY <1>1, <1>4, <2>1 DEF LastIsFin
  <1> QED
    BY <1>2, <1>3, <1>4

\* The receiver's pump writes what is first in the channel: a chunk, or the end.
LEMMA FlowWrites ==
  ASSUME MuxTypes, MuxTypes', NEW e \in Ends, NEW id \in Ids, NEW o \in Ends, o = Other(e),
         SenderInv(o, id), FlowInv(e, id), ReceiverInv(e, id),
         NEW c \in Seq(Frames), c = task[e][id].chan, NEW d \in Seq(Frames), d = task'[e][id].chan,
         IsRest(d, c),
         NEW f, f = c[1], f.kind = "data",
         NEW got, got = app[e][id].got, NEW more, more = app'[e][id].got,
         IsMore(more, got, f.n),
         app'[e][id].eof = app[e][id].eof,
         queue'[o] = queue[o], Tracked(e, id)' => Tracked(e, id),
         app'[o][id] = app[o][id], task'[o][id] = task[o][id], broken' = broken
  PROVE  FlowInv(e, id)' /\ ReceiverInv(e, id)'
  <1>1. PICK put \in Nat, base \in Nat, have \in Nat :
          /\ put = Put(o, id) /\ base = Base(e, id) /\ have = Have(e, id)
          /\ base = have + Len(c) /\ got \in Seq(Nat) /\ Len(got) = have
    BY FieldsFact, PutFact DEF Have
  <1>2. Put(o, id)' = put /\ (Pending(o, id)' <=> Pending(o, id))
    BY <1>1 DEF Put, Pending
  <1>3. /\ InOrder(queue[o], id) /\ Covered(queue[o], id, put) /\ (HasFin(queue[o], id) => ~Pending(o, id))
        /\ Tracked(e, id) => Gapless(queue[o], id, base) /\ FinLast(queue[o], id, base, put)
        /\ Tracked(e, id) /\ Pending(o, id) /\ ~broken => Reached(queue[o], id, base, put)
    BY <1>1 DEF FlowInv
  <1>4. /\ Chain(c, id, have)
        /\ IF LastIsFin(c) THEN ~Pending(o, id) /\ base = put + 1 ELSE base <= put
        /\ ~app[e][id].eof /\ (LastIsFin(c) => NoParts(queue[o], id))
        /\ \A k \in 1..have : got[k] = k
    <2>1. c # <<>>
      BY DEF IsRest
    <2> QED
      BY <1>1, <2>1 DEF ReceiverInv
  <1>5. /\ Len(d) = Len(c) - 1 /\ Len(c) \in Nat /\ f.n = have + 1 /\ (LastIsFin(d) <=> LastIsFin(c))
        /\ Chain(d, id, have + 1)
    <2>1. Chain(c, id, have)
      BY <1>4
    <2>2. Len(d) = Len(c) - 1 /\ Len(c) \in Nat
      BY DEF IsRest
    <2>3. f.n = have + 1 /\ (LastIsFin(d) <=> LastIsFin(c)) /\ Chain(d, id, have + 1)
      BY <2>1, ChannelRest
    <2> QED
      BY <2>2, <2>3
  <1>6. Len(more) = have + 1 /\ \A k \in 1..(have + 1) : more[k] = k
    <2>1. Len(more) = Len(got) + 1 /\ (\A k \in 1..Len(got) : more[k] = got[k]) /\ more[Len(got) + 1] = f.n
      BY DEF IsMore
    <2>4. Len(more) = have + 1
      BY <1>1, <2>1
    <2>2. ASSUME NEW k \in 1..(have + 1)
          PROVE  more[k] = k
      <3>1. k \in 1..have \/ k = have + 1
        OBVIOUS
      <3>2. k = have + 1 => more[k] = k
        BY <1>1, <1>5, <2>1
      <3>3. k \in 1..have => more[k] = k
        BY <1>1, <1>4, <2>1
      <3> QED
        BY <3>1, <3>2, <3>3
    <2> QED
      BY <2>2, <2>4
  <1>7. Have(e, id)' = have + 1
    BY <1>6 DEF Have
  <1>8. Base(e, id)' = base
    <2>1. Base(e, id)' = (have + 1) + Len(d)
      BY <1>7 DEF Base
    <2>2. (have + 1) + Len(d) = have + Len(c)
      BY ONLY <1>1, <1>5
    <2> QED
      BY <1>1, <2>1, <2>2
  <1>9. FlowInv(e, id)'
    BY <1>2, <1>3, <1>8 DEF FlowInv
  <1>10. ReceiverInv(e, id)'
    <2>1. /\ Chain(d, id, Have(e, id)')
          /\ \A k \in 1..Have(e, id)' : more[k] = k
      BY <1>5, <1>6, <1>7
    <2>2. /\ IF LastIsFin(d) THEN ~Pending(o, id)' /\ Base(e, id)' = Put(o, id)' + 1
                             ELSE Base(e, id)' <= Put(o, id)'
          /\ ~app'[e][id].eof /\ (LastIsFin(d) => NoParts(queue'[o], id))
      BY <1>2, <1>4, <1>5, <1>8
    <2> QED
      BY <2>1, <2>2 DEF ReceiverInv
  <1> QED
    BY <1>9, <1>10

LEMMA FlowEnds ==
  ASSUME MuxTypes, MuxTypes', NEW e \in Ends, NEW id \in Ids, NEW o \in Ends, o = Other(e),
         SenderInv(o, id), FlowInv(e, id), ReceiverInv(e, id),
         NEW c \in Seq(Frames), c = task[e][id].chan, NEW d \in Seq(Frames), d = task'[e][id].chan,
         IsRest(d, c),
         c[1].kind = "fin", NEW got, got = app[e][id].got, app'[e][id].got = got, app'[e][id].eof,
         queue'[o] = queue[o], Tracked(e, id)' => Tracked(e, id),
         app'[o][id] = app[o][id], task'[o][id] = task[o][id], broken' = broken
  PROVE  FlowInv(e, id)' /\ ReceiverInv(e, id)'
  <1>1. PICK put \in Nat, base \in Nat, have \in Nat :
          /\ put = Put(o, id) /\ base = Base(e, id) /\ have = Have(e, id)
          /\ base = have + Len(c) /\ Len(got) = have /\ queue[o] \in Seq(Frames)
    BY FieldsFact, PutFact DEF Have
  <1>2. Put(o, id)' = put /\ (Pending(o, id)' <=> Pending(o, id))
    BY <1>1 DEF Put, Pending
  <1>3. InOrder(queue[o], id) /\ Covered(queue[o], id, put) /\ (HasFin(queue[o], id) => ~Pending(o, id))
    BY <1>1 DEF FlowInv
  <1>4. /\ Chain(c, id, have)
        /\ LastIsFin(c) => ~Pending(o, id) /\ base = put + 1 /\ NoParts(queue[o], id)
        /\ \A k \in 1..have : got[k] = k
    BY <1>1 DEF ReceiverInv
  <1>5. Len(c) = 1 /\ LastIsFin(c) /\ d = <<>> /\ ~LastIsFin(d)
    BY <1>1, <1>4, ChannelRest
  <1>6. ~Pending(o, id) /\ NoParts(queue[o], id) /\ have = put
    BY <1>1, <1>4, <1>5
  <1>7. Have(e, id)' = have
    BY <1>1 DEF Have
  <1>8. Base(e, id)' = have
    <2>1. Base(e, id)' = have + Len(d)
      BY <1>7 DEF Base
    <2>2. Len(d) = 0
      BY ONLY <1>5
    <2> QED
      BY ONLY <1>1, <2>1, <2>2
  <1>9. FlowInv(e, id)'
    <2>1. Gapless(queue[o], id, have) /\ FinLast(queue[o], id, have, put)
      BY <1>1, <1>6, NoPartsFact
    <2> QED
      BY <1>2, <1>3, <1>6, <1>8, <2>1 DEF FlowInv
  <1>10. ReceiverInv(e, id)'
    <2>1. Chain(d, id, have)
      BY <1>5 DEF Chain
    <2>2. /\ Base(e, id)' <= Put(o, id)' /\ ~Pending(o, id)' /\ Have(e, id)' = Put(o, id)'
          /\ \A k \in 1..Have(e, id)' : app'[e][id].got[k] = k
      BY <1>2, <1>4, <1>6, <1>7, <1>8
    <2> QED
      BY <1>5, <1>6, <1>7, <2>1, <2>2 DEF ReceiverInv
  <1> QED
    BY <1>9, <1>10

-----------------------------------------------------------------------------
(* Steps of tasks *)

\* The task of stream i at end x becomes t, its application a, and the queue r.
Moves(x, i, t, a, r) ==
    /\ task' = [task EXCEPT ![x][i] = t] /\ app' = [app EXCEPT ![x][i] = a]
    /\ queue' = [queue EXCEPT ![x] = r]
    /\ streams' = streams \/ streams' = [streams EXCEPT ![x] = @ \ {i}]
    /\ UNCHANGED <<session, broken, loop, udp, counter, flows, events>>
    /\ task[x][i].st \in {"dial", "run", "ending", "done"}
    /\ t \in StreamTasks /\ a \in Apps /\ r \in Seq(Frames)
    /\ Len(r) <= QueueCap /\ Len(t.chan) <= ChanCap
    /\ t.st \in {"run", "ending", "done"} \/ (t = Gone /\ i \notin streams'[x])
    /\ t.st = "done" => Still(t)
    /\ t.hold # Nothing => t.st = "run" /\ t.hold.id = i /\ t.hold.kind \in {"data", "fin"}
    /\ r # queue[x] => /\ ~broken /\ session[Other(x)]
                       /\ \E f \in Frames : f.id = i /\ f.kind # "open" /\ IsMore(r, queue[x], f)

LEMMA UnopenedFact ==
  Unopened \in StreamTasks /\ Still(Unopened) /\ Unopened.st = "none" /\ Unopened.chan = <<>> /\ Unopened.hold = Nothing
  BY DEF Unopened, StreamTasks, Still

LEMMA GoneFact == Gone \in StreamTasks /\ Still(Gone) /\ Gone.st = "gone" /\ Gone.chan = <<>> /\ Gone.hold = Nothing
  <1>1. ASSUME NEW u \in StreamTasks, NEW w, w = [u EXCEPT !.st = "gone"]
        PROVE  /\ w \in StreamTasks /\ w.st = "gone" /\ w.chan = u.chan /\ w.hold = u.hold
               /\ w.rdone = u.rdone /\ w.wdone = u.wdone
    BY <1>1 DEF StreamTasks
  <1>2. Gone = [Unopened EXCEPT !.st = "gone"]
    BY DEF Gone
  <1>3. Unopened \in StreamTasks /\ Still(Unopened)
    BY UnopenedFact
  <1> QED
    BY <1>1, <1>2, <1>3 DEF Still

LEMMA MovesFact ==
  ASSUME MuxTypes, NEW x \in Ends, NEW i \in Ids, NEW t, NEW a, NEW r, Moves(x, i, t, a, r)
  PROVE  /\ MuxTypes'
         /\ task'[x][i] = t /\ app'[x][i] = a /\ queue'[x] = r /\ queue'[Other(x)] = queue[Other(x)]
         /\ \A e \in Ends, id \in Ids : e # x \/ id # i => task'[e][id] = task[e][id] /\ app'[e][id] = app[e][id]
         /\ \A e \in Ends : streams'[e] \subseteq streams[e] /\ (e # x => streams'[e] = streams[e])
         /\ \A e \in Ends, id \in Ids : id # i => (id \in streams'[e] <=> id \in streams[e])
  <1>1. /\ queue \in [Ends -> Seq(Frames)] /\ streams \in [Ends -> SUBSET Ids]
        /\ task \in [Ends -> [Ids -> StreamTasks]] /\ app \in [Ends -> [Ids -> Apps]]
    BY DEF MuxTypes
  <1>2. /\ task' = [task EXCEPT ![x][i] = t] /\ t \in StreamTasks
        /\ app' = [app EXCEPT ![x][i] = a] /\ a \in Apps
        /\ queue' = [queue EXCEPT ![x] = r] /\ r \in Seq(Frames)
        /\ streams' = streams \/ streams' = [streams EXCEPT ![x] = @ \ {i}]
    BY DEF Moves
  <1>3. task' \in [Ends -> [Ids -> StreamTasks]] /\ app' \in [Ends -> [Ids -> Apps]]
    BY <1>1, <1>2
  <1>4. queue' \in [Ends -> Seq(Frames)] /\ streams' \in [Ends -> SUBSET Ids]
    BY <1>1, <1>2
  <1>5. MuxTypes'
    BY <1>3, <1>4 DEF MuxTypes, Moves
  <1>6. /\ task'[x][i] = t /\ app'[x][i] = a
        /\ \A e \in Ends, id \in Ids : e # x \/ id # i => task'[e][id] = task[e][id] /\ app'[e][id] = app[e][id]
    BY <1>1, <1>2
  <1>7. queue'[x] = r /\ queue'[Other(x)] = queue[Other(x)]
    BY <1>1, <1>2, OtherFact
  <1>8. /\ \A e \in Ends : streams'[e] \subseteq streams[e] /\ (e # x => streams'[e] = streams[e])
        /\ \A e \in Ends, id \in Ids : id # i => (id \in streams'[e] <=> id \in streams[e])
    BY <1>1, <1>2
  <1> QED
    BY <1>5, <1>6, <1>7, <1>8

\* A frame that is no OPEN leaves the opened streams as they are.
LEMMA OpenedMore ==
  ASSUME NEW q \in Seq(Frames), q = queue["guest"], NEW r \in Seq(Frames), r = queue'["guest"],
         NEW f, IsMore(r, q, f), f.kind # "open", NEW id
  PROVE  Opened(id)' <=> Opened(id)
  <1>1. \A i \in 1..Len(r) : r[i] = OPEN(id) => i \in 1..Len(q) /\ q[i] = OPEN(id)
    BY MoreAt DEF OPEN, Frame
  <1>2. \A i \in 1..Len(q) : q[i] = OPEN(id) => i \in 1..Len(r) /\ r[i] = OPEN(id)
    BY MoreAt
  <1> QED
    BY <1>1, <1>2 DEF Opened

LEMMA MovesOpened ==
  ASSUME MuxTypes, NEW x \in Ends, NEW i \in Ids, NEW t, NEW a, NEW r, Moves(x, i, t, a, r), NEW id
  PROVE  Opened(id)' <=> Opened(id)
  <1>1. queue["guest"] \in Seq(Frames) /\ queue'["guest"] \in Seq(Frames)
    BY MovesFact DEF MuxTypes, Ends
  <1>2. CASE queue'["guest"] = queue["guest"]
    BY <1>2 DEF Opened
  <1>3. CASE queue'["guest"] # queue["guest"]
    <2>1. x = "guest" /\ r = queue'["guest"]
      BY <1>3, MovesFact DEF Ends, Other
    <2>2. PICK f \in Frames : f.kind # "open" /\ IsMore(r, queue["guest"], f)
      BY <1>3, <2>1 DEF Moves
    <2> QED
      BY <1>1, <2>1, <2>2, OpenedMore
  <1> QED
    BY <1>2, <1>3

\* What a task puts into the queue is no part of another stream.
LEMMA MovesKeeps ==
  ASSUME MuxTypes, NEW x \in Ends, NEW i \in Ids, NEW t, NEW a, NEW r, Moves(x, i, t, a, r), NEW e \in Ends, NEW id \in Ids,
         id # i \/ e # x \/ r = queue[x]
  PROVE  Keeps(queue[e], queue'[e], id) /\ Follows(queue[e], queue'[e], id) /\ Reaches(queue[e], queue'[e], id)
  <1>1. CASE queue'[e] = queue[e]
    BY <1>1, SameKeeps
  <1>2. CASE queue'[e] # queue[e]
    <2>1. e = x /\ queue'[x] = r /\ r # queue[x] /\ id # i
      BY <1>2, MovesFact DEF Ends, Other
    <2>2. PICK f \in Frames : f.id = i /\ IsMore(r, queue[x], f)
      BY <2>1 DEF Moves
    <2>3. ~IsPart(f, id) /\ queue[x] \in Seq(Frames) /\ r \in Seq(Frames)
      BY <2>1, <2>2 DEF IsPart, MuxTypes, Moves
    <2> QED
      BY <2>1, <2>2, <2>3, MoreKeeps
  <1> QED
    BY <1>1, <1>2

LEMMA IdsFinite == IsFiniteSet(Ids) /\ \A S \in SUBSET Ids : IsFiniteSet(S) /\ Cardinality(S) \in Nat
  <1>1. IsFiniteSet(Ids)
    <2>1. 1 \in Int /\ MaxIds \in Int
      BY MuxAssumption DEF MuxAssumption
    <2> QED
      BY <2>1, FS_Interval DEF Ids
  <1>2. ASSUME NEW S \in SUBSET Ids
        PROVE  IsFiniteSet(S) /\ Cardinality(S) \in Nat
    <2>1. IsFiniteSet(S)
      BY <1>1, FS_Subset
    <2> QED
      BY <2>1, FS_CardinalityType
  <1> QED
    BY <1>1, <1>2

LEMMA AddEntry ==
  ASSUME NEW S \in SUBSET Ids, NEW i
  PROVE  /\ Cardinality(S) \in Nat /\ Cardinality(S \cup {i}) \in Nat
         /\ Cardinality(S \cup {i}) <= Cardinality(S) + 1
  <1>1. IsFiniteSet(S) /\ Cardinality(S) \in Nat
    BY IdsFinite
  <1>2. Cardinality(S \cup {i}) = IF i \in S THEN Cardinality(S) ELSE Cardinality(S) + 1
    BY <1>1, FS_AddElement
  <1> QED
    BY <1>1, <1>2

\* All but the streams themselves.
Rest == /\ Bounds /\ TasksInv /\ EndedInv /\ KindsInv /\ ListInv
        /\ ComingInv /\ OpeningInv /\ OpenedInv /\ EntriesHaveTasks

LEMMA MovesRest ==
  ASSUME MuxTypes, Rest, NEW x \in Ends, NEW i \in Ids, NEW t, NEW a, NEW r, Moves(x, i, t, a, r)
  PROVE  Rest'
  <1> USE DEF Rest
  <1>1. /\ MuxTypes'
        /\ task'[x][i] = t /\ app'[x][i] = a /\ queue'[x] = r /\ queue'[Other(x)] = queue[Other(x)]
        /\ \A e \in Ends, id \in Ids : e # x \/ id # i => task'[e][id] = task[e][id] /\ app'[e][id] = app[e][id]
        /\ \A e \in Ends : streams'[e] \subseteq streams[e] /\ (e # x => streams'[e] = streams[e])
        /\ \A e \in Ends, id \in Ids : id # i => (id \in streams'[e] <=> id \in streams[e])
    BY MovesFact
  <1>2. /\ session' = session /\ broken' = broken /\ loop' = loop /\ udp' = udp /\ counter' = counter
        /\ flows' = flows /\ events' = events
        /\ task[x][i].st \in {"dial", "run", "ending", "done"}
        /\ t \in StreamTasks /\ r \in Seq(Frames) /\ Len(r) <= QueueCap /\ Len(t.chan) <= ChanCap
        /\ t.st \in {"run", "ending", "done"} \/ (t = Gone /\ i \notin streams'[x])
        /\ t.st = "done" => Still(t)
        /\ t.hold # Nothing => t.st = "run" /\ t.hold.id = i /\ t.hold.kind \in {"data", "fin"}
    BY DEF Moves
  <1>3. session[x]
    <2>1. ~session[x] => task[x][i] = Gone
      BY DEF EndedInv
    <2> QED
      BY <1>2, <2>1, GoneFact
  <1>4. Bounds'
    <2>1. ASSUME NEW e \in Ends
          PROVE  /\ Len(queue'[e]) <= QueueCap /\ Cardinality(streams'[e]) <= Limit
                 /\ \A id \in Ids : Len(task'[e][id].chan) <= ChanCap
      <3>1. Len(queue'[e]) <= QueueCap
        BY <1>1, <1>2 DEF Bounds, Ends, Other
      <3>2. \A id \in Ids : Len(task'[e][id].chan) <= ChanCap
        BY <1>1, <1>2 DEF Bounds
      <3>3. Cardinality(streams'[e]) <= Limit
        <4>1. IsFiniteSet(streams[e]) /\ IsFiniteSet(streams'[e]) /\ Cardinality(streams'[e]) <= Cardinality(streams[e])
          BY <1>1, IdsFinite, FS_Subset DEF MuxTypes
        <4>2. Cardinality(streams[e]) <= Limit /\ Limit \in Nat
          BY MuxAssumption DEF Bounds, MuxAssumption
        <4>3. Cardinality(streams[e]) \in Nat /\ Cardinality(streams'[e]) \in Nat
          BY <4>1, FS_CardinalityType
        <4> QED
          BY <4>1, <4>2, <4>3
      <3> QED
        BY <3>1, <3>2, <3>3
    <2> QED
      BY <1>2, <2>1 DEF Bounds
  <1>5. TasksInv'
    <2>1. ASSUME NEW e \in Ends, NEW id \in Ids, NEW u, u = task'[e][id]
          PROVE  /\ u.st \in {"none", "done", "gone"} => Still(u)
                 /\ u.st = "dial" => u.hold = Nothing /\ ~u.rdone /\ ~u.wdone
                 /\ u.hold # Nothing => u.st = "run" /\ u.hold.id = id /\ u.hold.kind \in {"data", "fin"}
      <3>1. CASE e = x /\ id = i
        BY <1>1, <1>2, <2>1, <3>1, GoneFact
      <3>2. CASE ~(e = x /\ id = i)
        BY <1>1, <2>1, <3>2 DEF TasksInv
      <3> QED
        BY <3>1, <3>2
    <2> QED
      BY <2>1 DEF TasksInv
  <1>6. EndedInv'
    <2>1. ASSUME NEW e \in Ends, ~session[e]
          PROVE  streams'[e] = {} /\ loop[e] = Nothing /\ queue'[Other(e)] = <<>> /\ \A id \in Ids : task'[e][id] = Gone
      <3>1. e # x /\ streams[e] = {} /\ loop[e] = Nothing /\ queue[Other(e)] = <<>> /\ \A id \in Ids : task[e][id] = Gone
        BY <1>3, <2>1 DEF EndedInv
      <3>2. Other(e) = x /\ Other(x) = e
        BY <3>1 DEF Ends, Other
      <3>3. r = queue[x]
        BY <2>1, <3>2 DEF Moves
      <3> QED
        BY <1>1, <3>1, <3>2, <3>3
    <2>2. broken => \A e \in Ends : queue'[e] = <<>>
      <3>1. broken => r = queue[x]
        BY DEF Moves
      <3> QED
        BY <1>1, <3>1 DEF EndedInv, Ends, Other
    <2> QED
      BY <1>2, <2>1, <2>2 DEF EndedInv
  <1>7. KindsInv'
    <2>1. \A k \in 1..Len(queue'["host"]) : queue'["host"][k].kind # "open"
      <3>1. CASE queue'["host"] = queue["host"]
        BY <3>1 DEF KindsInv
      <3>2. CASE queue'["host"] # queue["host"]
        <4>1. x = "host" /\ r = queue'["host"]
          BY <1>1, <3>2 DEF Ends, Other
        <4>2. PICK f \in Frames : f.kind # "open" /\ IsMore(r, queue["host"], f)
          BY <3>2, <4>1 DEF Moves
        <4>3. queue["host"] \in Seq(Frames)
          BY DEF MuxTypes, Ends
        <4> QED
          <5>1. r \in Seq(Frames)
            BY <1>2, <4>1 DEF MuxTypes
          <5>2. \A k \in 1..Len(queue["host"]) : queue["host"][k].kind # "open"
            BY DEF KindsInv
          <5>3. /\ \A k \in 1..Len(queue["host"]) : r[k] = queue["host"][k]
                /\ r[Len(queue["host"]) + 1] = f
                /\ \A k \in 1..Len(r) : k \in 1..Len(queue["host"]) \/ k = Len(queue["host"]) + 1
            BY ONLY <4>2, <4>3, <5>1, MoreAt
          <5>4. \A k \in 1..Len(r) : r[k].kind # "open"
            BY ONLY <4>2, <5>2, <5>3
          <5> QED
            BY <4>1, <5>4
      <3> QED
        BY <3>1, <3>2
    <2> QED
      BY <1>2, <2>1 DEF KindsInv
  <1>8. ListInv'
    BY <1>2 DEF ListInv
  <1>9. ASSUME NEW id \in Ids
        PROVE  /\ HostUnopened(id) => (x = "host" => id # i) /\ HostUnopened(id)'
               /\ GuestUnopened(id) => (x = "guest" => id # i) /\ GuestUnopened(id)'
    <2>1. /\ HostUnopened(id) => ~(x = "host" /\ id = i)
          /\ GuestUnopened(id) => ~(x = "guest" /\ id = i)
      BY <1>2, GoneFact, UnopenedFact DEF HostUnopened, GuestUnopened
    <2>2. ASSUME HostUnopened(id)
          PROVE  HostUnopened(id)'
      <3>1. /\ task'["host"][id] = task["host"][id] /\ app'["host"][id] = app["host"][id]
            /\ id \notin streams'["host"]
        BY <1>1, <2>1, <2>2 DEF HostUnopened, Ends
      <3>2. NoParts(queue["host"], id) => NoParts(queue'["host"], id)
        BY <2>1, <2>2, MovesKeeps DEF Keeps, Ends
      <3> QED
        BY <1>2, <2>2, <3>1, <3>2 DEF HostUnopened
    <2>3. ASSUME GuestUnopened(id)
          PROVE  GuestUnopened(id)'
      <3>1. task'["guest"][id] = task["guest"][id] /\ app'["guest"][id] = app["guest"][id]
        BY <1>1, <2>1, <2>3 DEF GuestUnopened, Ends
      <3>2. NoParts(queue["guest"], id) => NoParts(queue'["guest"], id)
        BY <2>1, <2>3, MovesKeeps DEF Keeps, Ends
      <3> QED
        BY <1>2, <2>3, <3>1, <3>2, MovesOpened DEF GuestUnopened
    <2> QED
      BY <2>1, <2>2, <2>3
  <1>10. ComingInv'
    <2>1. SUFFICES ASSUME NEW id \in Ids, Coming(id)'
                   PROVE  (HostUnopened(id) /\ GuestUnopened(id) /\ id \notin streams["guest"] /\ loop["guest"] # OPEN(id))'
      BY DEF ComingInv
    <2>2. Coming(id)
      BY <1>2, <2>1 DEF Coming, Listed
    <2>3. HostUnopened(id) /\ GuestUnopened(id) /\ id \notin streams["guest"] /\ loop["guest"] # OPEN(id)
      BY <2>2 DEF ComingInv
    <2>4. id \notin streams'["guest"]
      BY <1>1, <2>3 DEF Ends
    <2> QED
      BY <1>2, <1>9, <2>3, <2>4
  <1>11. OpeningInv'
    BY <1>2, <1>9 DEF OpeningInv
  <1>12. OpenedInv'
    <2>1. SUFFICES ASSUME NEW id \in Ids
                   PROVE  /\ Opened(id)' => HostUnopened(id)'
                          /\ \A k, l \in 1..Len(queue'["guest"]) : queue'["guest"][k] = OPEN(id) =>
                                /\ queue'["guest"][l] = OPEN(id) => k = l
                                /\ udp[id] = Nothing /\ IsPart(queue'["guest"][l], id) => k < l
      BY <1>2 DEF OpenedInv, OpensFirst
    <2>2. Opened(id)' => HostUnopened(id)'
      BY <1>9, MovesOpened DEF OpenedInv, OpensFirst
    <2>3. \A k, l \in 1..Len(queue["guest"]) : queue["guest"][k] = OPEN(id) =>
                                /\ queue["guest"][l] = OPEN(id) => k = l
                                /\ udp[id] = Nothing /\ IsPart(queue["guest"][l], id) => k < l
      BY DEF OpenedInv, OpensFirst
    <2>4. CASE queue'["guest"] = queue["guest"]
      BY <2>2, <2>3, <2>4
    <2>5. CASE queue'["guest"] # queue["guest"]
      <3>1. x = "guest" /\ r = queue'["guest"]
        BY <1>1, <2>5 DEF Ends, Other
      <3>2. PICK f \in Frames : f.kind # "open" /\ IsMore(r, queue["guest"], f)
        BY <2>5, <3>1 DEF Moves
      <3>3. PICK q \in Seq(Frames) : q = queue["guest"]
        BY DEF MuxTypes, Ends
      <3>4. /\ Len(r) = Len(q) + 1 /\ Len(q) \in Nat
            /\ \A k \in 1..Len(q) : r[k] = q[k]
            /\ r[Len(q) + 1] = f
            /\ \A k \in 1..Len(r) : k \in 1..Len(q) \/ k = Len(q) + 1
        BY <1>2, <3>2, <3>3, MoreAt
      <3>5. f # OPEN(id)
        BY <3>2 DEF OPEN, Frame
      <3>6. ASSUME NEW k \in 1..Len(r), NEW l \in 1..Len(r), r[k] = OPEN(id)
            PROVE  /\ r[l] = OPEN(id) => k = l
                   /\ udp[id] = Nothing /\ IsPart(r[l], id) => k < l
        <4>1. k \in 1..Len(q) /\ q[k] = OPEN(id)
          BY <3>4, <3>5, <3>6
        <4>2. CASE l \in 1..Len(q)
          BY <2>3, <3>3, <3>4, <4>1, <4>2
        <4>3. CASE l = Len(q) + 1
          BY <3>4, <3>5, <4>1, <4>3
        <4> QED
          BY <3>4, <4>2, <4>3
      <3> QED
        BY <2>2, <3>1, <3>6
    <2> QED
      BY <2>4, <2>5
  <1>13. EntriesHaveTasks'
    <2>1. SUFFICES ASSUME NEW e \in Ends, NEW id \in Ids, id \in streams'[e]
                   PROVE  task'[e][id].st \in {"dial", "run", "ending", "done"} \/ loop[e] = OPEN(id)
      BY <1>2 DEF EntriesHaveTasks
    <2>2. CASE e = x /\ id = i
      BY <1>1, <1>2, <2>1, <2>2
    <2>3. CASE ~(e = x /\ id = i)
      BY <1>1, <2>1, <2>3 DEF EntriesHaveTasks
    <2> QED
      BY <2>2, <2>3
  <1> QED
    BY <1>4, <1>5, <1>6, <1>7, <1>8, <1>10, <1>11, <1>12, <1>13

LEMMA MovesOthers ==
  ASSUME MuxInv, MuxTypes', NEW x \in Ends, NEW i \in Ids, NEW t, NEW a, NEW r, Moves(x, i, t, a, r),
         NEW e \in Ends, NEW id \in Ids, id # i, udp[id] = Nothing
  PROVE  SenderInv(e, id)' /\ FlowInv(e, id)' /\ ReceiverInv(e, id)'
  <1>1. PICK o \in Ends : o = Other(e)
    BY OtherFact
  <1>2. MuxTypes /\ SenderInv(e, id) /\ SenderInv(o, id) /\ FlowInv(e, id) /\ ReceiverInv(e, id)
    BY DEF MuxInv, StreamsInv
  <1>3. /\ task'[e][id] = task[e][id] /\ app'[e][id] = app[e][id]
        /\ task'[o][id] = task[o][id] /\ app'[o][id] = app[o][id]
        /\ (id \in streams'[e] <=> id \in streams[e]) /\ broken' = broken
    <2>1. broken' = broken
      BY DEF Moves
    <2> QED
      BY <1>2, <2>1, MovesFact
  <1>4. (Tracked(e, id)' <=> Tracked(e, id)) /\ Put(o, id)' = Put(o, id) /\ (Pending(o, id)' <=> Pending(o, id))
    BY <1>2, <1>3, MovesOpened DEF Tracked, Put, Pending
  <1>5. Keeps(queue[o], queue'[o], id) /\ Follows(queue[o], queue'[o], id) /\ Reaches(queue[o], queue'[o], id)
    BY <1>2, MovesKeeps
  <1>6. SenderInv(e, id)' /\ SenderInv(o, id)'
    BY <1>2, <1>3 DEF SenderInv
  <1>7. /\ app'[e][id].got = app[e][id].got /\ app'[e][id].eof = app[e][id].eof
        /\ task'[e][id].chan = task[e][id].chan
    BY <1>3
  <1>8. Tracked(e, id)' /\ Pending(o, id)' /\ ~broken' =>
             ~broken /\ Put(o, id)' = Put(o, id) /\ Reaches(queue[o], queue'[o], id)
    BY <1>3, <1>4, <1>5
  <1>9. Tracked(e, id)' => Tracked(e, id) /\ Follows(queue[o], queue'[o], id)
    BY <1>4, <1>5
  <1>10. MuxTypes'
    OBVIOUS
  <1> QED
    BY ONLY <1>1, <1>2, <1>4, <1>5, <1>6, <1>7, <1>8, <1>9, <1>10, FlowQuiet

\* The task takes nothing from its channel.
LEMMA MovesReceives ==
  ASSUME MuxInv, MuxTypes', NEW x \in Ends, NEW i \in Ids, NEW t, NEW a, NEW r, Moves(x, i, t, a, r),
         udp[i] = Nothing,
         t.chan = task[x][i].chan \/ (t.chan = <<>> /\ t.st \notin {"none", "dial", "run"}),
         t.st \in {"none", "dial", "run"} => task[x][i].st \in {"dial", "run"},
         a.got = app[x][i].got, a.eof = app[x][i].eof
  PROVE  FlowInv(x, i)' /\ ReceiverInv(x, i)'
  <1>1. PICK o \in Ends : o = Other(x) /\ o # x
    BY OtherFact
  <1>2. MuxTypes /\ SenderInv(o, i) /\ FlowInv(x, i) /\ ReceiverInv(x, i)
    BY DEF MuxInv, StreamsInv
  <1>3. /\ task'[x][i] = t /\ app'[x][i] = a
        /\ task'[o][i] = task[o][i] /\ app'[o][i] = app[o][i] /\ queue'[o] = queue[o]
        /\ (i \in streams'[x] => i \in streams[x]) /\ broken' = broken
    <2>1. broken' = broken
      BY DEF Moves
    <2> QED
      BY <1>1, <1>2, <2>1, MovesFact
  <1>4. ~(x = "host" /\ Opened(i)) /\ ~(x = "host" /\ Opened(i)')
    <2>1. task[x][i].st \in {"dial", "run", "ending", "done"}
      BY DEF Moves
    <2>2. x = "host" /\ Opened(i) => task[x][i] \in {Unopened, Gone}
      BY DEF MuxInv, OpenedInv, OpensFirst, HostUnopened
    <2> QED
      BY <1>2, <2>1, <2>2, GoneFact, UnopenedFact, MovesOpened
  <1>5. /\ Tracked(x, i)' => Tracked(x, i) /\ t.st \in {"none", "dial", "run"}
        /\ Put(o, i)' = Put(o, i) /\ (Pending(o, i)' <=> Pending(o, i))
    BY <1>3, <1>4 DEF Tracked, Put, Pending
  <1>6. SenderInv(o, i)'
    BY <1>2, <1>3 DEF SenderInv
  <1>7. Keeps(queue[o], queue'[o], i) /\ Follows(queue[o], queue'[o], i) /\ Reaches(queue[o], queue'[o], i)
    BY <1>3, SameKeeps
  <1> QED
    BY <1>1, <1>2, <1>3, <1>5, <1>6, <1>7, FlowQuiet

\* The task puts no part of its stream into the queue, though it may give one up.
LEMMA MovesOffers ==
  ASSUME MuxInv, MuxTypes', NEW x \in Ends, NEW i \in Ids, NEW t, NEW a, NEW r, Moves(x, i, t, a, r),
         udp[i] = Nothing, NEW e \in Ends, e = Other(x), SenderInv(x, i)',
         r = queue[x] \/ (\E f \in Frames : f.kind = "reset" /\ IsMore(r, queue[x], f)),
         Put(x, i)' = Put(x, i) \/ (Put(x, i)' = Put(x, i) + 1 /\ Pending(x, i)),
         Pending(x, i)' => Pending(x, i),
         Put(x, i)' = Put(x, i) \/ ~Pending(x, i)' \/ broken \/ ~session[e]
  PROVE  FlowInv(e, i)' /\ ReceiverInv(e, i)'
  <1>1. e # x /\ x = Other(e)
    BY OtherFact
  <1>2. MuxTypes /\ FlowInv(e, i) /\ ReceiverInv(e, i) /\ SenderInv(x, i)
    BY DEF MuxInv, StreamsInv
  <1>3. /\ task'[e][i] = task[e][i] /\ app'[e][i] = app[e][i] /\ queue'[x] = r
        /\ streams'[e] = streams[e] /\ broken' = broken
    <2>1. broken' = broken
      BY DEF Moves
    <2> QED
      BY <1>1, <1>2, <2>1, MovesFact
  <1>4. Tracked(e, i)' <=> Tracked(e, i)
    BY <1>2, <1>3, MovesOpened DEF Tracked
  <1>5. ~session[e] => ~Tracked(e, i)
    <2>1. ~session[e] => /\ streams[e] = {} /\ queue[x] = <<>>
      BY <1>1 DEF MuxInv, EndedInv
    <2>2. e = "host" => x = "guest"
      BY DEF Other, Ends
    <2> QED
      BY <2>1, <2>2 DEF Tracked, Opened
  <1>6. Keeps(queue[x], r, i) /\ Follows(queue[x], r, i) /\ Reaches(queue[x], r, i)
    <2>1. CASE r = queue[x]
      BY <2>1, SameKeeps
    <2>2. CASE r # queue[x]
      <3>1. PICK f \in Frames : f.kind = "reset" /\ IsMore(r, queue[x], f)
        BY <2>2
      <3>2. queue[x] \in Seq(Frames) /\ r \in Seq(Frames) /\ ~IsPart(f, i)
        BY <1>2, <3>1 DEF Moves, IsPart, MuxTypes
      <3> QED
        BY <3>1, <3>2, MoreKeeps
    <2> QED
      BY <2>1, <2>2
  <1> QED
    BY <1>1, <1>2, <1>3, <1>4, <1>5, <1>6, FlowQuiet

LEMMA MovesInv ==
  ASSUME MuxInv, NEW x \in Ends, NEW i \in Ids, NEW t, NEW a, NEW r, Moves(x, i, t, a, r),
         udp[i] = Nothing =>
             /\ SenderInv(x, i)' /\ FlowInv(x, i)' /\ ReceiverInv(x, i)'
             /\ FlowInv(Other(x), i)' /\ ReceiverInv(Other(x), i)'
  PROVE  MuxInv'
  <1>1. MuxTypes /\ Rest
    BY DEF MuxInv, Rest
  <1>2. MuxTypes' /\ Rest'
    BY <1>1, MovesFact, MovesRest
  <1>3. PICK y \in Ends : y = Other(x) /\ x # y /\ \A e \in Ends : e = x \/ e = y
    BY OtherFact DEF Ends, Other
  <1>4. udp[i] = Nothing => SenderInv(y, i)'
    <2>1. udp[i] = Nothing => SenderInv(y, i)
      BY DEF MuxInv, StreamsInv
    <2>2. task'[y][i] = task[y][i] /\ app'[y][i] = app[y][i]
      BY <1>1, <1>3, MovesFact
    <2> QED
      BY <2>1, <2>2 DEF SenderInv
  <1>5. StreamsInv'
    <2>1. udp' = udp
      BY DEF Moves
    <2>2. ASSUME NEW e \in Ends, NEW id \in Ids, udp[id] = Nothing
          PROVE  SenderInv(e, id)' /\ FlowInv(e, id)' /\ ReceiverInv(e, id)'
      <3>1. CASE id = i
        BY <1>3, <1>4, <2>2, <3>1
      <3>2. CASE id # i
        BY <1>2, <2>2, <3>2, MovesOthers
      <3> QED
        BY <3>1, <3>2
    <2> QED
      BY <2>1, <2>2 DEF StreamsInv
  <1> QED
    BY <1>2, <1>5 DEF MuxInv, Rest

\* What a task and its application say of their side of a stream.
PutOf(id, t, a) == IF t.hold = DATA(id, a.sent) THEN a.sent - 1 ELSE a.sent
PendingOf(t) == t.st \in {"none", "dial"} \/ (t.st = "run" /\ (~t.rdone \/ t.hold # Nothing))
HoldOf(id, t, a) ==
    /\ t.hold # Nothing => t.hold = FIN(id) \/ t.hold = DATA(id, a.sent)
    /\ t.hold = FIN(id) => t.rdone
    /\ t.hold = DATA(id, a.sent) => ~t.rdone /\ a.sent > 0

LEMMA QuietMove ==
  ASSUME MuxInv, NEW x \in Ends, NEW i \in Ids, NEW t, NEW a, NEW r, Moves(x, i, t, a, r),
         NEW u, u = task[x][i], NEW b, b = app[x][i],
         udp[i] = Nothing =>
             /\ t.chan = u.chan \/ (t.chan = <<>> /\ t.st \notin {"none", "dial", "run"})
             /\ t.st \in {"none", "dial", "run"} => u.st \in {"dial", "run"}
             /\ a.got = b.got /\ a.eof = b.eof /\ HoldOf(i, t, a)
             /\ r = queue[x] \/ \E f \in Frames : f.kind = "reset" /\ IsMore(r, queue[x], f)
             /\ PutOf(i, t, a) = PutOf(i, u, b) \/ (PutOf(i, t, a) = PutOf(i, u, b) + 1 /\ PendingOf(u))
             /\ PendingOf(t) => PendingOf(u)
             /\ PutOf(i, t, a) = PutOf(i, u, b) \/ ~PendingOf(t) \/ broken \/ ~session[Other(x)]
  PROVE  MuxInv'
  <1>1. MuxTypes
    BY DEF MuxInv
  <1>2. MuxTypes' /\ task'[x][i] = t /\ app'[x][i] = a
    BY <1>1, MovesFact
  <1>3. /\ Put(x, i) = PutOf(i, u, b) /\ (Pending(x, i) <=> PendingOf(u))
        /\ Put(x, i)' = PutOf(i, t, a) /\ (Pending(x, i)' <=> PendingOf(t))
        /\ SenderInv(x, i)' <=> HoldOf(i, t, a)
    BY <1>2 DEF Put, PutOf, Pending, PendingOf, SenderInv, HoldOf
  <1>4. PICK e \in Ends : e = Other(x)
    BY OtherFact
  <1>5. ASSUME udp[i] = Nothing
        PROVE  /\ SenderInv(x, i)' /\ FlowInv(x, i)' /\ ReceiverInv(x, i)'
               /\ FlowInv(e, i)' /\ ReceiverInv(e, i)'
    <2>1. SenderInv(x, i)'
      BY <1>3, <1>5
    <2>2. FlowInv(x, i)' /\ ReceiverInv(x, i)'
      <3>1. /\ t.chan = task[x][i].chan \/ (t.chan = <<>> /\ t.st \notin {"none", "dial", "run"})
            /\ t.st \in {"none", "dial", "run"} => task[x][i].st \in {"dial", "run"}
            /\ a.got = app[x][i].got /\ a.eof = app[x][i].eof
        BY <1>5
      <3> QED
        BY <1>2, <1>5, <3>1, MovesReceives
    <2>3. FlowInv(e, i)' /\ ReceiverInv(e, i)'
      <3>1. /\ r = queue[x] \/ (\E f \in Frames : f.kind = "reset" /\ IsMore(r, queue[x], f))
            /\ Put(x, i)' = Put(x, i) \/ (Put(x, i)' = Put(x, i) + 1 /\ Pending(x, i))
            /\ Pending(x, i)' => Pending(x, i)
            /\ Put(x, i)' = Put(x, i) \/ ~Pending(x, i)' \/ broken \/ ~session[e]
        BY <1>3, <1>4, <1>5
      <3> QED
        BY <1>2, <1>4, <1>5, <2>1, <3>1, MovesOffers
    <2> QED
      BY <2>1, <2>2, <2>3
  <1> QED
    BY <1>4, <1>5, MovesInv

\* What is known of a task before it moves.
LEMMA TaskFact ==
  ASSUME MuxInv, NEW x \in Ends, NEW i \in Ids, NEW u, u = task[x][i], NEW b, b = app[x][i]
  PROVE  /\ u \in StreamTasks /\ b \in Apps /\ queue[x] \in Seq(Frames) /\ u.chan \in Seq(Frames)
         /\ Len(queue[x]) <= QueueCap /\ Len(u.chan) <= ChanCap
         /\ u.st = "done" => Still(u)
         /\ u.hold # Nothing => u.st = "run" /\ u.hold.id = i /\ u.hold.kind \in {"data", "fin"}
         /\ udp[i] = Nothing => HoldOf(i, u, b)
         /\ [task EXCEPT ![x][i] = u] = task /\ [app EXCEPT ![x][i] = b] = app
         /\ [queue EXCEPT ![x] = queue[x]] = queue
  <1>1. /\ u \in StreamTasks /\ b \in Apps /\ queue[x] \in Seq(Frames)
        /\ [task EXCEPT ![x][i] = u] = task /\ [app EXCEPT ![x][i] = b] = app
        /\ [queue EXCEPT ![x] = queue[x]] = queue
    BY DEF MuxInv, MuxTypes
  <1>2. u.chan \in Seq(Frames)
    BY <1>1 DEF StreamTasks
  <1>3. Len(queue[x]) <= QueueCap /\ Len(u.chan) <= ChanCap
    BY DEF MuxInv, Bounds
  <1>4. /\ u.st = "done" => Still(u)
        /\ u.hold # Nothing => u.st = "run" /\ u.hold.id = i /\ u.hold.kind \in {"data", "fin"}
    BY DEF MuxInv, TasksInv
  <1>5. udp[i] = Nothing => HoldOf(i, u, b)
    BY DEF MuxInv, StreamsInv, SenderInv, HoldOf
  <1> QED
    BY <1>1, <1>2, <1>3, <1>4, <1>5

LEMMA PumpReadsInv ==
  ASSUME MuxInv, NEW x \in Ends, NEW i \in Ids, PumpReads(x, i)
  PROVE  MuxInv'
  <1>1. PICK u, b, q : u = task[x][i] /\ b = app[x][i] /\ q = queue[x]
    OBVIOUS
  <1>2. /\ u \in StreamTasks /\ b \in Apps /\ q \in Seq(Frames) /\ u.chan \in Seq(Frames)
        /\ Len(q) <= QueueCap /\ Len(u.chan) <= ChanCap
        /\ [app EXCEPT ![x][i] = b] = app /\ [queue EXCEPT ![x] = q] = queue
    BY <1>1, TaskFact
  <1>3. u.st = "run" /\ u.hold = Nothing /\ ~u.rdone /\ udp[i] = Nothing
    BY <1>1 DEF PumpReads, Pump, Pumped
  <1>4. /\ \A n \in Nat : DATA(i, n) \in Frames /\ DATA(i, n) # FIN(i) /\ DATA(i, n).id = i /\ DATA(i, n).kind = "data"
        /\ FIN(i) \in Frames /\ FIN(i).id = i /\ FIN(i).kind = "fin" /\ \A f \in Frames : f # Nothing
    BY FrameFact DEF DATA, FIN, Frame
  <1>5. b.sent \in Nat /\ PutOf(i, u, b) = b.sent /\ PendingOf(u)
    BY <1>2, <1>3, <1>4 DEF PutOf, PendingOf, Apps
  <1>6. CASE /\ app' = [app EXCEPT ![x][i].sent = @ + 1]
             /\ task' = [task EXCEPT ![x][i].hold = DATA(i, app[x][i].sent + 1)]
    <2>1. PICK n \in Nat, h \in Frames : n = b.sent + 1 /\ h = DATA(i, n)
      BY <1>4, <1>5
    <2>2. PICK t, a : t = [u EXCEPT !.hold = h] /\ a = [b EXCEPT !.sent = n]
      OBVIOUS
    <2>3. /\ t \in StreamTasks /\ a \in Apps /\ t.st = "run" /\ t.chan = u.chan /\ t.hold = h /\ ~t.rdone
          /\ a.sent = n /\ a.got = b.got /\ a.eof = b.eof
      BY <1>2, <1>3, <2>2 DEF StreamTasks, Apps
    <2>4. Moves(x, i, t, a, q)
      <3>1. task' = [task EXCEPT ![x][i] = t] /\ app' = [app EXCEPT ![x][i] = a]
        BY <1>1, <1>6, <2>1, <2>2
      <3>2. queue' = [queue EXCEPT ![x] = q] /\ streams' = streams /\ UNCHANGED <<session, broken, loop, udp, counter, flows, events>>
        BY <1>2 DEF PumpReads, network, table
      <3>3. t.hold # Nothing => t.st = "run" /\ t.hold.id = i /\ t.hold.kind \in {"data", "fin"}
        BY <1>4, <2>1, <2>3
      <3> QED
        BY <1>1, <1>2, <1>3, <2>3, <3>1, <3>2, <3>3 DEF Moves
    <2>5. HoldOf(i, t, a) /\ PutOf(i, t, a) = PutOf(i, u, b) /\ PendingOf(u)
      BY <1>4, <1>5, <2>1, <2>3 DEF HoldOf, PutOf
    <2> QED
      BY <1>1, <1>3, <2>3, <2>4, <2>5, QuietMove
  <1>7. CASE task' = [task EXCEPT ![x][i].hold = FIN(i), ![x][i].rdone = TRUE] /\ UNCHANGED app
    <2>1. PICK h \in Frames : h = FIN(i)
      BY <1>4
    <2>2. PICK t : t = [u EXCEPT !.hold = h, !.rdone = TRUE]
      OBVIOUS
    <2>3. t \in StreamTasks /\ t.st = "run" /\ t.chan = u.chan /\ t.hold = h /\ t.rdone
      BY <1>2, <1>3, <2>2 DEF StreamTasks
    <2>4. Moves(x, i, t, b, q)
      <3>1. task' = [task EXCEPT ![x][i] = t]
        BY <1>1, <1>2, <1>7, <2>1, <2>2 DEF MuxInv, MuxTypes
      <3>2. /\ app' = [app EXCEPT ![x][i] = b] /\ queue' = [queue EXCEPT ![x] = q] /\ streams' = streams
            /\ UNCHANGED <<session, broken, loop, udp, counter, flows, events>>
        BY <1>2, <1>7 DEF PumpReads, network, table
      <3>3. t.hold # Nothing => t.st = "run" /\ t.hold.id = i /\ t.hold.kind \in {"data", "fin"}
        BY <1>4, <2>1, <2>3
      <3> QED
        BY <1>1, <1>2, <1>3, <2>3, <3>1, <3>2, <3>3 DEF Moves
    <2>5. HoldOf(i, t, b) /\ PutOf(i, t, b) = PutOf(i, u, b)
      BY <1>4, <1>5, <2>1, <2>3 DEF HoldOf, PutOf
    <2> QED
      BY <1>1, <1>3, <1>5, <2>3, <2>4, <2>5, QuietMove
  <1> QED
    BY <1>6, <1>7 DEF PumpReads

LEMMA EmptyHold ==
  ASSUME NEW i \in Ids, NEW u, NEW b \in Apps, u.hold # Nothing => u.st = "run",
         HoldOf(i, u, b), NEW t, t.hold = Nothing
  PROVE  /\ HoldOf(i, t, b) /\ PutOf(i, t, b) = b.sent
         /\ PutOf(i, t, b) = PutOf(i, u, b) \/ (PutOf(i, t, b) = PutOf(i, u, b) + 1 /\ PendingOf(u))
         /\ u.hold = Nothing => PutOf(i, u, b) = b.sent
  <1>1. b.sent \in Nat /\ DATA(i, b.sent) # Nothing /\ FIN(i) # Nothing
    BY FrameFact DEF Apps
  <1> QED
    BY <1>1 DEF HoldOf, PutOf, PendingOf

\* A task that ends or goes on without what it held.
LEMMA GivingUpMove ==
  ASSUME MuxInv, NEW x \in Ends, NEW i \in Ids, NEW t, NEW r,
         NEW u, u = task[x][i], NEW b, b = app[x][i], Moves(x, i, t, b, r), t.hold = Nothing,
         t.chan = u.chan \/ (t.chan = <<>> /\ t.st \notin {"none", "dial", "run"}),
         t.st \in {"none", "dial", "run"} => u.st \in {"dial", "run"},
         t.st = "run" => u.hold = Nothing /\ (u.st = "dial" \/ t.rdone = u.rdone),
         t.st \notin {"none", "dial"},
         r = queue[x] \/ \E f \in Frames : f.kind = "reset" /\ IsMore(r, queue[x], f)
  PROVE  MuxInv'
  <1>1. b \in Apps /\ (u.hold # Nothing => u.st = "run") /\ (udp[i] = Nothing => HoldOf(i, u, b))
    BY TaskFact
  <1>2. udp[i] = Nothing =>
             /\ HoldOf(i, t, b)
             /\ PutOf(i, t, b) = PutOf(i, u, b) \/ (PutOf(i, t, b) = PutOf(i, u, b) + 1 /\ PendingOf(u))
             /\ u.hold = Nothing => PutOf(i, t, b) = PutOf(i, u, b)
    BY <1>1, EmptyHold
  <1>3. PendingOf(t) => t.st = "run" /\ u.hold = Nothing /\ PendingOf(u)
    BY DEF PendingOf
  <1>4. udp[i] = Nothing => PutOf(i, t, b) = PutOf(i, u, b) \/ ~PendingOf(t)
    BY <1>2, <1>3
  <1> QED
    BY <1>2, <1>3, <1>4, QuietMove

LEMMA PumpEndsInv ==
  ASSUME MuxInv, NEW x \in Ends, NEW i \in Ids, task[x][i].st = "run",
         task' = [task EXCEPT ![x][i].st = "ending", ![x][i].hold = Nothing],
         UNCHANGED <<session, broken, queue, loop, streams, app, udp, counter, flows, events>>
  PROVE  MuxInv'
  <1>1. PICK u, b, q : u = task[x][i] /\ b = app[x][i] /\ q = queue[x]
    OBVIOUS
  <1>2. /\ u \in StreamTasks /\ b \in Apps /\ q \in Seq(Frames) /\ u.chan \in Seq(Frames)
        /\ Len(q) <= QueueCap /\ Len(u.chan) <= ChanCap
        /\ [app EXCEPT ![x][i] = b] = app /\ [queue EXCEPT ![x] = q] = queue
    BY <1>1, TaskFact
  <1>3. PICK t : t = [u EXCEPT !.st = "ending", !.hold = Nothing]
    OBVIOUS
  <1>4. t \in StreamTasks /\ t.st = "ending" /\ t.chan = u.chan /\ t.hold = Nothing
    BY <1>2, <1>3 DEF StreamTasks
  <1>5. task' = [task EXCEPT ![x][i] = t]
    BY <1>1, <1>3 DEF MuxInv, MuxTypes
  <1>6. Moves(x, i, t, b, q)
    BY <1>1, <1>2, <1>4, <1>5 DEF Moves
  <1> QED
    BY <1>1, <1>4, <1>6, GivingUpMove

LEMMA UdpDeliversInv ==
  ASSUME MuxInv, NEW x \in Ends, NEW i \in Ids, UdpDelivers(x, i)
  PROVE  MuxInv'
  <1>1. PICK u, b, q : u = task[x][i] /\ b = app[x][i] /\ q = queue[x]
    OBVIOUS
  <1>2. /\ u \in StreamTasks /\ b \in Apps /\ q \in Seq(Frames) /\ u.chan \in Seq(Frames)
        /\ Len(q) <= QueueCap /\ Len(u.chan) <= ChanCap
        /\ [app EXCEPT ![x][i] = b] = app /\ [queue EXCEPT ![x] = q] = queue
    BY <1>1, TaskFact
  <1>3. u.st = "run" /\ u.hold = Nothing /\ udp[i] # Nothing /\ u.chan # <<>>
    BY <1>1 DEF UdpDelivers
  <1>4. PICK c : c = Tail(u.chan) /\ c \in Seq(Frames) /\ IsRest(c, u.chan)
    BY <1>2, <1>3, TailIsRest
  <1>10. c \in Seq(Frames) /\ Len(c) <= ChanCap
    <2>1. Len(c) = Len(u.chan) - 1 /\ Len(u.chan) \in Nat /\ ChanCap \in Nat
      BY <1>2, <1>4, MuxAssumption DEF IsRest, MuxAssumption
    <2>2. c \in Seq(Frames)
      BY <1>4
    <2> QED
      BY <1>2, <2>1, <2>2
  <1>5. PICK t : t = [u EXCEPT !.chan = c]
    OBVIOUS
  <1>6. t \in StreamTasks /\ t.st = "run" /\ t.chan = c /\ t.hold = Nothing
    BY <1>2, <1>3, <1>5, <1>10 DEF StreamTasks
  <1>7. task' = [task EXCEPT ![x][i] = t]
    BY <1>1, <1>4, <1>5 DEF UdpDelivers
  <1>8. Moves(x, i, t, b, q)
    BY <1>1, <1>2, <1>3, <1>4, <1>6, <1>7, <1>10 DEF Moves, UdpDelivers, network, table
  <1> QED
    BY <1>1, <1>3, <1>8, QuietMove

LEMMA UdpAnswersInv ==
  ASSUME MuxInv, NEW i \in Ids, UdpAnswers(i)
  PROVE  MuxInv'
  <1>0. PICK x \in Ends : x = "host"
    BY DEF Ends
  <1>1. PICK u, b, q : u = task[x][i] /\ b = app[x][i] /\ q = queue[x]
    OBVIOUS
  <1>2. /\ u \in StreamTasks /\ b \in Apps /\ q \in Seq(Frames) /\ u.chan \in Seq(Frames)
        /\ Len(q) <= QueueCap /\ Len(u.chan) <= ChanCap
        /\ [app EXCEPT ![x][i] = b] = app /\ [queue EXCEPT ![x] = q] = queue
    BY <1>1, TaskFact
  <1>3. u.st = "run" /\ udp[i] # Nothing
    BY <1>0, <1>1 DEF UdpAnswers
  <1>4. PICK h \in Frames : h = DATA(i, 0) /\ h.id = i /\ h.kind = "data"
    <2>1. DATA(i, 0) \in Frames
      BY FrameFact
    <2>2. DATA(i, 0).id = i /\ DATA(i, 0).kind = "data"
      BY DEF DATA, Frame
    <2> QED
      BY <2>1, <2>2
  <1>5. PICK t : t = [u EXCEPT !.hold = h]
    OBVIOUS
  <1>6. t \in StreamTasks /\ t.st = "run" /\ t.chan = u.chan /\ t.hold = h
    BY <1>2, <1>3, <1>5 DEF StreamTasks
  <1>7. task' = [task EXCEPT ![x][i] = t]
    BY <1>0, <1>1, <1>4, <1>5 DEF UdpAnswers
  <1>8. Moves(x, i, t, b, q)
    BY <1>1, <1>2, <1>3, <1>4, <1>6, <1>7 DEF Moves, UdpAnswers, network, table
  <1> QED
    BY <1>1, <1>3, <1>8, QuietMove

LEMMA DialledInv ==
  ASSUME MuxInv, NEW i \in Ids, Dialled(i)
  PROVE  MuxInv'
  <1>0. PICK x \in Ends : x = "host"
    BY DEF Ends
  <1>1. PICK u, b, q : u = task[x][i] /\ b = app[x][i] /\ q = queue[x]
    OBVIOUS
  <1>2. /\ u \in StreamTasks /\ b \in Apps /\ q \in Seq(Frames) /\ u.chan \in Seq(Frames)
        /\ Len(q) <= QueueCap /\ Len(u.chan) <= ChanCap
        /\ [app EXCEPT ![x][i] = b] = app /\ [queue EXCEPT ![x] = q] = queue
    BY <1>1, TaskFact
  <1>3. u.st = "dial" /\ u.hold = Nothing
    <2>1. u.st = "dial"
      BY <1>0, <1>1 DEF Dialled
    <2> QED
      BY <1>1, <2>1 DEF MuxInv, TasksInv
  <1>4. PICK st \in {"run", "ending"} : task' = [task EXCEPT !["host"][i].st = st]
    BY DEF Dialled
  <1>5. PICK t : t = [u EXCEPT !.st = st]
    OBVIOUS
  <1>6. t \in StreamTasks /\ t.st = st /\ t.chan = u.chan /\ t.hold = Nothing
    BY <1>2, <1>3, <1>5 DEF StreamTasks
  <1>7. task' = [task EXCEPT ![x][i] = t]
    BY <1>0, <1>1, <1>4, <1>5
  <1>8. Moves(x, i, t, b, q)
    BY <1>1, <1>2, <1>3, <1>4, <1>6, <1>7 DEF Moves, Dialled, network, table
  <1> QED
    BY <1>1, <1>3, <1>4, <1>6, <1>8, GivingUpMove

\* What e sends arrives in the queue or is lost.
LEMMA SentFact ==
  ASSUME MuxTypes, NEW x \in Ends, NEW f \in Frames, ~QueueFull(x), Len(queue[x]) <= QueueCap
  PROVE  \E r \in Seq(Frames) :
            /\ Sent(x, f) = [queue EXCEPT ![x] = r] /\ Len(r) <= QueueCap
            /\ IF broken \/ ~session[Other(x)] THEN r = queue[x] ELSE IsMore(r, queue[x], f)
  <1>1. queue \in [Ends -> Seq(Frames)] /\ queue[x] \in Seq(Frames) /\ QueueCap \in Nat
    BY MuxAssumption DEF MuxTypes, MuxAssumption
  <1>2. CASE broken \/ ~session[Other(x)]
    BY <1>1, <1>2 DEF Sent
  <1>3. CASE ~(broken \/ ~session[Other(x)])
    <2>1. PICK r \in Seq(Frames) : r = Append(queue[x], f) /\ IsMore(r, queue[x], f)
      BY <1>1, AppendIsMore
    <2>2. Len(r) <= QueueCap
      <3>1. Len(r) = Len(queue[x]) + 1 /\ Len(queue[x]) \in Nat /\ Len(queue[x]) # QueueCap
        BY <1>1, <2>1 DEF IsMore, QueueFull
      <3> QED
        BY <1>1, <3>1
    <2> QED
      BY <1>3, <2>1, <2>2 DEF Sent
  <1> QED
    BY <1>2, <1>3

LEMMA TaskFinishesInv ==
  ASSUME MuxInv, NEW x \in Ends, NEW i \in Ids, TaskFinishes(x, i)
  PROVE  MuxInv'
  <1>1. PICK u, b, q : u = task[x][i] /\ b = app[x][i] /\ q = queue[x]
    OBVIOUS
  <1>2. /\ u \in StreamTasks /\ b \in Apps /\ q \in Seq(Frames)
        /\ Len(q) <= QueueCap
        /\ [app EXCEPT ![x][i] = b] = app /\ [queue EXCEPT ![x] = q] = queue
    BY <1>1, TaskFact
  <1>3. u.st = "ending"
    BY <1>1 DEF TaskFinishes
  <1>4. PICK t : t = [Gone EXCEPT !.st = "done"]
    OBVIOUS
  <1>5. t \in StreamTasks /\ t.st = "done" /\ t.chan = <<>> /\ t.hold = Nothing /\ Still(t) /\ Len(t.chan) <= ChanCap
    <2>1. PICK g \in StreamTasks : g = Gone /\ Still(g) /\ g.chan = <<>> /\ g.hold = Nothing
      BY GoneFact
    <2>2. t \in StreamTasks /\ t.st = "done" /\ t.chan = g.chan /\ t.hold = g.hold /\ t.rdone = g.rdone /\ t.wdone = g.wdone
      BY <1>4, <2>1 DEF StreamTasks
    <2>3. Len(<<>>) <= ChanCap
      BY MuxAssumption DEF MuxAssumption
    <2> QED
      BY <2>1, <2>2, <2>3 DEF Still
  <1>6. task' = [task EXCEPT ![x][i] = t]
    BY <1>4 DEF TaskFinishes
  <1>7. PICK f \in Frames : f = RESET(i) /\ f.id = i /\ f.kind = "reset"
    <2>1. RESET(i) \in Frames
      BY FrameFact
    <2>2. RESET(i).id = i /\ RESET(i).kind = "reset"
      BY DEF RESET, Frame
    <2> QED
      BY <2>1, <2>2
  <1>8. PICK r \in Seq(Frames) :
           /\ queue' = [queue EXCEPT ![x] = r] /\ Len(r) <= QueueCap
           /\ r = q \/ (~broken /\ session[Other(x)] /\ IsMore(r, q, f))
    <2>1. CASE queue' = queue
      BY <1>2, <2>1
    <2>2. CASE queue' # queue
      <3>1. ~QueueFull(x) /\ queue' = Sent(x, f)
        BY <1>7, <2>2 DEF TaskFinishes, LastReset
      <3> QED
        BY <1>1, <1>2, <3>1, SentFact DEF MuxInv
    <2> QED
      BY <2>1, <2>2
  <1>9. Moves(x, i, t, b, r)
    BY <1>1, <1>2, <1>3, <1>5, <1>6, <1>7, <1>8 DEF Moves, TaskFinishes, network, table
  <1> QED
    BY <1>1, <1>5, <1>7, <1>8, <1>9, GivingUpMove

LEMMA ReapInv ==
  ASSUME MuxInv, NEW x \in Ends, NEW i \in Ids, Reap(x, i)
  PROVE  MuxInv'
  <1>1. PICK u, b, q : u = task[x][i] /\ b = app[x][i] /\ q = queue[x]
    OBVIOUS
  <1>2. /\ u \in StreamTasks /\ b \in Apps /\ q \in Seq(Frames)
        /\ Len(q) <= QueueCap
        /\ [app EXCEPT ![x][i] = b] = app /\ [queue EXCEPT ![x] = q] = queue
    BY <1>1, TaskFact
  <1>3. u.st = "done"
    BY <1>1 DEF Reap
  <1>4. PICK t \in StreamTasks : t = Gone /\ Still(t) /\ t.st = "gone" /\ t.chan = <<>> /\ t.hold = Nothing
    BY GoneFact
  <1>5. Len(t.chan) <= ChanCap
    BY <1>4, MuxAssumption DEF MuxAssumption
  <1>6. task' = [task EXCEPT ![x][i] = t] /\ streams' = [streams EXCEPT ![x] = @ \ {i}] /\ i \notin streams'[x]
    <2>1. streams \in [Ends -> SUBSET Ids]
      BY DEF MuxInv, MuxTypes
    <2> QED
      BY <1>4, <2>1 DEF Reap, RemoveEntry
  <1>7. Moves(x, i, t, b, q)
    BY <1>1, <1>2, <1>3, <1>4, <1>5, <1>6 DEF Moves, Reap, network
  <1> QED
    BY <1>1, <1>4, <1>7, GivingUpMove

LEMMA TaskSendsInv ==
  ASSUME MuxInv, NEW x \in Ends, NEW i \in Ids, TaskSends(x, i)
  PROVE  MuxInv'
  <1>1. PICK u, b, q : u = task[x][i] /\ b = app[x][i] /\ q = queue[x]
    OBVIOUS
  <1>2. /\ u \in StreamTasks /\ b \in Apps /\ q \in Seq(Frames) /\ u.chan \in Seq(Frames)
        /\ Len(q) <= QueueCap /\ Len(u.chan) <= ChanCap
        /\ u.hold # Nothing => u.st = "run" /\ u.hold.id = i /\ u.hold.kind \in {"data", "fin"}
        /\ udp[i] = Nothing => HoldOf(i, u, b)
        /\ [app EXCEPT ![x][i] = b] = app
    BY <1>1, TaskFact
  <1>3. PICK h \in Frames : h = u.hold /\ h # Nothing /\ h.id = i /\ h.kind \in {"data", "fin"}
    BY <1>1, <1>2 DEF TaskSends, StreamTasks
  <1>4. u.st = "run"
    BY <1>2, <1>3
  <1>5. PICK t : t = [u EXCEPT !.hold = Nothing]
    OBVIOUS
  <1>6. t \in StreamTasks /\ t.st = "run" /\ t.chan = u.chan /\ t.hold = Nothing /\ t.rdone = u.rdone
    BY <1>2, <1>4, <1>5 DEF StreamTasks
  <1>7. task' = [task EXCEPT ![x][i] = t]
    BY <1>1, <1>5 DEF TaskSends
  <1>8. PICK r \in Seq(Frames) :
           /\ queue' = [queue EXCEPT ![x] = r] /\ Len(r) <= QueueCap
           /\ IF broken \/ ~session[Other(x)] THEN r = q ELSE IsMore(r, q, h)
    BY <1>1, <1>2, <1>3, SentFact DEF MuxInv, TaskSends
  <1>9. Moves(x, i, t, b, r)
    BY <1>1, <1>2, <1>3, <1>4, <1>6, <1>7, <1>8 DEF Moves, TaskSends, network, table
  <1>10. CASE broken \/ ~session[Other(x)]
    <2>1. udp[i] = Nothing =>
             /\ HoldOf(i, t, b)
             /\ PutOf(i, t, b) = PutOf(i, u, b) \/ (PutOf(i, t, b) = PutOf(i, u, b) + 1 /\ PendingOf(u))
      BY <1>2, <1>6, EmptyHold
    <2>2. PendingOf(u)
      BY <1>3, <1>4 DEF PendingOf
    <2> QED
      BY <1>1, <1>4, <1>6, <1>8, <1>9, <1>10, <2>1, <2>2, QuietMove
  <1>11. CASE ~(broken \/ ~session[Other(x)])
    <2>1. PICK e \in Ends : e = Other(x) /\ x = Other(e) /\ x # e
      BY OtherFact
    <2>2. MuxTypes /\ MuxTypes' /\ task'[x][i] = t /\ app'[x][i] = b /\ queue'[x] = r
          /\ task'[e][i] = task[e][i] /\ app'[e][i] = app[e][i] /\ streams'[e] = streams[e]
      BY <1>9, <2>1, MovesFact DEF MuxInv
    <2>3. ASSUME udp[i] = Nothing
          PROVE  /\ SenderInv(x, i)' /\ FlowInv(x, i)' /\ ReceiverInv(x, i)'
                 /\ FlowInv(e, i)' /\ ReceiverInv(e, i)'
      <3>1. FlowInv(x, i)' /\ ReceiverInv(x, i)'
        BY <1>1, <1>4, <1>6, <1>9, <2>2, <2>3, MovesReceives
      <3>2. SenderInv(x, i) /\ FlowInv(e, i) /\ ReceiverInv(e, i)
        BY <2>3 DEF MuxInv, StreamsInv
      <3>3. Tracked(e, i)' => Tracked(e, i)
        BY <1>9, <2>2, MovesOpened DEF Tracked
      <3>4. /\ h = task[x][i].hold /\ h # Nothing /\ task[x][i].st = "run"
            /\ q = queue[x] /\ r = queue'[x] /\ IsMore(r, q, h) /\ q \in Seq(Frames) /\ r \in Seq(Frames)
            /\ task'[x][i].hold = Nothing /\ task'[x][i].st = "run" /\ task'[x][i].rdone = task[x][i].rdone
            /\ task'[e][i] = task[e][i] /\ app'[e][i] = app[e][i] /\ app'[x][i] = app[x][i] /\ ~broken
        BY <1>1, <1>2, <1>3, <1>4, <1>6, <1>8, <1>11, <2>2
      <3> QED
        BY ONLY <2>1, <2>2, <3>1, <3>2, <3>3, <3>4, FlowPut
    <2> QED
      BY <1>9, <2>1, <2>3, MovesInv
  <1> QED
    BY <1>10, <1>11

\* A part of the stream goes from the channel to the application.
LEMMA TakingMove ==
  ASSUME MuxInv, NEW x \in Ends, NEW i \in Ids, udp[i] = Nothing, NEW t, NEW a, NEW r, r = queue[x],
         NEW u, u = task[x][i], NEW b, b = app[x][i], Moves(x, i, t, a, r),
         u.st = "run", t.st = "run", u.hold = Nothing, t.hold = Nothing, t.rdone = u.rdone, a.sent = b.sent,
         NEW c \in Seq(Frames), c = u.chan, NEW d \in Seq(Frames), d = t.chan, IsRest(d, c),
         NEW got, got = b.got, NEW more, more = a.got,
         \/ c[1].kind = "data" /\ a.eof = b.eof /\ IsMore(more, got, c[1].n)
         \/ c[1].kind = "fin" /\ more = got /\ a.eof
  PROVE  MuxInv'
  <1>1. PICK o \in Ends : o = Other(x) /\ x = Other(o) /\ o # x
    BY OtherFact
  <1>2. /\ MuxTypes /\ MuxTypes' /\ task'[x][i] = t /\ app'[x][i] = a /\ queue'[x] = r
        /\ queue'[o] = queue[o] /\ task'[o][i] = task[o][i] /\ app'[o][i] = app[o][i]
        /\ streams'[x] \subseteq streams[x]
    BY <1>1, MovesFact DEF MuxInv
  <1>3. broken' = broken
    BY DEF Moves
  <1>4. SenderInv(o, i) /\ FlowInv(x, i) /\ ReceiverInv(x, i)
    BY DEF MuxInv, StreamsInv
  <1>5. Tracked(x, i)' => Tracked(x, i)
    <2>1. i \in streams'[x] => i \in streams[x]
      BY <1>2
    <2>2. Opened(i)' <=> Opened(i)
      BY <1>2, MovesOpened
    <2> QED
      BY <1>2, <2>1, <2>2 DEF Tracked
  <1>6. FlowInv(x, i)' /\ ReceiverInv(x, i)'
    <2>1. CASE c[1].kind = "data" /\ a.eof = b.eof /\ IsMore(more, got, c[1].n)
      <3>1. PICK f : f = c[1]
        OBVIOUS
      <3>2. IsMore(more, got, f.n) /\ f = c[1] /\ f.kind = "data"
        BY <2>1, <3>1
      <3>3. /\ c = task[x][i].chan /\ d = task'[x][i].chan /\ IsRest(d, c)
            /\ got = app[x][i].got /\ more = app'[x][i].got /\ app'[x][i].eof = app[x][i].eof
            /\ c \in Seq(Frames) /\ d \in Seq(Frames)
        BY <1>2, <2>1
      <3> QED
        BY ONLY <1>1, <1>2, <1>3, <1>4, <1>5, <3>2, <3>3, FlowWrites
    <2>2. CASE c[1].kind = "fin" /\ more = got /\ a.eof
      <3>1. /\ c = task[x][i].chan /\ d = task'[x][i].chan /\ IsRest(d, c)
            /\ got = app[x][i].got /\ app'[x][i].got = got /\ app'[x][i].eof
            /\ c \in Seq(Frames) /\ d \in Seq(Frames) /\ c[1].kind = "fin"
        BY <1>2, <2>2
      <3> QED
        BY ONLY <1>1, <1>2, <1>3, <1>4, <1>5, <3>1, FlowEnds
    <2> QED
      BY <2>1, <2>2
  <1>7. SenderInv(x, i)' /\ Put(x, i)' = Put(x, i) /\ (Pending(x, i)' <=> Pending(x, i))
    <2>1. SenderInv(x, i)
      BY DEF MuxInv, StreamsInv
    <2> QED
      BY <1>2, <2>1 DEF SenderInv, Put, Pending
  <1>8. FlowInv(o, i)' /\ ReceiverInv(o, i)'
    BY <1>1, <1>2, <1>7, MovesOffers
  <1> QED
    BY <1>1, <1>6, <1>7, <1>8, MovesInv

LEMMA GotMore ==
  ASSUME NEW got \in Seq(Nat), NEW n \in Nat
  PROVE  Append(got, n) \in Seq(Nat) /\ IsMore(Append(got, n), got, n)
  BY DEF IsMore

LEMMA PumpWritesInv ==
  ASSUME MuxInv, NEW x \in Ends, NEW i \in Ids, PumpWrites(x, i)
  PROVE  MuxInv'
  <1>1. PICK u, b, q : u = task[x][i] /\ b = app[x][i] /\ q = queue[x]
    OBVIOUS
  <1>2. /\ u \in StreamTasks /\ b \in Apps /\ q \in Seq(Frames) /\ u.chan \in Seq(Frames)
        /\ Len(q) <= QueueCap /\ Len(u.chan) <= ChanCap
        /\ [app EXCEPT ![x][i] = b] = app /\ [queue EXCEPT ![x] = q] = queue
    BY <1>1, TaskFact
  <1>3. u.st = "run" /\ u.hold = Nothing /\ udp[i] = Nothing /\ u.chan # <<>>
    BY <1>1 DEF PumpWrites, Pump, Pumped
  <1>4. /\ queue' = [queue EXCEPT ![x] = q] /\ streams' = streams
        /\ UNCHANGED <<session, broken, loop, udp, counter, flows, events>>
    BY <1>2 DEF PumpWrites, network, table
  <1>5. PICK c : c = u.chan /\ c \in Seq(Frames)
    BY <1>2
  <1>6. PICK d : d = Tail(c) /\ d \in Seq(Frames) /\ IsRest(d, c) /\ Head(c) = c[1] /\ c[1] \in Frames
    BY <1>3, <1>5, TailIsRest
  <1>7. PICK f : f = c[1] /\ f \in Frames /\ f = Head(u.chan)
    BY <1>5, <1>6
  <1>8. d \in Seq(Frames) /\ IsRest(d, c) /\ Len(d) <= ChanCap
    <2>1. Len(d) = Len(c) - 1 /\ Len(c) \in Nat /\ ChanCap \in Nat /\ Len(c) <= ChanCap
      BY <1>2, <1>5, <1>6, MuxAssumption DEF IsRest, MuxAssumption
    <2>2. d \in Seq(Frames) /\ IsRest(d, c)
      BY <1>6
    <2> QED
      BY <2>1, <2>2
  <1>9. CASE /\ f.kind = "data" /\ app' = [app EXCEPT ![x][i].got = Append(@, f.n)]
             /\ task' = [task EXCEPT ![x][i].chan = d]
    <2>1. PICK got \in Seq(Nat), n \in Nat : got = b.got /\ n = f.n
      BY <1>2, <1>7 DEF Apps, Frames
    <2>2. PICK more : more = Append(got, n) /\ more \in Seq(Nat) /\ IsMore(more, got, n)
      BY GotMore
    <2>3. PICK t, a : t = [u EXCEPT !.chan = d] /\ a = [b EXCEPT !.got = more]
      OBVIOUS
    <2>4. more \in Seq(Nat)
      BY <2>2
    <2>5. /\ t \in StreamTasks /\ t.st = "run" /\ t.chan = d /\ t.hold = Nothing /\ t.rdone = u.rdone
          /\ a \in Apps /\ a.sent = b.sent /\ a.got = more /\ a.eof = b.eof
      BY <1>2, <1>3, <1>8, <2>3, <2>4 DEF StreamTasks, Apps
    <2>6. task' = [task EXCEPT ![x][i] = t] /\ app' = [app EXCEPT ![x][i] = a]
      BY <1>1, <1>9, <2>1, <2>2, <2>3
    <2>7. Moves(x, i, t, a, q)
      BY <1>1, <1>2, <1>3, <1>4, <1>8, <2>5, <2>6 DEF Moves
    <2>8. IsMore(more, got, c[1].n) /\ c[1].kind = "data"
      BY <1>7, <1>9, <2>1, <2>2
    <2>9. c = u.chan /\ c \in Seq(Frames)
      BY <1>5
    <2>10. /\ t.st = "run" /\ t.hold = Nothing /\ t.rdone = u.rdone /\ a.sent = b.sent
           /\ d = t.chan /\ got = b.got /\ more = a.got
           /\ c[1].kind = "data" /\ a.eof = b.eof /\ IsMore(more, got, c[1].n)
      BY <2>1, <2>5, <2>8
    <2>11. /\ u = task[x][i] /\ b = app[x][i] /\ q = queue[x] /\ udp[i] = Nothing
           /\ u.st = "run" /\ u.hold = Nothing
      BY <1>1, <1>3
    <2> QED
      BY <1>8, <2>7, <2>9, <2>10, <2>11, TakingMove, SMTT(60)
  <1>10. CASE /\ f.kind = "fin" /\ app' = [app EXCEPT ![x][i].eof = TRUE]
              /\ task' = [task EXCEPT ![x][i].chan = d, ![x][i].wdone = TRUE]
    <2>1. PICK t, a : t = [u EXCEPT !.chan = d, !.wdone = TRUE] /\ a = [b EXCEPT !.eof = TRUE]
      OBVIOUS
    <2>2. /\ t \in StreamTasks /\ t.st = "run" /\ t.chan = d /\ t.hold = Nothing /\ t.rdone = u.rdone
          /\ a \in Apps /\ a.sent = b.sent /\ a.got = b.got /\ a.eof
      BY <1>2, <1>3, <1>8, <2>1 DEF StreamTasks, Apps
    <2>3. task' = [task EXCEPT ![x][i] = t] /\ app' = [app EXCEPT ![x][i] = a]
      BY <1>1, <1>10, <2>1 DEF MuxInv, MuxTypes
    <2>4. Moves(x, i, t, a, q)
      BY <1>1, <1>2, <1>3, <1>4, <1>8, <2>2, <2>3 DEF Moves
    <2>5. c = u.chan /\ c \in Seq(Frames) /\ c[1].kind = "fin"
      BY <1>5, <1>7, <1>10
    <2> QED
      BY <1>1, <1>3, <1>8, <2>2, <2>4, <2>5, TakingMove
  <1>11. CASE task' = [task EXCEPT ![x][i].st = "ending"] /\ UNCHANGED app
    <2>1. PICK t : t = [u EXCEPT !.st = "ending"]
      OBVIOUS
    <2>2. t \in StreamTasks /\ t.st = "ending" /\ t.chan = u.chan /\ t.hold = Nothing
      BY <1>2, <1>3, <2>1 DEF StreamTasks
    <2>3. task' = [task EXCEPT ![x][i] = t] /\ app' = [app EXCEPT ![x][i] = b]
      BY <1>1, <1>2, <1>11, <2>1
    <2>4. Moves(x, i, t, b, q)
      BY <1>1, <1>2, <1>3, <1>4, <2>2, <2>3 DEF Moves
    <2> QED
      BY <1>1, <2>2, <2>4, GivingUpMove
  <1>12. \/ /\ f.kind = "data" /\ app' = [app EXCEPT ![x][i].got = Append(@, f.n)]
            /\ task' = [task EXCEPT ![x][i].chan = d]
         \/ /\ f.kind = "fin" /\ app' = [app EXCEPT ![x][i].eof = TRUE]
            /\ task' = [task EXCEPT ![x][i].chan = d, ![x][i].wdone = TRUE]
         \/ task' = [task EXCEPT ![x][i].st = "ending"] /\ UNCHANGED app
    <2>1. d = Tail(task[x][i].chan) /\ f = Head(task[x][i].chan)
      BY <1>1, <1>5, <1>6, <1>7
    <2> QED
      BY <2>1 DEF PumpWrites
  <1> QED
    BY <1>9, <1>10, <1>11, <1>12

LEMMA TaskStepInv ==
  ASSUME MuxInv, NEW x \in Ends, NEW i \in Ids, TaskStep(x, i)
  PROVE  MuxInv'
  <1>1. CASE PumpReads(x, i)
    BY <1>1, PumpReadsInv
  <1>2. CASE PumpWrites(x, i)
    BY <1>2, PumpWritesInv
  <1>3. CASE PumpEnds(x, i) \/ UdpEnds(x, i)
    <2>1. /\ task[x][i].st = "run" /\ task' = [task EXCEPT ![x][i].st = "ending", ![x][i].hold = Nothing]
          /\ UNCHANGED <<session, broken, queue, loop, streams, app, udp, counter, flows, events>>
      BY <1>3 DEF PumpEnds, UdpEnds, Pump, Pumped, network, table
    <2> QED
      BY <2>1, PumpEndsInv
  <1>4. CASE UdpDelivers(x, i)
    BY <1>4, UdpDeliversInv
  <1>5. CASE TaskSends(x, i)
    BY <1>5, TaskSendsInv
  <1>6. CASE TaskFinishes(x, i)
    BY <1>6, TaskFinishesInv
  <1>7. CASE Reap(x, i)
    BY <1>7, ReapInv
  <1> QED
    BY <1>1, <1>2, <1>3, <1>4, <1>5, <1>6, <1>7 DEF TaskStep

-----------------------------------------------------------------------------
(* Steps of a loop *)

\* What FlowQuiet asks of a stream on its way to e.
Quiet(e, id) ==
    LET o == Other(e)
    IN  /\ SenderInv(o, id)'
        /\ app'[e][id].got = app[e][id].got /\ app'[e][id].eof = app[e][id].eof
        /\ task'[e][id].chan = task[e][id].chan \/ (task'[e][id].chan = <<>> /\ ~Tracked(e, id)')
        /\ Keeps(queue[o], queue'[o], id)
        /\ Tracked(e, id)' => Tracked(e, id) /\ Follows(queue[o], queue'[o], id)
        /\ Put(o, id)' = Put(o, id) \/ (Put(o, id)' = Put(o, id) + 1 /\ Pending(o, id))
        /\ Pending(o, id)' => Pending(o, id)
        /\ Tracked(e, id)' /\ Pending(o, id)' /\ ~broken' =>
             ~broken /\ Put(o, id)' = Put(o, id) /\ Reaches(queue[o], queue'[o], id)
Flows(e, id) == FlowInv(e, id) /\ ReceiverInv(e, id)

LEMMA StreamsKeep ==
  ASSUME MuxInv, MuxTypes',
         \A e \in Ends, id \in Ids : udp'[id] = Nothing =>
             udp[id] = Nothing /\ SenderInv(e, id)' /\ (Quiet(e, id) \/ Flows(e, id)')
  PROVE  StreamsInv'
  <1>1. SUFFICES ASSUME NEW e \in Ends, NEW id \in Ids, udp'[id] = Nothing
                 PROVE  FlowInv(e, id)' /\ ReceiverInv(e, id)'
    BY DEF StreamsInv
  <1>2. udp[id] = Nothing /\ (Quiet(e, id) \/ Flows(e, id)')
    BY <1>1
  <1>3. CASE Quiet(e, id)
    <2>1. PICK o \in Ends : o = Other(e)
      BY OtherFact
    <2>2. MuxTypes /\ SenderInv(o, id) /\ FlowInv(e, id) /\ ReceiverInv(e, id)
      BY <1>2 DEF MuxInv, StreamsInv
    <2>3. /\ SenderInv(o, id)'
          /\ app'[e][id].got = app[e][id].got /\ app'[e][id].eof = app[e][id].eof
          /\ task'[e][id].chan = task[e][id].chan \/ (task'[e][id].chan = <<>> /\ ~Tracked(e, id)')
          /\ Keeps(queue[o], queue'[o], id)
          /\ Tracked(e, id)' => Tracked(e, id) /\ Follows(queue[o], queue'[o], id)
          /\ Put(o, id)' = Put(o, id) \/ (Put(o, id)' = Put(o, id) + 1 /\ Pending(o, id))
          /\ Pending(o, id)' => Pending(o, id)
          /\ Tracked(e, id)' /\ Pending(o, id)' /\ ~broken' =>
               ~broken /\ Put(o, id)' = Put(o, id) /\ Reaches(queue[o], queue'[o], id)
      BY <1>3, <2>1 DEF Quiet
    <2>4. MuxTypes'
      OBVIOUS
    <2> QED
      BY ONLY <2>1, <2>2, <2>3, <2>4, FlowQuiet
  <1>4. CASE Flows(e, id)'
    BY <1>4 DEF Flows
  <1> QED
    BY <1>2, <1>3, <1>4

\* The loop takes the next event.
LEMMA ListRest ==
  ASSUME MuxTypes, MuxTypes', ListInv, IsRest(events', events), UNCHANGED <<udp, counter, flows>>
  PROVE  /\ ListInv' /\ \A id : Listed(id)' => Listed(id)
         /\ \A id : IsNew(events[1]) /\ events[1].id = id => ~Listed(id)'
         /\ Len(events') <= Len(events)
  <1>1. PICK p, q : p = events /\ q = events'
    OBVIOUS
  <1>2. /\ Len(p) \in Nat /\ Len(q) \in Nat /\ \A i \in 1..Len(q) : q[i] = p[i + 1] /\ i + 1 \in 1..Len(p)
        /\ Len(q) <= Len(p) /\ 1 \in 1..Len(p)
    BY <1>1 DEF MuxTypes, IsRest
  <1>3. /\ \A i, j \in 1..Len(p) : IsNew(p[i]) /\ IsNew(p[j]) /\ p[i].id = p[j].id => i = j
        /\ \A i \in 1..Len(p) : p[i].id < counter /\ (~IsNew(p[i]) => udp[p[i].id] # Nothing)
        /\ \A s \in Sources : flows[s] # Nothing => flows[s] < counter /\ udp[flows[s]] # Nothing
    BY <1>1 DEF ListInv
  <1>4. ASSUME NEW i \in 1..Len(q), NEW j \in 1..Len(q), IsNew(q[i]), IsNew(q[j]), q[i].id = q[j].id
        PROVE  i = j
    <2>1. i + 1 \in 1..Len(p) /\ j + 1 \in 1..Len(p) /\ q[i] = p[i + 1] /\ q[j] = p[j + 1]
      BY <1>2
    <2>2. i + 1 = j + 1
      BY <1>3, <1>4, <2>1
    <2> QED
      BY <2>2
  <1>5. \A i \in 1..Len(q) : q[i].id < counter /\ (~IsNew(q[i]) => udp[q[i].id] # Nothing)
    BY <1>2, <1>3
  <1>6. ListInv'
    BY <1>1, <1>3, <1>4, <1>5 DEF ListInv
  <1>7. \A id : Listed(id)' => Listed(id)
    BY <1>1, <1>2 DEF Listed
  <1>8. ASSUME IsNew(p[1]), NEW i \in 1..Len(q), IsNew(q[i]), q[i].id = p[1].id
        PROVE  FALSE
    <2>1. i + 1 \in 1..Len(p) /\ q[i] = p[i + 1] /\ i + 1 # 1
      BY <1>2
    <2> QED
      BY <1>2, <1>3, <1>8, <2>1
  <1> QED
    BY <1>1, <1>2, <1>6, <1>7, <1>8 DEF Listed

\* The first frame of the queue of o goes into the channel of stream id.
Delivered(x, id, o) ==
    /\ id \in streams[x] /\ task[x][id].st \in {"dial", "run"}
    /\ IsRest(queue'[o], queue[o]) /\ IsPart(queue[o][1], id)
    /\ IsMore(task'[x][id].chan, task[x][id].chan, queue[o][1]) /\ Len(task'[x][id].chan) <= ChanCap
    /\ task'[x][id].st = task[x][id].st /\ task'[x][id].hold = task[x][id].hold
    /\ task'[x][id].rdone = task[x][id].rdone /\ task'[x][id].wdone = task[x][id].wdone
Passed(x, id, o) ==
    /\ task'[x][id] = task[x][id]
    /\ queue'[o] = queue[o] \/ ~IsPart(queue[o][1], id) \/ id \notin streams'[x]
\* The loop of x takes a frame or an event, which opens no stream, and is left with g to send.
Handles(x, g, o) ==
    /\ session[x] /\ loop[x] = Nothing /\ loop'[x] = g /\ loop'[o] = loop[o]
    /\ g # Nothing => /\ g.kind \notin {"open", "fin"}
                      /\ g.kind = "data" => udp[g.id] # Nothing
    /\ UNCHANGED <<session, broken, app, udp, counter, flows>>
    /\ streams'[x] \subseteq streams[x] /\ streams'[o] = streams[o]
    /\ queue'[x] = queue[x]
    /\ queue'[o] = queue[o] \/ (IsRest(queue'[o], queue[o]) /\ queue[o][1].kind # "open")
    /\ \A id \in Ids : task'[o][id] = task[o][id] /\ (Passed(x, id, o) \/ Delivered(x, id, o))
    /\ events' = events \/ (IsRest(events', events) /\ ~IsNew(events[1]))

LEMMA HandlesFact ==
  ASSUME MuxTypes, MuxTypes', NEW x \in Ends, NEW o \in Ends, o = Other(x), NEW g, Handles(x, g, o)
  PROVE  /\ o # x /\ x = Other(o) /\ \A e \in Ends : e = x \/ e = o
         /\ \A e \in Ends, id \in Ids : Keeps(queue[e], queue'[e], id)
         /\ \A e \in Ends : \A i \in 1..Len(queue'[e]) : \E k \in 1..Len(queue[e]) : queue'[e][i] = queue[e][k]
         /\ \A id : Opened(id)' => Opened(id)
         /\ \A e \in Ends : Len(queue'[e]) <= Len(queue[e])
         /\ \A id : Listed(id)' => Listed(id)
         /\ Len(events') <= Len(events)
  <1>1. o # x /\ x = Other(o) /\ \A e \in Ends : e = x \/ e = o
    BY OtherFact DEF Ends, Other
  <1>2. /\ \A e \in Ends : queue[e] \in Seq(Frames) /\ queue'[e] \in Seq(Frames)
        /\ events \in Seq(Events) /\ events' \in Seq(Events)
    BY DEF MuxTypes
  <1>3. /\ queue'[x] = queue[x] /\ (queue'[o] = queue[o] \/ IsRest(queue'[o], queue[o]))
        /\ events' = events \/ IsRest(events', events)
    BY DEF Handles
  <1>4. \A e \in Ends : queue'[e] = queue[e] \/ IsRest(queue'[e], queue[e])
    BY <1>1, <1>3
  <1>5. \A e \in Ends, id \in Ids : Keeps(queue[e], queue'[e], id)
    BY <1>2, <1>4, SameKeeps, RestKeeps
  <1>6. \A e \in Ends : \A i \in 1..Len(queue'[e]) : \E k \in 1..Len(queue[e]) : queue'[e][i] = queue[e][k]
    BY <1>2, <1>4 DEF IsRest
  <1>7. \A id : Opened(id)' => Opened(id)
    <2>1. \A i \in 1..Len(queue'["guest"]) : \E k \in 1..Len(queue["guest"]) : queue'["guest"][i] = queue["guest"][k]
      BY <1>6 DEF Ends
    <2> QED
      BY <2>1 DEF Opened
  <1>8. \A e \in Ends : Len(queue'[e]) <= Len(queue[e])
    BY <1>2, <1>4 DEF IsRest
  <1>9. \A i \in 1..Len(events') : \E k \in 1..Len(events) : events'[i] = events[k]
    BY <1>2, <1>3 DEF IsRest
  <1>10. \A id : Listed(id)' => Listed(id)
    BY <1>9 DEF Listed
  <1>11. Len(events') <= Len(events)
    BY <1>2, <1>3 DEF IsRest
  <1> QED
    BY <1>1, <1>5, <1>6, <1>7, <1>8, <1>10, <1>11

LEMMA HandlesStreams ==
  ASSUME MuxInv, MuxTypes', NEW x \in Ends, NEW o \in Ends, o = Other(x), NEW g, Handles(x, g, o)
  PROVE  StreamsInv'
  <1>1. MuxTypes
    BY DEF MuxInv
  <1>2. /\ o # x /\ x = Other(o) /\ \A e \in Ends : e = x \/ e = o
        /\ \A e \in Ends, id \in Ids : Keeps(queue[e], queue'[e], id)
        /\ \A id : Opened(id)' => Opened(id)
    BY <1>1, HandlesFact
  <1>3. /\ app' = app /\ broken' = broken /\ udp' = udp /\ session' = session
        /\ streams'[x] \subseteq streams[x] /\ streams'[o] = streams[o] /\ queue'[x] = queue[x]
        /\ queue'[o] = queue[o] \/ (IsRest(queue'[o], queue[o]) /\ queue[o][1].kind # "open")
        /\ \A id \in Ids : task'[o][id] = task[o][id] /\ (Passed(x, id, o) \/ Delivered(x, id, o))
    BY DEF Handles
  <1>4. ASSUME NEW id \in Ids
        PROVE  /\ task'[x][id].st = task[x][id].st /\ task'[x][id].hold = task[x][id].hold
               /\ task'[x][id].rdone = task[x][id].rdone
    BY <1>3 DEF Passed, Delivered
  <1>5. ASSUME NEW e \in Ends, NEW id \in Ids
        PROVE  /\ Put(e, id)' = Put(e, id) /\ (Pending(e, id)' <=> Pending(e, id))
               /\ SenderInv(e, id)' <=> SenderInv(e, id)
               /\ Tracked(e, id)' => Tracked(e, id)
    <2>1. /\ task'[e][id].st = task[e][id].st /\ task'[e][id].hold = task[e][id].hold
          /\ task'[e][id].rdone = task[e][id].rdone /\ app'[e][id] = app[e][id]
          /\ streams'[e] \subseteq streams[e]
      BY <1>2, <1>3, <1>4
    <2> QED
      BY <1>2, <2>1 DEF Put, Pending, SenderInv, Tracked
  <1>6. ASSUME NEW e \in Ends, NEW id \in Ids, udp[id] = Nothing
        PROVE  SenderInv(e, id)' /\ (Quiet(e, id) \/ Flows(e, id)')
    <2>1. SenderInv(e, id)' /\ SenderInv(Other(e), id)'
      BY <1>5, <1>6, OtherFact DEF MuxInv, StreamsInv
    <2>2. CASE e = o
      <3>1. Keeps(queue[x], queue'[x], id) /\ Follows(queue[x], queue'[x], id) /\ Reaches(queue[x], queue'[x], id)
        BY <1>3, SameKeeps
      <3>2. /\ Put(x, id)' = Put(x, id) /\ (Pending(x, id)' <=> Pending(x, id)) /\ (Tracked(o, id)' => Tracked(o, id))
            /\ app'[o][id] = app[o][id] /\ task'[o][id] = task[o][id] /\ broken' = broken
        BY <1>3, <1>5
      <3>3. Quiet(o, id)
        BY <1>2, <2>1, <2>2, <3>1, <3>2 DEF Quiet
      <3> QED
        BY <2>1, <2>2, <3>3
    <2>3. CASE e = x /\ Passed(x, id, o)
      <3>1. /\ Put(o, id)' = Put(o, id) /\ (Pending(o, id)' <=> Pending(o, id)) /\ (Tracked(x, id)' => Tracked(x, id))
            /\ app'[x][id] = app[x][id] /\ broken' = broken
        BY <1>3, <1>5
      <3>2. task'[x][id] = task[x][id] /\ (queue'[o] = queue[o] \/ ~IsPart(queue[o][1], id) \/ id \notin streams'[x])
        BY <2>3 DEF Passed
      <3>3. Keeps(queue[o], queue'[o], id)
        BY <1>2
      <3>4. queue[o] \in Seq(Frames) /\ queue'[o] \in Seq(Frames)
        BY <1>1 DEF MuxTypes
      <3>5. CASE queue'[o] = queue[o] \/ ~IsPart(queue[o][1], id)
        <4>1. Follows(queue[o], queue'[o], id) /\ Reaches(queue[o], queue'[o], id)
          BY <1>3, <3>4, <3>5, SameKeeps, RestKeeps
        <4> QED
          BY <2>1, <2>3, <3>1, <3>2, <3>3, <4>1 DEF Quiet
      <3>6. CASE queue'[o] # queue[o] /\ IsPart(queue[o][1], id) /\ id \notin streams'[x]
        <4>1. ~(x = "host" /\ Opened(id))
          <5>1. ASSUME x = "host", Opened(id)
                PROVE  FALSE
            <6>1. o = "guest"
              BY <5>1 DEF Other
            <6>2. PICK k \in 1..Len(queue["guest"]) : queue["guest"][k] = OPEN(id)
              BY <5>1 DEF Opened
            <6>3. 1 \in 1..Len(queue["guest"])
              BY <1>3, <3>4, <3>6, <6>1 DEF IsRest
            <6>4. k < 1
              BY <1>6, <3>6, <6>1, <6>2, <6>3 DEF MuxInv, OpenedInv, OpensFirst
            <6> QED
              BY <6>2, <6>4
          <5> QED
            BY <5>1
        <4>2. ~Tracked(x, id)'
          BY <1>2, <3>6, <4>1 DEF Tracked
        <4> QED
          BY <2>1, <2>3, <3>1, <3>2, <3>3, <4>2 DEF Quiet
      <3> QED
        BY <3>2, <3>5, <3>6
    <2>4. CASE e = x /\ Delivered(x, id, o)
      <3>1. PICK q, r, c, d : q = queue[o] /\ r = queue'[o] /\ c = task[x][id].chan /\ d = task'[x][id].chan
        OBVIOUS
      <3>2. q \in Seq(Frames) /\ r \in Seq(Frames) /\ c \in Seq(Frames) /\ d \in Seq(Frames)
        <4>1. task[x][id] \in StreamTasks /\ task'[x][id] \in StreamTasks
          BY <1>1 DEF MuxTypes
        <4> QED
          BY <1>1, <3>1, <4>1 DEF MuxTypes, StreamTasks
      <3>3. PICK f : f = q[1]
        OBVIOUS
      <3>4. IsRest(r, q) /\ IsPart(f, id) /\ IsMore(d, c, f) /\ Tracked(x, id)
        BY <2>4, <3>1, <3>3 DEF Delivered, Tracked
      <3>5. /\ app'[x][id] = app[x][id] /\ app'[o][id] = app[o][id] /\ task'[o][id] = task[o][id] /\ broken' = broken
        BY <1>3
      <3>6. SenderInv(o, id) /\ FlowInv(x, id) /\ ReceiverInv(x, id)
        BY <1>6 DEF MuxInv, StreamsInv
      <3>7. MuxTypes' /\ o = Other(x)
        OBVIOUS
      <3>8. FlowInv(x, id)' /\ ReceiverInv(x, id)'
        BY ONLY <1>1, <3>1, <3>2, <3>3, <3>4, <3>5, <3>6, <3>7, FlowTakes
      <3> QED
        BY <2>1, <2>4, <3>8 DEF Flows
    <2> QED
      BY <1>2, <1>3, <2>2, <2>3, <2>4
  <1> QED
    BY <1>3, <1>6, StreamsKeep

LEMMA HandlesInv ==
  ASSUME MuxInv, MuxTypes', NEW x \in Ends, NEW o \in Ends, o = Other(x), NEW g, Handles(x, g, o)
  PROVE  MuxInv'
  <1>1. MuxTypes
    BY DEF MuxInv
  <1>2. /\ o # x /\ x = Other(o) /\ \A e \in Ends : e = x \/ e = o
        /\ \A e \in Ends, id \in Ids : Keeps(queue[e], queue'[e], id)
        /\ \A e \in Ends : \A i \in 1..Len(queue'[e]) : \E k \in 1..Len(queue[e]) : queue'[e][i] = queue[e][k]
        /\ \A id : Opened(id)' => Opened(id)
        /\ \A e \in Ends : Len(queue'[e]) <= Len(queue[e])
        /\ \A id : Listed(id)' => Listed(id)
        /\ Len(events') <= Len(events)
    BY <1>1, HandlesFact
  <1>3. /\ session[x] /\ loop[x] = Nothing /\ loop'[x] = g /\ loop'[o] = loop[o]
        /\ g # Nothing => /\ g.kind \notin {"open", "fin"}
                          /\ g.kind = "data" => udp[g.id] # Nothing
        /\ session' = session /\ broken' = broken /\ app' = app /\ udp' = udp /\ counter' = counter /\ flows' = flows
        /\ streams'[x] \subseteq streams[x] /\ streams'[o] = streams[o] /\ queue'[x] = queue[x]
        /\ queue'[o] = queue[o] \/ (IsRest(queue'[o], queue[o]) /\ queue[o][1].kind # "open")
        /\ \A id \in Ids : task'[o][id] = task[o][id]
        /\ events' = events \/ (IsRest(events', events) /\ ~IsNew(events[1]))
    BY DEF Handles
  <1>4. ASSUME NEW id \in Ids
        PROVE  /\ task'[x][id].st = task[x][id].st /\ task'[x][id].hold = task[x][id].hold
               /\ task'[x][id].rdone = task[x][id].rdone /\ task'[x][id].wdone = task[x][id].wdone
               /\ task'[x][id] = task[x][id] \/
                     (id \in streams[x] /\ task[x][id].st \in {"dial", "run"} /\ Len(task'[x][id].chan) <= ChanCap)
    <2>1. Passed(x, id, o) \/ Delivered(x, id, o)
      BY DEF Handles
    <2> QED
      BY <2>1 DEF Passed, Delivered
  <1>5. \A e \in Ends, id \in Ids : task'[e][id] = task[e][id] \/ (id \in streams[e] /\ task[e][id].st \in {"dial", "run"})
    BY <1>2, <1>3, <1>4
  <1>6. \A e \in Ends : streams'[e] \subseteq streams[e]
    BY <1>2, <1>3
  <1>7. \A id \in Ids : loop'["guest"] = OPEN(id) => loop["guest"] = OPEN(id)
    <2>1. \A id \in Ids : OPEN(id).kind = "open" /\ OPEN(id) # Nothing
      BY FrameFact DEF OPEN, Frame
    <2> QED
      BY <1>2, <1>3, <2>1 DEF Ends
  <1>8. Bounds'
    <2>1. ASSUME NEW e \in Ends
          PROVE  /\ Len(queue'[e]) <= QueueCap /\ Cardinality(streams'[e]) <= Limit
                 /\ \A id \in Ids : Len(task'[e][id].chan) <= ChanCap
      <3>1. Len(queue'[e]) <= QueueCap
        <4>1. Len(queue'[e]) \in Nat /\ Len(queue[e]) \in Nat /\ QueueCap \in Nat
          BY <1>1, MuxAssumption DEF MuxTypes, MuxAssumption
        <4>2. Len(queue'[e]) <= Len(queue[e]) /\ Len(queue[e]) <= QueueCap
          BY <1>2 DEF MuxInv, Bounds
        <4> QED
          BY <4>1, <4>2
      <3>2. Cardinality(streams'[e]) <= Limit
        <4>1. IsFiniteSet(streams[e]) /\ IsFiniteSet(streams'[e]) /\ Cardinality(streams'[e]) <= Cardinality(streams[e])
          BY <1>1, <1>6, IdsFinite, FS_Subset DEF MuxTypes
        <4>2. Cardinality(streams[e]) <= Limit /\ Limit \in Nat
          BY MuxAssumption DEF MuxInv, Bounds, MuxAssumption
        <4>3. Cardinality(streams[e]) \in Nat /\ Cardinality(streams'[e]) \in Nat
          BY <4>1, FS_CardinalityType
        <4> QED
          BY <4>1, <4>2, <4>3
      <3>3. ASSUME NEW id \in Ids
            PROVE  Len(task'[e][id].chan) <= ChanCap
        <4>1. Len(task[e][id].chan) <= ChanCap
          BY DEF MuxInv, Bounds
        <4>2. task'[e][id] = task[e][id] \/ Len(task'[e][id].chan) <= ChanCap
          BY <1>2, <1>3, <1>4
        <4> QED
          BY <4>1, <4>2
      <3> QED
        BY <3>1, <3>2, <3>3
    <2>2. Len(events') <= EventCap
      <3>1. Len(events') \in Nat /\ Len(events) \in Nat /\ EventCap \in Nat
        BY <1>1, MuxAssumption DEF MuxTypes, MuxAssumption
      <3>2. Len(events) <= EventCap
        BY DEF MuxInv, Bounds
      <3> QED
        BY <1>2, <3>1, <3>2
    <2> QED
      BY <2>1, <2>2 DEF Bounds
  <1>9. TasksInv'
    <2>1. ASSUME NEW e \in Ends, NEW id \in Ids, NEW t, t = task[e][id], NEW u, u = task'[e][id]
          PROVE  /\ u.st \in {"none", "done", "gone"} => Still(u)
                 /\ u.st = "dial" => u.hold = Nothing /\ ~u.rdone /\ ~u.wdone
                 /\ u.hold # Nothing => u.st = "run" /\ u.hold.id = id /\ u.hold.kind \in {"data", "fin"}
      <3>1. /\ t.st \in {"none", "done", "gone"} => Still(t)
            /\ t.st = "dial" => t.hold = Nothing /\ ~t.rdone /\ ~t.wdone
            /\ t.hold # Nothing => t.st = "run" /\ t.hold.id = id /\ t.hold.kind \in {"data", "fin"}
        BY <2>1 DEF MuxInv, TasksInv
      <3>2. u = t \/ (t.st \in {"dial", "run"} /\ u.st = t.st /\ u.hold = t.hold /\ u.rdone = t.rdone /\ u.wdone = t.wdone)
        <4>1. CASE e = o
          <5>1. task'[o][id] = task[o][id]
            BY <1>3
          <5> QED
            BY <4>1, <5>1, <2>1
        <4>2. CASE e = x
          BY <4>2, <1>4, <2>1
        <4> QED
          BY <1>2, <4>1, <4>2
      <3> QED
        BY <3>1, <3>2
    <2> QED
      BY <2>1 DEF TasksInv
  <1>10. EndedInv'
    <2>1. ASSUME NEW e \in Ends, ~session[e]
          PROVE  streams'[e] = {} /\ loop'[e] = Nothing /\ queue'[Other(e)] = <<>> /\ \A id \in Ids : task'[e][id] = Gone
      <3>1. e = o /\ Other(e) = x
        BY <1>2, <1>3, <2>1
      <3>2. streams[e] = {} /\ loop[e] = Nothing /\ queue[Other(e)] = <<>> /\ \A id \in Ids : task[e][id] = Gone
        BY <2>1 DEF MuxInv, EndedInv
      <3> QED
        BY <1>3, <3>1, <3>2
    <2>2. ~session["guest"] => events' = <<>>
      BY <1>3 DEF MuxInv, EndedInv, IsRest
    <2>3. broken => \A e \in Ends : queue'[e] = <<>>
      BY <1>2, <1>3 DEF MuxInv, EndedInv, IsRest
    <2> QED
      BY <1>3, <2>1, <2>2, <2>3 DEF EndedInv
  <1>11. KindsInv'
    <2>1. \A i \in 1..Len(queue'["host"]) : queue'["host"][i].kind # "open"
      <3>1. \A i \in 1..Len(queue["host"]) : queue["host"][i].kind # "open"
        BY DEF MuxInv, KindsInv
      <3>2. \A i \in 1..Len(queue'["host"]) : \E k \in 1..Len(queue["host"]) : queue'["host"][i] = queue["host"][k]
        BY <1>2 DEF Ends
      <3> QED
        BY <3>1, <3>2
    <2>2. ASSUME NEW e \in Ends, loop'[e] # Nothing
          PROVE  /\ e = "host" => loop'[e].kind # "open"
                 /\ loop'[e].kind # "fin" /\ (loop'[e].kind = "data" => udp[loop'[e].id] # Nothing)
      BY <1>2, <1>3, <2>2 DEF MuxInv, KindsInv
    <2>3. "host" \in Ends
      BY DEF Ends
    <2> QED
      BY <1>3, <2>1, <2>2, <2>3 DEF KindsInv
  <1>12. ListInv'
    <2>1. CASE events' = events
      BY <1>3, <2>1 DEF MuxInv, ListInv
    <2>2. CASE IsRest(events', events)
      BY <1>1, <1>3, <2>2, ListRest DEF MuxInv
    <2> QED
      BY <1>3, <2>1, <2>2
  <1>13. ASSUME NEW id \in Ids
         PROVE  /\ HostUnopened(id) => HostUnopened(id)'
                /\ GuestUnopened(id) => GuestUnopened(id)'
    <2>1. \A e \in Ends : NoParts(queue[e], id) => NoParts(queue'[e], id)
      BY <1>2 DEF Keeps
    <2>2. ASSUME HostUnopened(id)
          PROVE  HostUnopened(id)'
      <3>1. task'["host"][id] = task["host"][id] /\ id \notin streams'["host"]
        BY <1>5, <1>6, <2>2 DEF HostUnopened, Ends
      <3> QED
        BY <1>3, <2>1, <2>2, <3>1 DEF HostUnopened, Ends
    <2>3. ASSUME GuestUnopened(id)
          PROVE  GuestUnopened(id)'
      <3>1. task'["guest"][id] = task["guest"][id]
        BY <1>5, <2>3, UnopenedFact DEF GuestUnopened, Ends
      <3> QED
        BY <1>2, <1>3, <2>1, <2>3, <3>1 DEF GuestUnopened, Ends
    <2> QED
      BY <2>2, <2>3
  <1>14. ComingInv'
    <2>1. SUFFICES ASSUME NEW id \in Ids, Coming(id)'
                   PROVE  (HostUnopened(id) /\ GuestUnopened(id) /\ id \notin streams["guest"] /\ loop["guest"] # OPEN(id))'
      BY DEF ComingInv
    <2>2. Coming(id)
      BY <1>2, <1>3, <2>1 DEF Coming
    <2>3. HostUnopened(id) /\ GuestUnopened(id) /\ id \notin streams["guest"] /\ loop["guest"] # OPEN(id)
      BY <2>2 DEF MuxInv, ComingInv
    <2>4. id \notin streams'["guest"] /\ loop'["guest"] # OPEN(id)
      BY <1>6, <1>7, <2>3 DEF Ends
    <2> QED
      BY <1>13, <2>3, <2>4
  <1>15. OpeningInv'
    BY <1>7, <1>13 DEF MuxInv, OpeningInv
  <1>16. OpenedInv'
    <2>1. SUFFICES ASSUME NEW id \in Ids
                   PROVE  /\ Opened(id)' => HostUnopened(id)'
                          /\ \A k, l \in 1..Len(queue'["guest"]) : queue'["guest"][k] = OPEN(id) =>
                                /\ queue'["guest"][l] = OPEN(id) => k = l
                                /\ udp[id] = Nothing /\ IsPart(queue'["guest"][l], id) => k < l
      BY <1>3 DEF OpenedInv, OpensFirst
    <2>2. Opened(id)' => HostUnopened(id)'
      BY <1>2, <1>13 DEF MuxInv, OpenedInv, OpensFirst
    <2>3. \A k, l \in 1..Len(queue["guest"]) : queue["guest"][k] = OPEN(id) =>
                                /\ queue["guest"][l] = OPEN(id) => k = l
                                /\ udp[id] = Nothing /\ IsPart(queue["guest"][l], id) => k < l
      BY DEF MuxInv, OpenedInv, OpensFirst
    <2>4. CASE queue'["guest"] = queue["guest"]
      BY <2>2, <2>3, <2>4
    <2>5. CASE IsRest(queue'["guest"], queue["guest"])
      <3>1. PICK p, q : p = queue["guest"] /\ q = queue'["guest"]
        OBVIOUS
      <3>2. /\ Len(p) \in Nat /\ Len(q) \in Nat /\ \A i \in 1..Len(q) : q[i] = p[i + 1] /\ i + 1 \in 1..Len(p)
        BY <1>1, <2>5, <3>1 DEF MuxTypes, IsRest, Ends
      <3>3. ASSUME NEW k \in 1..Len(q), NEW l \in 1..Len(q), q[k] = OPEN(id)
            PROVE  /\ q[l] = OPEN(id) => k = l
                   /\ udp[id] = Nothing /\ IsPart(q[l], id) => k < l
        <4>1. k + 1 \in 1..Len(p) /\ l + 1 \in 1..Len(p) /\ q[k] = p[k + 1] /\ q[l] = p[l + 1]
          BY <3>2
        <4>2. /\ q[l] = OPEN(id) => k + 1 = l + 1
              /\ udp[id] = Nothing /\ IsPart(q[l], id) => k + 1 < l + 1
          BY <2>3, <3>1, <3>3, <4>1
        <4> QED
          BY <4>2
      <3> QED
        BY <2>2, <3>1, <3>3
    <2> QED
      BY <1>2, <1>3, <2>4, <2>5 DEF Ends
  <1>17. EntriesHaveTasks'
    <2>1. SUFFICES ASSUME NEW e \in Ends, NEW id \in Ids, id \in streams'[e]
                   PROVE  task'[e][id].st \in {"dial", "run", "ending", "done"} \/ loop'[e] = OPEN(id)
      BY DEF EntriesHaveTasks
    <2>2. task[e][id].st \in {"dial", "run", "ending", "done"} \/ loop[e] = OPEN(id)
      BY <1>6, <2>1 DEF MuxInv, EntriesHaveTasks
    <2>3. CASE e = x
      <3>1. loop[x] # OPEN(id)
        BY <1>3, FrameFact
      <3> QED
        BY <1>4, <2>2, <2>3, <3>1
    <2>4. CASE e = o
      BY <1>3, <2>2, <2>4
    <2> QED
      BY <1>2, <2>3, <2>4
  <1> QED
    BY <1>8, <1>9, <1>10, <1>11, <1>12, <1>14, <1>15, <1>16, <1>17, HandlesStreams DEF MuxInv

LEMMA BeatInv ==
  ASSUME MuxInv, NEW x \in Ends, Beat(x)
  PROVE  MuxInv'
  <1>1. PICK o \in Ends : o = Other(x) /\ o # x
    BY OtherFact
  <1>2. MuxTypes /\ PING \in Frames
    <2>1. PING \in Frames
      BY DEF Frames, PING, Frame
    <2> QED
      BY <2>1 DEF MuxInv
  <1>3. MuxTypes'
    BY <1>2 DEF MuxTypes, Beat, network, table
  <1>4. loop'[x] = PING /\ loop'[o] = loop[o]
    BY <1>1, <1>2 DEF MuxTypes, Beat
  <1>5. PING.kind = "ping"
    BY DEF PING, Frame
  <1>6. Handles(x, PING, o)
    BY <1>4, <1>5 DEF Handles, Passed, Beat, network, table
  <1> QED
    BY <1>1, <1>3, <1>6, HandlesInv

LEMMA ReceiveFact ==
  ASSUME MuxInv, NEW x \in Ends, NEW o \in Ends, o = Other(x), Receive(x)
  PROVE  \E q \in Seq(Frames), d \in Seq(Frames), f \in Frames :
            /\ q = queue[o] /\ IsRest(d, q) /\ f = q[1] /\ f = Head(queue[o])
            /\ queue' = [queue EXCEPT ![o] = d] /\ queue'[o] = d /\ queue'[x] = queue[x]
            /\ queue' \in [Ends -> Seq(Frames)]
  <1>1. queue \in [Ends -> Seq(Frames)] /\ x # o
    BY OtherFact DEF MuxInv, MuxTypes
  <1>2. PICK q \in Seq(Frames) : q = queue[o] /\ q # <<>>
    BY <1>1 DEF Receive
  <1>3. PICK d : d = Tail(q) /\ d \in Seq(Frames) /\ IsRest(d, q) /\ Head(q) = q[1] /\ q[1] \in Frames
    BY <1>2, TailIsRest
  <1>4. queue' = [queue EXCEPT ![o] = d]
    BY <1>2, <1>3 DEF Receive
  <1>5. d \in Seq(Frames) /\ IsRest(d, q) /\ q[1] \in Frames /\ q[1] = Head(queue[o])
    BY <1>2, <1>3
  <1>6. queue'[o] = d /\ queue'[x] = queue[x] /\ queue' \in [Ends -> Seq(Frames)]
    BY <1>1, <1>4, <1>5
  <1> QED
    BY <1>2, <1>4, <1>5, <1>6

\* A frame other than an OPEN.
LEMMA ReceiveInv ==
  ASSUME MuxInv, NEW x \in Ends, NEW o \in Ends, o = Other(x), Receive(x), Head(queue[o]).kind # "open"
  PROVE  MuxInv'
  <1>1. x # o /\ MuxTypes
    BY OtherFact DEF MuxInv
  <1>2. PICK q \in Seq(Frames), d \in Seq(Frames), f \in Frames :
            /\ q = queue[o] /\ IsRest(d, q) /\ f = q[1] /\ f = Head(queue[o])
            /\ queue' = [queue EXCEPT ![o] = d] /\ queue'[o] = d /\ queue'[x] = queue[x]
            /\ queue' \in [Ends -> Seq(Frames)]
    BY ReceiveFact
  <1>3. /\ session[x] /\ loop[x] = Nothing /\ UNCHANGED <<session, broken, app, udp, counter, flows, events>>
        /\ \/ f.kind = "ping" /\ loop' = [loop EXCEPT ![x] = PONG] /\ streams' = streams /\ task' = task
           \/ f.kind = "pong" /\ loop' = loop /\ streams' = streams /\ task' = task
           \/ /\ f.kind = "reset" /\ streams' = [streams EXCEPT ![x] = @ \ {f.id}]
              /\ loop' = loop /\ task' = task
           \/ f.kind \in {"data", "fin"} /\ f.id \in streams[x] /\ Deliver(x, f)
           \/ /\ f.kind \in {"data", "fin"} /\ f.id \notin streams[x]
              /\ loop' = loop /\ streams' = streams /\ task' = task
    BY <1>1, <1>2 DEF Receive, network
  <1>4. f.kind # "open" /\ (f.kind \in {"data", "fin", "reset"} => f.id \in Ids)
        /\ \A id : f.kind \notin {"data", "fin"} \/ f.id # id => ~IsPart(f, id)
    BY <1>2 DEF Frames, IsPart
  <1>5. /\ streams \in [Ends -> SUBSET Ids] /\ loop \in [Ends -> Frames \cup {Nothing}]
        /\ task \in [Ends -> [Ids -> StreamTasks]]
    BY <1>1 DEF MuxTypes
  <1>6. CASE f.kind = "ping" /\ loop' = [loop EXCEPT ![x] = PONG] /\ streams' = streams /\ task' = task
    <2>1. PONG \in Frames /\ PONG.kind = "pong"
      BY DEF PONG, Frame, Frames
    <2>2. MuxTypes' /\ loop'[x] = PONG /\ loop'[o] = loop[o]
      BY <1>1, <1>2, <1>3, <1>5, <1>6, <2>1 DEF MuxTypes
    <2>3. Handles(x, PONG, o)
      BY <1>2, <1>3, <1>4, <1>6, <2>1, <2>2 DEF Handles, Passed
    <2> QED
      BY <2>2, <2>3, HandlesInv
  <1>7. CASE f.kind = "pong" /\ loop' = loop /\ streams' = streams /\ task' = task
    <2>1. MuxTypes'
      BY <1>1, <1>2, <1>3, <1>7 DEF MuxTypes
    <2>2. Handles(x, Nothing, o)
      BY <1>2, <1>3, <1>4, <1>7 DEF Handles, Passed
    <2> QED
      BY <2>1, <2>2, HandlesInv
  <1>8. CASE f.kind = "reset" /\ streams' = [streams EXCEPT ![x] = @ \ {f.id}] /\ loop' = loop /\ task' = task
    <2>1. streams' \in [Ends -> SUBSET Ids] /\ streams'[x] \subseteq streams[x] /\ streams'[o] = streams[o]
      BY <1>1, <1>5, <1>8
    <2>2. MuxTypes'
      BY <1>1, <1>2, <1>3, <1>8, <2>1 DEF MuxTypes
    <2>3. Handles(x, Nothing, o)
      BY <1>2, <1>3, <1>4, <1>8, <2>1 DEF Handles, Passed
    <2> QED
      BY <2>2, <2>3, HandlesInv
  <1>9. CASE f.kind \in {"data", "fin"} /\ f.id \notin streams[x] /\ loop' = loop /\ streams' = streams /\ task' = task
    <2>1. MuxTypes'
      BY <1>1, <1>2, <1>3, <1>9 DEF MuxTypes
    <2>2. \A id \in Ids : Passed(x, id, o)
      BY <1>2, <1>4, <1>9 DEF Passed
    <2>3. Handles(x, Nothing, o)
      BY <1>2, <1>3, <1>4, <1>9, <2>2 DEF Handles
    <2> QED
      BY <2>1, <2>3, HandlesInv
  <1>10. CASE f.kind \in {"data", "fin"} /\ f.id \in streams[x] /\ Reset(x, f.id)
    <2>1. RESET(f.id) \in Frames /\ RESET(f.id).kind = "reset"
      <3>1. RESET(f.id) \in Frames
        BY <1>4, <1>10, FrameFact
      <3>2. RESET(f.id).kind = "reset"
        BY DEF RESET, Frame
      <3> QED
        BY <3>1, <3>2
    <2>2. /\ streams' = [streams EXCEPT ![x] = @ \ {f.id}] /\ loop' = [loop EXCEPT ![x] = RESET(f.id)] /\ task' = task
      BY <1>10 DEF Reset
    <2>3. /\ streams' \in [Ends -> SUBSET Ids] /\ streams'[x] \subseteq streams[x] /\ streams'[o] = streams[o]
          /\ f.id \notin streams'[x]
      BY <1>1, <1>5, <2>2
    <2>4. loop' \in [Ends -> Frames \cup {Nothing}] /\ loop'[x] = RESET(f.id) /\ loop'[o] = loop[o]
      BY <1>1, <1>5, <2>1, <2>2
    <2>5. MuxTypes'
      BY <1>1, <1>2, <1>3, <2>2, <2>3, <2>4 DEF MuxTypes
    <2>6. \A id \in Ids : Passed(x, id, o)
      BY <1>2, <1>4, <2>2, <2>3 DEF Passed
    <2>7. Handles(x, RESET(f.id), o)
      BY <1>2, <1>3, <1>4, <2>1, <2>2, <2>3, <2>4, <2>6 DEF Handles
    <2> QED
      BY <2>5, <2>7, HandlesInv
  <1>11. CASE /\ f.kind \in {"data", "fin"} /\ f.id \in streams[x] /\ Accepts(x, f.id)
              /\ task' = [task EXCEPT ![x][f.id].chan = Append(@, f)] /\ streams' = streams /\ loop' = loop
    <2>1. PICK i \in Ids : i = f.id
      BY <1>4, <1>11
    <2>2. PICK u \in StreamTasks, c \in Seq(Frames) : u = task[x][i] /\ c = u.chan
      BY <1>5 DEF StreamTasks
    <2>3. PICK e : e = Append(c, f) /\ e \in Seq(Frames) /\ IsMore(e, c, f)
      BY AppendIsMore
    <2>4. e \in Seq(Frames) /\ IsMore(e, c, f)
      BY <2>3
    <2>5. PICK t : t = [u EXCEPT !.chan = e]
      OBVIOUS
    <2>6. task' = [task EXCEPT ![x][i] = t]
      BY <1>11, <2>1, <2>2, <2>3, <2>5
    <2>7. t \in StreamTasks /\ t.st = u.st /\ t.chan = e /\ t.hold = u.hold /\ t.rdone = u.rdone /\ t.wdone = u.wdone
      BY <2>2, <2>4, <2>5 DEF StreamTasks
    <2>8. u.st \in {"dial", "run"} /\ Len(e) <= ChanCap
      <3>1. u.st \in {"dial", "run", "ending"} /\ u.st # "ending" /\ Len(c) < ChanCap
        BY <1>11, <2>1, <2>2 DEF Accepts, Live
      <3>2. Len(e) = Len(c) + 1 /\ Len(c) \in Nat /\ ChanCap \in Nat
        BY <2>4, MuxAssumption DEF IsMore, MuxAssumption
      <3> QED
        BY <3>1, <3>2
    <2>9. /\ task' \in [Ends -> [Ids -> StreamTasks]] /\ task'[x][i] = t
          /\ \A id \in Ids : task'[o][id] = task[o][id] /\ (id # i => task'[x][id] = task[x][id])
      BY <1>1, <1>5, <2>6, <2>7
    <2>10. MuxTypes'
      BY <1>1, <1>2, <1>3, <1>11, <2>9 DEF MuxTypes
    <2>11. Delivered(x, i, o)
      <3>1. IsPart(q[1], i)
        BY <1>2, <1>11, <2>1 DEF IsPart
      <3>2. queue[o] = q /\ queue'[o] = d /\ task'[x][i] = t /\ task[x][i] = u /\ u.chan = c /\ q[1] = f /\ IsRest(d, q)
            /\ i \in streams[x]
        BY <1>2, <1>11, <2>1, <2>2, <2>9
      <3> QED
        BY <2>4, <2>7, <2>8, <3>1, <3>2 DEF Delivered
    <2>12. \A id \in Ids : Passed(x, id, o) \/ Delivered(x, id, o)
      <3>1. \A id \in Ids : id # i => Passed(x, id, o)
        BY <1>2, <1>4, <2>1, <2>9 DEF Passed
      <3> QED
        BY <2>11, <3>1
    <2>13. Handles(x, Nothing, o)
      BY <1>2, <1>3, <1>4, <1>11, <2>9, <2>12 DEF Handles
    <2> QED
      BY <2>10, <2>13, HandlesInv
  <1> QED
    BY <1>3, <1>6, <1>7, <1>8, <1>9, <1>10, <1>11 DEF Deliver

LEMMA EventsRest ==
  ASSUME NEW c \in Seq(Events), c # <<>>
  PROVE  Tail(c) \in Seq(Events) /\ IsRest(Tail(c), c) /\ Head(c) = c[1] /\ c[1] \in Events
  BY DEF IsRest

\* A datagram or the end of a flow.
LEMMA LocalInv ==
  ASSUME MuxInv, Local, Head(events).kind \notin {"tcp", "udp"}
  PROVE  MuxInv'
  <1>1. PICK x \in Ends, o \in Ends : x = "guest" /\ o = "host" /\ o = Other(x) /\ x # o
    BY DEF Ends, Other
  <1>2. MuxTypes
    BY DEF MuxInv
  <1>3. PICK p : p = events /\ p \in Seq(Events) /\ p # <<>>
    BY <1>2 DEF MuxTypes, Local
  <1>4. PICK d : d = Tail(p) /\ d \in Seq(Events) /\ IsRest(d, p) /\ Head(p) = p[1] /\ p[1] \in Events
    BY <1>3, EventsRest
  <1>5. PICK v \in Events : v = p[1] /\ v = Head(events)
    BY <1>3, <1>4
  <1>6. d \in Seq(Events) /\ IsRest(d, p) /\ events' = d
    BY <1>3, <1>4 DEF Local
  <1>7. v.id \in Ids /\ v.kind \in {"datagram", "close"} /\ udp[v.id] # Nothing /\ ~IsNew(v)
    <2>1. v.id \in Ids /\ v.kind \in {"datagram", "close"} /\ ~IsNew(v)
      BY <1>5 DEF Events, IsNew
    <2>2. 1 \in 1..Len(events)
      BY <1>3, <1>6 DEF IsRest
    <2>3. udp[v.id] # Nothing
      BY <1>3, <1>5, <2>1, <2>2 DEF MuxInv, ListInv
    <2> QED
      BY <2>1, <2>3
  <1>8. /\ session[x] /\ loop[x] = Nothing /\ UNCHANGED <<session, broken, queue, app, udp, counter, flows>>
        /\ \/ /\ v.id \in streams[x] /\ loop' = [loop EXCEPT ![x] = DATA(v.id, 0)]
              /\ streams' = streams /\ task' = task
           \/ loop' = loop /\ streams' = streams /\ task' = task
           \/ Reset(x, v.id)
    BY <1>1, <1>5, <1>7 DEF Local, network
  <1>9. /\ streams \in [Ends -> SUBSET Ids] /\ loop \in [Ends -> Frames \cup {Nothing}]
    BY <1>2 DEF MuxTypes
  <1>10. events' = events \/ (IsRest(events', events) /\ ~IsNew(events[1]))
    BY <1>3, <1>5, <1>6, <1>7
  <1>11. CASE /\ v.id \in streams[x] /\ loop' = [loop EXCEPT ![x] = DATA(v.id, 0)]
              /\ streams' = streams /\ task' = task
    <2>1. PICK g \in Frames : g = DATA(v.id, 0) /\ g.kind = "data" /\ g.id = v.id
      <3>1. DATA(v.id, 0) \in Frames
        BY <1>7, FrameFact
      <3>2. DATA(v.id, 0).kind = "data" /\ DATA(v.id, 0).id = v.id
        BY DEF DATA, Frame
      <3> QED
        BY <3>1, <3>2
    <2>2. MuxTypes' /\ loop'[x] = g /\ loop'[o] = loop[o]
      BY <1>1, <1>2, <1>6, <1>8, <1>9, <1>11, <2>1 DEF MuxTypes
    <2>3. Handles(x, g, o)
      BY <1>7, <1>8, <1>10, <1>11, <2>1, <2>2 DEF Handles, Passed
    <2> QED
      BY <1>1, <2>2, <2>3, HandlesInv
  <1>12. CASE loop' = loop /\ streams' = streams /\ task' = task
    <2>1. MuxTypes'
      BY <1>2, <1>6, <1>8, <1>12 DEF MuxTypes
    <2>2. Handles(x, Nothing, o)
      BY <1>8, <1>10, <1>12 DEF Handles, Passed
    <2> QED
      BY <1>1, <2>1, <2>2, HandlesInv
  <1>13. CASE Reset(x, v.id)
    <2>1. PICK g \in Frames : g = RESET(v.id) /\ g.kind = "reset"
      <3>1. RESET(v.id) \in Frames
        BY <1>7, FrameFact
      <3>2. RESET(v.id).kind = "reset"
        BY DEF RESET, Frame
      <3> QED
        BY <3>1, <3>2
    <2>2. /\ streams' = [streams EXCEPT ![x] = @ \ {v.id}] /\ loop' = [loop EXCEPT ![x] = g] /\ task' = task
      BY <1>13, <2>1 DEF Reset
    <2>3. /\ streams' \in [Ends -> SUBSET Ids] /\ streams'[x] \subseteq streams[x] /\ streams'[o] = streams[o]
      BY <1>1, <1>9, <2>2
    <2>4. loop' \in [Ends -> Frames \cup {Nothing}] /\ loop'[x] = g /\ loop'[o] = loop[o]
      BY <1>1, <1>9, <2>1, <2>2
    <2>5. MuxTypes'
      BY <1>2, <1>6, <1>8, <2>2, <2>3, <2>4 DEF MuxTypes
    <2>6. Handles(x, g, o)
      BY <1>8, <1>10, <2>1, <2>2, <2>3, <2>4 DEF Handles, Passed
    <2> QED
      BY <1>1, <2>5, <2>6, HandlesInv
  <1> QED
    BY <1>8, <1>11, <1>12, <1>13

-----------------------------------------------------------------------------
(* The host takes an OPEN *)

LEMMA RestOpens ==
  ASSUME NEW q \in Seq(Frames), NEW r \in Seq(Frames), IsRest(r, q), NEW id, NEW tcp, OpensFirst(q, id, tcp)
  PROVE  OpensFirst(r, id, tcp) /\ (q[1] = OPEN(id) => \A k \in 1..Len(r) : r[k] # OPEN(id))
  <1>1. /\ Len(q) \in Nat /\ Len(r) \in Nat /\ \A i \in 1..Len(r) : r[i] = q[i + 1] /\ i + 1 \in 1..Len(q)
        /\ 1 \in 1..Len(q)
    BY DEF IsRest
  <1>2. ASSUME NEW k \in 1..Len(r), NEW l \in 1..Len(r), r[k] = OPEN(id)
        PROVE  /\ r[l] = OPEN(id) => k = l
               /\ tcp /\ IsPart(r[l], id) => k < l
    <2>1. k + 1 \in 1..Len(q) /\ l + 1 \in 1..Len(q) /\ r[k] = q[k + 1] /\ r[l] = q[l + 1]
      BY <1>1
    <2>2. /\ q[l + 1] = OPEN(id) => k + 1 = l + 1
          /\ tcp /\ IsPart(q[l + 1], id) => k + 1 < l + 1
      BY <1>2, <2>1 DEF OpensFirst
    <2> QED
      BY <2>1, <2>2
  <1>3. ASSUME q[1] = OPEN(id), NEW k \in 1..Len(r), r[k] = OPEN(id)
        PROVE  FALSE
    <2>1. k + 1 \in 1..Len(q) /\ r[k] = q[k + 1] /\ 1 # k + 1
      BY <1>1
    <2> QED
      BY <1>1, <1>3, <2>1 DEF OpensFirst
  <1> QED
    BY <1>2, <1>3 DEF OpensFirst

\* The host takes the OPEN of stream i: it gets task t and an entry, or is gone.
TakesOpen(i, t) ==
    /\ session["host"] /\ loop["host"] = Nothing
    /\ IsRest(queue'["guest"], queue["guest"]) /\ queue["guest"][1] = OPEN(i)
    /\ queue'["host"] = queue["host"] /\ streams'["guest"] = streams["guest"] /\ loop'["guest"] = loop["guest"]
    /\ task' = [task EXCEPT !["host"][i] = t] /\ t \in StreamTasks /\ t.chan = <<>> /\ Still(t)
    /\ \/ /\ t.st = IF udp[i] = Nothing THEN "dial" ELSE "run"
          /\ Cardinality(streams["host"]) < Limit /\ streams'["host"] = streams["host"] \cup {i}
          /\ loop'["host"] = Nothing
       \/ t = Gone /\ streams'["host"] = streams["host"] /\ loop'["host"] = RESET(i)
    /\ UNCHANGED <<session, broken, app, udp, counter, flows, events>>

LEMMA TakesOpenFact ==
  ASSUME MuxInv, MuxTypes', NEW i \in Ids, NEW t, TakesOpen(i, t)
  PROVE  /\ task'["host"][i] = t /\ task["host"][i] = Unopened /\ i \notin streams["host"]
         /\ \A e \in Ends, id \in Ids : e # "host" \/ id # i => task'[e][id] = task[e][id]
         /\ \A e \in Ends, id \in Ids : id # i => (id \in streams'[e] <=> id \in streams[e])
         /\ \A id : Opened(id)' => Opened(id)
         /\ Opened(i) /\ ~Opened(i)' /\ HostUnopened(i)
         /\ \A e \in Ends, id \in Ids : /\ Keeps(queue[e], queue'[e], id) /\ Follows(queue[e], queue'[e], id)
                                        /\ Reaches(queue[e], queue'[e], id)
         /\ \A e \in Ends : Len(queue'[e]) <= Len(queue[e])
         /\ \A id \in Ids : OpensFirst(queue'["guest"], id, udp[id] = Nothing)
  <1>1. MuxTypes /\ "host" \in Ends /\ "guest" \in Ends
    BY DEF MuxInv, Ends
  <1>2. task'["host"][i] = t /\ \A e \in Ends, id \in Ids : e # "host" \/ id # i => task'[e][id] = task[e][id]
    BY <1>1 DEF TakesOpen, MuxTypes
  <1>3. PICK q \in Seq(Frames), r \in Seq(Frames) : q = queue["guest"] /\ r = queue'["guest"]
    BY <1>1 DEF MuxTypes
  <1>4. IsRest(r, q) /\ q[1] = OPEN(i)
    BY <1>3 DEF TakesOpen
  <1>5. Opened(i)
    <2>1. 1 \in 1..Len(q)
      BY <1>4 DEF IsRest
    <2> QED
      BY <1>3, <1>4, <2>1 DEF Opened
  <1>6. HostUnopened(i)
    BY <1>5 DEF MuxInv, OpenedInv
  <1>7. task["host"][i] = Unopened /\ i \notin streams["host"]
    BY <1>6 DEF HostUnopened, TakesOpen
  <1>8. \A e \in Ends, id \in Ids : id # i => (id \in streams'[e] <=> id \in streams[e])
    BY DEF TakesOpen, Ends
  <1>9. \A id \in Ids : OpensFirst(r, id, udp[id] = Nothing) /\ (q[1] = OPEN(id) => \A k \in 1..Len(r) : r[k] # OPEN(id))
    <2>1. SUFFICES ASSUME NEW id \in Ids
                   PROVE  OpensFirst(r, id, udp[id] = Nothing) /\ (q[1] = OPEN(id) => \A k \in 1..Len(r) : r[k] # OPEN(id))
      OBVIOUS
    <2>2. PICK tcp : tcp = (udp[id] = Nothing)
      OBVIOUS
    <2>3. OpensFirst(q, id, tcp)
      BY <1>3, <2>2 DEF MuxInv, OpenedInv, OpensFirst
    <2>4. OpensFirst(r, id, tcp) /\ (q[1] = OPEN(id) => \A k \in 1..Len(r) : r[k] # OPEN(id))
      BY <1>4, <2>3, RestOpens
    <2> QED
      BY <2>2, <2>4 DEF OpensFirst
  <1>10. \A id : Opened(id)' => Opened(id)
    <2>1. \A k \in 1..Len(r) : \E l \in 1..Len(q) : r[k] = q[l]
      BY <1>4 DEF IsRest
    <2> QED
      BY <1>3, <2>1 DEF Opened
  <1>11. ~Opened(i)'
    BY <1>3, <1>4, <1>9 DEF Opened
  <1>12. \A e \in Ends, id \in Ids : /\ Keeps(queue[e], queue'[e], id) /\ Follows(queue[e], queue'[e], id)
                                     /\ Reaches(queue[e], queue'[e], id)
    <2>1. ASSUME NEW id \in Ids
          PROVE  Keeps(q, r, id) /\ Follows(q, r, id) /\ Reaches(q, r, id)
      <3>1. ~IsPart(q[1], id)
        BY <1>4 DEF IsPart, OPEN, Frame
      <3> QED
        BY <1>4, <3>1, RestKeeps
    <2>2. queue'["host"] = queue["host"]
      BY DEF TakesOpen
    <2>3. ASSUME NEW e \in Ends, NEW id \in Ids
          PROVE  /\ Keeps(queue[e], queue'[e], id) /\ Follows(queue[e], queue'[e], id)
                 /\ Reaches(queue[e], queue'[e], id)
      <3>1. CASE e = "guest"
        BY <1>3, <2>1, <3>1
      <3>2. CASE e = "host"
        BY <2>2, <3>2, SameKeeps
      <3> QED
        BY <3>1, <3>2 DEF Ends
    <2> QED
      BY <2>3
  <1>13. \A e \in Ends : Len(queue'[e]) <= Len(queue[e])
    <2>1. Len(r) <= Len(q)
      BY <1>4 DEF IsRest
    <2>2. queue'["host"] = queue["host"] /\ queue["host"] \in Seq(Frames)
      BY <1>1 DEF TakesOpen, MuxTypes
    <2> QED
      BY <1>3, <2>1, <2>2 DEF Ends
  <1> QED
    BY <1>2, <1>3, <1>5, <1>6, <1>7, <1>8, <1>9, <1>10, <1>11, <1>12, <1>13

LEMMA TakesOpenStreams ==
  ASSUME MuxInv, MuxTypes', NEW i \in Ids, NEW t, TakesOpen(i, t)
  PROVE  StreamsInv'
  <1>1. /\ task'["host"][i] = t /\ task["host"][i] = Unopened /\ i \notin streams["host"]
        /\ \A e \in Ends, id \in Ids : e # "host" \/ id # i => task'[e][id] = task[e][id]
        /\ \A e \in Ends, id \in Ids : id # i => (id \in streams'[e] <=> id \in streams[e])
        /\ \A id : Opened(id)' => Opened(id)
        /\ Opened(i) /\ ~Opened(i)' /\ HostUnopened(i)
        /\ \A e \in Ends, id \in Ids : /\ Keeps(queue[e], queue'[e], id) /\ Follows(queue[e], queue'[e], id)
                                       /\ Reaches(queue[e], queue'[e], id)
    BY TakesOpenFact
  <1>2. /\ app' = app /\ broken' = broken /\ udp' = udp /\ t.chan = <<>> /\ t.hold = Nothing
        /\ streams'["guest"] = streams["guest"]
    BY DEF TakesOpen, Still
  <1>3. /\ Unopened.st = "none" /\ Unopened.hold = Nothing /\ Unopened.chan = <<>>
    BY UnopenedFact
  <1>4. \A e \in Ends, id \in Ids : task'[e][id].chan = task[e][id].chan /\ task'[e][id].hold = task[e][id].hold
    BY <1>1, <1>2, <1>3
  <1>5. \A e \in Ends, id \in Ids : Put(e, id)' = Put(e, id)
    BY <1>2, <1>4 DEF Put
  <1>6. \A e \in Ends, id \in Ids : Pending(e, id)' => Pending(e, id)
    BY <1>1, <1>3 DEF Pending
  <1>7. ASSUME NEW e \in Ends, NEW id \in Ids, SenderInv(e, id)
        PROVE  SenderInv(e, id)'
    <2>1. CASE e = "host" /\ id = i
      <3>1. FIN(i) # Nothing /\ \A n \in Nat : DATA(i, n) # Nothing
        BY FrameFact
      <3>2. app'["host"][i].sent = 0
        BY <1>1, <1>2 DEF HostUnopened, Silent
      <3> QED
        BY <1>1, <1>2, <2>1, <3>1, <3>2 DEF SenderInv
    <2>2. CASE ~(e = "host" /\ id = i)
      BY <1>1, <1>2, <1>7, <2>2 DEF SenderInv
    <2> QED
      BY <2>1, <2>2
  <1>8. ASSUME NEW e \in Ends, NEW id \in Ids, Tracked(e, id)'
        PROVE  Tracked(e, id)
    <2>1. CASE e = "host" /\ id = i
      BY <1>1, <2>1 DEF Tracked
    <2>2. CASE ~(e = "host" /\ id = i)
      <3>1. id \in streams'[e] => id \in streams[e]
        BY <1>1, <1>2, <2>2 DEF Ends
      <3> QED
        BY <1>1, <1>8, <2>2, <3>1 DEF Tracked
    <2> QED
      BY <2>1, <2>2
  <1>9. ASSUME NEW e \in Ends, NEW id \in Ids, udp[id] = Nothing
        PROVE  SenderInv(e, id)' /\ Quiet(e, id)
    <2>1. PICK o \in Ends : o = Other(e)
      BY OtherFact
    <2>2. SenderInv(e, id)' /\ SenderInv(o, id)'
      BY <1>7, <1>9 DEF MuxInv, StreamsInv
    <2>3. Quiet(e, id)
      BY <1>1, <1>2, <1>4, <1>5, <1>6, <1>8, <2>1, <2>2 DEF Quiet
    <2> QED
      BY <2>2, <2>3
  <1> QED
    BY <1>2, <1>9, StreamsKeep

LEMMA TakesOpenInv ==
  ASSUME MuxInv, MuxTypes', NEW i \in Ids, NEW t, TakesOpen(i, t)
  PROVE  MuxInv'
  <1>1. /\ task'["host"][i] = t /\ task["host"][i] = Unopened /\ i \notin streams["host"]
        /\ \A e \in Ends, id \in Ids : e # "host" \/ id # i => task'[e][id] = task[e][id]
        /\ \A e \in Ends, id \in Ids : id # i => (id \in streams'[e] <=> id \in streams[e])
        /\ \A id : Opened(id)' => Opened(id)
        /\ Opened(i) /\ ~Opened(i)'
        /\ \A e \in Ends, id \in Ids : Keeps(queue[e], queue'[e], id)
        /\ \A e \in Ends : Len(queue'[e]) <= Len(queue[e])
        /\ \A id \in Ids : OpensFirst(queue'["guest"], id, udp[id] = Nothing)
    BY TakesOpenFact
  <1>2. /\ session["host"] /\ loop["host"] = Nothing /\ loop'["guest"] = loop["guest"]
        /\ t.chan = <<>> /\ Still(t) /\ IsRest(queue'["guest"], queue["guest"])
        /\ queue'["host"] = queue["host"] /\ streams'["guest"] = streams["guest"]
        /\ session' = session /\ broken' = broken /\ app' = app /\ udp' = udp /\ counter' = counter
        /\ flows' = flows /\ events' = events
        /\ loop'["host"] \in {Nothing, RESET(i)}
    BY DEF TakesOpen
  <1>3. \/ t.st \in {"dial", "run"} /\ Cardinality(streams["host"]) < Limit /\ streams'["host"] = streams["host"] \cup {i}
        \/ t.st = "gone" /\ streams'["host"] = streams["host"]
    BY GoneFact DEF TakesOpen
  <1>4. MuxTypes /\ "host" \in Ends /\ "guest" \in Ends /\ RESET(i).kind = "reset"
    BY DEF MuxInv, Ends, RESET, Frame
  <1>5. Bounds'
    <2>1. ASSUME NEW e \in Ends
          PROVE  Len(queue'[e]) <= QueueCap
      <3>1. Len(queue'[e]) \in Nat /\ Len(queue[e]) \in Nat /\ QueueCap \in Nat
        BY <1>4, MuxAssumption DEF MuxTypes, MuxAssumption
      <3>2. Len(queue'[e]) <= Len(queue[e]) /\ Len(queue[e]) <= QueueCap
        BY <1>1 DEF MuxInv, Bounds
      <3> QED
        BY <3>1, <3>2
    <2>2. ASSUME NEW e \in Ends
          PROVE  Cardinality(streams'[e]) <= Limit
      <3>1. Cardinality(streams[e]) <= Limit /\ Limit \in Nat
        BY MuxAssumption DEF MuxInv, Bounds, MuxAssumption
      <3>2. CASE streams'[e] = streams[e]
        BY <3>1, <3>2
      <3>3. CASE streams'[e] # streams[e]
        <4>1. e = "host" /\ Cardinality(streams["host"]) < Limit /\ streams'["host"] = streams["host"] \cup {i}
          BY <1>2, <1>3, <3>3 DEF Ends
        <4>2. streams["host"] \in SUBSET Ids
          BY <1>4 DEF MuxTypes
        <4>3. /\ Cardinality(streams["host"]) \in Nat /\ Cardinality(streams["host"] \cup {i}) \in Nat
              /\ Cardinality(streams["host"] \cup {i}) <= Cardinality(streams["host"]) + 1
          BY <4>2, AddEntry
        <4> QED
          BY <3>1, <4>1, <4>3
      <3> QED
        BY <3>2, <3>3
    <2>3. ASSUME NEW e \in Ends, NEW id \in Ids
          PROVE  Len(task'[e][id].chan) <= ChanCap
      <3>1. Len(task[e][id].chan) <= ChanCap
        BY DEF MuxInv, Bounds
      <3>2. task'[e][id] = task[e][id] \/ task'[e][id].chan = <<>>
        BY <1>1, <1>2
      <3>3. Len(<<>>) <= ChanCap
        BY MuxAssumption DEF MuxAssumption
      <3> QED
        BY <3>1, <3>2, <3>3
    <2>4. Len(events') <= EventCap
      BY <1>2 DEF MuxInv, Bounds
    <2> QED
      BY <2>1, <2>2, <2>3, <2>4 DEF Bounds
  <1>6. TasksInv'
    <2>1. ASSUME NEW e \in Ends, NEW id \in Ids, NEW u, u = task'[e][id]
          PROVE  /\ u.st \in {"none", "done", "gone"} => Still(u)
                 /\ u.st = "dial" => u.hold = Nothing /\ ~u.rdone /\ ~u.wdone
                 /\ u.hold # Nothing => u.st = "run" /\ u.hold.id = id /\ u.hold.kind \in {"data", "fin"}
      <3>1. CASE u = t
        BY <1>2, <3>1 DEF Still
      <3>2. CASE u = task[e][id]
        BY <3>2 DEF MuxInv, TasksInv
      <3> QED
        BY <1>1, <2>1, <3>1, <3>2
    <2> QED
      BY <2>1 DEF TasksInv
  <1>7. EndedInv'
    <2>1. ASSUME NEW e \in Ends, ~session[e]
          PROVE  streams'[e] = {} /\ loop'[e] = Nothing /\ queue'[Other(e)] = <<>> /\ \A id \in Ids : task'[e][id] = Gone
      <3>1. e = "guest" /\ Other(e) = "host"
        BY <1>2, <2>1 DEF Ends, Other
      <3>2. streams[e] = {} /\ loop[e] = Nothing /\ queue[Other(e)] = <<>> /\ \A id \in Ids : task[e][id] = Gone
        BY <2>1 DEF MuxInv, EndedInv
      <3> QED
        BY <1>1, <1>2, <3>1, <3>2
    <2>2. ~session["guest"] => events' = <<>>
      BY <1>2 DEF MuxInv, EndedInv
    <2>3. ~broken
      BY <1>2, <1>4 DEF MuxInv, EndedInv, IsRest
    <2> QED
      BY <1>2, <2>1, <2>2, <2>3 DEF EndedInv
  <1>8. KindsInv'
    <2>1. ASSUME NEW e \in Ends, loop'[e] # Nothing
          PROVE  /\ e = "host" => loop'[e].kind # "open"
                 /\ loop'[e].kind # "fin" /\ (loop'[e].kind = "data" => udp[loop'[e].id] # Nothing)
      BY <1>2, <1>4, <2>1 DEF MuxInv, KindsInv, Ends
    <2> QED
      BY <1>2, <1>4, <2>1 DEF MuxInv, KindsInv
  <1>9. ListInv'
    BY <1>2 DEF MuxInv, ListInv
  <1>10. ASSUME NEW id \in Ids, id # i
         PROVE  HostUnopened(id) => HostUnopened(id)'
    <2>1. task'["host"][id] = task["host"][id] /\ (id \in streams'["host"] <=> id \in streams["host"])
      BY <1>1, <1>4, <1>10
    <2> QED
      BY <1>2, <2>1 DEF HostUnopened
  <1>11. ASSUME NEW id \in Ids, GuestUnopened(id)
         PROVE  GuestUnopened(id)' /\ id # i
    <2>1. task'["guest"][id] = task["guest"][id] /\ (NoParts(queue["guest"], id) => NoParts(queue'["guest"], id))
      BY <1>1, <1>4 DEF Keeps
    <2> QED
      BY <1>1, <1>2, <1>11, <2>1 DEF GuestUnopened
  <1>12. ComingInv'
    <2>1. SUFFICES ASSUME NEW id \in Ids, Coming(id)'
                   PROVE  (HostUnopened(id) /\ GuestUnopened(id) /\ id \notin streams["guest"] /\ loop["guest"] # OPEN(id))'
      BY DEF ComingInv
    <2>2. Coming(id)
      BY <1>2, <2>1 DEF Coming, Listed
    <2>3. HostUnopened(id) /\ GuestUnopened(id) /\ id \notin streams["guest"] /\ loop["guest"] # OPEN(id)
      BY <2>2 DEF MuxInv, ComingInv
    <2> QED
      BY <1>2, <1>10, <1>11, <2>3
  <1>13. OpeningInv'
    BY <1>2, <1>10, <1>11 DEF MuxInv, OpeningInv
  <1>14. OpenedInv'
    <2>1. ASSUME NEW id \in Ids, Opened(id)'
          PROVE  HostUnopened(id)'
      BY <1>1, <1>10, <2>1 DEF MuxInv, OpenedInv
    <2> QED
      BY <1>1, <1>2, <2>1 DEF OpenedInv
  <1>15. EntriesHaveTasks'
    <2>1. SUFFICES ASSUME NEW e \in Ends, NEW id \in Ids, id \in streams'[e]
                   PROVE  task'[e][id].st \in {"dial", "run", "ending", "done"} \/ loop'[e] = OPEN(id)
      BY DEF EntriesHaveTasks
    <2>2. CASE e = "host" /\ id = i
      BY <1>1, <1>3, <2>1, <2>2
    <2>3. CASE e = "host" /\ id # i
      <3>1. id \in streams["host"] /\ OPEN(id) # Nothing
        BY <1>1, <2>1, <2>3, FrameFact
      <3>2. task["host"][id].st \in {"dial", "run", "ending", "done"}
        BY <1>2, <1>4, <3>1 DEF MuxInv, EntriesHaveTasks
      <3> QED
        BY <1>1, <1>4, <2>3, <3>2
    <2>4. CASE e = "guest"
      BY <1>1, <1>2, <1>4, <2>1, <2>4 DEF MuxInv, EntriesHaveTasks
    <2> QED
      BY <2>2, <2>3, <2>4 DEF Ends
  <1> QED
    BY <1>5, <1>6, <1>7, <1>8, <1>9, <1>12, <1>13, <1>14, <1>15, TakesOpenStreams DEF MuxInv

LEMMA ReceiveOpenInv ==
  ASSUME MuxInv, NEW x \in Ends, NEW o \in Ends, o = Other(x), Receive(x), Head(queue[o]).kind = "open"
  PROVE  MuxInv'
  <1>1. MuxTypes
    BY DEF MuxInv
  <1>2. PICK q \in Seq(Frames), d \in Seq(Frames), f \in Frames :
            /\ q = queue[o] /\ IsRest(d, q) /\ f = q[1] /\ f = Head(queue[o])
            /\ queue' = [queue EXCEPT ![o] = d] /\ queue'[o] = d /\ queue'[x] = queue[x]
            /\ queue' \in [Ends -> Seq(Frames)]
    BY ReceiveFact
  <1>3. x = "host" /\ o = "guest"
    <2>1. 1 \in 1..Len(q)
      BY <1>2 DEF IsRest
    <2>2. o # "host"
      BY <1>2, <2>1 DEF MuxInv, KindsInv
    <2> QED
      BY <2>2 DEF Ends, Other
  <1>4. PICK i \in Ids : i = f.id /\ f = OPEN(i) /\ f.kind = "open"
    BY <1>2 DEF Frames, OPEN, Frame
  <1>5. /\ session["host"] /\ loop["host"] = Nothing /\ UNCHANGED <<session, broken, app, udp, counter, flows, events>>
        /\ OpenStream("host", i)
    BY <1>2, <1>3, <1>4 DEF Receive, network
  <1>6. /\ streams \in [Ends -> SUBSET Ids] /\ loop \in [Ends -> Frames \cup {Nothing}]
        /\ task \in [Ends -> [Ids -> StreamTasks]] /\ "host" \in Ends /\ "guest" \in Ends
    BY <1>1 DEF MuxTypes, Ends
  <1>7. Opened(i)
    <2>1. 1 \in 1..Len(q)
      BY <1>2 DEF IsRest
    <2> QED
      BY <1>2, <1>3, <1>4, <2>1 DEF Opened
  <1>8. task["host"][i] = Unopened
    BY <1>5, <1>7 DEF MuxInv, OpenedInv, HostUnopened
  <1>9. IsRest(queue'["guest"], queue["guest"]) /\ queue["guest"][1] = OPEN(i) /\ queue'["host"] = queue["host"]
    BY <1>2, <1>3, <1>4
  <1>10. CASE /\ Cardinality(streams["host"]) < Limit
              /\ streams' = [streams EXCEPT !["host"] = @ \cup {i}]
              /\ task' = [task EXCEPT !["host"][i].st = IF udp[i] = Nothing THEN "dial" ELSE "run"]
              /\ UNCHANGED loop
    <2>1. PICK st \in {"dial", "run"} : st = IF udp[i] = Nothing THEN "dial" ELSE "run"
      OBVIOUS
    <2>2. PICK u \in StreamTasks : u = task["host"][i] /\ Still(u)
      BY <1>8, UnopenedFact
    <2>3. PICK t : t = [u EXCEPT !.st = st]
      OBVIOUS
    <2>4. t \in StreamTasks /\ t.st = st /\ t.chan = <<>> /\ Still(t)
      BY <2>2, <2>3 DEF StreamTasks, Still
    <2>5. task' = [task EXCEPT !["host"][i] = t]
      BY <1>10, <2>1, <2>2, <2>3
    <2>6. /\ task' \in [Ends -> [Ids -> StreamTasks]] /\ streams' \in [Ends -> SUBSET Ids]
          /\ streams'["guest"] = streams["guest"] /\ streams'["host"] = streams["host"] \cup {i}
      <3>1. task' \in [Ends -> [Ids -> StreamTasks]]
        BY <1>6, <2>4, <2>5
      <3>2. streams' = [streams EXCEPT !["host"] = @ \cup {i}]
        BY <1>10
      <3>3. /\ streams' \in [Ends -> SUBSET Ids]
            /\ streams'["guest"] = streams["guest"] /\ streams'["host"] = streams["host"] \cup {i}
        BY <1>6, <3>2
      <3> QED
        BY <3>1, <3>3
    <2>7. MuxTypes'
      BY <1>1, <1>2, <1>5, <1>10, <2>6 DEF MuxTypes
    <2>8. TakesOpen(i, t)
      BY <1>5, <1>9, <1>10, <2>1, <2>4, <2>5, <2>6 DEF TakesOpen
    <2> QED
      BY <2>7, <2>8, TakesOpenInv
  <1>11. CASE /\ loop' = [loop EXCEPT !["host"] = RESET(i)]
              /\ task' = [task EXCEPT !["host"][i] = Gone]
              /\ UNCHANGED streams
    <2>1. Gone \in StreamTasks /\ Gone.chan = <<>> /\ Still(Gone) /\ RESET(i) \in Frames
      BY GoneFact, FrameFact
    <2>2. /\ task' \in [Ends -> [Ids -> StreamTasks]] /\ loop' \in [Ends -> Frames \cup {Nothing}]
          /\ loop'["guest"] = loop["guest"] /\ loop'["host"] = RESET(i)
      BY <1>6, <1>11, <2>1
    <2>3. MuxTypes'
      BY <1>1, <1>2, <1>5, <1>11, <2>2 DEF MuxTypes
    <2>4. TakesOpen(i, Gone)
      BY <1>5, <1>9, <1>11, <2>1, <2>2 DEF TakesOpen
    <2> QED
      BY <2>3, <2>4, TakesOpenInv
  <1> QED
    BY <1>5, <1>10, <1>11 DEF OpenStream

-----------------------------------------------------------------------------
(* The guest opens a stream *)

\* The loop takes the event of a new stream i, and enters it or drops it.
Starts(i) ==
    /\ session["guest"] /\ loop["guest"] = Nothing
    /\ IsRest(events', events) /\ IsNew(events[1]) /\ events[1].id = i
    /\ loop'["host"] = loop["host"] /\ streams'["host"] = streams["host"]
    /\ \/ /\ task' = task /\ Cardinality(streams["guest"]) < Limit
          /\ streams'["guest"] = streams["guest"] \cup {i} /\ loop'["guest"] = OPEN(i)
       \/ /\ \A e \in Ends, id \in Ids : task'[e][id] = IF id = i THEN Gone ELSE task[e][id]
          /\ streams'["guest"] = streams["guest"] /\ loop'["guest"] = Nothing
    /\ UNCHANGED <<session, broken, queue, app, udp, counter, flows>>

LEMMA StartsFact ==
  ASSUME MuxInv, MuxTypes', NEW i \in Ids, Starts(i)
  PROVE  /\ HostUnopened(i) /\ GuestUnopened(i) /\ i \notin streams["guest"]
         /\ ListInv' /\ Len(events') <= Len(events)
         /\ \A id \in Ids : Coming(id)' => Coming(id) /\ id # i
         /\ \A e \in Ends, id \in Ids : id # i => task'[e][id] = task[e][id] /\ (id \in streams'[e] <=> id \in streams[e])
         /\ \A e \in Ends : task'[e][i] = task[e][i] \/ task'[e][i] = Gone
         /\ \A id : Opened(id)' <=> Opened(id)
  <1>1. /\ ListInv' /\ \A id : Listed(id)' => Listed(id)
        /\ \A id : IsNew(events[1]) /\ events[1].id = id => ~Listed(id)'
        /\ Len(events') <= Len(events)
    <2>1. MuxTypes /\ ListInv /\ IsRest(events', events) /\ UNCHANGED <<udp, counter, flows>>
      BY DEF MuxInv, Starts
    <2> QED
      BY <2>1, ListRest
  <1>2. Listed(i) /\ i < counter
    <2>1. 1 \in 1..Len(events)
      BY DEF Starts, IsRest, MuxInv, MuxTypes
    <2> QED
      BY <2>1 DEF Starts, Listed, MuxInv, ListInv
  <1>3. HostUnopened(i) /\ GuestUnopened(i) /\ i \notin streams["guest"]
    <2>1. Coming(i)
      BY <1>2 DEF Coming, Starts
    <2> QED
      BY <2>1 DEF MuxInv, ComingInv
  <1>4. ASSUME NEW id \in Ids, Coming(id)'
        PROVE  Coming(id) /\ id # i
    <2>1. ~Listed(i)'
      BY <1>1 DEF Starts
    <2>2. ~(counter' <= i)
      BY <1>2 DEF Starts, MuxInv, MuxTypes, Ids
    <2> QED
      BY <1>1, <1>4, <2>1, <2>2 DEF Coming, Starts
  <1>5. \A e \in Ends, id \in Ids : id # i => task'[e][id] = task[e][id] /\ (id \in streams'[e] <=> id \in streams[e])
    BY DEF Starts, Ends
  <1>6. \A e \in Ends : task'[e][i] = task[e][i] \/ task'[e][i] = Gone
    BY DEF Starts
  <1>7. \A id : Opened(id)' <=> Opened(id)
    BY DEF Starts, Opened
  <1> QED
    BY <1>1, <1>3, <1>4, <1>5, <1>6, <1>7

LEMMA StartsStreams ==
  ASSUME MuxInv, MuxTypes', NEW i \in Ids, Starts(i)
  PROVE  StreamsInv'
  <1>1. /\ HostUnopened(i) /\ GuestUnopened(i) /\ i \notin streams["guest"]
        /\ \A e \in Ends, id \in Ids : id # i => task'[e][id] = task[e][id] /\ (id \in streams'[e] <=> id \in streams[e])
        /\ \A e \in Ends : task'[e][i] = task[e][i] \/ task'[e][i] = Gone
        /\ \A id : Opened(id)' <=> Opened(id)
    BY StartsFact
  <1>2. /\ app' = app /\ broken' = broken /\ udp' = udp /\ queue' = queue
        /\ streams'["host"] = streams["host"]
    BY DEF Starts
  <1>3. /\ Unopened.st = "none" /\ Unopened.hold = Nothing /\ Unopened.chan = <<>>
        /\ Gone.st = "gone" /\ Gone.hold = Nothing /\ Gone.chan = <<>>
    BY UnopenedFact, GoneFact
  <1>4. \A e \in Ends : task[e][i] \in {Unopened, Gone} /\ task'[e][i] \in {Unopened, Gone} /\ app[e][i] = Silent
    BY <1>1 DEF HostUnopened, GuestUnopened, Ends
  <1>5. \A e \in Ends, id \in Ids : task'[e][id].chan = task[e][id].chan /\ task'[e][id].hold = task[e][id].hold
    BY <1>1, <1>3, <1>4
  <1>6. \A e \in Ends, id \in Ids : Put(e, id)' = Put(e, id)
    BY <1>2, <1>5 DEF Put
  <1>7. \A e \in Ends, id \in Ids : Pending(e, id)' => Pending(e, id)
    BY <1>1, <1>3 DEF Pending
  <1>8. ASSUME NEW e \in Ends, NEW id \in Ids, SenderInv(e, id)
        PROVE  SenderInv(e, id)'
    <2>1. CASE id = i
      <3>1. FIN(i) # Nothing /\ \A n \in Nat : DATA(i, n) # Nothing
        BY FrameFact
      <3>2. app'[e][i].sent = 0
        BY <1>2, <1>4 DEF Silent
      <3> QED
        BY <1>3, <1>4, <2>1, <3>1, <3>2 DEF SenderInv
    <2>2. CASE id # i
      BY <1>1, <1>2, <1>8, <2>2 DEF SenderInv
    <2> QED
      BY <2>1, <2>2
  <1>9. \A e \in Ends, id \in Ids : /\ Keeps(queue[e], queue'[e], id) /\ Follows(queue[e], queue'[e], id)
                                    /\ Reaches(queue[e], queue'[e], id)
    BY <1>2, SameKeeps
  <1>10. ASSUME NEW e \in Ends, NEW id \in Ids, udp[id] = Nothing, Tracked(e, id)' => Tracked(e, id)
         PROVE  SenderInv(e, id)' /\ Quiet(e, id)
    <2>1. PICK o \in Ends : o = Other(e)
      BY OtherFact
    <2>2. SenderInv(e, id)' /\ SenderInv(o, id)'
      BY <1>8, <1>10 DEF MuxInv, StreamsInv
    <2>3. Quiet(e, id)
      BY <1>2, <1>5, <1>6, <1>7, <1>9, <1>10, <2>1, <2>2 DEF Quiet
    <2> QED
      BY <2>2, <2>3
  <1>11. ASSUME NEW e \in Ends, NEW id \in Ids, ~(Tracked(e, id)' => Tracked(e, id))
         PROVE  e = "guest" /\ id = i
    <2>1. CASE e = "host"
      <3>1. task'[e][id] = task[e][id] \/ task'[e][id].st = "gone"
        BY <1>1, <1>3
      <3> QED
        BY <1>1, <1>2, <1>11, <2>1, <3>1 DEF Tracked
    <2>2. CASE e # "host" /\ id # i
      BY <1>1, <1>11, <2>2 DEF Tracked
    <2> QED
      BY <2>1, <2>2 DEF Ends
  <1>12. ASSUME udp[i] = Nothing
         PROVE  SenderInv("guest", i)' /\ Flows("guest", i)'
    <2>1. "guest" \in Ends /\ "host" \in Ends /\ "host" = Other("guest")
      BY DEF Ends, Other
    <2>2. SenderInv("guest", i)'
      BY <1>8, <1>12, <2>1 DEF MuxInv, StreamsInv
    <2>3. NoParts(queue'["host"], i) /\ app'["guest"][i] = Silent /\ task'["guest"][i].chan = <<>>
      BY <1>1, <1>2, <1>3, <1>4, <1>12, <2>1 DEF HostUnopened
    <2>4. Put("host", i)' = 0
      <3>1. app'["host"][i].sent = 0 /\ task'["host"][i].hold = Nothing
        BY <1>2, <1>3, <1>4, <2>1 DEF Silent
      <3>2. DATA(i, 0) # Nothing
        BY FrameFact
      <3> QED
        BY <3>1, <3>2 DEF Put
    <2> QED
      BY <2>1, <2>2, <2>3, <2>4, FlowStarts DEF Flows
  <1>13. ASSUME NEW e \in Ends, NEW id \in Ids, udp[id] = Nothing
         PROVE  SenderInv(e, id)' /\ (Quiet(e, id) \/ Flows(e, id)')
    <2>1. CASE Tracked(e, id)' => Tracked(e, id)
      BY <1>10, <1>13, <2>1
    <2>2. CASE ~(Tracked(e, id)' => Tracked(e, id))
      BY <1>11, <1>12, <1>13, <2>2
    <2> QED
      BY <2>1, <2>2
  <1> QED
    BY <1>2, <1>13, StreamsKeep

LEMMA StartsInv ==
  ASSUME MuxInv, MuxTypes', NEW i \in Ids, Starts(i)
  PROVE  MuxInv'
  <1>1. /\ HostUnopened(i) /\ GuestUnopened(i) /\ i \notin streams["guest"]
        /\ ListInv' /\ Len(events') <= Len(events)
        /\ \A id \in Ids : Coming(id)' => Coming(id) /\ id # i
        /\ \A e \in Ends, id \in Ids : id # i => task'[e][id] = task[e][id] /\ (id \in streams'[e] <=> id \in streams[e])
        /\ \A e \in Ends : task'[e][i] = task[e][i] \/ task'[e][i] = Gone
        /\ \A id : Opened(id)' <=> Opened(id)
    BY StartsFact
  <1>2. /\ session["guest"] /\ loop["guest"] = Nothing /\ loop'["host"] = loop["host"]
        /\ queue' = queue /\ streams'["host"] = streams["host"] /\ loop'["guest"] \in {OPEN(i), Nothing}
        /\ session' = session /\ broken' = broken /\ app' = app /\ udp' = udp /\ counter' = counter
        /\ flows' = flows
    BY DEF Starts
  <1>3. \/ /\ Cardinality(streams["guest"]) < Limit /\ streams'["guest"] = streams["guest"] \cup {i}
           /\ loop'["guest"] = OPEN(i) /\ task' = task
        \/ streams'["guest"] = streams["guest"] /\ loop'["guest"] = Nothing
    BY DEF Starts
  <1>4. MuxTypes /\ "host" \in Ends /\ "guest" \in Ends /\ OPEN(i).kind = "open"
    BY DEF MuxInv, Ends, OPEN, Frame
  <1>5. Gone.chan = <<>> /\ Gone.hold = Nothing /\ Still(Gone) /\ Gone.st = "gone"
    BY GoneFact
  <1>6. Bounds'
    <2>1. \A e \in Ends : Len(queue'[e]) <= QueueCap
      BY <1>2 DEF MuxInv, Bounds
    <2>2. ASSUME NEW e \in Ends
          PROVE  Cardinality(streams'[e]) <= Limit
      <3>1. Cardinality(streams[e]) <= Limit /\ Limit \in Nat
        BY MuxAssumption DEF MuxInv, Bounds, MuxAssumption
      <3>2. CASE streams'[e] = streams[e]
        BY <3>1, <3>2
      <3>3. CASE streams'[e] # streams[e]
        <4>1. e = "guest" /\ Cardinality(streams["guest"]) < Limit /\ streams'["guest"] = streams["guest"] \cup {i}
          BY <1>2, <1>3, <3>3 DEF Ends
        <4>2. streams["guest"] \in SUBSET Ids
          BY <1>4 DEF MuxTypes
        <4>3. /\ Cardinality(streams["guest"]) \in Nat /\ Cardinality(streams["guest"] \cup {i}) \in Nat
              /\ Cardinality(streams["guest"] \cup {i}) <= Cardinality(streams["guest"]) + 1
          BY <4>2, AddEntry
        <4> QED
          BY <3>1, <4>1, <4>3
      <3> QED
        BY <3>2, <3>3
    <2>3. ASSUME NEW e \in Ends, NEW id \in Ids
          PROVE  Len(task'[e][id].chan) <= ChanCap
      <3>1. Len(task[e][id].chan) <= ChanCap
        BY DEF MuxInv, Bounds
      <3>2. task'[e][id] = task[e][id] \/ task'[e][id].chan = <<>>
        BY <1>1, <1>5
      <3>3. Len(<<>>) <= ChanCap
        BY MuxAssumption DEF MuxAssumption
      <3> QED
        BY <3>1, <3>2, <3>3
    <2>4. Len(events') <= EventCap
      <3>1. Len(events') \in Nat /\ Len(events) \in Nat /\ EventCap \in Nat
        BY <1>4, MuxAssumption DEF MuxTypes, MuxAssumption
      <3>2. Len(events) <= EventCap
        BY DEF MuxInv, Bounds
      <3> QED
        BY <1>1, <3>1, <3>2
    <2> QED
      BY <2>1, <2>2, <2>3, <2>4 DEF Bounds
  <1>7. TasksInv'
    <2>1. ASSUME NEW e \in Ends, NEW id \in Ids, NEW u, u = task'[e][id]
          PROVE  /\ u.st \in {"none", "done", "gone"} => Still(u)
                 /\ u.st = "dial" => u.hold = Nothing /\ ~u.rdone /\ ~u.wdone
                 /\ u.hold # Nothing => u.st = "run" /\ u.hold.id = id /\ u.hold.kind \in {"data", "fin"}
      <3>1. CASE u = Gone
        BY <1>5, <3>1
      <3>2. CASE u = task[e][id]
        BY <3>2 DEF MuxInv, TasksInv
      <3> QED
        BY <1>1, <2>1, <3>1, <3>2
    <2> QED
      BY <2>1 DEF TasksInv
  <1>8. EndedInv'
    <2>1. ASSUME NEW e \in Ends, ~session[e]
          PROVE  streams'[e] = {} /\ loop'[e] = Nothing /\ queue'[Other(e)] = <<>> /\ \A id \in Ids : task'[e][id] = Gone
      <3>1. e = "host"
        BY <1>2, <2>1 DEF Ends
      <3>2. streams[e] = {} /\ loop[e] = Nothing /\ queue[Other(e)] = <<>> /\ \A id \in Ids : task[e][id] = Gone
        BY <2>1 DEF MuxInv, EndedInv
      <3>3. \A id \in Ids : task'[e][id] = Gone
        BY <1>1, <3>2
      <3> QED
        BY <1>2, <3>1, <3>2, <3>3
    <2> QED
      BY <1>2, <2>1 DEF MuxInv, EndedInv
  <1>9. KindsInv'
    <2>1. ASSUME NEW e \in Ends, loop'[e] # Nothing
          PROVE  /\ e = "host" => loop'[e].kind # "open"
                 /\ loop'[e].kind # "fin" /\ (loop'[e].kind = "data" => udp[loop'[e].id] # Nothing)
      BY <1>2, <1>4, <2>1 DEF MuxInv, KindsInv, Ends
    <2> QED
      BY <1>2, <1>4, <2>1 DEF MuxInv, KindsInv
  <1>10. ASSUME NEW id \in Ids, id # i
         PROVE  (HostUnopened(id) => HostUnopened(id)') /\ (GuestUnopened(id) => GuestUnopened(id)')
    <2>1. /\ task'["host"][id] = task["host"][id] /\ (id \in streams'["host"] <=> id \in streams["host"])
          /\ task'["guest"][id] = task["guest"][id]
      BY <1>1, <1>4, <1>10
    <2> QED
      BY <1>1, <1>2, <2>1 DEF HostUnopened, GuestUnopened
  <1>11. \A id \in Ids : loop'["guest"] = OPEN(id) => id = i /\ task' = task
    <2>1. \A id \in Ids : OPEN(id).id = id /\ OPEN(id) # Nothing
      BY FrameFact DEF OPEN, Frame
    <2> QED
      BY <1>3, <2>1
  <1>12. ComingInv'
    <2>1. SUFFICES ASSUME NEW id \in Ids, Coming(id)'
                   PROVE  (HostUnopened(id) /\ GuestUnopened(id) /\ id \notin streams["guest"] /\ loop["guest"] # OPEN(id))'
      BY DEF ComingInv
    <2>2. Coming(id) /\ id # i
      BY <1>1, <2>1
    <2>3. HostUnopened(id) /\ GuestUnopened(id) /\ id \notin streams["guest"]
      BY <2>2 DEF MuxInv, ComingInv
    <2>4. id \notin streams'["guest"]
      BY <1>1, <1>4, <2>2, <2>3
    <2> QED
      BY <1>10, <1>11, <2>2, <2>3, <2>4
  <1>13. OpeningInv'
    <2>1. SUFFICES ASSUME NEW id \in Ids, loop'["guest"] = OPEN(id)
                   PROVE  HostUnopened(id)' /\ GuestUnopened(id)'
      BY DEF OpeningInv
    <2>2. id = i /\ task' = task
      BY <1>11, <2>1
    <2> QED
      BY <1>1, <1>2, <2>2 DEF HostUnopened, GuestUnopened
  <1>14. OpenedInv'
    <2>1. ASSUME NEW id \in Ids
          PROVE  (Opened(id)' => HostUnopened(id)') /\ OpensFirst(queue["guest"], id, udp[id] = Nothing)
      <3>1. Opened(id) => HostUnopened(id) /\ id # i
        BY <1>1 DEF MuxInv, OpenedInv, GuestUnopened
      <3> QED
        BY <1>1, <1>10, <3>1 DEF MuxInv, OpenedInv
    <2> QED
      BY <1>2, <2>1 DEF OpenedInv
  <1>15. EntriesHaveTasks'
    <2>1. SUFFICES ASSUME NEW e \in Ends, NEW id \in Ids, id \in streams'[e]
                   PROVE  task'[e][id].st \in {"dial", "run", "ending", "done"} \/ loop'[e] = OPEN(id)
      BY DEF EntriesHaveTasks
    <2>2. CASE e = "guest" /\ id = i
      BY <1>1, <1>3, <2>1, <2>2
    <2>3. CASE e = "guest" /\ id # i
      <3>1. id \in streams["guest"] /\ OPEN(id) # Nothing
        BY <1>1, <2>1, <2>3, FrameFact
      <3>2. task["guest"][id].st \in {"dial", "run", "ending", "done"}
        BY <1>2, <1>4, <3>1 DEF MuxInv, EntriesHaveTasks
      <3> QED
        BY <1>1, <1>4, <2>3, <3>2
    <2>4. CASE e = "host"
      <3>1. id # i /\ id \in streams["host"]
        BY <1>1, <1>2, <2>1, <2>4 DEF HostUnopened
      <3> QED
        BY <1>1, <1>2, <1>4, <2>4, <3>1 DEF MuxInv, EntriesHaveTasks
    <2> QED
      BY <2>2, <2>3, <2>4 DEF Ends
  <1> QED
    BY <1>1, <1>6, <1>7, <1>8, <1>9, <1>12, <1>13, <1>14, <1>15, StartsStreams DEF MuxInv

LEMMA LocalNewInv ==
  ASSUME MuxInv, Local, Head(events).kind \in {"tcp", "udp"}
  PROVE  MuxInv'
  <1>1. MuxTypes /\ "host" \in Ends /\ "guest" \in Ends
    BY DEF MuxInv, Ends
  <1>2. PICK p : p = events /\ p \in Seq(Events) /\ p # <<>>
    BY <1>1 DEF MuxTypes, Local
  <1>3. PICK d : d = Tail(p) /\ d \in Seq(Events) /\ IsRest(d, p) /\ Head(p) = p[1] /\ p[1] \in Events
    BY <1>2, EventsRest
  <1>4. PICK v \in Events : v = p[1] /\ v = Head(events)
    BY <1>2, <1>3
  <1>5. d \in Seq(Events) /\ IsRest(d, p) /\ events' = d
    BY <1>2, <1>3 DEF Local
  <1>6. PICK i \in Ids : i = v.id /\ IsNew(v)
    BY <1>4 DEF Events, IsNew
  <1>7. IsRest(events', events) /\ IsNew(events[1]) /\ events[1].id = i
    BY <1>2, <1>4, <1>5, <1>6
  <1>8. /\ session["guest"] /\ loop["guest"] = Nothing /\ UNCHANGED <<session, broken, queue, app, udp, counter, flows>>
        /\ NewStream(i)
    BY <1>4, <1>6 DEF Local, network, IsNew
  <1>9. /\ streams \in [Ends -> SUBSET Ids] /\ loop \in [Ends -> Frames \cup {Nothing}]
        /\ task \in [Ends -> [Ids -> StreamTasks]]
    BY <1>1 DEF MuxTypes
  <1>10. CASE /\ Cardinality(streams["guest"]) < Limit
              /\ streams' = [streams EXCEPT !["guest"] = @ \cup {i}]
              /\ loop' = [loop EXCEPT !["guest"] = OPEN(i)] /\ task' = task
    <2>1. OPEN(i) \in Frames
      BY FrameFact
    <2>2. /\ loop' \in [Ends -> Frames \cup {Nothing}] /\ loop'["guest"] = OPEN(i) /\ loop'["host"] = loop["host"]
      BY <1>1, <1>9, <1>10, <2>1
    <2>3. streams' = [streams EXCEPT !["guest"] = @ \cup {i}]
      BY <1>10
    <2>4. /\ streams' \in [Ends -> SUBSET Ids]
          /\ streams'["guest"] = streams["guest"] \cup {i} /\ streams'["host"] = streams["host"]
      BY <1>1, <1>9, <2>3
    <2>5. MuxTypes'
      BY <1>1, <1>5, <1>8, <1>10, <2>2, <2>4 DEF MuxTypes
    <2>6. Starts(i)
      BY <1>7, <1>8, <1>10, <2>2, <2>4 DEF Starts
    <2> QED
      BY <2>5, <2>6, StartsInv
  <1>11. CASE /\ task' = [e \in Ends |-> [task[e] EXCEPT ![i] = Gone]] /\ streams' = streams /\ loop' = loop
    <2>1. PICK g \in StreamTasks : g = Gone
      BY GoneFact
    <2>2. /\ task' \in [Ends -> [Ids -> StreamTasks]]
          /\ \A e \in Ends, id \in Ids : task'[e][id] = IF id = i THEN Gone ELSE task[e][id]
      BY <1>9, <1>11, <2>1
    <2>3. MuxTypes'
      BY <1>1, <1>5, <1>8, <1>11, <2>2 DEF MuxTypes
    <2>4. Starts(i)
      BY <1>7, <1>8, <1>11, <2>2 DEF Starts
    <2> QED
      BY <2>3, <2>4, StartsInv
  <1> QED
    BY <1>8, <1>10, <1>11 DEF NewStream

-----------------------------------------------------------------------------
(* The loop sends *)

\* The frame f that the loop of x held goes into the queue, which becomes r, or is lost;
\* after an OPEN the task of the stream runs.
Posts(x, f, r, o) ==
    /\ loop[x] = f /\ f \in Frames /\ loop'[x] = Nothing /\ loop'[o] = loop[o]
    /\ queue'[x] = r /\ queue'[o] = queue[o] /\ Len(r) <= QueueCap /\ r \in Seq(Frames)
    /\ IF broken \/ ~session[o] THEN r = queue[x] ELSE IsMore(r, queue[x], f)
    /\ \A e \in Ends, id \in Ids :
          task'[e][id] = IF f.kind = "open" /\ e = x /\ id = f.id THEN [Unopened EXCEPT !.st = "run"] ELSE task[e][id]
    /\ UNCHANGED <<session, broken, streams, app, udp, counter, flows, events>>

LEMMA PostsFact ==
  ASSUME MuxInv, MuxTypes', NEW x \in Ends, NEW o \in Ends, o = Other(x), NEW f, NEW r, Posts(x, f, r, o)
  PROVE  /\ o # x /\ x = Other(o) /\ \A e \in Ends : e = x \/ e = o
         /\ session[x] /\ f # Nothing
         /\ f.kind = "open" => /\ x = "guest" /\ o = "host" /\ f.id \in Ids /\ f = OPEN(f.id)
                               /\ HostUnopened(f.id) /\ GuestUnopened(f.id)
         /\ \A id \in Ids : udp[id] = Nothing => ~IsPart(f, id)
         /\ \A e \in Ends, id \in Ids : udp[id] = Nothing => /\ Keeps(queue[e], queue'[e], id)
                                                             /\ Follows(queue[e], queue'[e], id)
                                                             /\ Reaches(queue[e], queue'[e], id)
         /\ \A id \in Ids : Opened(id)' => Opened(id) \/ (f = OPEN(id) /\ x = "guest" /\ ~broken /\ session[o])
         /\ \A id \in Ids : OpensFirst(queue'["guest"], id, udp[id] = Nothing)
  <1>1. o # x /\ x = Other(o) /\ \A e \in Ends : e = x \/ e = o
    BY OtherFact DEF Ends, Other
  <1>2. MuxTypes /\ f \in Frames /\ loop[x] = f /\ f # Nothing
    <2>1. MuxTypes /\ f \in Frames /\ loop[x] = f
      BY DEF MuxInv, Posts
    <2>2. /\ f \in [kind : {"open", "data", "fin", "reset", "ping", "pong"}, id : Ids \cup {0}, n : Nat]
          /\ Ids \cup {0} \subseteq Nat
      BY <2>1 DEF Frames, Ids
    <2>3. f # Nothing
      BY <2>2, NothingAssumption DEF NothingAssumption
    <2> QED
      BY <2>1, <2>3
  <1>3. session[x]
    BY <1>2 DEF MuxInv, EndedInv
  <1>4. ASSUME f.kind = "open"
        PROVE  /\ x = "guest" /\ o = "host" /\ f.id \in Ids /\ f = OPEN(f.id)
               /\ HostUnopened(f.id) /\ GuestUnopened(f.id)
    <2>1. f.id \in Ids /\ f = OPEN(f.id)
      BY <1>2, <1>4 DEF Frames, OPEN, Frame
    <2>2. x = "guest" /\ o = "host"
      BY <1>1, <1>2, <1>4 DEF MuxInv, KindsInv, Ends
    <2> QED
      BY <1>2, <2>1, <2>2 DEF MuxInv, OpeningInv
  <1>5. ASSUME NEW id \in Ids, udp[id] = Nothing
        PROVE  ~IsPart(f, id)
    BY <1>2, <1>5 DEF MuxInv, KindsInv, IsPart
  <1>6. PICK q \in Seq(Frames) : q = queue[x] /\ r \in Seq(Frames) /\ queue'[x] = r /\ queue'[o] = queue[o]
    BY <1>2 DEF MuxTypes, Posts
  <1>7. r = q \/ (IsMore(r, q, f) /\ ~broken /\ session[o])
    BY <1>6 DEF Posts
  <1>8. ASSUME NEW e \in Ends, NEW id \in Ids, udp[id] = Nothing
        PROVE  /\ Keeps(queue[e], queue'[e], id)
               /\ Follows(queue[e], queue'[e], id)
               /\ Reaches(queue[e], queue'[e], id)
    <2>1. CASE e = o \/ r = q
      <3>1. queue'[e] = queue[e]
        BY <1>1, <1>6, <2>1
      <3> QED
        BY <3>1, SameKeeps
    <2>2. CASE e = x /\ r # q
      <3>1. Keeps(q, r, id) /\ Follows(q, r, id) /\ Reaches(q, r, id)
        BY <1>5, <1>6, <1>7, <1>8, <2>2, MoreKeeps
      <3> QED
        BY <1>6, <2>2, <3>1
    <2> QED
      BY <1>1, <2>1, <2>2
  <1>9. ASSUME NEW id \in Ids
        PROVE  /\ Opened(id)' => Opened(id) \/ (f = OPEN(id) /\ x = "guest" /\ ~broken /\ session[o])
               /\ OpensFirst(queue'["guest"], id, udp[id] = Nothing)
    <2>1. OpensFirst(queue["guest"], id, udp[id] = Nothing)
      BY DEF MuxInv, OpenedInv
    <2>2. CASE queue'["guest"] = queue["guest"]
      BY <2>1, <2>2 DEF Opened
    <2>3. CASE queue'["guest"] # queue["guest"]
      <3>1. x = "guest" /\ IsMore(r, q, f) /\ ~broken /\ session[o]
        BY <1>1, <1>6, <1>7, <2>3 DEF Ends
      <3>2. /\ Len(r) = Len(q) + 1 /\ Len(q) \in Nat
            /\ \A k \in 1..Len(q) : r[k] = q[k]
            /\ r[Len(q) + 1] = f
            /\ \A k \in 1..Len(r) : k \in 1..Len(q) \/ k = Len(q) + 1
        BY <1>6, <3>1, MoreAt
      <3>3. Opened(id)' => Opened(id) \/ f = OPEN(id)
        BY <1>6, <3>1, <3>2 DEF Opened
      <3>4. f = OPEN(id) => /\ \A k \in 1..Len(q) : q[k] # OPEN(id)
                            /\ udp[id] = Nothing => \A k \in 1..Len(q) : ~IsPart(q[k], id)
        <4>1. f = OPEN(id) => GuestUnopened(id)
          BY <1>4 DEF OPEN, Frame
        <4> QED
          BY <1>6, <3>1, <4>1 DEF GuestUnopened, Opened, NoParts
      <3>5. udp[id] = Nothing => ~IsPart(f, id)
        BY <1>5
      <3>6. ASSUME NEW k \in 1..Len(r), NEW l \in 1..Len(r), r[k] = OPEN(id)
            PROVE  /\ r[l] = OPEN(id) => k = l
                   /\ udp[id] = Nothing /\ IsPart(r[l], id) => k < l
        <4>1. CASE k \in 1..Len(q) /\ l \in 1..Len(q)
          BY <1>6, <2>1, <3>1, <3>2, <3>6, <4>1 DEF OpensFirst
        <4>2. CASE k \in 1..Len(q) /\ l = Len(q) + 1
          BY <3>2, <3>4, <3>5, <3>6, <4>2
        <4>3. CASE k = Len(q) + 1 /\ l \in 1..Len(q)
          BY <3>2, <3>4, <3>6, <4>3
        <4>4. CASE k = Len(q) + 1 /\ l = Len(q) + 1
          BY <3>2, <3>5, <4>4
        <4> QED
          BY <3>2, <4>1, <4>2, <4>3, <4>4
      <3> QED
        BY <1>6, <3>1, <3>3, <3>6 DEF OpensFirst
    <2> QED
      BY <2>2, <2>3
  <1> QED
    BY <1>1, <1>2, <1>3, <1>4, <1>5, <1>8, <1>9

LEMMA PostsStreams ==
  ASSUME MuxInv, MuxTypes', NEW x \in Ends, NEW o \in Ends, o = Other(x), NEW f, NEW r, Posts(x, f, r, o)
  PROVE  StreamsInv'
  <1>1. /\ o # x /\ x = Other(o) /\ \A e \in Ends : e = x \/ e = o
        /\ session[x] /\ f # Nothing
        /\ f.kind = "open" => /\ x = "guest" /\ o = "host" /\ f.id \in Ids /\ f = OPEN(f.id)
                              /\ HostUnopened(f.id) /\ GuestUnopened(f.id)
        /\ \A e \in Ends, id \in Ids : udp[id] = Nothing => /\ Keeps(queue[e], queue'[e], id)
                                                            /\ Follows(queue[e], queue'[e], id)
                                                            /\ Reaches(queue[e], queue'[e], id)
        /\ \A id \in Ids : Opened(id)' => Opened(id) \/ (f = OPEN(id) /\ x = "guest" /\ ~broken /\ session[o])
    BY PostsFact
  <1>2. /\ app' = app /\ broken' = broken /\ udp' = udp /\ streams' = streams
        /\ \A e \in Ends, id \in Ids :
             task'[e][id] = IF f.kind = "open" /\ e = x /\ id = f.id THEN [Unopened EXCEPT !.st = "run"] ELSE task[e][id]
    BY DEF Posts
  <1>3. PICK t : /\ t = [Unopened EXCEPT !.st = "run"] /\ t.st = "run" /\ t.hold = Nothing /\ t.chan = <<>> /\ ~t.rdone
    <2>1. PICK u \in StreamTasks : u = Unopened /\ u.hold = Nothing /\ u.chan = <<>> /\ Still(u)
      BY UnopenedFact
    <2>2. \A t : t = [u EXCEPT !.st = "run"] =>
             t.st = "run" /\ t.hold = u.hold /\ t.chan = u.chan /\ t.rdone = u.rdone
      BY DEF StreamTasks
    <2> QED
      BY <2>1, <2>2 DEF Still
  <1>4. /\ Unopened.st = "none" /\ Unopened.hold = Nothing /\ Unopened.chan = <<>>
    BY UnopenedFact
  <1>5. ASSUME NEW e \in Ends, NEW id \in Ids
        PROVE  \/ task'[e][id] = task[e][id]
               \/ /\ e = "guest" /\ f = OPEN(id) /\ f.kind = "open" /\ id = f.id
                  /\ task[e][id] = Unopened /\ app[e][id] = Silent /\ task'[e][id] = t
    BY <1>1, <1>2, <1>3 DEF GuestUnopened
  <1>6. \A e \in Ends, id \in Ids : task'[e][id].chan = task[e][id].chan /\ task'[e][id].hold = task[e][id].hold
    BY <1>3, <1>4, <1>5
  <1>7. \A e \in Ends, id \in Ids : Put(e, id)' = Put(e, id)
    BY <1>2, <1>6 DEF Put
  <1>8. \A e \in Ends, id \in Ids : Pending(e, id)' => Pending(e, id)
    BY <1>3, <1>4, <1>5 DEF Pending
  <1>9. ASSUME NEW e \in Ends, NEW id \in Ids, SenderInv(e, id)
        PROVE  SenderInv(e, id)'
    <2>1. CASE task'[e][id] = t /\ app[e][id] = Silent
      <3>1. FIN(id) # Nothing /\ \A n \in Nat : DATA(id, n) # Nothing
        BY FrameFact
      <3>2. app'[e][id].sent = 0
        BY <1>2, <2>1 DEF Silent
      <3> QED
        BY <1>3, <2>1, <3>1, <3>2 DEF SenderInv
    <2>2. CASE task'[e][id] = task[e][id]
      BY <1>2, <1>9, <2>2 DEF SenderInv
    <2> QED
      BY <1>5, <2>1, <2>2
  <1>10. ASSUME NEW e \in Ends, NEW id \in Ids, udp[id] = Nothing, Tracked(e, id)' => Tracked(e, id)
         PROVE  SenderInv(e, id)' /\ Quiet(e, id)
    <2>1. PICK y \in Ends : y = Other(e)
      BY OtherFact
    <2>2. SenderInv(e, id)' /\ SenderInv(y, id)'
      BY <1>9, <1>10 DEF MuxInv, StreamsInv
    <2>3. Keeps(queue[y], queue'[y], id) /\ Follows(queue[y], queue'[y], id) /\ Reaches(queue[y], queue'[y], id)
      BY <1>1, <1>10
    <2>4. Quiet(e, id)
      BY <1>2, <1>6, <1>7, <1>8, <1>10, <2>1, <2>2, <2>3 DEF Quiet
    <2> QED
      BY <2>2, <2>4
  <1>11. ASSUME NEW e \in Ends, NEW id \in Ids, ~(Tracked(e, id)' => Tracked(e, id))
         PROVE  e = "host" /\ f = OPEN(id) /\ x = "guest"
    <2>1. task'[e][id].st \in {"none", "dial", "run"} => task[e][id].st \in {"none", "dial", "run"}
      BY <1>3, <1>4, <1>5
    <2>2. (id \in streams[e] /\ task'[e][id].st \in {"none", "dial", "run"}) \/ (e = "host" /\ Opened(id)')
      BY <1>2, <1>11 DEF Tracked
    <2>3. ~(id \in streams[e] /\ task[e][id].st \in {"none", "dial", "run"}) /\ ~(e = "host" /\ Opened(id))
      BY <1>11 DEF Tracked
    <2> QED
      BY <1>1, <2>1, <2>2, <2>3
  <1>12. ASSUME NEW id \in Ids, udp[id] = Nothing, f = OPEN(id), x = "guest"
         PROVE  SenderInv("host", id)' /\ Flows("host", id)'
    <2>1. "guest" \in Ends /\ "host" \in Ends /\ "guest" = Other("host") /\ o = "host"
      BY <1>1, <1>12 DEF Ends, Other
    <2>2. SenderInv("host", id)'
      BY <1>9, <1>12, <2>1 DEF MuxInv, StreamsInv
    <2>3. HostUnopened(id) /\ GuestUnopened(id)
      BY <1>1, <1>12 DEF OPEN, Frame
    <2>4. NoParts(queue'["guest"], id)
      BY <1>1, <1>12, <2>1, <2>3 DEF Keeps, GuestUnopened
    <2>5. app'["host"][id] = Silent /\ task'["host"][id].chan = <<>>
      BY <1>2, <1>4, <1>6, <2>1, <2>3, GoneFact DEF HostUnopened
    <2>6. Put("guest", id)' = 0
      <3>1. app'["guest"][id].sent = 0 /\ task'["guest"][id].hold = Nothing
        BY <1>2, <1>4, <1>6, <2>1, <2>3 DEF GuestUnopened, Silent
      <3>2. DATA(id, 0) # Nothing
        BY FrameFact
      <3> QED
        BY <3>1, <3>2 DEF Put
    <2> QED
      BY <2>1, <2>2, <2>4, <2>5, <2>6, FlowStarts DEF Flows
  <1>13. ASSUME NEW e \in Ends, NEW id \in Ids, udp[id] = Nothing
         PROVE  SenderInv(e, id)' /\ (Quiet(e, id) \/ Flows(e, id)')
    <2>1. CASE Tracked(e, id)' => Tracked(e, id)
      BY <1>10, <1>13, <2>1
    <2>2. CASE ~(Tracked(e, id)' => Tracked(e, id))
      BY <1>11, <1>12, <1>13, <2>2
    <2> QED
      BY <2>1, <2>2
  <1> QED
    BY <1>2, <1>13, StreamsKeep

LEMMA PostsInv ==
  ASSUME MuxInv, MuxTypes', NEW x \in Ends, NEW o \in Ends, o = Other(x), NEW f, NEW r, Posts(x, f, r, o)
  PROVE  MuxInv'
  <1>1. /\ o # x /\ x = Other(o) /\ \A e \in Ends : e = x \/ e = o
        /\ session[x] /\ f # Nothing
        /\ f.kind = "open" => /\ x = "guest" /\ o = "host" /\ f.id \in Ids /\ f = OPEN(f.id)
                              /\ HostUnopened(f.id) /\ GuestUnopened(f.id)
        /\ \A e \in Ends, id \in Ids : udp[id] = Nothing => Keeps(queue[e], queue'[e], id)
        /\ \A id \in Ids : Opened(id)' => Opened(id) \/ (f = OPEN(id) /\ x = "guest")
        /\ \A id \in Ids : OpensFirst(queue'["guest"], id, udp[id] = Nothing)
    BY PostsFact
  <1>2. /\ loop[x] = f /\ loop'[x] = Nothing /\ loop'[o] = loop[o]
        /\ session' = session /\ broken' = broken /\ app' = app /\ udp' = udp /\ counter' = counter
        /\ flows' = flows /\ streams' = streams /\ events' = events
        /\ queue'[x] = r /\ queue'[o] = queue[o] /\ Len(r) <= QueueCap /\ r \in Seq(Frames)
        /\ IF broken \/ ~session[o] THEN r = queue[x] ELSE IsMore(r, queue[x], f)
    BY DEF Posts
  <1>3. PICK t : t = [Unopened EXCEPT !.st = "run"]
    OBVIOUS
  <1>4. t.st = "run" /\ t.hold = Nothing /\ t.chan = <<>>
    <2>1. PICK u \in StreamTasks : u = Unopened /\ u.hold = Nothing /\ u.chan = <<>>
      BY UnopenedFact
    <2>2. t.st = "run" /\ t.hold = u.hold /\ t.chan = u.chan
      BY <1>3, <2>1 DEF StreamTasks
    <2> QED
      BY <2>1, <2>2
  <1>5. \A e \in Ends, id \in Ids :
           task'[e][id] = IF f.kind = "open" /\ e = x /\ id = f.id THEN t ELSE task[e][id]
    BY <1>3 DEF Posts
  <1>6. MuxTypes /\ "host" \in Ends /\ "guest" \in Ends /\ \A id : OPEN(id).kind = "open" /\ OPEN(id).id = id
    BY DEF MuxInv, Ends, OPEN, Frame
  <1>7. Bounds'
    <2>1. \A e \in Ends : Len(queue'[e]) <= QueueCap /\ Cardinality(streams'[e]) <= Limit
      BY <1>1, <1>2 DEF MuxInv, Bounds
    <2>2. \A e \in Ends, id \in Ids : Len(task'[e][id].chan) <= ChanCap
      <3>1. Len(<<>>) <= ChanCap
        BY MuxAssumption DEF MuxAssumption
      <3>2. \A e \in Ends, id \in Ids : Len(task[e][id].chan) <= ChanCap
        BY DEF MuxInv, Bounds
      <3> QED
        BY <1>4, <1>5, <3>1, <3>2
    <2>3. Len(events') <= EventCap
      BY <1>2 DEF MuxInv, Bounds
    <2> QED
      BY <2>1, <2>2, <2>3 DEF Bounds
  <1>8. TasksInv'
    <2>1. ASSUME NEW e \in Ends, NEW id \in Ids, NEW u, u = task'[e][id]
          PROVE  /\ u.st \in {"none", "done", "gone"} => Still(u)
                 /\ u.st = "dial" => u.hold = Nothing /\ ~u.rdone /\ ~u.wdone
                 /\ u.hold # Nothing => u.st = "run" /\ u.hold.id = id /\ u.hold.kind \in {"data", "fin"}
      <3>1. CASE u = t
        BY <1>4, <3>1
      <3>2. CASE u = task[e][id]
        BY <3>2 DEF MuxInv, TasksInv
      <3> QED
        BY <1>5, <2>1, <3>1, <3>2
    <2> QED
      BY <2>1 DEF TasksInv
  <1>9. EndedInv'
    <2>1. ASSUME NEW e \in Ends, ~session[e]
          PROVE  streams'[e] = {} /\ loop'[e] = Nothing /\ queue'[Other(e)] = <<>> /\ \A id \in Ids : task'[e][id] = Gone
      <3>1. e = o /\ r = queue[x]
        BY <1>1, <1>2, <2>1
      <3>2. streams[e] = {} /\ loop[e] = Nothing /\ queue[Other(e)] = <<>> /\ \A id \in Ids : task[e][id] = Gone
        BY <2>1 DEF MuxInv, EndedInv
      <3> QED
        BY <1>1, <1>2, <1>5, <3>1, <3>2
    <2>2. ~session["guest"] => events = <<>>
      BY DEF MuxInv, EndedInv
    <2>3. broken => \A e \in Ends : queue'[e] = <<>>
      BY <1>1, <1>2 DEF MuxInv, EndedInv
    <2> QED
      BY <1>2, <2>1, <2>2, <2>3 DEF EndedInv
  <1>10. KindsInv'
    <2>1. \A k \in 1..Len(queue'["host"]) : queue'["host"][k].kind # "open"
      <3>1. CASE queue'["host"] = queue["host"]
        BY <3>1 DEF MuxInv, KindsInv
      <3>2. CASE queue'["host"] # queue["host"]
        <4>1. x = "host" /\ IsMore(r, queue["host"], f) /\ f.kind # "open"
          BY <1>1, <1>2, <3>2 DEF Ends
        <4>2. \A k \in 1..Len(r) : r[k] = f \/ (k \in 1..Len(queue["host"]) /\ r[k] = queue["host"][k])
          BY <1>2, <1>6, <4>1, MoreAt DEF MuxTypes
        <4> QED
          BY <1>2, <4>1, <4>2 DEF MuxInv, KindsInv
      <3> QED
        BY <3>1, <3>2
    <2>2. ASSUME NEW e \in Ends, loop'[e] # Nothing
          PROVE  /\ e = "host" => loop'[e].kind # "open"
                 /\ loop'[e].kind # "fin" /\ (loop'[e].kind = "data" => udp[loop'[e].id] # Nothing)
      <3>1. e = o /\ loop'[e] = loop[e]
        BY <1>1, <1>2, <2>2
      <3> QED
        BY <2>2, <3>1 DEF MuxInv, KindsInv
    <2> QED
      BY <1>2, <1>6, <2>1, <2>2 DEF KindsInv
  <1>11. ListInv'
    BY <1>2 DEF MuxInv, ListInv
  <1>12. ASSUME NEW id \in Ids, HostUnopened(id)
         PROVE  HostUnopened(id)'
    <2>1. task'["host"][id] = task["host"][id]
      BY <1>1, <1>5, <1>6
    <2>2. udp[id] = Nothing => NoParts(queue'["host"], id)
      BY <1>1, <1>6, <1>12 DEF HostUnopened, Keeps
    <2> QED
      BY <1>2, <1>12, <2>1, <2>2 DEF HostUnopened
  <1>13. ASSUME NEW id \in Ids, GuestUnopened(id), ~(f = OPEN(id) /\ x = "guest")
         PROVE  GuestUnopened(id)'
    <2>1. task'["guest"][id] = task["guest"][id]
      BY <1>1, <1>5, <1>6, <1>13
    <2>2. udp[id] = Nothing => NoParts(queue'["guest"], id)
      BY <1>1, <1>6, <1>13 DEF GuestUnopened, Keeps
    <2>3. ~Opened(id)'
      BY <1>1, <1>13 DEF GuestUnopened
    <2> QED
      BY <1>2, <1>13, <2>1, <2>2, <2>3 DEF GuestUnopened
  <1>14. \A id \in Ids : loop'["guest"] = OPEN(id) => loop["guest"] = OPEN(id) /\ x # "guest"
    <2>1. \A id \in Ids : OPEN(id) # Nothing
      BY FrameFact
    <2> QED
      BY <1>1, <1>2, <1>6, <2>1
  <1>15. ComingInv'
    <2>1. SUFFICES ASSUME NEW id \in Ids, Coming(id)'
                   PROVE  (HostUnopened(id) /\ GuestUnopened(id) /\ id \notin streams["guest"] /\ loop["guest"] # OPEN(id))'
      BY DEF ComingInv
    <2>2. Coming(id)
      BY <1>2, <2>1 DEF Coming, Listed
    <2>3. HostUnopened(id) /\ GuestUnopened(id) /\ id \notin streams["guest"] /\ loop["guest"] # OPEN(id)
      BY <2>2 DEF MuxInv, ComingInv
    <2> QED
      BY <1>2, <1>12, <1>13, <1>14, <2>3
  <1>16. OpeningInv'
    <2>1. SUFFICES ASSUME NEW id \in Ids, loop'["guest"] = OPEN(id)
                   PROVE  HostUnopened(id)' /\ GuestUnopened(id)'
      BY DEF OpeningInv
    <2>2. loop["guest"] = OPEN(id) /\ x # "guest"
      BY <1>14, <2>1
    <2>3. HostUnopened(id) /\ GuestUnopened(id)
      BY <2>2 DEF MuxInv, OpeningInv
    <2> QED
      BY <1>12, <1>13, <2>2, <2>3
  <1>17. OpenedInv'
    <2>1. ASSUME NEW id \in Ids, Opened(id)'
          PROVE  HostUnopened(id)'
      <3>1. HostUnopened(id)
        BY <1>1, <1>6, <2>1 DEF MuxInv, OpenedInv
      <3> QED
        BY <1>12, <3>1
    <2> QED
      BY <1>1, <1>2, <2>1 DEF OpenedInv
  <1>18. EntriesHaveTasks'
    <2>1. SUFFICES ASSUME NEW e \in Ends, NEW id \in Ids, id \in streams'[e]
                   PROVE  task'[e][id].st \in {"dial", "run", "ending", "done"} \/ loop'[e] = OPEN(id)
      BY DEF EntriesHaveTasks
    <2>2. task[e][id].st \in {"dial", "run", "ending", "done"} \/ loop[e] = OPEN(id)
      BY <1>2, <2>1 DEF MuxInv, EntriesHaveTasks
    <2>3. CASE task[e][id].st \in {"dial", "run", "ending", "done"}
      BY <1>4, <1>5, <2>3
    <2>4. CASE loop[e] = OPEN(id) /\ e = x
      BY <1>2, <1>4, <1>5, <1>6, <2>4
    <2>5. CASE loop[e] = OPEN(id) /\ e = o
      BY <1>2, <2>5
    <2> QED
      BY <1>1, <2>2, <2>3, <2>4, <2>5
  <1>19. StreamsInv'
    BY PostsStreams
  <1> QED
    BY <1>7, <1>8, <1>9, <1>10, <1>11, <1>15, <1>16, <1>17, <1>18, <1>19 DEF MuxInv

LEMMA LoopSendsInv ==
  ASSUME MuxInv, NEW x \in Ends, LoopSends(x)
  PROVE  MuxInv'
  <1>1. PICK o \in Ends : o = Other(x) /\ o # x /\ \A e \in Ends : e = x \/ e = o
    BY OtherFact DEF Ends
  <1>2. MuxTypes /\ Len(queue[x]) <= QueueCap
    BY DEF MuxInv, Bounds
  <1>3. PICK f \in Frames : loop[x] = f
    BY <1>2 DEF MuxTypes, LoopSends
  <1>4. PICK r \in Seq(Frames) :
            /\ Sent(x, f) = [queue EXCEPT ![x] = r] /\ Len(r) <= QueueCap
            /\ IF broken \/ ~session[o] THEN r = queue[x] ELSE IsMore(r, queue[x], f)
    BY <1>1, <1>2, <1>3, SentFact DEF LoopSends
  <1>5. queue' = [queue EXCEPT ![x] = r] /\ loop' = [loop EXCEPT ![x] = Nothing]
    BY <1>3, <1>4 DEF LoopSends
  <1>6. /\ queue' \in [Ends -> Seq(Frames)] /\ queue'[x] = r /\ queue'[o] = queue[o]
        /\ loop' \in [Ends -> Frames \cup {Nothing}] /\ loop'[x] = Nothing /\ loop'[o] = loop[o]
    BY <1>1, <1>2, <1>5 DEF MuxTypes
  <1>7. PICK t \in StreamTasks : t = [Unopened EXCEPT !.st = "run"]
    <2>1. PICK u \in StreamTasks : u = Unopened
      BY UnopenedFact
    <2>2. [u EXCEPT !.st = "run"] \in StreamTasks
      BY DEF StreamTasks
    <2> QED
      BY <2>1, <2>2
  <1>8. /\ task' \in [Ends -> [Ids -> StreamTasks]]
        /\ \A e \in Ends, id \in Ids :
             task'[e][id] = IF f.kind = "open" /\ e = x /\ id = f.id THEN t ELSE task[e][id]
    <2>1. task \in [Ends -> [Ids -> StreamTasks]]
      BY <1>2 DEF MuxTypes
    <2>2. CASE f.kind # "open"
      <3>1. task' = task
        BY <1>3, <2>2 DEF LoopSends
      <3> QED
        BY <2>1, <2>2, <3>1
    <2>3. CASE f.kind = "open"
      <3>1. PICK i \in Ids : i = f.id /\ f = OPEN(i)
        BY <1>3, <2>3 DEF Frames, OPEN, Frame
      <3>2. x = "guest"
        BY <1>3, <2>3, FrameFact, <3>1 DEF MuxInv, KindsInv, Ends
      <3>3. task[x][i] = Unopened
        BY <1>3, <3>1, <3>2 DEF MuxInv, OpeningInv, GuestUnopened
      <3>4. task' = [task EXCEPT ![x][i].st = "run"]
        BY <1>3, <2>3, <3>1 DEF LoopSends
      <3>5. task' = [task EXCEPT ![x][i] = t]
        BY <1>7, <2>1, <3>3, <3>4
      <3> QED
        BY <1>7, <2>1, <2>3, <3>1, <3>5
    <2> QED
      BY <2>2, <2>3
  <1>9. UNCHANGED <<session, broken, streams, app, udp, counter, flows, events>>
    BY DEF LoopSends, network, table
  <1>10. MuxTypes'
    BY <1>2, <1>6, <1>8, <1>9 DEF MuxTypes
  <1>11. Posts(x, f, r, o)
    BY <1>3, <1>4, <1>6, <1>7, <1>8, <1>9 DEF Posts
  <1> QED
    BY <1>1, <1>10, <1>11, PostsInv

-----------------------------------------------------------------------------
(* A session ends *)

\* The session of x ends; of its queue p is left.
Leaves(x, p, o) ==
    /\ session'[x] = FALSE /\ session'[o] = session[o]
    /\ queue'[x] = p /\ queue'[o] = <<>> /\ p \in Seq(Frames) /\ Len(p) <= Len(queue[x])
    /\ \A k \in 1..Len(p) : k \in 1..Len(queue[x]) /\ p[k] = queue[x][k]
    /\ \A id \in Ids : Keeps(queue[x], p, id) /\ Follows(queue[x], p, id)
    /\ loop'[x] = Nothing /\ loop'[o] = loop[o]
    /\ streams'[x] = {} /\ streams'[o] = streams[o]
    /\ \A id \in Ids : task'[x][id] = Gone /\ task'[o][id] = task[o][id]
    /\ IF x = "guest" THEN events' = <<>> /\ \A s \in Sources : flows'[s] = Nothing
                      ELSE events' = events /\ flows' = flows
    /\ UNCHANGED <<broken, app, udp, counter>>

LEMMA LeavesStreams ==
  ASSUME MuxInv, MuxTypes', NEW x \in Ends, NEW o \in Ends, o = Other(x), NEW p, Leaves(x, p, o)
  PROVE  StreamsInv'
  <1>1. o # x /\ x = Other(o) /\ \A e \in Ends : e = x \/ e = o
    BY OtherFact DEF Ends, Other
  <1>2. /\ queue'[x] = p /\ queue'[o] = <<>> /\ p \in Seq(Frames)
        /\ \A k \in 1..Len(p) : k \in 1..Len(queue[x]) /\ p[k] = queue[x][k]
        /\ \A id \in Ids : Keeps(queue[x], p, id) /\ Follows(queue[x], p, id)
        /\ streams'[x] = {} /\ streams'[o] = streams[o]
        /\ \A id \in Ids : task'[x][id] = Gone /\ task'[o][id] = task[o][id]
        /\ broken' = broken /\ app' = app /\ udp' = udp
    BY DEF Leaves
  <1>3. Gone.chan = <<>> /\ Gone.hold = Nothing /\ Still(Gone) /\ Gone.st = "gone" /\ MuxTypes
    BY GoneFact DEF MuxInv
  <1>4. \A id \in Ids : Opened(id)' => Opened(id) /\ x = "guest"
    <2>1. CASE x = "guest"
      BY <1>2, <2>1 DEF Opened
    <2>2. CASE x # "guest"
      <3>1. o = "guest"
        BY <1>1, <2>2 DEF Ends
      <3> QED
        BY <1>2, <3>1 DEF Opened
    <2> QED
      BY <2>1, <2>2
  <1>5. ASSUME NEW id \in Ids, udp[id] = Nothing
        PROVE  SenderInv(x, id)' /\ SenderInv(o, id)'
    <2>1. SenderInv(o, id)
      BY <1>5 DEF MuxInv, StreamsInv
    <2>2. SenderInv(o, id)'
      BY <1>2, <2>1 DEF SenderInv
    <2>3. FIN(id) # Nothing /\ \A n \in Nat : DATA(id, n) # Nothing
      BY FrameFact
    <2>4. app[x][id].sent \in Nat
      BY <1>3, FieldsFact
    <2> QED
      BY <1>2, <1>3, <2>2, <2>3, <2>4 DEF SenderInv
  <1>6. ASSUME NEW id \in Ids, udp[id] = Nothing
        PROVE  Quiet(x, id)
    <2>1. Keeps(queue[o], <<>>, id) /\ Follows(queue[o], <<>>, id)
      BY EmptyKeeps
    <2>2. ~Tracked(x, id)'
      BY <1>2, <1>4 DEF Tracked
    <2>3. Put(o, id)' = Put(o, id) /\ Pending(o, id)' = Pending(o, id)
      BY <1>2 DEF Put, Pending
    <2> QED
      BY <1>1, <1>2, <1>3, <1>5, <1>6, <2>1, <2>2, <2>3 DEF Quiet
  <1>7. ASSUME NEW id \in Ids, udp[id] = Nothing
        PROVE  Quiet(o, id)
    <2>1. PICK u \in StreamTasks, sent \in Nat :
             /\ u = task[x][id] /\ sent = app[x][id].sent
             /\ u.hold # Nothing => u.st = "run"
             /\ u.hold = DATA(id, sent) => sent > 0
      <3>1. task[x][id] \in StreamTasks /\ app[x][id].sent \in Nat
        BY <1>3, FieldsFact
      <3>2. task[x][id].hold # Nothing => task[x][id].st = "run"
        BY DEF MuxInv, TasksInv
      <3>3. SenderInv(x, id)
        BY <1>7 DEF MuxInv, StreamsInv
      <3> QED
        BY <3>1, <3>2, <3>3 DEF SenderInv
    <2>2. DATA(id, sent) # Nothing
      BY FrameFact
    <2>3. Put(x, id)' = sent
      BY <1>2, <1>3, <2>1, <2>2 DEF Put
    <2>4. Put(x, id)' = Put(x, id) \/ (Put(x, id)' = Put(x, id) + 1 /\ Pending(x, id))
      <3>1. CASE u.hold = DATA(id, sent)
        <4>1. Put(x, id) = sent - 1
          BY <2>1, <3>1 DEF Put
        <4>2. Pending(x, id)
          BY <2>1, <2>2, <3>1 DEF Pending
        <4>3. sent = (sent - 1) + 1
          BY <2>1
        <4> QED
          BY <2>3, <4>1, <4>2, <4>3
      <3>2. CASE u.hold # DATA(id, sent)
        BY <2>1, <2>3, <3>2 DEF Put
      <3> QED
        BY <3>1, <3>2
    <2>5. ~Pending(x, id)'
      BY <1>2, <1>3 DEF Pending
    <2>6. Tracked(o, id)' => Tracked(o, id)
      BY <1>2, <1>4 DEF Tracked
    <2>7. Keeps(queue[x], queue'[x], id) /\ Follows(queue[x], queue'[x], id)
      BY <1>2
    <2> QED
      BY <1>1, <1>2, <1>5, <1>7, <2>4, <2>5, <2>6, <2>7 DEF Quiet
  <1>8. ASSUME NEW e \in Ends, NEW id \in Ids, udp[id] = Nothing
        PROVE  SenderInv(e, id)' /\ (Quiet(e, id) \/ Flows(e, id)')
    BY <1>1, <1>5, <1>6, <1>7, <1>8
  <1> QED
    BY <1>2, <1>8, StreamsKeep

LEMMA LeavesInv ==
  ASSUME MuxInv, MuxTypes', NEW x \in Ends, NEW o \in Ends, o = Other(x), NEW p, Leaves(x, p, o)
  PROVE  MuxInv'
  <1>1. o # x /\ x = Other(o) /\ \A e \in Ends : e = x \/ e = o
    BY OtherFact DEF Ends, Other
  <1>2. /\ session'[x] = FALSE /\ session'[o] = session[o]
        /\ queue'[x] = p /\ queue'[o] = <<>> /\ p \in Seq(Frames) /\ Len(p) <= Len(queue[x])
        /\ \A k \in 1..Len(p) : k \in 1..Len(queue[x]) /\ p[k] = queue[x][k]
        /\ \A id \in Ids : Keeps(queue[x], p, id)
        /\ loop'[x] = Nothing /\ loop'[o] = loop[o]
        /\ streams'[x] = {} /\ streams'[o] = streams[o]
        /\ \A id \in Ids : task'[x][id] = Gone /\ task'[o][id] = task[o][id]
        /\ broken' = broken /\ app' = app /\ udp' = udp /\ counter' = counter
    BY DEF Leaves
  <1>3. /\ x = "guest" => events' = <<>> /\ \A s \in Sources : flows'[s] = Nothing
        /\ x # "guest" => events' = events /\ flows' = flows
    BY DEF Leaves
  <1>4. Gone.chan = <<>> /\ Gone.hold = Nothing /\ Still(Gone) /\ Gone.st = "gone" /\ MuxTypes
    BY GoneFact DEF MuxInv
  <1>5. "host" \in Ends /\ "guest" \in Ends /\ Other("host") = "guest" /\ Other("guest") = "host"
    BY DEF Ends, Other
  <1>6. Bounds'
    <2>1. /\ Len(<<>>) <= QueueCap /\ Len(<<>>) <= ChanCap /\ Len(<<>>) <= EventCap /\ QueueCap \in Nat
          /\ Cardinality({}) <= Limit
      BY MuxAssumption, FS_EmptySet DEF MuxAssumption
    <2>2. \A e \in Ends : Len(queue'[e]) <= QueueCap
      <3>1. Len(queue[x]) <= QueueCap /\ Len(queue[x]) \in Nat /\ Len(p) \in Nat /\ Len(p) <= Len(queue[x])
        BY <1>2, <1>4 DEF MuxInv, Bounds, MuxTypes
      <3>2. Len(p) <= QueueCap
        BY <2>1, <3>1
      <3> QED
        BY <1>1, <1>2, <2>1, <3>2
    <2>3. \A e \in Ends : Cardinality(streams'[e]) <= Limit
      BY <1>1, <1>2, <2>1 DEF MuxInv, Bounds
    <2>4. \A e \in Ends, id \in Ids : Len(task'[e][id].chan) <= ChanCap
      BY <1>1, <1>2, <1>4, <2>1 DEF MuxInv, Bounds
    <2>5. Len(events') <= EventCap
      BY <1>3, <2>1 DEF MuxInv, Bounds
    <2> QED
      BY <2>2, <2>3, <2>4, <2>5 DEF Bounds
  <1>7. TasksInv'
    <2>1. ASSUME NEW e \in Ends, NEW id \in Ids, NEW u, u = task'[e][id]
          PROVE  /\ u.st \in {"none", "done", "gone"} => Still(u)
                 /\ u.st = "dial" => u.hold = Nothing /\ ~u.rdone /\ ~u.wdone
                 /\ u.hold # Nothing => u.st = "run" /\ u.hold.id = id /\ u.hold.kind \in {"data", "fin"}
      <3>1. CASE u = Gone
        BY <1>4, <3>1
      <3>2. CASE u = task[e][id]
        BY <3>2 DEF MuxInv, TasksInv
      <3> QED
        BY <1>1, <1>2, <2>1, <3>1, <3>2
    <2> QED
      BY <2>1 DEF TasksInv
  <1>8. EndedInv'
    <2>1. ASSUME NEW e \in Ends, ~session'[e]
          PROVE  streams'[e] = {} /\ loop'[e] = Nothing /\ queue'[Other(e)] = <<>> /\ \A id \in Ids : task'[e][id] = Gone
      <3>1. CASE e = x
        BY <1>1, <1>2, <3>1
      <3>2. CASE e = o
        <4>1. streams[e] = {} /\ loop[e] = Nothing /\ queue[Other(e)] = <<>> /\ \A id \in Ids : task[e][id] = Gone
          BY <1>2, <2>1, <3>2 DEF MuxInv, EndedInv
        <4>2. p = <<>>
          <5>1. Len(queue[x]) = 0 /\ Len(p) \in Nat /\ Len(p) <= Len(queue[x])
            BY <1>1, <1>2, <3>2, <4>1
          <5> QED
            BY <1>2, <5>1
        <4> QED
          BY <1>1, <1>2, <3>2, <4>1, <4>2
      <3> QED
        BY <1>1, <3>1, <3>2
    <2>2. ~session'["guest"] => events' = <<>>
      <3>1. CASE x = "guest"
        BY <1>3, <3>1
      <3>2. CASE x # "guest"
        BY <1>1, <1>2, <1>3, <1>5, <3>2 DEF MuxInv, EndedInv
      <3> QED
        BY <3>1, <3>2
    <2>3. broken => \A e \in Ends : queue'[e] = <<>>
      <3>1. SUFFICES ASSUME broken PROVE p = <<>>
        BY <1>1, <1>2
      <3>2. Len(queue[x]) = 0 /\ Len(p) \in Nat /\ Len(p) <= Len(queue[x])
        <4>1. queue[x] = <<>>
          BY <3>1 DEF MuxInv, EndedInv
        <4> QED
          BY <1>2, <4>1
      <3> QED
        BY <1>2, <3>2
    <2> QED
      BY <1>2, <2>1, <2>2, <2>3 DEF EndedInv
  <1>9. KindsInv'
    <2>1. \A k \in 1..Len(queue'["host"]) : queue'["host"][k].kind # "open"
      <3>1. CASE x = "host"
        BY <1>2, <3>1 DEF MuxInv, KindsInv
      <3>2. CASE o = "host"
        BY <1>2, <3>2
      <3> QED
        BY <1>1, <1>5, <3>1, <3>2
    <2>2. ASSUME NEW e \in Ends, loop'[e] # Nothing
          PROVE  /\ e = "host" => loop'[e].kind # "open"
                 /\ loop'[e].kind # "fin" /\ (loop'[e].kind = "data" => udp[loop'[e].id] # Nothing)
      <3>1. e = o /\ loop'[e] = loop[e]
        BY <1>1, <1>2, <2>2
      <3> QED
        BY <2>2, <3>1 DEF MuxInv, KindsInv
    <2> QED
      BY <1>2, <1>5, <2>1, <2>2 DEF KindsInv
  <1>10. ListInv'
    <2>1. CASE x = "guest"
      BY <1>3, <2>1 DEF ListInv
    <2>2. CASE x # "guest"
      BY <1>2, <1>3, <2>2 DEF MuxInv, ListInv
    <2> QED
      BY <2>1, <2>2
  <1>11. ASSUME NEW id \in Ids, HostUnopened(id)
         PROVE  HostUnopened(id)'
    <2>1. udp[id] = Nothing => NoParts(queue'["host"], id)
      <3>1. CASE x = "host"
        BY <1>2, <1>11, <3>1 DEF HostUnopened, Keeps
      <3>2. CASE o = "host"
        BY <1>2, <3>2 DEF NoParts
      <3> QED
        BY <1>1, <1>5, <3>1, <3>2
    <2>2. CASE x = "host"
      BY <1>2, <1>11, <2>1, <2>2 DEF HostUnopened
    <2>3. CASE o = "host"
      BY <1>2, <1>11, <2>1, <2>3 DEF HostUnopened
    <2> QED
      BY <1>1, <1>5, <2>2, <2>3
  <1>12. ASSUME NEW id \in Ids, GuestUnopened(id), x = "host", o = "guest"
         PROVE  GuestUnopened(id)'
    BY <1>2, <1>12 DEF GuestUnopened, NoParts, Opened
  <1>13. x # "guest" => x = "host" /\ o = "guest"
    BY <1>1, <1>5
  <1>14. ComingInv'
    <2>1. SUFFICES ASSUME NEW id \in Ids, Coming(id)'
                   PROVE  (HostUnopened(id) /\ GuestUnopened(id) /\ id \notin streams["guest"] /\ loop["guest"] # OPEN(id))'
      BY DEF ComingInv
    <2>2. x = "host" /\ o = "guest"
      BY <1>2, <1>13, <2>1 DEF Coming
    <2>3. Coming(id)
      BY <1>2, <1>3, <2>1, <2>2 DEF Coming, Listed
    <2>4. HostUnopened(id) /\ GuestUnopened(id) /\ id \notin streams["guest"] /\ loop["guest"] # OPEN(id)
      BY <2>3 DEF MuxInv, ComingInv
    <2> QED
      BY <1>2, <1>11, <1>12, <2>2, <2>4
  <1>15. OpeningInv'
    <2>1. SUFFICES ASSUME NEW id \in Ids, loop'["guest"] = OPEN(id)
                   PROVE  HostUnopened(id)' /\ GuestUnopened(id)'
      BY DEF OpeningInv
    <2>2. OPEN(id) # Nothing
      BY FrameFact
    <2>3. x = "host" /\ o = "guest" /\ loop["guest"] = OPEN(id)
      BY <1>2, <1>13, <2>1, <2>2
    <2>4. HostUnopened(id) /\ GuestUnopened(id)
      BY <2>3 DEF MuxInv, OpeningInv
    <2> QED
      BY <1>11, <1>12, <2>3, <2>4
  <1>16. OpenedInv'
    <2>1. ASSUME NEW id \in Ids
          PROVE  (Opened(id)' => HostUnopened(id)') /\ OpensFirst(queue'["guest"], id, udp[id] = Nothing)
      <3>1. CASE x = "guest"
        <4>1. Opened(id)' => Opened(id)
          BY <1>2, <3>1 DEF Opened
        <4>2. OpensFirst(queue["guest"], id, udp[id] = Nothing) /\ (Opened(id) => HostUnopened(id))
          BY DEF MuxInv, OpenedInv
        <4> QED
          BY <1>2, <1>11, <3>1, <4>1, <4>2 DEF OpensFirst
      <3>2. CASE o = "guest"
        BY <1>2, <3>2 DEF Opened, OpensFirst
      <3> QED
        BY <1>1, <1>5, <3>1, <3>2
    <2> QED
      BY <1>2, <2>1 DEF OpenedInv
  <1>17. EntriesHaveTasks'
    <2>1. ASSUME NEW e \in Ends, NEW id \in Ids, id \in streams'[e]
          PROVE  task'[e][id].st \in {"dial", "run", "ending", "done"} \/ loop'[e] = OPEN(id)
      <3>1. e = o
        BY <1>1, <1>2, <2>1
      <3> QED
        BY <1>2, <2>1, <3>1 DEF MuxInv, EntriesHaveTasks
    <2> QED
      BY <2>1 DEF EntriesHaveTasks
  <1>18. StreamsInv'
    BY LeavesStreams
  <1> QED
    BY <1>6, <1>7, <1>8, <1>9, <1>10, <1>14, <1>15, <1>16, <1>17, <1>18 DEF MuxInv

LEMMA EndsInv ==
  ASSUME MuxInv, NEW x \in Ends, Ends_(x)
  PROVE  MuxInv'
  <1>1. PICK o \in Ends : o = Other(x) /\ o # x /\ \A e \in Ends : e = x \/ e = o
    BY OtherFact DEF Ends
  <1>2. MuxTypes
    BY DEF MuxInv
  <1>3. PICK q \in Seq(Frames) : q = queue[x]
    BY <1>2 DEF MuxTypes
  <1>4. PICK n \in 0..Len(q) : queue' = [queue EXCEPT ![x] = SubSeq(@, 1, n), ![o] = <<>>]
    BY <1>1, <1>3 DEF Ends_
  <1>5. PICK p : p = SubSeq(q, 1, n)
    OBVIOUS
  <1>6. /\ p \in Seq(Frames) /\ Len(p) <= Len(q)
        /\ \A k \in 1..Len(p) : k \in 1..Len(q) /\ p[k] = q[k]
    BY <1>5, PrefixAt
  <1>7. \A id \in Ids : Keeps(q, p, id) /\ Follows(q, p, id)
    BY <1>5, PrefixKeeps
  <1>8. queue' \in [Ends -> Seq(Frames)] /\ queue'[x] = p /\ queue'[o] = <<>>
    <2>1. queue' = [queue EXCEPT ![x] = p, ![o] = <<>>]
      BY <1>2, <1>3, <1>4, <1>5 DEF MuxTypes
    <2>2. <<>> \in Seq(Frames) /\ queue \in [Ends -> Seq(Frames)]
      BY <1>2 DEF MuxTypes
    <2> QED
      BY <1>1, <1>6, <2>1, <2>2
  <1>9. /\ session' \in [Ends -> BOOLEAN] /\ session'[x] = FALSE /\ session'[o] = session[o]
        /\ loop' \in [Ends -> Frames \cup {Nothing}] /\ loop'[x] = Nothing /\ loop'[o] = loop[o]
        /\ streams' \in [Ends -> SUBSET Ids] /\ streams'[x] = {} /\ streams'[o] = streams[o]
    BY <1>1, <1>2 DEF MuxTypes, Ends_
  <1>10. /\ task' \in [Ends -> [Ids -> StreamTasks]]
         /\ \A id \in Ids : task'[x][id] = Gone /\ task'[o][id] = task[o][id]
    <2>1. PICK g \in StreamTasks : g = Gone
      BY GoneFact
    <2>2. task' = [task EXCEPT ![x] = [id \in Ids |-> g]] /\ task \in [Ends -> [Ids -> StreamTasks]]
      BY <1>2, <2>1 DEF MuxTypes, Ends_
    <2> QED
      BY <1>1, <2>1, <2>2
  <1>11. /\ flows' \in [Sources -> Ids \cup {Nothing}] /\ events' \in Seq(Events)
         /\ IF x = "guest" THEN events' = <<>> /\ \A s \in Sources : flows'[s] = Nothing
                           ELSE events' = events /\ flows' = flows
    <2>1. <<>> \in Seq(Events)
      OBVIOUS
    <2> QED
      BY <1>2, <2>1 DEF MuxTypes, Ends_
  <1>12. UNCHANGED <<broken, app, udp, counter>>
    BY DEF Ends_
  <1>13. MuxTypes'
    BY <1>2, <1>8, <1>9, <1>10, <1>11, <1>12 DEF MuxTypes
  <1>14. Leaves(x, p, o)
    BY <1>3, <1>6, <1>7, <1>8, <1>9, <1>10, <1>11, <1>12 DEF Leaves
  <1> QED
    BY <1>1, <1>13, <1>14, LeavesInv

-----------------------------------------------------------------------------
(* The guest's listeners *)

\* The listeners hand on what they hear: at most one new stream, whose id is the next one.
Hears(q) ==
    /\ events' = q /\ q \in Seq(Events) /\ Len(q) <= EventCap /\ Len(events) <= Len(q)
    /\ \A k \in 1..Len(events) : q[k] = events[k]
    /\ counter' = counter \/ counter' = counter + 1
    /\ \A k \in 1..Len(q) : k > Len(events) =>
          /\ q[k].id < counter'
          /\ IF IsNew(q[k]) THEN k = Len(events) + 1 /\ q[k].id = counter
                            ELSE udp'[q[k].id] # Nothing
    /\ \A id \in Ids : udp'[id] = udp[id] \/ (id = counter /\ udp'[id] # Nothing)
    /\ \A s \in Sources : \/ flows'[s] = flows[s]
                          \/ flows'[s] = Nothing
                          \/ flows'[s] = counter /\ counter' = counter + 1 /\ udp'[counter] # Nothing
    /\ UNCHANGED <<session, broken, queue, loop, streams, task, app>>

LEMMA HearsList ==
  ASSUME MuxTypes, MuxTypes', ListInv, NEW q, Hears(q)
  PROVE  ListInv' /\ \A id \in Ids : Coming(id)' => Coming(id)
  <1>1. PICK p \in Seq(Events) : p = events
    BY DEF MuxTypes
  <1>2. /\ events' = q /\ q \in Seq(Events) /\ Len(p) <= Len(q) /\ Len(p) \in Nat /\ Len(q) \in Nat
        /\ \A k \in 1..Len(p) : q[k] = p[k]
        /\ \A k \in 1..Len(q) : k > Len(p) =>
              /\ q[k].id < counter'
              /\ IF IsNew(q[k]) THEN k = Len(p) + 1 /\ q[k].id = counter ELSE udp'[q[k].id] # Nothing
        /\ \A k \in 1..Len(q) : k \in 1..Len(p) \/ k > Len(p)
    BY <1>1 DEF Hears
  <1>3. /\ counter \in Nat /\ counter' \in Nat /\ counter <= counter'
        /\ \A id \in Ids : id \in Nat
        /\ \A k \in 1..Len(p) : p[k].id \in Ids
        /\ \A s \in Sources : flows[s] # Nothing => flows[s] \in Ids
    <2>1. counter \in Nat /\ counter' \in Nat /\ counter <= counter'
      BY MuxAssumption DEF MuxTypes, Hears, MuxAssumption
    <2>2. (\A id \in Ids : id \in Nat) /\ \A s \in Sources : flows[s] # Nothing => flows[s] \in Ids
      BY DEF MuxTypes, Ids
    <2>3. \A v \in Events : v.id \in Ids
      BY DEF Events
    <2> QED
      BY <1>1, <2>1, <2>2, <2>3
  <1>4. \A id \in Ids : id < counter => udp'[id] = udp[id]
    BY <1>3 DEF Hears
  <1>5. /\ \A i, j \in 1..Len(p) : IsNew(p[i]) /\ IsNew(p[j]) /\ p[i].id = p[j].id => i = j
        /\ \A i \in 1..Len(p) : p[i].id < counter /\ (~IsNew(p[i]) => udp[p[i].id] # Nothing)
        /\ \A s \in Sources : flows[s] # Nothing => flows[s] < counter /\ udp[flows[s]] # Nothing
    BY <1>1 DEF ListInv
  <1>6. ASSUME NEW i \in 1..Len(q), NEW j \in 1..Len(q), IsNew(q[i]), IsNew(q[j]), q[i].id = q[j].id
        PROVE  i = j
    <2>1. CASE i \in 1..Len(p) /\ j \in 1..Len(p)
      BY <1>2, <1>5, <1>6, <2>1
    <2>2. CASE i \in 1..Len(p) /\ j > Len(p)
      BY <1>2, <1>3, <1>5, <1>6, <2>2
    <2>3. CASE i > Len(p) /\ j \in 1..Len(p)
      BY <1>2, <1>3, <1>5, <1>6, <2>3
    <2>4. CASE i > Len(p) /\ j > Len(p)
      BY <1>2, <1>6, <2>4
    <2> QED
      BY <1>2, <2>1, <2>2, <2>3, <2>4
  <1>7. ASSUME NEW i \in 1..Len(q)
        PROVE  q[i].id < counter' /\ (~IsNew(q[i]) => udp'[q[i].id] # Nothing)
    <2>1. CASE i \in 1..Len(p)
      BY <1>2, <1>3, <1>4, <1>5, <2>1
    <2>2. CASE i > Len(p)
      BY <1>2, <2>2
    <2> QED
      BY <1>2, <2>1, <2>2
  <1>8. ASSUME NEW s \in Sources, flows'[s] # Nothing
        PROVE  flows'[s] < counter' /\ udp'[flows'[s]] # Nothing
    <2>1. CASE flows'[s] = flows[s]
      BY <1>3, <1>4, <1>5, <1>8, <2>1
    <2>2. CASE flows'[s] # flows[s]
      <3>1. flows'[s] = counter /\ counter' = counter + 1 /\ udp'[counter] # Nothing
        BY <1>8, <2>2 DEF Hears
      <3> QED
        BY <1>3, <3>1
    <2> QED
      BY <2>1, <2>2
  <1>9. ListInv'
    BY <1>2, <1>6, <1>7, <1>8 DEF ListInv
  <1>10. ASSUME NEW id \in Ids, Coming(id)'
         PROVE  Coming(id)
    <2>1. session["guest"]
      BY <1>10 DEF Coming, Hears
    <2>2. CASE counter' <= id
      BY <1>3, <2>1, <2>2 DEF Coming
    <2>3. CASE Listed(id)'
      <3>1. PICK k \in 1..Len(q) : IsNew(q[k]) /\ q[k].id = id
        BY <1>2, <2>3 DEF Listed
      <3>2. CASE k \in 1..Len(p)
        BY <1>1, <1>2, <2>1, <3>1, <3>2 DEF Coming, Listed
      <3>3. CASE k > Len(p)
        BY <1>2, <1>3, <2>1, <3>1, <3>3 DEF Coming
      <3> QED
        BY <1>2, <3>2, <3>3
    <2> QED
      BY <1>10, <2>2, <2>3 DEF Coming
  <1> QED
    BY <1>9, <1>10

LEMMA HearsInv ==
  ASSUME MuxInv, MuxTypes', NEW q, Hears(q), session["guest"]
  PROVE  MuxInv'
  <1>1. /\ session' = session /\ broken' = broken /\ queue' = queue /\ loop' = loop /\ streams' = streams
        /\ task' = task /\ app' = app
        /\ events' = q /\ Len(q) <= EventCap
        /\ \A id \in Ids : udp'[id] = Nothing => udp[id] = Nothing
    BY DEF Hears
  <1>2. ListInv' /\ \A id \in Ids : Coming(id)' => Coming(id)
    BY HearsList DEF MuxInv
  <1>3. Bounds' /\ TasksInv' /\ EndedInv' /\ EntriesHaveTasks'
    <2>1. Bounds'
      BY <1>1 DEF MuxInv, Bounds
    <2>2. TasksInv' /\ EntriesHaveTasks'
      BY <1>1 DEF MuxInv, TasksInv, EntriesHaveTasks
    <2>3. EndedInv'
      BY <1>1 DEF MuxInv, EndedInv
    <2> QED
      BY <2>1, <2>2, <2>3
  <1>4. KindsInv'
    <2>1. ASSUME NEW e \in Ends, loop[e] # Nothing, loop[e].kind = "data"
          PROVE  udp'[loop[e].id] # Nothing
      <3>1. loop[e] \in Frames /\ udp[loop[e].id] # Nothing
        BY <2>1 DEF MuxInv, MuxTypes, KindsInv
      <3>2. loop[e].id \in Ids
        BY <2>1, <3>1 DEF Frames
      <3> QED
        BY <1>1, <3>1, <3>2
    <2> QED
      BY <1>1, <2>1 DEF MuxInv, KindsInv
  <1>5. \A id : Opened(id)' <=> Opened(id)
    BY <1>1 DEF Opened
  <1>6. ASSUME NEW id \in Ids
        PROVE  (HostUnopened(id) => HostUnopened(id)') /\ (GuestUnopened(id) => GuestUnopened(id)')
    BY <1>1, <1>5, <1>6 DEF HostUnopened, GuestUnopened
  <1>7. ComingInv' /\ OpeningInv'
    BY <1>1, <1>2, <1>6 DEF MuxInv, ComingInv, OpeningInv
  <1>8. OpenedInv'
    <2>1. ASSUME NEW id \in Ids
          PROVE  (Opened(id)' => HostUnopened(id)') /\ OpensFirst(queue["guest"], id, udp'[id] = Nothing)
      BY <1>1, <1>5, <1>6 DEF MuxInv, OpenedInv, OpensFirst
    <2> QED
      BY <1>1, <2>1 DEF OpenedInv
  <1>9. StreamsInv'
    <2>1. ASSUME NEW e \in Ends, NEW id \in Ids, udp'[id] = Nothing
          PROVE  udp[id] = Nothing /\ SenderInv(e, id)' /\ Flows(e, id)'
      <3>1. SenderInv(e, id) /\ FlowInv(e, id) /\ ReceiverInv(e, id) /\ udp[id] = Nothing
        BY <1>1, <2>1 DEF MuxInv, StreamsInv
      <3>2. SenderInv(e, id)'
        BY <1>1, <3>1 DEF SenderInv
      <3>3. \A x \in Ends : Put(x, id)' = Put(x, id) /\ (Pending(x, id)' <=> Pending(x, id))
        BY <1>1 DEF Put, Pending
      <3>4. (Tracked(e, id)' <=> Tracked(e, id)) /\ Base(e, id)' = Base(e, id) /\ Have(e, id)' = Have(e, id)
        BY <1>1, <1>5 DEF Tracked, Base, Have
      <3>5. FlowInv(e, id)'
        BY <1>1, <3>1, <3>3, <3>4, OtherFact DEF FlowInv
      <3>6. ReceiverInv(e, id)'
        BY <1>1, <3>1, <3>3, <3>4, OtherFact DEF ReceiverInv
      <3> QED
        BY <3>1, <3>2, <3>5, <3>6 DEF Flows
    <2> QED
      BY <2>1, StreamsKeep
  <1> QED
    BY <1>2, <1>3, <1>4, <1>7, <1>8, <1>9 DEF MuxInv

\* Events behind the others.
LEMMA EventFact ==
  ASSUME NEW id \in Ids, NEW word \in {"tcp", "udp", "datagram", "close"}
  PROVE  \E v \in Events : v = [kind |-> word, id |-> id] /\ v.kind = word /\ v.id = id
  <1>1. [kind |-> word, id |-> id] \in Events
    BY DEF Events
  <1> QED
    BY <1>1

\* q is p and, behind it, v (and w).
IsLonger(q, p, v) ==
    /\ q \in Seq(Events) /\ Len(q) = Len(p) + 1 /\ Len(p) \in Nat
    /\ q[Len(p) + 1] = v /\ \A k \in 1..Len(p) : q[k] = p[k]
IsTwoLonger(q, p, v, w) ==
    /\ q \in Seq(Events) /\ Len(q) = Len(p) + 2 /\ Len(p) \in Nat
    /\ q[Len(p) + 1] = v /\ q[Len(p) + 2] = w /\ \A k \in 1..Len(p) : q[k] = p[k]

LEMMA Enqueued ==
  ASSUME NEW p \in Seq(Events), p = events, NEW v \in Events, Enqueue(<<v>>)
  PROVE  \E q : q = events' /\ IsLonger(q, p, v) /\ Len(q) <= EventCap
  <1>1. events' = p \o <<v>> /\ Len(p) + 1 <= EventCap
    BY DEF Enqueue
  <1>2. IsLonger(p \o <<v>>, p, v)
    BY DEF IsLonger
  <1>3. Len(p \o <<v>>) = Len(p) + 1
    BY <1>2 DEF IsLonger
  <1> QED
    BY <1>1, <1>2, <1>3

LEMMA EnqueuedTwo ==
  ASSUME NEW p \in Seq(Events), p = events, NEW v \in Events, NEW w \in Events, Enqueue(<<v, w>>)
  PROVE  \E q : q = events' /\ IsTwoLonger(q, p, v, w) /\ Len(q) <= EventCap
  <1>1. events' = p \o <<v, w>> /\ Len(p) + 2 <= EventCap
    BY DEF Enqueue
  <1>2. IsTwoLonger(p \o <<v, w>>, p, v, w)
    BY DEF IsTwoLonger
  <1>3. Len(p \o <<v, w>>) = Len(p) + 2
    BY <1>2 DEF IsTwoLonger
  <1> QED
    BY <1>1, <1>2, <1>3

LEMMA AcceptInv ==
  ASSUME MuxInv, Accept
  PROVE  MuxInv'
  <1>1. /\ MuxTypes /\ session["guest"] /\ counter' = counter + 1
        /\ UNCHANGED <<session, broken, queue, loop, streams, task, app, udp, flows>>
    BY DEF MuxInv, Accept, Listening, network
  <1>2. counter \in Ids /\ counter \in Nat /\ counter + 1 \in 1..(MaxIds + 1)
    BY MuxAssumption, <1>1 DEF MuxTypes, Ids, MuxAssumption, Accept, Listening
  <1>3. PICK v \in Events : v = [kind |-> "tcp", id |-> counter] /\ IsNew(v) /\ v.id = counter
    BY <1>2, EventFact DEF IsNew
  <1>4. PICK p \in Seq(Events) : p = events
    BY <1>1 DEF MuxTypes
  <1>11. Enqueue(<<v>>)
    BY <1>3 DEF Accept
  <1>5. PICK q : q = events' /\ IsLonger(q, p, v) /\ Len(q) <= EventCap
    BY <1>4, <1>11, Enqueued
  <1>6. /\ q \in Seq(Events) /\ Len(q) = Len(p) + 1 /\ Len(p) \in Nat /\ q[Len(p) + 1] = v
        /\ \A k \in 1..Len(p) : q[k] = p[k]
    BY <1>5 DEF IsLonger
  <1>7. MuxTypes'
    BY <1>1, <1>2, <1>5, <1>6 DEF MuxTypes
  <1>8. Hears(q)
    <2>1. \A k \in 1..Len(q) : k > Len(p) => k = Len(p) + 1
      BY <1>6
    <2>2. Len(p) <= Len(q) /\ counter < counter'
      BY <1>1, <1>2, <1>6
    <2> QED
      BY <1>1, <1>3, <1>4, <1>5, <1>6, <2>1, <2>2 DEF Hears
  <1> QED
    BY <1>1, <1>7, <1>8, HearsInv

LEMMA SweepInv ==
  ASSUME MuxInv, NEW s \in Sources, Sweep(s)
  PROVE  MuxInv'
  <1>1. /\ MuxTypes /\ session["guest"] /\ flows' = [flows EXCEPT ![s] = Nothing] /\ flows[s] # Nothing
        /\ UNCHANGED <<session, broken, queue, loop, streams, task, app, udp, counter>>
    BY DEF MuxInv, Sweep, network
  <1>2. PICK i \in Ids : i = flows[s] /\ i < counter /\ udp[i] # Nothing
    BY <1>1 DEF MuxInv, MuxTypes, ListInv
  <1>3. PICK v \in Events : v = [kind |-> "close", id |-> i] /\ ~IsNew(v) /\ v.id = i
    BY <1>2, EventFact DEF IsNew
  <1>4. PICK p \in Seq(Events) : p = events
    BY <1>1 DEF MuxTypes
  <1>11. Enqueue(<<v>>)
    BY <1>2, <1>3 DEF Sweep
  <1>5. PICK q : q = events' /\ IsLonger(q, p, v) /\ Len(q) <= EventCap
    BY <1>4, <1>11, Enqueued
  <1>6. /\ q \in Seq(Events) /\ Len(q) = Len(p) + 1 /\ Len(p) \in Nat /\ q[Len(p) + 1] = v
        /\ \A k \in 1..Len(p) : q[k] = p[k]
    BY <1>5 DEF IsLonger
  <1>7. flows' \in [Sources -> Ids \cup {Nothing}] /\ \A w \in Sources : flows'[w] = flows[w] \/ flows'[w] = Nothing
    BY <1>1 DEF MuxTypes
  <1>8. MuxTypes'
    BY <1>1, <1>5, <1>6, <1>7 DEF MuxTypes
  <1>9. Hears(q)
    <2>1. \A k \in 1..Len(q) : k > Len(p) => k = Len(p) + 1
      BY <1>6
    <2>2. Len(p) <= Len(q)
      BY <1>6
    <2> QED
      BY <1>1, <1>2, <1>3, <1>4, <1>5, <1>6, <1>7, <2>1, <2>2 DEF Hears
  <1> QED
    BY <1>1, <1>8, <1>9, HearsInv

LEMMA DatagramInv ==
  ASSUME MuxInv, NEW s \in Sources, Datagram(s)
  PROVE  MuxInv'
  <1>1. /\ MuxTypes /\ session["guest"]
        /\ UNCHANGED <<session, broken, queue, loop, streams, task, app>>
    BY DEF MuxInv, Datagram, network
  <1>2. PICK p \in Seq(Events) : p = events
    BY <1>1 DEF MuxTypes
  <1>3. CASE /\ flows[s] # Nothing /\ Enqueue(<<[kind |-> "datagram", id |-> flows[s]]>>)
             /\ UNCHANGED <<udp, counter, flows>>
    <2>1. PICK i \in Ids : i = flows[s] /\ i < counter /\ udp[i] # Nothing
      BY <1>1, <1>3 DEF MuxInv, MuxTypes, ListInv
    <2>2. PICK v \in Events : v = [kind |-> "datagram", id |-> i] /\ ~IsNew(v) /\ v.id = i
      BY <2>1, EventFact DEF IsNew
    <2>7. Enqueue(<<v>>)
      BY <1>3, <2>1, <2>2
    <2>3. PICK q : q = events' /\ IsLonger(q, p, v) /\ Len(q) <= EventCap
      BY <1>2, <2>7, Enqueued
    <2>4. /\ q \in Seq(Events) /\ Len(q) = Len(p) + 1 /\ Len(p) \in Nat /\ q[Len(p) + 1] = v
          /\ \A k \in 1..Len(p) : q[k] = p[k]
      BY <2>3 DEF IsLonger
    <2>5. MuxTypes'
      BY <1>1, <1>3, <2>3, <2>4 DEF MuxTypes
    <2>6. Hears(q)
      <3>1. \A k \in 1..Len(q) : k > Len(p) => k = Len(p) + 1
        BY <2>4
      <3>2. Len(p) <= Len(q)
        BY <2>4
      <3> QED
        BY <1>1, <1>2, <1>3, <2>1, <2>2, <2>3, <2>4, <3>1, <3>2 DEF Hears
    <2> QED
      BY <1>1, <2>5, <2>6, HearsInv
  <1>4. CASE /\ Listening
             /\ Enqueue(<<[kind |-> "udp", id |-> counter], [kind |-> "datagram", id |-> counter]>>)
             /\ udp' = [udp EXCEPT ![counter] = s] /\ counter' = counter + 1
             /\ flows' = [flows EXCEPT ![s] = counter]
    <2>1. counter \in Ids /\ counter \in Nat /\ counter + 1 \in 1..(MaxIds + 1)
      BY MuxAssumption, <1>1, <1>4 DEF MuxTypes, Ids, MuxAssumption, Listening
    <2>2. PICK v \in Events : v = [kind |-> "udp", id |-> counter] /\ IsNew(v) /\ v.id = counter
      BY <2>1, EventFact DEF IsNew
    <2>3. PICK w \in Events : w = [kind |-> "datagram", id |-> counter] /\ ~IsNew(w) /\ w.id = counter
      BY <2>1, EventFact DEF IsNew
    <2>9. Enqueue(<<v, w>>)
      BY <1>4, <2>2, <2>3
    <2>4. PICK q : q = events' /\ IsTwoLonger(q, p, v, w) /\ Len(q) <= EventCap
      BY <1>2, <2>9, EnqueuedTwo
    <2>5. /\ q \in Seq(Events) /\ Len(q) = Len(p) + 2 /\ Len(p) \in Nat
          /\ q[Len(p) + 1] = v /\ q[Len(p) + 2] = w
          /\ \A k \in 1..Len(p) : q[k] = p[k]
      BY <2>4 DEF IsTwoLonger
    <2>6. /\ udp' \in [Ids -> Sources \cup {Nothing}] /\ udp'[counter] # Nothing
          /\ \A id \in Ids : id # counter => udp'[id] = udp[id]
          /\ flows' \in [Sources -> Ids \cup {Nothing}]
          /\ \A a \in Sources : flows'[a] = flows[a] \/ flows'[a] = counter
      BY <1>1, <1>4, <2>1, NothingAssumption DEF MuxTypes, NothingAssumption
    <2>7. MuxTypes'
      BY <1>1, <1>4, <2>1, <2>4, <2>5, <2>6 DEF MuxTypes
    <2>8. Hears(q)
      <3>1. \A k \in 1..Len(q) : k > Len(p) => k = Len(p) + 1 \/ k = Len(p) + 2
        BY <2>5
      <3>2. Len(p) <= Len(q) /\ counter < counter'
        BY <1>4, <2>1, <2>5
      <3>3. \A id \in Ids : udp'[id] = udp[id] \/ (id = counter /\ udp'[id] # Nothing)
        BY <2>6
      <3>4. \A k \in 1..Len(q) : k > Len(p) =>
               /\ q[k].id < counter'
               /\ IF IsNew(q[k]) THEN k = Len(p) + 1 /\ q[k].id = counter ELSE udp'[q[k].id] # Nothing
        BY <2>2, <2>3, <2>5, <2>6, <3>1, <3>2
      <3> QED
        BY <1>1, <1>2, <1>4, <2>4, <2>5, <2>6, <3>2, <3>3, <3>4 DEF Hears
    <2> QED
      BY <1>1, <2>7, <2>8, HearsInv
  <1> QED
    BY <1>3, <1>4 DEF Datagram

-----------------------------------------------------------------------------
(* The transport fails *)

LEMMA BreaksInv ==
  ASSUME MuxInv, Breaks
  PROVE  MuxInv'
  <1>1. /\ session["guest"] /\ session["host"] /\ broken' = TRUE /\ queue' = [e \in Ends |-> <<>>]
        /\ UNCHANGED <<session, loop, streams, udp, counter, flows, events, task, app>>
    BY DEF Breaks, table
  <1>2. MuxTypes /\ \A e \in Ends : queue'[e] = <<>>
    BY <1>1 DEF MuxInv
  <1>3. "host" \in Ends /\ "guest" \in Ends
    BY DEF Ends
  <1>4. MuxTypes'
    <2>1. <<>> \in Seq(Frames)
      OBVIOUS
    <2> QED
      BY <1>1, <1>2, <2>1 DEF MuxTypes
  <1>5. Bounds' /\ TasksInv' /\ EntriesHaveTasks' /\ ListInv'
    <2>1. Len(<<>>) <= QueueCap
      BY MuxAssumption DEF MuxAssumption
    <2>2. Bounds'
      BY <1>1, <1>2, <2>1 DEF MuxInv, Bounds
    <2>3. TasksInv' /\ EntriesHaveTasks'
      BY <1>1 DEF MuxInv, TasksInv, EntriesHaveTasks
    <2>4. ListInv'
      BY <1>1 DEF MuxInv, ListInv
    <2> QED
      BY <2>2, <2>3, <2>4
  <1>6. EndedInv'
    BY <1>1, <1>2, OtherFact DEF MuxInv, EndedInv
  <1>7. KindsInv'
    BY <1>1, <1>2, <1>3 DEF MuxInv, KindsInv
  <1>8. \A id : ~Opened(id)'
    BY <1>2, <1>3 DEF Opened
  <1>9. ASSUME NEW id \in Ids
        PROVE  (HostUnopened(id) => HostUnopened(id)') /\ (GuestUnopened(id) => GuestUnopened(id)')
    BY <1>1, <1>2, <1>3, <1>8 DEF HostUnopened, GuestUnopened, NoParts
  <1>10. \A id \in Ids : Coming(id)' <=> Coming(id)
    BY <1>1 DEF Coming, Listed
  <1>11. ComingInv' /\ OpeningInv'
    BY <1>1, <1>9, <1>10 DEF MuxInv, ComingInv, OpeningInv
  <1>12. OpenedInv'
    BY <1>2, <1>3, <1>8 DEF OpenedInv, OpensFirst
  <1>13. StreamsInv'
    <2>1. ASSUME NEW e \in Ends, NEW id \in Ids, udp[id] = Nothing
          PROVE  SenderInv(e, id)' /\ Quiet(e, id)
      <3>1. PICK o \in Ends : o = Other(e)
        BY OtherFact
      <3>2. SenderInv(e, id) /\ SenderInv(o, id)
        BY <2>1 DEF MuxInv, StreamsInv
      <3>3. SenderInv(e, id)' /\ SenderInv(o, id)'
        BY <1>1, <3>2 DEF SenderInv
      <3>4. Keeps(queue[o], queue'[o], id) /\ Follows(queue[o], queue'[o], id)
        BY <1>2, EmptyKeeps
      <3>5. (Tracked(e, id)' => Tracked(e, id)) /\ Put(o, id)' = Put(o, id) /\ (Pending(o, id)' <=> Pending(o, id))
        BY <1>1, <1>8 DEF Tracked, Put, Pending
      <3> QED
        BY <1>1, <3>1, <3>3, <3>4, <3>5 DEF Quiet
    <2> QED
      BY <1>1, <1>4, <2>1, StreamsKeep
  <1> QED
    BY <1>4, <1>5, <1>6, <1>7, <1>11, <1>12, <1>13 DEF MuxInv

-----------------------------------------------------------------------------
(* The theorems *)

LEMMA InitInv == MuxInit => MuxInv
  <1>1. SUFFICES ASSUME MuxInit PROVE MuxInv
    OBVIOUS
  <1>2. PICK u \in StreamTasks : u = Unopened /\ Still(u) /\ u.st = "none" /\ u.chan = <<>> /\ u.hold = Nothing
    BY UnopenedFact
  <1>3. PICK a \in Apps : a = Silent /\ a.sent = 0 /\ a.got = <<>> /\ ~a.eof
    <2>1. PICK g \in Seq(Nat) : g = <<>>
      <3>1. <<>> \in Seq(Nat)
        OBVIOUS
      <3> QED
        BY <3>1, Zenon
    <2>2. PICK a \in Apps : a = [sent |-> 0, got |-> g, eof |-> FALSE]
      BY DEF Apps
    <2>3. a.sent = 0 /\ a.got = g /\ ~a.eof
      BY <2>2
    <2>4. Silent = [sent |-> 0, got |-> g, eof |-> FALSE]
      BY <2>1 DEF Silent
    <2> QED
      BY <2>1, <2>2, <2>3, <2>4
  <1>4. /\ \A e \in Ends : session[e] /\ queue[e] = <<>> /\ loop[e] = Nothing /\ streams[e] = {}
        /\ \A e \in Ends, id \in Ids : task[e][id] = u /\ app[e][id] = a
        /\ \A id \in Ids : udp[id] = Nothing
        /\ broken = FALSE /\ counter = 1 /\ events = <<>> /\ \A s \in Sources : flows[s] = Nothing
    BY <1>1, <1>2, <1>3 DEF MuxInit
  <1>5. /\ MaxIds \in Nat /\ Len(<<>>) <= QueueCap /\ Len(<<>>) <= ChanCap /\ Len(<<>>) <= EventCap
        /\ Cardinality({}) <= Limit
    BY MuxAssumption, FS_EmptySet DEF MuxAssumption
  <1>6. MuxTypes
    <2>1. <<>> \in Seq(Frames) /\ <<>> \in Seq(Events) /\ 1 \in 1..(MaxIds + 1) /\ {} \in SUBSET Ids
      BY <1>5
    <2>2. session \in [Ends -> BOOLEAN] /\ broken \in BOOLEAN
      BY <1>1 DEF MuxInit
    <2>3. queue \in [Ends -> Seq(Frames)] /\ loop \in [Ends -> Frames \cup {Nothing}] /\ streams \in [Ends -> SUBSET Ids]
      BY <1>1, <2>1 DEF MuxInit
    <2>4. task = [e \in Ends |-> [id \in Ids |-> u]] /\ app = [e \in Ends |-> [id \in Ids |-> a]]
      BY <1>1, <1>2, <1>3 DEF MuxInit
    <2>5. task \in [Ends -> [Ids -> StreamTasks]] /\ app \in [Ends -> [Ids -> Apps]]
      BY <2>4
    <2>6. udp \in [Ids -> Sources \cup {Nothing}] /\ flows \in [Sources -> Ids \cup {Nothing}]
      BY <1>1 DEF MuxInit
    <2> QED
      BY <1>4, <2>1, <2>2, <2>3, <2>5, <2>6 DEF MuxTypes
  <1>7. "host" \in Ends /\ "guest" \in Ends
    BY DEF Ends
  <1>8. Bounds
    BY <1>2, <1>4, <1>5 DEF Bounds
  <1>9. TasksInv
    BY <1>2, <1>4 DEF TasksInv
  <1>10. EndedInv /\ EntriesHaveTasks
    BY <1>4, <1>7 DEF EndedInv, EntriesHaveTasks
  <1>11. KindsInv
    BY <1>4, <1>7 DEF KindsInv
  <1>12. ListInv
    BY <1>4 DEF ListInv
  <1>13. \A id \in Ids : ~Opened(id)
    BY <1>4, <1>7 DEF Opened
  <1>14. \A id \in Ids : HostUnopened(id) /\ GuestUnopened(id) /\ OPEN(id) # Nothing
    BY <1>2, <1>3, <1>4, <1>7, <1>13, FrameFact DEF HostUnopened, GuestUnopened, NoParts
  <1>15. ComingInv /\ OpeningInv
    BY <1>4, <1>7, <1>14 DEF ComingInv, OpeningInv
  <1>16. OpenedInv
    BY <1>4, <1>7, <1>13 DEF OpenedInv, OpensFirst
  <1>17. StreamsInv
    <2>1. SUFFICES ASSUME NEW e \in Ends, NEW id \in Ids
                   PROVE  SenderInv(e, id) /\ FlowInv(e, id) /\ ReceiverInv(e, id)
      BY DEF StreamsInv
    <2>2. PICK o \in Ends : o = Other(e)
      BY OtherFact
    <2>3. \A n \in Nat : DATA(id, n) # Nothing /\ FIN(id) # Nothing
      BY FrameFact
    <2>4. SenderInv(e, id)
      BY <1>2, <1>3, <1>4, <2>3 DEF SenderInv
    <2>5. Put(o, id) = 0
      BY <1>2, <1>3, <1>4, <2>3 DEF Put
    <2>6. Have(e, id) = 0 /\ Base(e, id) = 0 /\ ~LastIsFin(task[e][id].chan) /\ ~app[e][id].eof
      <3>1. app[e][id].got = <<>> /\ task[e][id].chan = <<>> /\ ~app[e][id].eof /\ Len(<<>>) = 0
        BY <1>2, <1>3, <1>4
      <3> QED
        BY <3>1 DEF Have, Base, LastIsFin
    <2>7. FlowInv(e, id)
      <3>1. queue[o] = <<>>
        BY <1>4
      <3> QED
        BY <2>2, <2>5, <2>6, <3>1 DEF FlowInv, InOrder, Covered, HasFin, Gapless, FinLast, Reached
    <2>8. ReceiverInv(e, id)
      BY <1>2, <1>4, <2>2, <2>5, <2>6 DEF ReceiverInv, Chain
    <2> QED
      BY <2>4, <2>7, <2>8
  <1> QED
    BY <1>6, <1>8, <1>9, <1>10, <1>11, <1>12, <1>15, <1>16, <1>17 DEF MuxInv

LEMMA LoopStepInv ==
  ASSUME MuxInv, NEW x \in Ends, LoopStep(x)
  PROVE  MuxInv'
  <1>1. CASE LoopSends(x)
    BY <1>1, LoopSendsInv
  <1>2. CASE LoopGivesUp(x) \/ Expires(x) \/ TransportEnds(x) \/ Stops(x)
    <2>1. Ends_(x)
      BY <1>2 DEF LoopGivesUp, Expires, TransportEnds, Stops
    <2> QED
      BY <2>1, EndsInv
  <1>3. CASE Receive(x)
    <2>1. PICK o \in Ends : o = Other(x)
      BY OtherFact
    <2> QED
      BY <1>3, <2>1, ReceiveInv, ReceiveOpenInv
  <1>4. CASE Beat(x)
    BY <1>4, BeatInv
  <1> QED
    BY <1>1, <1>2, <1>3, <1>4 DEF LoopStep

LEMMA NextInv == MuxInv /\ [MuxNext]_muxVars => MuxInv'
  <1>1. ASSUME MuxInv, MuxNext PROVE MuxInv'
    <2>1. CASE \E e \in Ends, id \in Ids : TaskStep(e, id)
      BY <1>1, <2>1, TaskStepInv
    <2>2. CASE \E id \in Ids : UdpAnswers(id)
      BY <1>1, <2>2, UdpAnswersInv
    <2>3. CASE \E id \in Ids : Dialled(id)
      BY <1>1, <2>3, DialledInv
    <2>4. CASE \E e \in Ends : LoopStep(e)
      BY <1>1, <2>4, LoopStepInv
    <2>5. CASE \E s \in Sources : Datagram(s)
      BY <1>1, <2>5, DatagramInv
    <2>6. CASE \E s \in Sources : Sweep(s)
      BY <1>1, <2>6, SweepInv
    <2>7. CASE Accept
      BY <1>1, <2>7, AcceptInv
    <2>8. CASE Local
      BY <1>1, <2>8, LocalInv, LocalNewInv
    <2>9. CASE Breaks
      BY <1>1, <2>9, BreaksInv
    <2> QED
      BY <1>1, <2>1, <2>2, <2>3, <2>4, <2>5, <2>6, <2>7, <2>8, <2>9 DEF MuxNext
  <1>2. ASSUME MuxInv, UNCHANGED muxVars PROVE MuxInv'
    <2>1. UNCHANGED <<session, broken, queue, loop, streams, task, app, udp, counter, flows, events>>
      BY <1>2 DEF muxVars
    <2>2. MuxTypes' /\ Bounds' /\ TasksInv' /\ EndedInv'
      BY <1>2, <2>1 DEF MuxInv, MuxTypes, Bounds, TasksInv, EndedInv
    <2>3. KindsInv' /\ ListInv' /\ EntriesHaveTasks'
      BY <1>2, <2>1 DEF MuxInv, KindsInv, ListInv, EntriesHaveTasks
    <2>4. \A id : (Opened(id)' <=> Opened(id)) /\ (Coming(id)' <=> Coming(id))
      BY <2>1 DEF Opened, Coming, Listed
    <2>5. \A id : (HostUnopened(id)' <=> HostUnopened(id)) /\ (GuestUnopened(id)' <=> GuestUnopened(id))
      BY <2>1, <2>4 DEF HostUnopened, GuestUnopened
    <2>6. ComingInv' /\ OpeningInv' /\ OpenedInv'
      BY <1>2, <2>1, <2>4, <2>5 DEF MuxInv, ComingInv, OpeningInv, OpenedInv
    <2>7. StreamsInv'
      <3>1. \A e, id : Put(e, id)' = Put(e, id) /\ (Pending(e, id)' <=> Pending(e, id))
        BY <2>1 DEF Put, Pending
      <3>2. \A e, id : (Tracked(e, id)' <=> Tracked(e, id)) /\ Have(e, id)' = Have(e, id) /\ Base(e, id)' = Base(e, id)
        BY <2>1, <2>4 DEF Tracked, Have, Base
      <3>3. \A e, id : SenderInv(e, id)' <=> SenderInv(e, id)
        BY <2>1 DEF SenderInv
      <3>4. \A e, id : FlowInv(e, id)' <=> FlowInv(e, id)
        BY <2>1, <3>1, <3>2 DEF FlowInv
      <3>5. \A e, id : ReceiverInv(e, id)' <=> ReceiverInv(e, id)
        BY <2>1, <3>1, <3>2 DEF ReceiverInv
      <3> QED
        BY <1>2, <2>1, <3>3, <3>4, <3>5 DEF MuxInv, StreamsInv
    <2> QED
      BY <2>2, <2>3, <2>6, <2>7 DEF MuxInv
  <1> QED
    BY <1>1, <1>2

LEMMA InvMeansSound == MuxInv => MuxIsSound
  <1>1. SUFFICES ASSUME MuxInv PROVE MuxIsSound
    OBVIOUS
  <1>2. MuxTypes /\ Bounds /\ EntriesHaveTasks
    BY <1>1 DEF MuxInv
  <1>3. MuxTypeOK
    BY <1>2 DEF MuxTypes, Bounds, MuxTypeOK
  <1>4. ASSUME NEW e \in Ends, NEW id \in Ids, udp[id] = Nothing
        PROVE  /\ app[e][id].got = [n \in 1..Len(app[e][id].got) |-> n]
               /\ Len(app[e][id].got) <= app[Other(e)][id].sent
               /\ SeesEnd(e, id) => Len(app[e][id].got) = app[Other(e)][id].sent \/ id \in cut[e]
    <2>1. PICK o \in Ends : o = Other(e)
      BY OtherFact
    <2>2. SenderInv(o, id) /\ ReceiverInv(e, id)
      BY <1>1, <1>4, <2>1 DEF MuxInv, StreamsInv
    <2>3. PICK got \in Seq(Nat), sent \in Nat, put \in Nat, c \in Seq(Frames), h \in Frames \cup {Nothing} :
             /\ got = app[e][id].got /\ sent = app[o][id].sent /\ put = Put(o, id) /\ c = task[e][id].chan
             /\ h = task[o][id].hold
      BY <1>2, <2>2, FieldsFact, PutFact
    <2>4. \A k \in 1..Len(got) : got[k] = k
      BY <2>2, <2>3 DEF ReceiverInv, Have
    <2>5. got = [n \in 1..Len(got) |-> n]
      <3>1. got \in [1..Len(got) -> Nat]
        BY <2>3
      <3>2. got = [n \in 1..Len(got) |-> got[n]]
        BY <3>1
      <3> QED
        BY <2>4, <3>2
    <2>6. put = IF h = DATA(id, sent) THEN sent - 1 ELSE sent
      BY <2>3 DEF Put
    <2>7. Len(got) <= put
      <3>1. Base(e, id) = Len(got) + Len(c) /\ Len(c) \in Nat /\ Len(got) \in Nat
        BY <2>3 DEF Base, Have
      <3>2. IF LastIsFin(c) THEN Base(e, id) = put + 1 ELSE Base(e, id) <= put
        BY <2>1, <2>2, <2>3 DEF ReceiverInv
      <3>3. LastIsFin(c) => Len(c) > 0
        BY <2>3 DEF LastIsFin
      <3>4. \A l, m, b, n : l \in Nat /\ m \in Nat /\ n \in Nat /\ b = l + m /\ (b <= n \/ (b = n + 1 /\ m > 0)) => l <= n
        OBVIOUS
      <3>5. Base(e, id) <= put \/ (Base(e, id) = put + 1 /\ Len(c) > 0)
        BY <3>2, <3>3
      <3> QED
        BY ONLY <2>3, <3>1, <3>4, <3>5
    <2>8. app[e][id].eof => Len(got) = put /\ ~Pending(o, id)
      BY <2>1, <2>2, <2>3 DEF ReceiverInv, Have
    <2>9. h = DATA(id, sent) => Pending(o, id)
      <3>1. DATA(id, sent) # Nothing
        BY <2>3, FrameFact
      <3>2. h # Nothing => task[o][id].st = "run"
        BY <1>1, <2>3 DEF MuxInv, TasksInv
      <3> QED
        BY <2>3, <3>1, <3>2 DEF Pending
    <2>10. Len(got) <= sent /\ (app[e][id].eof => Len(got) = sent)
      BY <2>3, <2>6, <2>7, <2>8, <2>9
    <2> QED
      BY <2>1, <2>3, <2>5, <2>10 DEF SeesEnd
  <1>5. StreamsAreWhole
    BY <1>4 DEF StreamsAreWhole
  <1> QED
    BY <1>2, <1>3, <1>5 DEF MuxIsSound

\* The invariant of the multiplexer: an opened stream finds both ends as they were at the
\* start; what a task has put into a queue and the other application has not got yet is
\* in the queue or in the stream's channel, in order, as long as anyone still takes it;
\* a channel that is given up never takes anything again.
THEOREM MuxInvHolds == MuxSpec => []MuxInv
  <1> QED
    BY InitInv, NextInv, PTL DEF MuxSpec

\* Whatever the sizes of the queues and the limits: an application receives what the other
\* one wrote, from the first byte and without a gap, whatever was reset or refused, and all
\* of it when it sees the end of its connection, unless that was cut; no entry of a
\* stream table outlives its task.
THEOREM MuxHolds == MuxSpec => []MuxIsSound
  <1> QED
    BY MuxInvHolds, InvMeansSound, PTL

=============================================================================
