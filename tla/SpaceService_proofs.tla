-------------------------- MODULE SpaceService_proofs --------------------------
(***************************************************************************)
(* Proofs about what is forwarded between two connections.  SpaceStore and *)
(* SpaceService, for any devices, quotas, connections and times: first the *)
(* tables, then the server on them.  Tunnel, for any number of connections *)
(* and chunks and channels of any size.                                    *)
(***************************************************************************)
EXTENDS SpaceService, Tunnel, FiniteSetTheorems, SequenceTheorems, TLAPS

-----------------------------------------------------------------------------
(* The tables of the store                                                 *)

\* Identifiers are drawn once, and a row names only rows that are there.
RowsAgree ==
    /\ \A row \in spaces : row.id <= made.spaces
    /\ \A row, other \in spaces : row.id = other.id => row = other
    /\ \A i \in invites : /\ i.id <= made.invites /\ i.remaining <= i.uses
                          /\ \E row \in spaces : row.id = i.space
    /\ \A i, j \in invites : i.id = j.id => i = j
    /\ \A r \in receipts : \E i \in invites : i.id = r.invite

Finite == IsFiniteSet(spaces) /\ IsFiniteSet(members) /\ IsFiniteSet(receipts)

\* The inductive invariant of the tables.
StoreInv == TablesAreSound /\ RowsAgree /\ Finite

-----------------------------------------------------------------------------
(* Sets and numbers *)

\* A set of natural numbers that is not empty has its Min.
LEMMA MinFact ==
  ASSUME NEW S \in SUBSET Nat, S # {}
  PROVE  Min(S) \in S
  <1>1. IsWellFoundedOn(OpToRel(<, Nat), Nat)
    BY NatLessThanWellFounded
  <1>2. PICK i \in S : \A j \in S : ~(<<j, i>> \in OpToRel(<, Nat))
    BY <1>1, WFMin
  <1>3. \A j \in S : ~(j < i)
    BY <1>2 DEF OpToRel
  <1>4. \A j \in S : i <= j
    BY <1>3
  <1> QED
    BY <1>4 DEF Min

\* What has a limit keeps it when rows go.
LEMMA FewerFact ==
  ASSUME NEW S, IsFiniteSet(S), NEW T \in SUBSET S
  PROVE  IsFiniteSet(T) /\ Cardinality(T) \in Nat /\ Cardinality(S) \in Nat
         /\ Cardinality(T) <= Cardinality(S)
  BY FS_Subset, FS_CardinalityType

\* What was under a limit stays within it when one row comes.
LEMMA OneMoreFact ==
  ASSUME NEW S, IsFiniteSet(S), NEW x, NEW T \in SUBSET (S \cup {x})
  PROVE  IsFiniteSet(T) /\ Cardinality(T) \in Nat /\ Cardinality(S) \in Nat
         /\ Cardinality(T) <= Cardinality(S) + 1
  <1>1. IsFiniteSet(S \cup {x}) /\ Cardinality(S \cup {x}) <= Cardinality(S) + 1
        /\ Cardinality(S) \in Nat
    BY SMTT(30), FS_AddElement, FS_CardinalityType
  <1> QED
    BY <1>1, FewerFact

\* Who is alive later was alive before.
LEMMA AliveFact ==
  ASSUME NEW row, row.expires \in Nat \cup {Forever}, NEW a \in Nat, NEW b \in Nat,
         a <= b, Alive(row, b)
  PROVE  Alive(row, a)
  BY DEF Alive

LEMMA StampFact ==
  ASSUME StoreTypeOK, NEW at \in Stamps
  PROVE  at \in Nat /\ clock \in Nat /\ at <= clock
  BY BoundAssumption DEF BoundAssumption, StoreTypeOK, Stamps

\* The invitations of a space.
LEMMA InvitesOfFact ==
  ASSUME NEW s, NEW id
  PROVE  id \in InvitesOf(s) <=> \E i \in invites : i.id = id /\ i.space = s
  BY DEF InvitesOf

\* A space with room has an address to give: the first one is its owner's, and more
\* than its members there are.
LEMMA FreeAddressFact ==
  ASSUME StoreInv, NEW s \in Spaces, \E row \in spaces : row.id = s,
         Cardinality(MembersOf(s)) < MembersPerSpace
  PROVE  /\ FreeAddress(s) \in Addresses
         /\ \A m \in MembersOf(s) : m.address # FreeAddress(s)
  <1> DEFINE open == {a \in 2..LastAddress : \A m \in MembersOf(s) : m.address # a}
  <1>1. LastAddress \in Nat /\ MembersPerSpace \in Nat /\ MembersPerSpace <= LastAddress
    BY QuotaAssumption DEF QuotaAssumption
  <1>2. IsFiniteSet(MembersOf(s)) /\ Cardinality(MembersOf(s)) \in Nat
    BY FewerFact DEF StoreInv, Finite, MembersOf
  <1>3. open # {}
    <2>1. SUFFICES ASSUME open = {} PROVE FALSE
      OBVIOUS
    <2>2. \A a \in 1..LastAddress : \E m \in MembersOf(s) : m.address = a
      <3>1. \E m \in MembersOf(s) : m.address = 1
        <4>1. PICK row \in spaces : row.id = s
          OBVIOUS
        <4>2. HasAddress(s, row.owner, 1)
          BY <4>1 DEF StoreInv, TablesAreSound, AddressesHold
        <4>3. PICK m \in members : m = [space |-> s, device |-> row.owner, address |-> 1]
          BY <4>2 DEF HasAddress
        <4> QED
          BY <4>3 DEF MembersOf
      <3>2. ASSUME NEW a \in 1..LastAddress, a # 1
            PROVE  \E m \in MembersOf(s) : m.address = a
        BY <1>1, <2>1, <3>2
      <3> QED
        BY <3>1, <3>2
    <2> DEFINE f == [a \in 1..LastAddress |-> CHOOSE m \in MembersOf(s) : m.address = a]
    <2>3. \A a \in 1..LastAddress : f[a] \in MembersOf(s) /\ f[a].address = a
      BY <2>2
    <2>4. f \in [1..LastAddress -> MembersOf(s)]
      BY <2>3
    <2>5. IsFiniteSet(1..LastAddress) /\ Cardinality(1..LastAddress) = LastAddress
      BY <1>1, FS_Interval
    <2>6. \E a, b \in 1..LastAddress : a # b /\ f[a] = f[b]
      <3> HIDE DEF f
      <3> QED
        BY <1>1, <1>2, <2>4, <2>5, FS_PigeonHole
    <2> QED
      BY <2>3, <2>6
  <1>4. open \in SUBSET Nat
    BY <1>1
  <1>5. FreeAddress(s) \in open
    BY <1>3, <1>4, MinFact DEF FreeAddress
  <1> QED
    BY <1>1, <1>5 DEF Addresses

\* The two in the form in which a limit is kept.
LEMMA StillWithin ==
  ASSUME NEW S, IsFiniteSet(S), NEW T, T \subseteq S, NEW n \in Nat, Cardinality(S) <= n
  PROVE  Cardinality(T) <= n
  BY FewerFact
LEMMA OneMoreWithin ==
  ASSUME NEW S, IsFiniteSet(S), NEW x, NEW T, T \subseteq S \cup {x},
         NEW n \in Nat, Cardinality(S) < n
  PROVE  Cardinality(T) <= n
  BY OneMoreFact

-----------------------------------------------------------------------------
(* Each transaction *)

LEMMA CreateKeeps ==
  ASSUME StoreInv, NEW d \in Devices, NEW request \in Requests, NEW at \in Stamps,
         Create(d, request, at), UNCHANGED clock
  PROVE  StoreInv'
  <1>1. PICK life \in Lives :
          LET expires == IF life = Forever THEN Forever ELSE at + life
              kept == {row \in spaces : Alive(row, at)}
              gone == {row.id : row \in spaces \ kept}
              staying == {m \in members : m.space \notin gone}
              id == made.spaces + 1
          IN  /\ d \in Founders
              /\ ~ \E row \in kept : row.owner = d /\ row.request = request
              /\ Cardinality(kept) < SpaceLimit /\ Cardinality(staying) < TotalMembers
              /\ id \in Spaces
              /\ spaces' = kept \cup
                    {[id |-> id, owner |-> d, request |-> request, expires |-> expires]}
              /\ members' = staying \cup {[space |-> id, device |-> d, address |-> 1]}
              /\ Cascade(gone)
              /\ made' = [made EXCEPT !.spaces = id]
    BY DEF Create
  <1> DEFINE expires == IF life = Forever THEN Forever ELSE at + life
             kept == {row \in spaces : Alive(row, at)}
             gone == {row.id : row \in spaces \ kept}
             staying == {m \in members : m.space \notin gone}
             id == made.spaces + 1
             new == [id |-> id, owner |-> d, request |-> request, expires |-> expires]
             first == [space |-> id, device |-> d, address |-> 1]
  <1>2. /\ Cardinality(kept) < SpaceLimit /\ Cardinality(staying) < TotalMembers
        /\ id \in Spaces
        /\ spaces' = kept \cup {new} /\ members' = staying \cup {first}
        /\ invites' = {i \in invites : i.space \notin gone}
        /\ receipts' = {r \in receipts : \A s \in gone : r.invite \notin InvitesOf(s)}
        /\ made' = [made EXCEPT !.spaces = id]
    BY <1>1 DEF Cascade
  <1>3. /\ at \in Nat /\ clock \in Nat /\ at <= clock /\ clock' = clock
        /\ made.spaces \in Nat /\ made.invites \in Nat
        /\ made'.spaces = id /\ made'.invites = made.invites
    BY <1>2, StampFact, BoundAssumption DEF BoundAssumption, StoreInv, TablesAreSound, StoreTypeOK
  <1>4. expires \in Nat \cup {Forever}
    BY <1>3, TimeAssumption DEF TimeAssumption
  <1> HIDE DEF expires
  <1>5. /\ 1 \in Addresses /\ MembersPerSpace \in Nat /\ 1 <= MembersPerSpace
        /\ TotalMembers \in Nat /\ SpaceLimit \in Nat
    BY QuotaAssumption DEF QuotaAssumption, Addresses
  <1>6. \A s \in gone : s <= made.spaces /\ s # id
    BY <1>3 DEF StoreInv, RowsAgree, TablesAreSound, StoreTypeOK, Spaces
  <1>7. \A m \in members : m.space # id
    BY <1>3 DEF StoreInv, RowsAgree, TablesAreSound, StoreTypeOK, AddressesHold, Spaces
  \* A row of a table that stays belongs to a space that stays.
  <1>8. \A s : s \notin gone /\ (\E row \in spaces : row.id = s) => \E row \in kept : row.id = s
    OBVIOUS
  <1>9. \A row \in kept : row.id \notin gone
    BY DEF StoreInv, RowsAgree
  <1>10. StoreTypeOK'
    BY <1>2, <1>3, <1>4, <1>5 DEF StoreInv, TablesAreSound, StoreTypeOK, Spaces
  <1>11. AddressesHold'
    <2>1. \A m, n \in members' : m.space = n.space /\ m.address = n.address => m = n
      BY <1>2, <1>7 DEF StoreInv, TablesAreSound, AddressesHold
    <2>2. \A m, n \in members' : m.space = n.space /\ m.device = n.device => m = n
      BY <1>2, <1>7 DEF StoreInv, TablesAreSound, AddressesHold
    <2>3. ASSUME NEW row \in spaces'
          PROVE  [space |-> row.id, device |-> row.owner, address |-> 1] \in members'
      <3>1. CASE row \in kept
        <4>1. [space |-> row.id, device |-> row.owner, address |-> 1] \in staying
          BY <1>9, <3>1 DEF StoreInv, TablesAreSound, AddressesHold, HasAddress
        <4> QED
          BY <1>2, <4>1
      <3>2. CASE row = new
        BY <1>2, <3>2
      <3> QED
        BY <1>2, <3>1, <3>2
    <2>4. ASSUME NEW m \in members' PROVE \E row \in spaces' : row.id = m.space
      <3>1. CASE m \in staying
        <4>1. \E row \in kept : row.id = m.space
          BY <1>8, <3>1 DEF StoreInv, TablesAreSound, AddressesHold
        <4> QED
          BY <1>2, <4>1
      <3>2. CASE m = first
        <4>1. new \in spaces' /\ new.id = m.space
          BY <1>2, <3>2
        <4> QED
          BY <4>1
      <3> QED
        BY <1>2, <3>1, <3>2
    <2> QED
      BY <2>1, <2>2, <2>3, <2>4 DEF AddressesHold, HasAddress
  <1>12. RowsAgree'
    <2>1. \A row \in spaces' : row.id <= made'.spaces
      BY <1>2, <1>3 DEF StoreInv, RowsAgree, TablesAreSound, StoreTypeOK, Spaces
    <2>2. \A row, other \in spaces' : row.id = other.id => row = other
      BY <1>2, <1>3 DEF StoreInv, RowsAgree, TablesAreSound, StoreTypeOK, Spaces
    <2>3. \A i \in invites' : /\ i.id <= made'.invites /\ i.remaining <= i.uses
                              /\ \E row \in spaces' : row.id = i.space
      BY <1>2, <1>3, <1>8 DEF StoreInv, RowsAgree
    <2>4. \A i, j \in invites' : i.id = j.id => i = j
      BY <1>2 DEF StoreInv, RowsAgree
    <2>5. ASSUME NEW r \in receipts' PROVE \E i \in invites' : i.id = r.invite
      <3>1. PICK i \in invites : i.id = r.invite
        BY <1>2 DEF StoreInv, RowsAgree
      <3>2. i.space \notin gone
        BY <1>2, <3>1, InvitesOfFact
      <3> QED
        BY <1>2, <3>1, <3>2
    <2> QED
      BY <2>1, <2>2, <2>3, <2>4, <2>5 DEF RowsAgree
  <1>13. Finite'
    <2>1. IsFiniteSet(kept) /\ IsFiniteSet(staying) /\ IsFiniteSet(receipts')
      BY <1>2, FewerFact DEF StoreInv, Finite
    <2> QED
      BY <1>2, <2>1, FS_AddElement DEF Finite
  <1>14. InviteLedger'
    <2> SUFFICES ASSUME NEW i \in invites'
                 PROVE  /\ Cardinality({r \in receipts' : r.invite = i.id}) <= i.uses - i.remaining
                        /\ \A r \in receipts' : r.invite = i.id =>
                              \E m \in members' : m.space = i.space /\ m.device = r.device
      BY DEF InviteLedger, IsMember, MembersOf
    <2>1. i \in invites /\ i.space \notin gone
      BY <1>2
    <2>2. /\ Cardinality({r \in receipts : r.invite = i.id}) <= i.uses - i.remaining
          /\ \A r \in receipts : r.invite = i.id =>
                \E m \in members : m.space = i.space /\ m.device = r.device
      BY <2>1 DEF StoreInv, TablesAreSound, InviteLedger, IsMember, MembersOf
    <2>3. i.uses \in Nat /\ i.remaining \in Nat
      BY <2>1, QuotaAssumption DEF QuotaAssumption, StoreInv, TablesAreSound, StoreTypeOK
    <2>4. IsFiniteSet({r \in receipts : r.invite = i.id})
      BY FewerFact DEF StoreInv, Finite
    <2>5. {r \in receipts' : r.invite = i.id} \in SUBSET {r \in receipts : r.invite = i.id}
      BY <1>2
    <2> QED
      BY <1>2, <2>1, <2>2, <2>3, <2>4, <2>5, FewerFact
  <1>15. QuotasHold'
    <2>1. IsFiniteSet(staying) /\ IsFiniteSet(kept)
      BY FewerFact DEF StoreInv, Finite
    <2>2. Cardinality(MembersAt(clock))' <= TotalMembers
      <3>1. MembersAt(clock)' \in SUBSET (staying \cup {first})
        BY <1>2 DEF MembersAt
      <3> HIDE DEF staying, first
      <3> QED
        BY <1>2, <1>5, <2>1, <3>1, OneMoreWithin
    <2>3. Cardinality({row \in spaces' : Alive(row, clock')}) <= SpaceLimit
      <3>1. {row \in spaces' : Alive(row, clock')} \in SUBSET (kept \cup {new})
        BY <1>2
      <3> HIDE DEF kept, new
      <3> QED
        BY <1>2, <1>5, <2>1, <3>1, OneMoreWithin
    <2>4. ASSUME NEW s \in Spaces
          PROVE  Cardinality(MembersOf(s))' <= MembersPerSpace
      <3>1. CASE s = id
        <4>1. MembersOf(s)' \in SUBSET ({} \cup {first})
          BY <1>2, <1>7, <3>1 DEF MembersOf
        <4>2. IsFiniteSet({}) /\ Cardinality({}) = 0
          BY FS_EmptySet
        <4>3. 0 < MembersPerSpace
          BY <1>5
        <4> HIDE DEF first
        <4> QED
          BY <1>5, <4>1, <4>2, <4>3, OneMoreWithin
      <3>2. CASE s # id
        <4>1. MembersOf(s)' \in SUBSET MembersOf(s)
          BY <1>2, <3>2 DEF MembersOf
        <4>2. IsFiniteSet(MembersOf(s)) /\ Cardinality(MembersOf(s)) <= MembersPerSpace
          BY FewerFact DEF StoreInv, Finite, MembersOf, TablesAreSound, QuotasHold
        <4> QED
          BY <1>5, <4>1, <4>2, FewerFact
      <3> QED
        BY <3>1, <3>2
    <2> QED
      BY <2>2, <2>3, <2>4 DEF QuotasHold
  <1> QED
    BY <1>10, <1>11, <1>12, <1>13, <1>14, <1>15 DEF StoreInv, TablesAreSound

LEMMA UsesFact ==
  ASSUME StoreInv, NEW i \in invites
  PROVE  /\ i.uses \in Nat /\ i.remaining \in Nat /\ i.remaining <= i.uses
         /\ i.uses - i.remaining \in Nat
  <1>1. i.uses \in Nat /\ i.remaining \in Nat /\ i.remaining <= i.uses
    BY QuotaAssumption DEF QuotaAssumption, StoreInv, TablesAreSound, StoreTypeOK, RowsAgree
  <1> QED
    BY <1>1

\* The receipts of an invitation, when none came: the ledger of one invitation holds.
LEMMA LedgerShrinks ==
  ASSUME StoreInv, NEW i \in invites, NEW n \in Nat, i.uses - i.remaining <= n,
         NEW held, held \subseteq {r \in receipts : r.invite = i.id}
  PROVE  Cardinality(held) <= n
  <1>1. Cardinality({r \in receipts : r.invite = i.id}) <= i.uses - i.remaining
    BY DEF StoreInv, TablesAreSound, InviteLedger
  <1>2. i.uses \in Nat /\ i.remaining \in Nat /\ i.remaining <= i.uses
    BY UsesFact
  <1>3. IsFiniteSet({r \in receipts : r.invite = i.id})
    BY FewerFact DEF StoreInv, Finite
  <1>4. Cardinality(held) <= Cardinality({r \in receipts : r.invite = i.id})
        /\ Cardinality(held) \in Nat
        /\ Cardinality({r \in receipts : r.invite = i.id}) \in Nat
    BY <1>3, FewerFact
  <1> QED
    BY <1>1, <1>2, <1>4

\* Tables in which rows only went, the rows that name them with them, are within
\* the quotas at any later time.
LEMMA QuotasShrink ==
  ASSUME StoreInv, spaces' \subseteq spaces, members' \subseteq members,
         clock' \in Nat, clock <= clock'
  PROVE  QuotasHold'
  <1>1. /\ MembersPerSpace \in Nat /\ TotalMembers \in Nat /\ SpaceLimit \in Nat
        /\ clock \in Nat
    BY QuotaAssumption, BoundAssumption
       DEF QuotaAssumption, BoundAssumption, StoreInv, TablesAreSound, StoreTypeOK
  <1>2. \A row \in spaces : Alive(row, clock') => Alive(row, clock)
    BY <1>1, AliveFact DEF StoreInv, TablesAreSound, StoreTypeOK
  <1>3. Cardinality(MembersAt(clock))' <= TotalMembers
    <2>1. MembersAt(clock)' \subseteq MembersAt(clock)
      BY <1>2 DEF MembersAt, Active
    <2>2. IsFiniteSet(MembersAt(clock)) /\ Cardinality(MembersAt(clock)) <= TotalMembers
      BY FewerFact DEF StoreInv, Finite, MembersAt, TablesAreSound, QuotasHold
    <2> QED
      BY <1>1, <2>1, <2>2, StillWithin
  <1>4. Cardinality({row \in spaces : Alive(row, clock)})' <= SpaceLimit
    <2>1. {row \in spaces : Alive(row, clock)}' \subseteq {row \in spaces : Alive(row, clock)}
      BY <1>2
    <2>2. /\ IsFiniteSet({row \in spaces : Alive(row, clock)})
          /\ Cardinality({row \in spaces : Alive(row, clock)}) <= SpaceLimit
      BY FewerFact DEF StoreInv, Finite, TablesAreSound, QuotasHold
    <2> QED
      BY <1>1, <2>1, <2>2, StillWithin
  <1>5. ASSUME NEW s \in Spaces PROVE Cardinality(MembersOf(s))' <= MembersPerSpace
    <2>1. MembersOf(s)' \subseteq MembersOf(s)
      BY DEF MembersOf
    <2>2. IsFiniteSet(MembersOf(s)) /\ Cardinality(MembersOf(s)) <= MembersPerSpace
      BY FewerFact DEF StoreInv, Finite, MembersOf, TablesAreSound, QuotasHold
    <2> QED
      BY <1>1, <2>1, <2>2, StillWithin
  <1> QED
    BY <1>3, <1>4, <1>5 DEF QuotasHold

LEMMA InviteKeeps ==
  ASSUME StoreInv, NEW s \in Spaces, NEW d \in Devices, NEW at \in Stamps,
         Invite(s, d, at), UNCHANGED clock
  PROVE  StoreInv'
  <1>1. PICK ttl \in Ttls, uses \in Uses :
          /\ Owns(s, d) /\ Active(s, at)
          /\ made.invites + 1 \in Invites
          /\ invites' = invites \cup
                {[id |-> made.invites + 1, space |-> s, expires |-> at + ttl,
                  remaining |-> uses, uses |-> uses, revoked |-> FALSE]}
          /\ made' = [made EXCEPT !.invites = made.invites + 1]
          /\ UNCHANGED <<spaces, members, receipts>>
    BY DEF Invite
  <1> DEFINE new == [id |-> made.invites + 1, space |-> s, expires |-> at + ttl,
                     remaining |-> uses, uses |-> uses, revoked |-> FALSE]
  <1>2. /\ at \in Nat /\ at + ttl \in Nat /\ uses \in Nat
        /\ made.spaces \in Nat /\ made.invites \in Nat
        /\ made'.spaces = made.spaces /\ made'.invites = made.invites + 1
    BY <1>1, StampFact, BoundAssumption, TimeAssumption, QuotaAssumption
       DEF BoundAssumption, TimeAssumption, QuotaAssumption, StoreInv, TablesAreSound, StoreTypeOK
  <1>3. \A i \in invites : i.id <= made.invites /\ i.id \in Nat
    BY DEF StoreInv, RowsAgree, TablesAreSound, StoreTypeOK, Invites
  <1>4. StoreTypeOK'
    <2>1. new \in [id: Invites, space: Spaces, expires: Nat, remaining: Nat,
                   uses: Uses, revoked: BOOLEAN]
      BY <1>1, <1>2
    <2>2. invites' = invites \cup {new}
      BY <1>1
    <2>3. made' \in [spaces: 0..MaxSpaces, invites: 0..MaxInvites]
      BY <1>1 DEF StoreInv, TablesAreSound, StoreTypeOK, Invites
    <2> HIDE DEF new
    <2> QED
      BY <1>1, <2>1, <2>2, <2>3 DEF StoreInv, TablesAreSound, StoreTypeOK
  <1>5. AddressesHold'
    BY <1>1 DEF StoreInv, TablesAreSound, AddressesHold, HasAddress
  <1>6. RowsAgree'
    <2>1. \A i \in invites' : /\ i.id <= made'.invites /\ i.remaining <= i.uses
                              /\ \E row \in spaces' : row.id = i.space
      BY <1>1, <1>2, <1>3 DEF StoreInv, RowsAgree, Owns
    <2>2. \A i, j \in invites' : i.id = j.id => i = j
      <3>1. invites' = invites \cup {new} /\ new.id = made.invites + 1
        BY <1>1
      <3>2. \A i \in invites : i.id # new.id
        BY <1>2, <1>3, <3>1
      <3> HIDE DEF new
      <3> QED
        BY <3>1, <3>2 DEF StoreInv, RowsAgree
    <2> QED
      BY <1>1, <1>2, <2>1, <2>2 DEF StoreInv, RowsAgree
  <1>7. Finite'
    BY <1>1 DEF StoreInv, Finite
  <1>8. InviteLedger'
    <2> SUFFICES ASSUME NEW i \in invites'
                 PROVE  /\ Cardinality({r \in receipts' : r.invite = i.id}) <= i.uses - i.remaining
                        /\ \A r \in receipts' : r.invite = i.id =>
                              \E m \in members' : m.space = i.space /\ m.device = r.device
      BY DEF InviteLedger, IsMember, MembersOf
    <2>1. CASE i \in invites
      BY <1>1, <2>1 DEF StoreInv, TablesAreSound, InviteLedger, IsMember, MembersOf
    <2>2. CASE i = new
      <3>1. {r \in receipts' : r.invite = i.id} = {}
        BY <1>1, <1>2, <1>3, <2>2 DEF StoreInv, RowsAgree
      <3>2. i.uses - i.remaining = 0
        BY <1>2, <2>2
      <3> QED
        BY SMTT(30), <3>1, <3>2, FS_EmptySet
    <2> QED
      BY <1>1, <2>1, <2>2
  <1>9. QuotasHold'
    BY <1>1, StampFact, QuotasShrink DEF StoreInv, TablesAreSound
  <1> QED
    BY <1>4, <1>5, <1>6, <1>7, <1>8, <1>9 DEF StoreInv, TablesAreSound

LEMMA RedeemKeeps ==
  ASSUME StoreInv, NEW i \in invites, NEW d \in Devices, NEW request \in Requests,
         NEW at \in Stamps, Redeem(i, d, request, at), UNCHANGED clock
  PROVE  StoreInv'
  <1> DEFINE s == i.space
             member == [space |-> s, device |-> d, address |-> FreeAddress(s)]
             used == [i EXCEPT !.remaining = @ - 1]
             receipt == [invite |-> i.id, device |-> d, request |-> request]
  <1>1. /\ Active(s, at) /\ ~IsMember(s, d) /\ i.remaining > 0
        /\ Cardinality(MembersOf(s)) < MembersPerSpace
        /\ Cardinality(MembersAt(at)) < TotalMembers
        /\ members' = members \cup {member}
        /\ invites' = (invites \ {i}) \cup {used}
        /\ receipts' = receipts \cup {receipt}
        /\ UNCHANGED <<spaces, made, clock>>
    BY DEF Redeem, Usable, RoomFor, Receipt
  <1>2. /\ s \in Spaces /\ i.id \in Invites /\ i.uses \in Nat /\ i.remaining \in Nat
        /\ i.remaining <= i.uses /\ \E row \in spaces : row.id = s
        /\ i \in [id: Invites, space: Spaces, expires: Nat, remaining: Nat,
                  uses: Uses, revoked: BOOLEAN]
    BY QuotaAssumption DEF QuotaAssumption, StoreInv, TablesAreSound, StoreTypeOK, RowsAgree
  <1>3. /\ FreeAddress(s) \in Addresses
        /\ \A m \in MembersOf(s) : m.address # FreeAddress(s)
    BY <1>1, <1>2, FreeAddressFact
  <1>4. /\ used.id = i.id /\ used.space = s /\ used.uses = i.uses
        /\ used.remaining = i.remaining - 1 /\ used.remaining \in Nat
        /\ used \in [id: Invites, space: Spaces, expires: Nat, remaining: Nat,
                     uses: Uses, revoked: BOOLEAN]
    BY <1>1, <1>2
  <1>5. member.space = s /\ member.device = d /\ member.address = FreeAddress(s)
    OBVIOUS
  <1>6. receipt.invite = i.id /\ receipt.device = d
    OBVIOUS
  <1> HIDE DEF used
  <1>7. StoreTypeOK'
    BY <1>1, <1>2, <1>3, <1>4 DEF StoreInv, TablesAreSound, StoreTypeOK
  <1> HIDE DEF member, receipt
  <1>8. AddressesHold'
    <2>1. \A m, n \in members' : m.space = n.space /\ m.address = n.address => m = n
      BY <1>1, <1>3, <1>5 DEF StoreInv, TablesAreSound, AddressesHold, MembersOf
    <2>2. \A m, n \in members' : m.space = n.space /\ m.device = n.device => m = n
      BY <1>1, <1>5 DEF StoreInv, TablesAreSound, AddressesHold, IsMember, MembersOf
    <2>3. \A row \in spaces' : HasAddress(row.id, row.owner, 1)'
      BY <1>1 DEF StoreInv, TablesAreSound, AddressesHold, HasAddress
    <2>4. \A m \in members' : \E row \in spaces' : row.id = m.space
      BY <1>1, <1>2, <1>5 DEF StoreInv, TablesAreSound, AddressesHold
    <2> QED
      BY <2>1, <2>2, <2>3, <2>4 DEF AddressesHold
  <1>9. RowsAgree'
    <2>1. \A j \in invites' : /\ j.id <= made'.invites /\ j.remaining <= j.uses
                              /\ \E row \in spaces' : row.id = j.space
      BY <1>1, <1>2, <1>4 DEF StoreInv, RowsAgree
    <2>2. \A j, k \in invites' : j.id = k.id => j = k
      BY <1>1, <1>4 DEF StoreInv, RowsAgree
    <2>3. \A r \in receipts' : \E j \in invites' : j.id = r.invite
      BY <1>1, <1>4, <1>6 DEF StoreInv, RowsAgree
    <2> QED
      BY <1>1, <2>1, <2>2, <2>3 DEF StoreInv, RowsAgree
  <1>10. Finite'
    BY <1>1, FS_AddElement DEF StoreInv, Finite
  <1>11. InviteLedger'
    <2> SUFFICES ASSUME NEW j \in invites'
                 PROVE  /\ Cardinality({r \in receipts' : r.invite = j.id}) <= j.uses - j.remaining
                        /\ \A r \in receipts' : r.invite = j.id =>
                              \E m \in members' : m.space = j.space /\ m.device = r.device
      BY DEF InviteLedger, IsMember, MembersOf
    <2>1. \A k \in invites :
            /\ Cardinality({r \in receipts : r.invite = k.id}) <= k.uses - k.remaining
            /\ \A r \in receipts : r.invite = k.id =>
                  \E m \in members : m.space = k.space /\ m.device = r.device
      BY DEF StoreInv, TablesAreSound, InviteLedger, IsMember, MembersOf
    <2>2. CASE j \in invites /\ j.id # i.id
      <3>1. {r \in receipts' : r.invite = j.id} = {r \in receipts : r.invite = j.id}
        BY <1>1, <1>6, <2>2
      <3> QED
        BY <1>1, <2>1, <2>2, <3>1
    <2>3. CASE j = used
      <3> DEFINE held == {r \in receipts : r.invite = i.id}
      <3>1. {r \in receipts' : r.invite = j.id} \subseteq held \cup {receipt}
        BY <1>1, <1>4, <2>3
      <3>2. IsFiniteSet(held) /\ Cardinality(held) <= i.uses - i.remaining
        BY <2>1, FewerFact DEF StoreInv, Finite
      <3>3. Cardinality(held) < i.uses - i.remaining + 1 /\ i.uses - i.remaining + 1 \in Nat
            /\ j.uses - j.remaining = i.uses - i.remaining + 1
        BY <1>2, <1>4, <2>3, <3>2, FS_CardinalityType
      <3>4. Cardinality({r \in receipts' : r.invite = j.id}) <= i.uses - i.remaining + 1
        <4> HIDE DEF held
        <4> QED
          BY <3>1, <3>2, <3>3, OneMoreWithin
      <3>5. ASSUME NEW r \in receipts', r.invite = j.id
            PROVE  \E m \in members' : m.space = j.space /\ m.device = r.device
        <4>1. CASE r \in receipts
          BY ZenonT(60), <1>1, <1>4, <2>1, <2>3, <3>5, <4>1
        <4>2. CASE r = receipt
          <5>1. member \in members' /\ member.space = j.space /\ member.device = r.device
            BY <1>1, <1>4, <1>5, <1>6, <2>3, <4>2
          <5> QED
            BY <5>1
        <4> QED
          BY <1>1, <4>1, <4>2
      <3> QED
        BY <3>3, <3>4, <3>5
    <2> QED
      BY <1>1, <2>2, <2>3 DEF StoreInv, RowsAgree
  <1>12. QuotasHold'
    <2>1. /\ MembersPerSpace \in Nat /\ TotalMembers \in Nat
          /\ at \in Nat /\ clock \in Nat /\ at <= clock
      BY QuotaAssumption, StampFact DEF QuotaAssumption, StoreInv, TablesAreSound
    <2>2. Cardinality(MembersAt(clock))' <= TotalMembers
      <3>1. \A row \in spaces : Alive(row, clock) => Alive(row, at)
        BY <2>1, AliveFact DEF StoreInv, TablesAreSound, StoreTypeOK
      <3>2. MembersAt(clock)' \subseteq MembersAt(at) \cup {member}
        BY <1>1, <3>1 DEF MembersAt, Active
      <3>3. IsFiniteSet(MembersAt(at))
        BY FewerFact DEF StoreInv, Finite, MembersAt
      <3> QED
        BY <1>1, <2>1, <3>2, <3>3, OneMoreWithin
    <2>3. Cardinality({row \in spaces' : Alive(row, clock')}) <= SpaceLimit
      BY <1>1 DEF StoreInv, TablesAreSound, QuotasHold
    <2>4. ASSUME NEW t \in Spaces PROVE Cardinality(MembersOf(t))' <= MembersPerSpace
      <3>1. CASE t = s
        <4>1. MembersOf(t)' \subseteq MembersOf(s) \cup {member}
          BY <1>1, <3>1 DEF MembersOf
        <4>2. IsFiniteSet(MembersOf(s))
          BY FewerFact DEF StoreInv, Finite, MembersOf
        <4> QED
          BY <1>1, <2>1, <4>1, <4>2, OneMoreWithin
      <3>2. CASE t # s
        <4>1. MembersOf(t)' = MembersOf(t)
          BY <1>1, <1>5, <3>2 DEF MembersOf
        <4> QED
          BY <4>1 DEF StoreInv, TablesAreSound, QuotasHold
      <3> QED
        BY <3>1, <3>2
    <2> QED
      BY <2>2, <2>3, <2>4 DEF QuotasHold
  <1> QED
    BY <1>7, <1>8, <1>9, <1>10, <1>11, <1>12 DEF StoreInv, TablesAreSound

\* A member goes, and with it its receipts for the space.
LEMMA WithoutKeeps ==
  ASSUME StoreInv, NEW s \in Spaces, NEW d \in Devices, ~Owns(s, d), Without(s, d),
         UNCHANGED clock
  PROVE  StoreInv'
  <1>1. /\ members' = {m \in members : m.space # s \/ m.device # d}
        /\ receipts' = {r \in receipts : ~(r.device = d /\ r.invite \in InvitesOf(s))}
        /\ UNCHANGED <<spaces, invites, made, clock>>
    BY DEF Without, MembersOf
  <1>2. StoreTypeOK'
    BY <1>1 DEF StoreInv, TablesAreSound, StoreTypeOK
  <1>3. AddressesHold'
    <2>1. ASSUME NEW row \in spaces
          PROVE  [space |-> row.id, device |-> row.owner, address |-> 1] \in members'
      <3>1. [space |-> row.id, device |-> row.owner, address |-> 1] \in members
        BY DEF StoreInv, TablesAreSound, AddressesHold, HasAddress
      <3>2. row.id # s \/ row.owner # d
        BY DEF Owns
      <3> QED
        BY <1>1, <3>1, <3>2
    <2> QED
      BY <1>1, <2>1 DEF StoreInv, TablesAreSound, AddressesHold, HasAddress
  <1>4. RowsAgree'
    BY <1>1 DEF StoreInv, RowsAgree
  <1>5. Finite'
    BY <1>1, FewerFact DEF StoreInv, Finite
  <1>6. InviteLedger'
    <2> SUFFICES ASSUME NEW i \in invites
                 PROVE  /\ Cardinality({r \in receipts' : r.invite = i.id}) <= i.uses - i.remaining
                        /\ \A r \in receipts' : r.invite = i.id =>
                              \E m \in members' : m.space = i.space /\ m.device = r.device
      BY <1>1 DEF InviteLedger, IsMember, MembersOf
    <2>1. i.uses - i.remaining \in Nat
      BY UsesFact
    <2>2. {r \in receipts' : r.invite = i.id} \subseteq {r \in receipts : r.invite = i.id}
      BY <1>1
    <2>3. Cardinality({r \in receipts' : r.invite = i.id}) <= i.uses - i.remaining
      BY <2>1, <2>2, LedgerShrinks
    <2>4. ASSUME NEW r \in receipts', r.invite = i.id
          PROVE  \E m \in members' : m.space = i.space /\ m.device = r.device
      <3>1. PICK m \in members : m.space = i.space /\ m.device = r.device
        BY <1>1, <2>4 DEF StoreInv, TablesAreSound, InviteLedger, IsMember, MembersOf
      <3>2. i.space # s \/ r.device # d
        BY <1>1, <2>4, InvitesOfFact
      <3> QED
        BY <1>1, <3>1, <3>2
    <2> QED
      BY <2>3, <2>4
  <1>7. QuotasHold'
    BY <1>1, QuotasShrink, StampFact, BoundAssumption
       DEF BoundAssumption, StoreInv, TablesAreSound, StoreTypeOK
  <1> QED
    BY <1>2, <1>3, <1>4, <1>5, <1>6, <1>7 DEF StoreInv, TablesAreSound

LEMMA RemoveMemberKeeps ==
  ASSUME StoreInv, NEW s \in Spaces, NEW owner \in Devices, NEW d \in Devices, NEW at \in Stamps,
         RemoveMember(s, owner, d, at), UNCHANGED clock
  PROVE  StoreInv'
  <1>1. ~Owns(s, d)
    BY DEF RemoveMember, Owns, StoreInv, RowsAgree
  <1> QED
    BY <1>1, WithoutKeeps DEF RemoveMember

LEMMA LeaveKeeps ==
  ASSUME StoreInv, NEW s \in Spaces, NEW d \in Devices, NEW at \in Stamps,
         Leave(s, d, at), UNCHANGED clock
  PROVE  StoreInv'
  BY WithoutKeeps DEF Leave

LEMMA DeleteKeeps ==
  ASSUME StoreInv, NEW s \in Spaces, NEW owner \in Devices, NEW at \in Stamps,
         Delete(s, owner, at), UNCHANGED clock
  PROVE  StoreInv'
  <1>1. /\ spaces' = {row \in spaces : row.id # s}
        /\ members' = {m \in members : m.space # s}
        /\ invites' = {i \in invites : i.space # s}
        /\ receipts' = {r \in receipts : r.invite \notin InvitesOf(s)}
        /\ UNCHANGED <<made, clock>>
    BY DEF Delete, Cascade
  <1>2. StoreTypeOK'
    BY <1>1 DEF StoreInv, TablesAreSound, StoreTypeOK
  <1>3. AddressesHold'
    <2>1. \A row \in spaces' : [space |-> row.id, device |-> row.owner, address |-> 1] \in members'
      BY <1>1 DEF StoreInv, TablesAreSound, AddressesHold, HasAddress
    <2>2. \A m \in members' : \E row \in spaces' : row.id = m.space
      BY <1>1 DEF StoreInv, TablesAreSound, AddressesHold
    <2> QED
      BY <1>1, <2>1, <2>2 DEF StoreInv, TablesAreSound, AddressesHold, HasAddress
  <1>4. RowsAgree'
    <2>1. \A i \in invites' : \E row \in spaces' : row.id = i.space
      BY <1>1 DEF StoreInv, RowsAgree
    <2>2. \A r \in receipts' : \E i \in invites' : i.id = r.invite
      BY <1>1, InvitesOfFact DEF StoreInv, RowsAgree
    <2> QED
      BY <1>1, <2>1, <2>2 DEF StoreInv, RowsAgree
  <1>5. Finite'
    BY <1>1, FewerFact DEF StoreInv, Finite
  <1>6. InviteLedger'
    <2> SUFFICES ASSUME NEW i \in invites'
                 PROVE  /\ Cardinality({r \in receipts' : r.invite = i.id}) <= i.uses - i.remaining
                        /\ \A r \in receipts' : r.invite = i.id =>
                              \E m \in members' : m.space = i.space /\ m.device = r.device
      BY DEF InviteLedger, IsMember, MembersOf
    <2>1. i \in invites /\ i.uses - i.remaining \in Nat
      BY <1>1, UsesFact
    <2>2. {r \in receipts' : r.invite = i.id} \subseteq {r \in receipts : r.invite = i.id}
      BY <1>1
    <2>3. Cardinality({r \in receipts' : r.invite = i.id}) <= i.uses - i.remaining
      BY <2>1, <2>2, LedgerShrinks
    <2> QED
      BY <1>1, <2>1, <2>3 DEF StoreInv, TablesAreSound, InviteLedger, IsMember, MembersOf
  <1>7. QuotasHold'
    BY <1>1, QuotasShrink, StampFact, BoundAssumption
       DEF BoundAssumption, StoreInv, TablesAreSound, StoreTypeOK
  <1> QED
    BY <1>2, <1>3, <1>4, <1>5, <1>6, <1>7 DEF StoreInv, TablesAreSound

LEMMA RevokeInvitesKeeps ==
  ASSUME StoreInv, NEW s \in Spaces, NEW owner \in Devices, NEW at \in Stamps,
         RevokeInvites(s, owner, at), UNCHANGED clock
  PROVE  StoreInv'
  <1> DEFINE Now(i) == IF i.space = s THEN [i EXCEPT !.revoked = TRUE] ELSE i
  <1>1. invites' = {Now(i) : i \in invites} /\ UNCHANGED <<spaces, members, receipts, made, clock>>
    BY DEF RevokeInvites
  <1>2. ASSUME NEW i \in invites
        PROVE  /\ Now(i).id = i.id /\ Now(i).space = i.space
               /\ Now(i).uses = i.uses /\ Now(i).remaining = i.remaining
               /\ Now(i) \in [id: Invites, space: Spaces, expires: Nat, remaining: Nat,
                              uses: Uses, revoked: BOOLEAN]
    <2>1. i \in [id: Invites, space: Spaces, expires: Nat, remaining: Nat,
                 uses: Uses, revoked: BOOLEAN]
      BY DEF StoreInv, TablesAreSound, StoreTypeOK
    <2> QED
      BY <2>1
  <1> HIDE DEF Now
  <1>3. \A j \in invites' : \E i \in invites :
          j = Now(i) /\ j.id = i.id /\ j.space = i.space /\ j.uses = i.uses
          /\ j.remaining = i.remaining
    BY <1>1, <1>2
  <1>4. StoreTypeOK'
    BY <1>1, <1>2 DEF StoreInv, TablesAreSound, StoreTypeOK
  <1>5. AddressesHold'
    BY <1>1 DEF StoreInv, TablesAreSound, AddressesHold, HasAddress
  <1>6. RowsAgree'
    <2>1. \A j, k \in invites' : j.id = k.id => j = k
      BY <1>3 DEF StoreInv, RowsAgree
    <2>2. \A r \in receipts' : \E j \in invites' : j.id = r.invite
      BY <1>1, <1>2 DEF StoreInv, RowsAgree
    <2>3. \A j \in invites' : /\ j.id <= made'.invites /\ j.remaining <= j.uses
                              /\ \E row \in spaces' : row.id = j.space
      BY <1>1, <1>3 DEF StoreInv, RowsAgree
    <2> QED
      BY <1>1, <2>1, <2>2, <2>3 DEF StoreInv, RowsAgree
  <1>7. Finite'
    BY <1>1 DEF StoreInv, Finite
  <1>8. InviteLedger'
    <2> SUFFICES ASSUME NEW j \in invites'
                 PROVE  /\ Cardinality({r \in receipts : r.invite = j.id}) <= j.uses - j.remaining
                        /\ \A r \in receipts : r.invite = j.id => IsMember(j.space, r.device)
      BY <1>1 DEF InviteLedger, IsMember, MembersOf
    <2>1. PICK i \in invites : j.id = i.id /\ j.space = i.space /\ j.uses = i.uses
                               /\ j.remaining = i.remaining
      BY <1>3
    <2> QED
      BY <2>1 DEF StoreInv, TablesAreSound, InviteLedger
  <1>9. QuotasHold'
    BY <1>1, QuotasShrink, StampFact, BoundAssumption
       DEF BoundAssumption, StoreInv, TablesAreSound, StoreTypeOK
  <1> QED
    BY <1>4, <1>5, <1>6, <1>7, <1>8, <1>9 DEF StoreInv, TablesAreSound

\* Time passes: a space may expire, and its rows stay.
LEMMA TickKeeps ==
  ASSUME StoreInv, Tick
  PROVE  StoreInv'
  <1>1. /\ UNCHANGED <<spaces, members, invites, receipts, made>>
        /\ clock' \in 0..MaxClock /\ clock' \in Nat /\ clock \in Nat /\ clock <= clock'
    BY BoundAssumption DEF BoundAssumption, Tick, tables, StoreInv, TablesAreSound, StoreTypeOK
  <1>2. StoreTypeOK' /\ AddressesHold' /\ RowsAgree' /\ Finite'
    BY <1>1 DEF StoreInv, TablesAreSound, StoreTypeOK, AddressesHold, HasAddress, RowsAgree, Finite
  <1>3. InviteLedger'
    BY <1>1 DEF StoreInv, TablesAreSound, InviteLedger, IsMember, MembersOf
  <1>4. QuotasHold'
    BY <1>1, QuotasShrink
  <1> QED
    BY <1>2, <1>3, <1>4 DEF StoreInv, TablesAreSound

-----------------------------------------------------------------------------
(* The store alone *)

LEMMA StoreInitSound ==
  ASSUME StoreInit
  PROVE  StoreInv
  <1>1. StoreTypeOK /\ AddressesHold /\ RowsAgree
    BY BoundAssumption DEF BoundAssumption, StoreInit, StoreTypeOK, AddressesHold, RowsAgree
  <1>2. IsFiniteSet({}) /\ Cardinality({}) = 0
    BY FS_EmptySet
  <1>3. InviteLedger /\ Finite
    BY <1>2 DEF StoreInit, InviteLedger, Finite
  <1>4. MembersAt(clock) = {} /\ {row \in spaces : Alive(row, clock)} = {}
        /\ \A s \in Spaces : MembersOf(s) = {}
    BY DEF StoreInit, MembersAt, MembersOf
  <1>5. QuotasHold
    BY <1>2, <1>4, QuotaAssumption DEF QuotaAssumption, QuotasHold
  <1> QED
    BY <1>1, <1>3, <1>5 DEF StoreInv, TablesAreSound

LEMMA StoreStutters ==
  ASSUME StoreInv, UNCHANGED <<tables, clock>>
  PROVE  StoreInv'
  <1>1. UNCHANGED <<spaces, members, invites, receipts, made, clock>>
    BY DEF tables
  <1>2. StoreTypeOK' /\ AddressesHold' /\ RowsAgree' /\ Finite'
    BY <1>1 DEF StoreInv, TablesAreSound, StoreTypeOK, AddressesHold, HasAddress, RowsAgree, Finite
  <1>3. InviteLedger'
    BY <1>1 DEF StoreInv, TablesAreSound, InviteLedger, IsMember, MembersOf
  <1>4. QuotasHold'
    BY <1>1 DEF StoreInv, TablesAreSound, QuotasHold, MembersAt, MembersOf, Active
  <1> QED
    BY <1>2, <1>3, <1>4 DEF StoreInv, TablesAreSound

LEMMA StoreStep ==
  ASSUME StoreInv, [StoreNext]_<<tables, clock>>
  PROVE  StoreInv'
  <1>1. CASE Tick
    BY <1>1, TickKeeps
  <1>2. ASSUME UNCHANGED clock, NEW d \in Devices, NEW at \in Stamps,
               NEW r \in Requests, Create(d, r, at)
        PROVE  StoreInv'
    BY <1>2, CreateKeeps
  <1>3. ASSUME UNCHANGED clock, NEW d \in Devices, NEW at \in Stamps,
               NEW i \in invites, NEW r \in Requests, Redeem(i, d, r, at)
        PROVE  StoreInv'
    BY <1>3, RedeemKeeps
  <1>4. ASSUME UNCHANGED clock, NEW d \in Devices, NEW at \in Stamps, NEW s \in Spaces,
               \/ Invite(s, d, at) \/ RevokeInvites(s, d, at)
               \/ Leave(s, d, at) \/ Delete(s, d, at)
               \/ \E e \in Devices : RemoveMember(s, d, e, at)
        PROVE  StoreInv'
    BY <1>4, InviteKeeps, RevokeInvitesKeeps, LeaveKeeps, DeleteKeeps, RemoveMemberKeeps
  <1>5. CASE UNCHANGED <<tables, clock>>
    BY <1>5, StoreStutters
  <1> QED
    BY <1>1, <1>2, <1>3, <1>4, <1>5 DEF StoreNext

\* After any transactions of storage/ identifiers are unique, rows name rows that are there,
\* and addresses, invitations and quotas hold.
THEOREM StoreInvHolds == StoreSpec => []StoreInv
  <1>1. StoreInit => StoreInv
    BY StoreInitSound
  <1>2. StoreInv /\ [StoreNext]_<<tables, clock>> => StoreInv'
    BY StoreStep
  <1> QED
    BY <1>1, <1>2, PTL DEF StoreSpec

\* Whatever requests come and however long they waited, the tables hold rows of
\* their kinds, addresses do not collide, an invitation admits no more devices than
\* it has uses, and the quotas hold.
THEOREM TablesHold == StoreSpec => []TablesAreSound
  <1>1. StoreInv => TablesAreSound
    BY DEF StoreInv
  <1> QED
    BY <1>1, StoreInvHolds, PTL

-----------------------------------------------------------------------------
(* The server: sessions, relay connections and the hub                     *)

\* A session number is drawn once: who has it has the lease it was drawn for, and a
\* connection the one it was admitted by.
SessionsAgree ==
    /\ \A p \in Held(leases) : p[1] <= made.spaces /\ leases[p].session <= sessions
    /\ \A p, q \in Held(leases) : leases[p].session = leases[q].session => p = q
    /\ \A c \in Conns : conns[c] # None =>
          /\ conns[c].session <= sessions
          /\ \A p \in Held(leases) : leases[p].session = conns[c].session =>
                p = Pair(c) /\ leases[p].address = conns[c].address

\* The inductive invariant.
ServiceInv == StoreInv /\ RelayIsSound /\ SessionsAgree

\* What a connection never changes.
Same(x, y) ==
    x.space = y.space /\ x.device = y.device /\ x.address = y.address /\ x.session = y.session

-----------------------------------------------------------------------------
(* Records *)

LEMMA ConnsFact ==
  ASSUME TypeOK, NEW c \in Conns, conns[c] # None
  PROVE  conns[c] \in Relays /\ Pair(c) \in Pairs /\ Place(c) \in Places
  BY DEF TypeOK, Relays, Pair, Place, Pairs, Places

LEMMA LeasesFact ==
  ASSUME TypeOK, NEW p \in Held(leases)
  PROVE  leases[p] \in Leases /\ p \in Pairs /\ leases[p] # None
  BY DEF TypeOK, Held

LEMMA PhaseFact ==
  ASSUME NEW r \in Relays, NEW ph \in {"upgrading", "serving", "asking"},
         NEW q, q = [r EXCEPT !.phase = ph]
  PROVE  /\ q \in Relays /\ q # None /\ Same(q, r)
         /\ q.phase = ph /\ q.cut = r.cut /\ q.frame = r.frame /\ q.rx = r.rx
  <1>1. q \in Relays /\ Same(q, r)
        /\ q.phase = ph /\ q.cut = r.cut /\ q.frame = r.frame /\ q.rx = r.rx
    BY DEF Relays, Same
  <1> QED
    BY <1>1, NoneAssumption DEF NoneAssumption

LEMMA CutFact ==
  ASSUME NEW r \in Relays, NEW q, q = [r EXCEPT !.cut = TRUE]
  PROVE  /\ q \in Relays /\ q # None /\ Same(q, r)
         /\ q.phase = r.phase /\ q.cut = TRUE /\ q.frame = r.frame /\ q.rx = r.rx
  <1>1. q \in Relays /\ Same(q, r)
        /\ q.phase = r.phase /\ q.cut = TRUE /\ q.frame = r.frame /\ q.rx = r.rx
    BY DEF Relays, Same
  <1> QED
    BY <1>1, NoneAssumption DEF NoneAssumption

LEMMA FrameFact ==
  ASSUME NEW r \in Relays, NEW a \in Addresses \cup {None}, NEW q, q = [r EXCEPT !.frame = a]
  PROVE  /\ q \in Relays /\ q # None /\ Same(q, r)
         /\ q.phase = r.phase /\ q.cut = r.cut /\ q.frame = a /\ q.rx = r.rx
  <1>1. q \in Relays /\ Same(q, r)
        /\ q.phase = r.phase /\ q.cut = r.cut /\ q.frame = a /\ q.rx = r.rx
    BY DEF Relays, Same
  <1> QED
    BY <1>1, NoneAssumption DEF NoneAssumption

LEMMA RxFact ==
  ASSUME NEW r \in Relays, NEW a \in Addresses \cup {None}, NEW q, q = [r EXCEPT !.rx = a]
  PROVE  /\ q \in Relays /\ q # None /\ Same(q, r)
         /\ q.phase = r.phase /\ q.cut = r.cut /\ q.frame = r.frame /\ q.rx = a
  <1>1. q \in Relays /\ Same(q, r)
        /\ q.phase = r.phase /\ q.cut = r.cut /\ q.frame = r.frame /\ q.rx = a
    BY DEF Relays, Same
  <1> QED
    BY <1>1, NoneAssumption DEF NoneAssumption

\* Ended leases are gone and the others are as they were.
LEMMA EndedFact ==
  ASSUME TypeOK, NEW ps, NEW ls, ls = Ended(leases, ps)
  PROVE  /\ ls \in [Pairs -> Leases \cup {None}]
         /\ \A p \in Pairs : p \in Held(ls) <=> p \in Held(leases) /\ p \notin ps
         /\ \A p \in Held(ls) : ls[p] = leases[p]
  BY DEF TypeOK, Ended, Held

-----------------------------------------------------------------------------
(* What the steps have in common *)

\* Leases are ended or renewed, and connections come only from leases that are held:
\* nothing but the hub remains to be shown.
LEMMA LeaseStep ==
  ASSUME ServiceInv, UNCHANGED <<tables, clock, sessions, revoking>>,
         leases' \in [Pairs -> Leases \cup {None}],
         \A p \in Held(leases') : /\ p \in Held(leases)
                                  /\ leases'[p].session = leases[p].session
                                  /\ leases'[p].address = leases[p].address,
         conns' \in [Conns -> Relays \cup {None}],
         hub' \in [Places -> Conns \cup {None}],
         \A c \in Conns : conns'[c] # None =>
            \/ conns[c] # None /\ Same(conns'[c], conns[c])
            \/ \E p \in Held(leases) : /\ conns'[c].session = leases[p].session
                                       /\ conns'[c].address = leases[p].address
                                       /\ p = <<conns'[c].space, conns'[c].device>>
  PROVE  /\ StoreInv' /\ TypeOK' /\ LeasesFollowMembership' /\ SessionsAgree'
         /\ \A x : LiveSession(x)' => LiveSession(x)
  <1>1. StoreInv'
    BY StoreStutters DEF ServiceInv
  <1>2. TypeOK'
    BY <1>1 DEF ServiceInv, RelayIsSound, TypeOK, StoreInv, TablesAreSound
  <1>3. \A x : LiveSession(x)' => LiveSession(x)
    BY DEF LiveSession
  <1>4. UNCHANGED <<spaces, members, made>>
    BY DEF tables
  <1>5. LeasesFollowMembership'
    BY <1>4 DEF ServiceInv, RelayIsSound, LeasesFollowMembership, Standing, HasAddress
  <1>6. SessionsAgree'
    <2>1. \A p \in Held(leases') : p[1] <= made'.spaces /\ leases'[p].session <= sessions'
      BY <1>4 DEF ServiceInv, SessionsAgree
    <2>2. \A p, q \in Held(leases') : leases'[p].session = leases'[q].session => p = q
      BY DEF ServiceInv, SessionsAgree
    <2>3. ASSUME NEW c \in Conns, conns'[c] # None
          PROVE  /\ conns'[c].session <= sessions'
                 /\ \A p \in Held(leases') : leases'[p].session = conns'[c].session =>
                       /\ p = <<conns'[c].space, conns'[c].device>>
                       /\ leases'[p].address = conns'[c].address
      <3>1. CASE conns[c] # None /\ Same(conns'[c], conns[c])
        BY <2>3, <3>1 DEF ServiceInv, SessionsAgree, Same, Pair
      <3>2. CASE \E p \in Held(leases) : /\ conns'[c].session = leases[p].session
                                         /\ conns'[c].address = leases[p].address
                                         /\ p = <<conns'[c].space, conns'[c].device>>
        BY <2>3, <3>2 DEF ServiceInv, SessionsAgree
      <3> QED
        BY <2>3, <3>1, <3>2
    <2> QED
      BY <2>1, <2>2, <2>3 DEF SessionsAgree, Pair
  <1> QED
    BY <1>1, <1>2, <1>3, <1>5, <1>6

\* The hub is as it was, and so is what it needs to know of a connection.
LEMMA VoiceKept ==
  ASSUME ServiceInv, UNCHANGED hub,
         \A c \in Conns : \A x : Open(c) /\ x = conns[c].session /\ LiveSession(x)' => LiveSession(x),
         \A c \in Conns : Open(c)' <=> Open(c),
         \A c \in Conns : Open(c) => Same(conns'[c], conns[c]) /\ conns'[c].cut = conns[c].cut
  PROVE  OneVoice'
  <1>1. ASSUME NEW c \in Conns, Open(c)
        PROVE  Place(c)' = Place(c) /\ (Cancelled(c) => Cancelled(c)')
    <2>1. Same(conns'[c], conns[c]) /\ conns'[c].cut = conns[c].cut
      BY <1>1
    <2>2. PICK x : x = conns[c].session
      OBVIOUS
    <2>3. conns'[c].session = x /\ (LiveSession(x)' => LiveSession(x))
      BY <1>1, <2>1, <2>2 DEF Same
    <2> QED
      BY <2>1, <2>2, <2>3 DEF Same, Place, Cancelled
  <1>2. \A q \in Places : hub[q] # None => hub[q] \in Conns
    BY DEF ServiceInv, RelayIsSound, TypeOK
  <1> QED
    BY <1>1, <1>2 DEF ServiceInv, RelayIsSound, OneVoice

\* A connection ends, and takes its entry with it.
LEMMA VoiceEnds ==
  ASSUME ServiceInv, NEW e \in Conns, conns[e] # None, End(e),
         \A x : LiveSession(x)' => LiveSession(x)
  PROVE  OneVoice' /\ hub' \in [Places -> Conns \cup {None}]
         /\ conns' \in [Conns -> Relays \cup {None}]
         /\ \A c \in Conns : conns'[c] # None => conns[c] # None /\ conns'[c] = conns[c]
  <1>1. TypeOK
    BY DEF ServiceInv, RelayIsSound
  <1>2. /\ conns'[e] = None
        /\ \A c \in Conns : c # e => conns'[c] = conns[c]
        /\ conns' \in [Conns -> Relays \cup {None}]
    BY <1>1 DEF TypeOK, End
  <1>3. Place(e) \in Places
    BY <1>1, ConnsFact
  <1>4. /\ hub' \in [Places -> Conns \cup {None}]
        /\ \A q \in Places : hub'[q] = IF hub[q] = e /\ q = Place(e) THEN None ELSE hub[q]
    BY <1>1, <1>3 DEF TypeOK, End, DropOwn
  <1>5. \A c \in Conns : c # e /\ conns[c] # None => Place(c)' = Place(c) /\ Place(c) \in Places
                                /\ (Open(c)' <=> Open(c)) /\ (Cancelled(c) => Cancelled(c)')
    BY <1>1, <1>2, ConnsFact DEF Place, Open, Cancelled
  <1>6. ASSUME NEW c \in Conns, Open(c)', ~Cancelled(c)'
        PROVE  hub'[Place(c)'] = c
    <2>1. c # e /\ conns[c] # None
      BY <1>2, <1>6 DEF Open
    <2>2. hub[Place(c)] = c
      BY <1>5, <1>6, <2>1 DEF ServiceInv, RelayIsSound, OneVoice
    <2> QED
      BY <1>4, <1>5, <2>1, <2>2
  <1>7. ASSUME NEW q \in Places, hub'[q] # None
        PROVE  Open(hub[q])' /\ Place(hub[q])' = q
    <2>1. hub'[q] = hub[q] /\ hub[q] # None /\ hub[q] \in Conns
      BY <1>1, <1>4, <1>7 DEF TypeOK
    <2>2. Open(hub[q]) /\ Place(hub[q]) = q
      BY <2>1 DEF ServiceInv, RelayIsSound, OneVoice
    <2>3. hub[q] # e
      BY <1>4, <1>7, <2>1, <2>2
    <2> PICK c : c = hub[q]
      OBVIOUS
    <2>4. c \in Conns /\ c # e /\ conns[c] # None /\ Open(c) /\ Place(c) = q /\ conns'[c] = conns[c]
      BY <1>2, <2>1, <2>2, <2>3 DEF Open
    <2>5. conns'[c] # None /\ conns'[c].phase \in {"serving", "asking"}
          /\ <<conns'[c].space, conns'[c].address>> = q
      BY <2>4 DEF Open, Place
    <2> QED
      BY <2>1, <2>5 DEF Open, Place
  <1> QED
    BY <1>2, <1>4, <1>6, <1>7 DEF OneVoice

\* A step of one connection that neither ends nor registers it.
LEMMA ConnStep ==
  ASSUME ServiceInv, UNCHANGED <<tables, clock, sessions, revoking, hub>>,
         leases' \in [Pairs -> Leases \cup {None}],
         \A p \in Held(leases') : /\ p \in Held(leases)
                                  /\ leases'[p].session = leases[p].session
                                  /\ leases'[p].address = leases[p].address,
         conns' \in [Conns -> Relays \cup {None}],
         \A c \in Conns : conns[c] # None =>
            /\ conns'[c] # None /\ Same(conns'[c], conns[c]) /\ conns'[c].cut = conns[c].cut
            /\ conns'[c].phase = "upgrading" <=> conns[c].phase = "upgrading",
         \A c \in Conns : conns[c] = None /\ conns'[c] # None =>
            /\ conns'[c].phase = "upgrading"
            /\ \E p \in Held(leases) : /\ conns'[c].session = leases[p].session
                                       /\ conns'[c].address = leases[p].address
                                       /\ p = <<conns'[c].space, conns'[c].device>>
  PROVE  ServiceInv'
  <1>1. hub' \in [Places -> Conns \cup {None}]
    BY DEF ServiceInv, RelayIsSound, TypeOK
  <1>2. \A c \in Conns : conns'[c] # None =>
            \/ conns[c] # None /\ Same(conns'[c], conns[c])
            \/ \E p \in Held(leases) : /\ conns'[c].session = leases[p].session
                                       /\ conns'[c].address = leases[p].address
                                       /\ p = <<conns'[c].space, conns'[c].device>>
    OBVIOUS
  <1>3. /\ StoreInv' /\ TypeOK' /\ LeasesFollowMembership' /\ SessionsAgree'
        /\ \A x : LiveSession(x)' => LiveSession(x)
    BY <1>1, <1>2, LeaseStep
  <1>4. \A c \in Conns : Open(c)' <=> Open(c)
    <2> SUFFICES ASSUME NEW c \in Conns PROVE Open(c)' <=> Open(c)
      OBVIOUS
    <2>1. TypeOK
      BY DEF ServiceInv, RelayIsSound
    <2>2. CASE conns[c] # None
      <3>1. conns'[c] # None /\ (conns'[c].phase = "upgrading" <=> conns[c].phase = "upgrading")
        BY <2>2
      <3>2. conns[c] \in Relays /\ conns'[c] \in Relays
        BY <2>1, <2>2, <3>1 DEF TypeOK
      <3>3. conns[c].phase \in {"upgrading", "serving", "asking"}
            /\ conns'[c].phase \in {"upgrading", "serving", "asking"}
        BY <3>2 DEF Relays
      <3> QED
        BY <2>2, <3>1, <3>3 DEF Open
    <2>3. CASE conns[c] = None
      BY <2>3 DEF Open
    <2> QED
      BY <2>2, <2>3
  <1>5. \A c \in Conns : Open(c) => Same(conns'[c], conns[c]) /\ conns'[c].cut = conns[c].cut
    BY DEF Open
  <1>6. OneVoice'
    BY <1>3, <1>4, <1>5, VoiceKept
  <1> QED
    BY <1>3, <1>6 DEF ServiceInv, RelayIsSound

\* A connection ends, with or without a lease.
LEMMA EndStep ==
  ASSUME ServiceInv, UNCHANGED <<tables, clock, sessions, revoking>>,
         NEW ps, leases' = Ended(leases, ps),
         NEW e \in Conns, conns[e] # None, End(e)
  PROVE  ServiceInv'
  <1>1. /\ leases' \in [Pairs -> Leases \cup {None}]
        /\ \A p \in Held(leases') : p \in Held(leases) /\ leases'[p] = leases[p]
    BY EndedFact DEF ServiceInv, RelayIsSound, Held
  <1>2. \A x : LiveSession(x)' => LiveSession(x)
    BY <1>1 DEF LiveSession
  <1>3. /\ OneVoice' /\ hub' \in [Places -> Conns \cup {None}]
        /\ conns' \in [Conns -> Relays \cup {None}]
        /\ \A c \in Conns : conns'[c] # None => conns[c] # None /\ conns'[c] = conns[c]
    BY <1>2, VoiceEnds
  <1>4. StoreInv' /\ TypeOK' /\ LeasesFollowMembership' /\ SessionsAgree'
    BY <1>1, <1>3, LeaseStep DEF Same
  <1> QED
    BY <1>3, <1>4 DEF ServiceInv, RelayIsSound

\* None of the leases ends.
LEMMA NoneEnded ==
  ASSUME TypeOK
  PROVE  Ended(leases, {}) = leases
  BY DEF TypeOK, Ended

-----------------------------------------------------------------------------
(* The steps of a connection *)

LEMMA UpgradeKeeps ==
  ASSUME ServiceInv, NEW c \in Conns, NEW p \in Pairs, Upgrade(c, p)
  PROVE  ServiceInv'
  <1>1. TypeOK
    BY DEF ServiceInv, RelayIsSound
  <1>2. CASE Authentic(p)
    <2> DEFINE new == [phase |-> "upgrading", space |-> p[1], device |-> p[2],
                       address |-> leases[p].address, session |-> leases[p].session,
                       cut |-> FALSE, frame |-> None, rx |-> None]
    <2>1. /\ conns[c] = None /\ conns' = [conns EXCEPT ![c] = new] /\ leases' = leases
          /\ UNCHANGED <<tables, clock, sessions, revoking, hub>> /\ p \in Held(leases)
      BY <1>2 DEF Upgrade, Held
    <2>2. new \in Relays
      BY <1>1, <2>1, LeasesFact DEF Leases, Relays, Pairs
    <2>3. /\ new.phase = "upgrading" /\ new.address = leases[p].address
          /\ new.session = leases[p].session /\ <<new.space, new.device>> = p
      BY DEF Pairs
    <2> HIDE DEF new
    <2>4. conns' \in [Conns -> Relays \cup {None}] /\ conns'[c] = new
          /\ \A o \in Conns : o # c => conns'[o] = conns[o]
      BY <1>1, <2>1, <2>2 DEF TypeOK
    <2> QED
      BY <1>1, <2>1, <2>3, <2>4, ConnStep DEF Same, TypeOK
  <1>3. CASE ~Authentic(p)
    <2>1. conns' = conns /\ leases' = Ended(leases, {p})
          /\ UNCHANGED <<tables, clock, sessions, revoking, hub>>
      BY <1>3 DEF Upgrade
    <2>2. /\ leases' \in [Pairs -> Leases \cup {None}]
          /\ \A q \in Held(leases') : q \in Held(leases) /\ leases'[q] = leases[q]
      BY <1>1, <2>1, EndedFact DEF Held
    <2> QED
      BY <1>1, <2>1, <2>2, ConnStep DEF Same, TypeOK
  <1> QED
    BY <1>2, <1>3

\* A step of c alone, which goes on with nothing but a phase, a frame or an input new.
LEMMA OwnStep ==
  ASSUME ServiceInv, NEW c \in Conns, conns[c] # None, UNCHANGED <<tables, clock, control, hub>>,
         NEW q, q \in Relays, q # None, Same(q, conns[c]), q.cut = conns[c].cut,
         q.phase = "upgrading" <=> conns[c].phase = "upgrading",
         conns' = [conns EXCEPT ![c] = q]
  PROVE  ServiceInv'
  <1>1. TypeOK /\ UNCHANGED <<leases, sessions, revoking>>
    BY DEF ServiceInv, RelayIsSound, control
  <1>2. conns' \in [Conns -> Relays \cup {None}] /\ conns'[c] = q
        /\ \A o \in Conns : o # c => conns'[o] = conns[o]
    BY <1>1 DEF TypeOK
  <1> QED
    BY <1>1, <1>2, ConnStep DEF Same, TypeOK, Held

LEMMA AskKeeps ==
  ASSUME ServiceInv, NEW c \in Conns, Ask(c)
  PROVE  ServiceInv'
  <1>1. conns[c] # None /\ conns[c].phase = "serving" /\ conns[c] \in Relays
    BY ConnsFact DEF Ask, Serving, Open, ServiceInv, RelayIsSound
  <1> DEFINE q == [conns[c] EXCEPT !.phase = "asking"]
  <1>2. conns' = [conns EXCEPT ![c] = q] /\ UNCHANGED <<tables, clock, control, hub>>
    BY DEF Ask
  <1>3. q \in Relays /\ q # None /\ Same(q, conns[c]) /\ q.cut = conns[c].cut /\ q.phase = "asking"
    BY <1>1, PhaseFact
  <1> HIDE DEF q
  <1> QED
    BY <1>1, <1>2, <1>3, OwnStep

LEMMA TakeFrameKeeps ==
  ASSUME ServiceInv, NEW c \in Conns, NEW a \in Addresses, TakeFrame(c, a)
  PROVE  ServiceInv'
  <1>1. conns[c] # None /\ conns[c] \in Relays
    BY ConnsFact DEF TakeFrame, Serving, Open, ServiceInv, RelayIsSound
  <1> DEFINE q == [conns[c] EXCEPT !.frame = a]
  <1>2. conns' = [conns EXCEPT ![c] = q] /\ UNCHANGED <<tables, clock, control, hub>>
    BY DEF TakeFrame
  <1>3. q \in Relays /\ q # None /\ Same(q, conns[c]) /\ q.cut = conns[c].cut
        /\ q.phase = conns[c].phase
    BY <1>1, FrameFact
  <1> HIDE DEF q
  <1> QED
    BY <1>1, <1>2, <1>3, OwnStep

LEMMA DeliverKeeps ==
  ASSUME ServiceInv, NEW c \in Conns, Deliver(c)
  PROVE  ServiceInv'
  <1>1. conns[c] # None /\ conns[c] \in Relays /\ TypeOK
    BY ConnsFact DEF Deliver, Serving, Open, ServiceInv, RelayIsSound
  <1>2. CASE Cancelled(c)
    <2>1. End(c) /\ leases' = Ended(leases, {}) /\ UNCHANGED <<tables, clock, sessions, revoking>>
      BY <1>1, <1>2, NoneEnded DEF Deliver, control
    <2> QED
      BY <1>1, <2>1, EndStep
  <1>3. CASE ~Cancelled(c)
    <2> DEFINE q == [conns[c] EXCEPT !.rx = None]
    <2>1. conns' = [conns EXCEPT ![c] = q] /\ UNCHANGED <<tables, clock, control, hub>>
      BY <1>3 DEF Deliver
    <2>2. q \in Relays /\ q # None /\ Same(q, conns[c]) /\ q.cut = conns[c].cut
          /\ q.phase = conns[c].phase
      BY <1>1, RxFact
    <2> HIDE DEF q
    <2> QED
      BY <1>1, <2>1, <2>2, OwnStep
  <1> QED
    BY <1>2, <1>3

LEMMA HangupKeeps ==
  ASSUME ServiceInv, NEW c \in Conns, Hangup(c) \/ Notice(c)
  PROVE  ServiceInv'
  <1>1. conns[c] # None /\ TypeOK
    BY DEF Hangup, Notice, Serving, Upgrading, Open, ServiceInv, RelayIsSound
  <1>2. End(c) /\ leases' = Ended(leases, {}) /\ UNCHANGED <<tables, clock, sessions, revoking>>
    BY <1>1, NoneEnded DEF Hangup, Notice, control
  <1> QED
    BY <1>1, <1>2, EndStep

LEMMA AnswerKeeps ==
  ASSUME ServiceInv, NEW c \in Conns, Answer(c)
  PROVE  ServiceInv'
  <1>1. conns[c] # None /\ conns[c] \in Relays /\ conns[c].phase = "asking" /\ TypeOK
    BY ConnsFact DEF Answer, Open, ServiceInv, RelayIsSound
  <1>2. CASE conns' = [conns EXCEPT ![c].phase = "serving"] /\ UNCHANGED <<leases, hub>>
    <2> DEFINE q == [conns[c] EXCEPT !.phase = "serving"]
    <2>1. conns' = [conns EXCEPT ![c] = q] /\ UNCHANGED <<tables, clock, control, hub>>
      BY <1>2 DEF Answer, control
    <2>2. q \in Relays /\ q # None /\ Same(q, conns[c]) /\ q.cut = conns[c].cut
          /\ q.phase = "serving"
      BY <1>1, PhaseFact
    <2> HIDE DEF q
    <2> QED
      BY <1>1, <2>1, <2>2, OwnStep
  <1>3. CASE (leases' = Ended(leases, {Pair(c)}) \/ leases' = leases) /\ End(c)
    <2>1. PICK ps \in {{}, {Pair(c)}} : leases' = Ended(leases, ps)
      BY <1>1, <1>3, NoneEnded
    <2>2. UNCHANGED <<tables, clock, sessions, revoking>>
      BY DEF Answer
    <2> QED
      BY <1>1, <1>3, <2>1, <2>2, EndStep
  <1> QED
    BY <1>2, <1>3 DEF Answer

LEMMA RouteFrameKeeps ==
  ASSUME ServiceInv, NEW c \in Conns, RouteFrame(c)
  PROVE  ServiceInv'
  <1>1. conns[c] # None /\ conns[c] \in Relays /\ TypeOK
        /\ UNCHANGED <<tables, clock, leases, sessions, revoking, hub>>
    BY ConnsFact DEF RouteFrame, Open, ServiceInv, RelayIsSound, control
  <1>2. conns[c].address \in Addresses
    BY <1>1 DEF Relays
  <1>3. PICK t, reaches :
          /\ reaches => t \in Conns /\ conns[t] # None
          /\ conns' = [o \in Conns |->
               IF o = c THEN [conns[c] EXCEPT !.frame = None]
               ELSE IF reaches /\ o = t THEN [conns[o] EXCEPT !.rx = conns[c].address]
               ELSE conns[o]]
    <2> DEFINE t == hub[<<conns[c].space, conns[c].frame>>]
               reaches == IsRegistered(c) /\ t # None /\ ~Cancelled(t) /\ conns[t].rx = None
    <2>1. conns' = [o \in Conns |->
               IF o = c THEN [conns[c] EXCEPT !.frame = None]
               ELSE IF reaches /\ o = t THEN [conns[o] EXCEPT !.rx = conns[c].address]
               ELSE conns[o]]
      BY DEF RouteFrame
    <2>2. <<conns[c].space, conns[c].frame>> \in Places
      BY <1>1 DEF RouteFrame, Relays, Places
    <2>3. t # None => t \in Conns /\ conns[t] # None
      BY <1>1, <2>2 DEF TypeOK, ServiceInv, RelayIsSound, OneVoice, Open
    <2> QED
      BY <2>1, <2>3
  <1>4. ASSUME NEW o \in Conns
        PROVE  /\ conns'[o] \in Relays \cup {None}
               /\ conns[o] = None => conns'[o] = None
               /\ conns[o] # None => /\ conns'[o] # None /\ Same(conns'[o], conns[o])
                                     /\ conns'[o].cut = conns[o].cut
                                     /\ conns'[o].phase = conns[o].phase
    <2>1. CASE o = c
      <3>1. conns'[o] = [conns[c] EXCEPT !.frame = None]
        BY <1>3, <2>1
      <3> QED
        BY <1>1, <2>1, <3>1, FrameFact
    <2>2. CASE o # c /\ reaches /\ o = t
      <3>1. conns'[o] = [conns[o] EXCEPT !.rx = conns[c].address] /\ conns[o] # None
        BY <1>3, <2>2
      <3>2. conns[o] \in Relays
        BY <1>1, <3>1, ConnsFact
      <3> QED
        BY <1>2, <3>1, <3>2, RxFact
    <2>3. CASE o # c /\ ~(reaches /\ o = t)
      <3>1. conns'[o] = conns[o]
        BY <1>3, <2>3
      <3> QED
        BY <1>1, <3>1 DEF TypeOK, Same
    <2> QED
      BY <2>1, <2>2, <2>3
  <1>5. conns' \in [Conns -> Relays \cup {None}]
    BY <1>3, <1>4
  <1> QED
    BY <1>1, <1>4, <1>5, ConnStep DEF Same, TypeOK

\* The one that was at the place is cut, and the hub names the new one.
LEMMA RegisterKeeps ==
  ASSUME ServiceInv, NEW c \in Conns, Register(c)
  PROVE  ServiceInv'
  <1>1. /\ TypeOK /\ conns[c] # None /\ conns[c] \in Relays /\ conns[c].phase = "upgrading"
        /\ Place(c) \in Places
        /\ UNCHANGED <<tables, clock, leases, sessions, revoking>>
    BY ConnsFact DEF Register, Upgrading, ServiceInv, RelayIsSound, control
  <1>2. /\ hub' \in [Places -> Conns \cup {None}] /\ hub'[Place(c)] = c
        /\ \A q \in Places : q # Place(c) => hub'[q] = hub[q]
    BY <1>1 DEF Register, TypeOK
  <1>3. conns' = [o \in Conns |->
          IF o = c THEN [conns[c] EXCEPT !.phase = "serving"]
          ELSE IF o = hub[Place(c)] THEN [conns[o] EXCEPT !.cut = TRUE]
          ELSE conns[o]]
    BY DEF Register
  <1>4. ASSUME NEW o \in Conns
        PROVE  /\ conns'[o] \in Relays \cup {None}
               /\ conns[o] = None => conns'[o] = None
               /\ conns[o] # None => /\ conns'[o] # None /\ Same(conns'[o], conns[o])
                                     /\ conns[o].cut => conns'[o].cut
               /\ o # c /\ conns[o] # None => conns'[o].phase = conns[o].phase
               /\ o # c /\ o = hub[Place(c)] => conns'[o].cut
    <2>1. CASE o = c
      <3>1. conns'[o] = [conns[c] EXCEPT !.phase = "serving"]
        BY <1>3, <2>1
      <3> QED
        BY <1>1, <2>1, <3>1, PhaseFact
    <2>2. CASE o # c /\ o = hub[Place(c)]
      <3>1. conns'[o] = [conns[o] EXCEPT !.cut = TRUE]
        BY <1>3, <2>2
      <3>2. conns[o] # None
        BY <1>1, <2>2, NoneAssumption
           DEF NoneAssumption, ServiceInv, RelayIsSound, OneVoice, Open
      <3>3. conns[o] \in Relays
        BY <1>1, <3>2, ConnsFact
      <3> QED
        BY <2>2, <3>1, <3>2, <3>3, CutFact
    <2>3. CASE o # c /\ o # hub[Place(c)]
      <3>1. conns'[o] = conns[o]
        BY <1>3, <2>3
      <3> QED
        BY <1>1, <2>3, <3>1 DEF TypeOK, Same
    <2> QED
      BY <2>1, <2>2, <2>3
  <1>5. conns'[c].phase = "serving"
    <2>1. conns'[c] = [conns[c] EXCEPT !.phase = "serving"]
      BY <1>3
    <2> QED
      BY <1>1, <2>1, PhaseFact
  <1>6. conns' \in [Conns -> Relays \cup {None}]
    BY <1>3, <1>4
  <1>7. /\ StoreInv' /\ TypeOK' /\ LeasesFollowMembership' /\ SessionsAgree'
        /\ \A x : LiveSession(x)' => LiveSession(x)
    BY <1>1, <1>2, <1>4, <1>6, LeaseStep DEF TypeOK, Held
  <1>8. ASSUME NEW o \in Conns, conns[o] # None
        PROVE  /\ Place(o)' = Place(o) /\ Place(o) \in Places
               /\ o # c => (Open(o)' <=> Open(o)) /\ (Cancelled(o) => Cancelled(o)')
    <2>1. Place(o)' = Place(o) /\ Place(o) \in Places
      BY <1>1, <1>4, <1>8, ConnsFact DEF Place, Same
    <2>2. ASSUME o # c
          PROVE  (Open(o)' <=> Open(o)) /\ (Cancelled(o) => Cancelled(o)')
      <3>1. Open(o)' <=> Open(o)
        BY <1>4, <1>8, <2>2 DEF Open
      <3>2. PICK x : x = conns[o].session
        OBVIOUS
      <3>3. conns'[o].session = x /\ (LiveSession(x)' => LiveSession(x))
        BY <1>4, <1>7, <1>8, <3>2 DEF Same
      <3> QED
        BY <1>4, <1>8, <3>1, <3>2, <3>3 DEF Cancelled
    <2> QED
      BY <2>1, <2>2
  <1>9. OneVoice'
    <2>1. ASSUME NEW o \in Conns, Open(o)', ~Cancelled(o)'
          PROVE  hub'[Place(o)'] = o
      <3>1. CASE o = c
        BY <1>1, <1>2, <1>8, <3>1
      <3>2. CASE o # c
        <4>1. conns[o] # None
          BY <1>4, <2>1 DEF Open
        <4>2. hub[Place(o)] = o
          BY <1>8, <2>1, <3>2, <4>1 DEF ServiceInv, RelayIsSound, OneVoice
        <4>3. Place(o) # Place(c)
          BY <1>4, <2>1, <3>2, <4>2 DEF Cancelled
        <4> QED
          BY <1>2, <1>8, <4>1, <4>2, <4>3
      <3> QED
        BY <3>1, <3>2
    <2>2. ASSUME NEW q \in Places, hub'[q] # None
          PROVE  Open(hub[q])' /\ Place(hub[q])' = q
      <3>1. CASE q = Place(c)
        <4>1. conns'[c] # None /\ Place(c)' = Place(c)
          BY <1>1, <1>4, <1>8
        <4> QED
          BY <1>2, <1>5, <3>1, <4>1 DEF Open, Place
      <3>2. CASE q # Place(c)
        <4>1. PICK o : o = hub[q] /\ o = hub'[q]
          BY <1>2, <3>2
        <4>2. o \in Conns /\ Open(o) /\ Place(o) = q
          BY <1>1, <2>2, <4>1 DEF TypeOK, ServiceInv, RelayIsSound, OneVoice
        <4>3. o # c
          BY <1>1, <4>2 DEF Open
        <4>4. Open(o)' /\ Place(o)' = q
          BY <1>8, <4>2, <4>3 DEF Open
        <4> QED
          BY <4>1, <4>4 DEF Open, Place
      <3> QED
        BY <3>1, <3>2
    <2>3. \A o \in Conns : Open(o)' /\ ~Cancelled(o)' => hub'[Place(o)'] = o
      BY <2>1
    <2> QED
      BY <2>2, <2>3 DEF OneVoice
  <1> QED
    BY <1>7, <1>9 DEF ServiceInv, RelayIsSound

LEMMA ConnectionKeeps ==
  ASSUME ServiceInv, NEW c \in Conns, Connection(c)
  PROVE  ServiceInv'
  BY UpgradeKeeps, RegisterKeeps, HangupKeeps, AskKeeps, AnswerKeeps, TakeFrameKeeps,
     RouteFrameKeeps, DeliverKeeps DEF Connection

-----------------------------------------------------------------------------
(* The requests *)

\* The worker works on the tables and on what it has to revoke: sessions, leases,
\* connections and hub are as they were.
LEMMA WorkStep ==
  ASSUME ServiceInv, StoreInv', UNCHANGED <<leases, sessions, relay>>,
         revoking' \subseteq Pairs, made'.spaces >= made.spaces,
         \A p \in Held(leases) : Standing(p[1], p[2], leases[p].address)'
  PROVE  ServiceInv'
  <1>1. TypeOK /\ UNCHANGED <<conns, hub>> /\ StoreTypeOK' /\ StoreTypeOK
    BY DEF ServiceInv, RelayIsSound, relay, StoreInv, TablesAreSound
  <1>2. TypeOK'
    BY <1>1 DEF TypeOK
  <1>3. SessionsAgree'
    <2>1. \A p \in Held(leases) : p[1] <= made'.spaces
      <3>1. ASSUME NEW p \in Held(leases) PROVE p[1] <= made'.spaces
        <4>1. p[1] \in Nat /\ p[1] <= made.spaces
          BY <1>1, LeasesFact DEF ServiceInv, SessionsAgree, Pairs, Spaces
        <4>2. made.spaces \in Nat /\ made'.spaces \in Nat
          BY <1>1 DEF StoreTypeOK
        <4> QED
          BY <4>1, <4>2
      <3> QED
        BY <3>1
    <2> QED
      BY <1>1, <2>1 DEF ServiceInv, SessionsAgree, Held, Pair
  <1>4. OneVoice'
    BY <1>1, VoiceKept DEF Open, Same, LiveSession, Held
  <1>5. LeasesFollowMembership'
    BY DEF LeasesFollowMembership, Held
  <1> QED
    BY <1>2, <1>3, <1>4, <1>5 DEF ServiceInv, RelayIsSound

\* A space that is created does not bring a lease back to life, for its identifier
\* is new; and the spaces that expired take their members with them.
LEMMA OnStoreKeeps ==
  ASSUME ServiceInv, NEW d \in Devices, OnStore(d)
  PROVE  ServiceInv'
  <1>1. /\ UNCHANGED <<clock, leases, sessions, revoking, relay>> /\ revoking = {}
        /\ TypeOK /\ StoreInv
    BY DEF OnStore, control, Idle, ServiceInv, RelayIsSound
  <1>2. PICK at \in Stamps :
           \/ \E r \in Requests : Create(d, r, at)
           \/ \E i \in invites, r \in Requests : Redeem(i, d, r, at)
           \/ \E s \in Spaces : Invite(s, d, at) \/ RevokeInvites(s, d, at)
    BY DEF OnStore
  <1>3. StoreInv'
    BY <1>1, <1>2, CreateKeeps, RedeemKeeps, InviteKeeps, RevokeInvitesKeeps
  <1>4. made.spaces \in Nat /\ made.invites \in Nat
    BY <1>1 DEF StoreInv, TablesAreSound, StoreTypeOK
  <1>5. made'.spaces >= made.spaces
    <2>1. made' = [made EXCEPT !.spaces = made.spaces + 1] => made'.spaces >= made.spaces
      BY <1>1, <1>4 DEF StoreInv, TablesAreSound, StoreTypeOK
    <2>2. made' = [made EXCEPT !.invites = made.invites + 1] => made'.spaces >= made.spaces
      BY <1>1, <1>4 DEF StoreInv, TablesAreSound, StoreTypeOK
    <2>3. made' = made => made'.spaces >= made.spaces
      BY <1>4
    <2>4. ASSUME NEW r \in Requests, Create(d, r, at)
          PROVE  made' = [made EXCEPT !.spaces = made.spaces + 1]
      BY <2>4 DEF Create
    <2>5. ASSUME NEW s \in Spaces, Invite(s, d, at)
          PROVE  made' = [made EXCEPT !.invites = made.invites + 1]
      BY <2>5 DEF Invite
    <2>6. ASSUME \/ \E s \in Spaces : RevokeInvites(s, d, at)
                 \/ \E i \in invites, r \in Requests : Redeem(i, d, r, at)
          PROVE  made' = made
      BY <2>6 DEF RevokeInvites, Redeem
    <2> QED
      BY <1>2, <2>1, <2>2, <2>3, <2>4, <2>5, <2>6
  <1>6. ASSUME NEW p \in Held(leases)
        PROVE  Standing(p[1], p[2], leases[p].address)'
    <2>1. p \in Pairs /\ p[1] <= made.spaces /\ p[1] \in Nat /\ leases[p].address \in Addresses
      BY <1>1, LeasesFact DEF ServiceInv, SessionsAgree, Pairs, Spaces, Leases
    <2>2. \/ HasAddress(p[1], p[2], leases[p].address)
          \/ \A row \in spaces : row.id # p[1]
      BY <1>1 DEF ServiceInv, RelayIsSound, LeasesFollowMembership, Standing
    <2>3. PICK s, e, a : s = p[1] /\ e = p[2] /\ a = leases[p].address
      OBVIOUS
    <2>4. CASE \E r \in Requests : Create(d, r, at)
      <3>1. PICK gone :
              /\ \A row \in spaces' : row.id = made.spaces + 1 \/ row \in spaces
              /\ \A row \in spaces' : row.id = made.spaces + 1 \/ row.id \notin gone
              /\ \A m \in members : m.space \notin gone => m \in members'
        <4>1. PICK r \in Requests, life \in Lives :
                LET expires == IF life = Forever THEN Forever ELSE at + life
                    kept == {row \in spaces : Alive(row, at)}
                    gone == {row.id : row \in spaces \ kept}
                    staying == {m \in members : m.space \notin gone}
                    id == made.spaces + 1
                IN  /\ spaces' = kept \cup
                          {[id |-> id, owner |-> d, request |-> r, expires |-> expires]}
                    /\ members' = staying \cup {[space |-> id, device |-> d, address |-> 1]}
          BY <2>4 DEF Create
        <4> DEFINE kept == {row \in spaces : Alive(row, at)}
                   gone == {row.id : row \in spaces \ kept}
        <4>2. \A row \in kept : row.id \notin gone
          BY <1>1 DEF StoreInv, RowsAgree
        <4>3. /\ \A row \in spaces' : row.id = made.spaces + 1 \/ row \in kept
              /\ \A m \in members : m.space \notin gone => m \in members'
          BY <4>1
        <4> QED
          BY <4>2, <4>3
      <3>2. CASE s \in gone
        <4>1. \A row \in spaces' : row.id # s
          BY <1>4, <2>1, <2>3, <3>1, <3>2
        <4> QED
          BY <2>3, <4>1 DEF Standing
      <3>3. CASE s \notin gone /\ HasAddress(s, e, a)
        <4>1. HasAddress(s, e, a)'
          BY <3>1, <3>3 DEF HasAddress
        <4> QED
          BY <1>1, <2>3, <4>1 DEF Standing
      <3>4. CASE \A row \in spaces : row.id # s
        <4>1. \A row \in spaces' : row.id # s
          BY <1>4, <2>1, <2>3, <3>1, <3>4
        <4> QED
          BY <2>3, <4>1 DEF Standing
      <3> QED
        BY <2>2, <2>3, <3>2, <3>3, <3>4
    <2>5. CASE \/ \E i \in invites, r \in Requests : Redeem(i, d, r, at)
               \/ \E t \in Spaces : Invite(t, d, at) \/ RevokeInvites(t, d, at)
      <3>1. spaces' = spaces /\ members \subseteq members'
        BY <2>5 DEF Redeem, Invite, RevokeInvites
      <3>2. HasAddress(s, e, a) => HasAddress(s, e, a)'
        BY <3>1 DEF HasAddress
      <3> QED
        BY <1>1, <2>2, <2>3, <3>1, <3>2 DEF Standing
    <2> QED
      BY <1>2, <2>4, <2>5
  <1> QED
    BY <1>1, <1>3, <1>5, <1>6, WorkStep DEF TypeOK

LEMMA EndsMembershipKeeps ==
  ASSUME ServiceInv, NEW s \in Spaces, NEW d \in Devices, EndsMembership(s, d)
  PROVE  ServiceInv'
  <1>1. /\ UNCHANGED <<clock, leases, sessions, relay>> /\ revoking = {}
        /\ TypeOK /\ StoreInv
    BY DEF EndsMembership, Idle, ServiceInv, RelayIsSound
  <1>2. ASSUME NEW p \in Held(leases)
        PROVE  /\ p \in Pairs /\ p = <<p[1], p[2]>>
               /\ \/ HasAddress(p[1], p[2], leases[p].address)
                  \/ \A row \in spaces : row.id # p[1]
    BY <1>1, LeasesFact DEF Pairs, ServiceInv, RelayIsSound, LeasesFollowMembership, Standing
  \* One member goes: it is about to be revoked, and the others stand.
  <1>3. ASSUME NEW e \in Devices, Without(s, e), revoking' = {<<s, e>>}, StoreInv'
        PROVE  ServiceInv'
    <2>1. ASSUME NEW p \in Held(leases)
          PROVE  Standing(p[1], p[2], leases[p].address)'
      <3>1. PICK t, o, a : t = p[1] /\ o = p[2] /\ a = leases[p].address
        OBVIOUS
      <3>2. CASE t = s /\ o = e
        BY <1>3, <3>1, <3>2 DEF Standing
      <3>3. CASE ~(t = s /\ o = e) /\ HasAddress(t, o, a)
        <4>1. HasAddress(t, o, a)'
          BY <1>3, <3>3 DEF Without, MembersOf, HasAddress
        <4> QED
          BY <1>1, <3>1, <4>1 DEF Standing
      <3>4. CASE \A row \in spaces : row.id # t
        BY <1>3, <3>1, <3>4 DEF Without, Standing
      <3> QED
        BY <1>2, <3>1, <3>2, <3>3, <3>4
    <2>2. revoking' \subseteq Pairs /\ made' = made
      BY <1>3 DEF Pairs, Without
    <2>3. made'.spaces >= made.spaces
      BY <1>1, <2>2 DEF StoreInv, TablesAreSound, StoreTypeOK
    <2> QED
      BY <1>1, <1>3, <2>1, <2>2, <2>3, WorkStep
  <1>4. ASSUME NEW at \in Stamps, LeaveSpace(s, d, at)
        PROVE  ServiceInv'
    <2>1. StoreInv' /\ Without(s, d) /\ revoking' = {<<s, d>>}
      BY <1>1, <1>4, LeaveKeeps DEF LeaveSpace, Leave
    <2> QED
      BY <1>3, <2>1
  <1>5. ASSUME NEW at \in Stamps, NEW e \in Devices, RemoveMember(s, d, e, at),
               revoking' = {<<s, e>>}
        PROVE  ServiceInv'
    <2>1. StoreInv' /\ Without(s, e)
      BY <1>1, <1>5, RemoveMemberKeeps DEF RemoveMember
    <2> QED
      BY <1>3, <1>5, <2>1
  <1>6. ASSUME NEW at \in Stamps, Delete(s, d, at), revoking' = {s} \X Devices
        PROVE  ServiceInv'
    <2>1. StoreInv'
      BY <1>1, <1>6, DeleteKeeps
    <2>2. ASSUME NEW p \in Held(leases)
          PROVE  Standing(p[1], p[2], leases[p].address)'
      <3>1. PICK t, o, a : t = p[1] /\ o = p[2] /\ a = leases[p].address
        OBVIOUS
      <3>2. CASE t = s
        <4>1. o \in Devices
          BY <1>2, <3>1 DEF Pairs
        <4> QED
          BY <1>6, <3>1, <3>2, <4>1 DEF Standing
      <3>3. CASE t # s /\ HasAddress(t, o, a)
        <4>1. HasAddress(t, o, a)'
          BY <1>6, <3>3 DEF Delete, HasAddress
        <4> QED
          BY <1>1, <3>1, <4>1 DEF Standing
      <3>4. CASE \A row \in spaces : row.id # t
        BY <1>6, <3>1, <3>4 DEF Delete, Standing
      <3> QED
        BY <1>2, <3>1, <3>2, <3>3, <3>4
    <2>3. revoking' \subseteq Pairs /\ made' = made
      BY <1>6 DEF Pairs, Delete
    <2>4. made'.spaces >= made.spaces
      BY <1>1, <2>3 DEF StoreInv, TablesAreSound, StoreTypeOK
    <2> QED
      BY <1>1, <2>1, <2>2, <2>3, <2>4, WorkStep
  <1> QED
    BY <1>4, <1>5, <1>6 DEF EndsMembership

\* The leases that are left are not those of members that went.
LEMMA RevokeKeeps ==
  ASSUME ServiceInv, Revoke
  PROVE  ServiceInv'
  <1>1. /\ leases' = Ended(leases, revoking) /\ revoking' = {}
        /\ UNCHANGED <<tables, clock, sessions, conns, hub>> /\ TypeOK
    BY DEF Revoke, relay, ServiceInv, RelayIsSound
  <1>2. /\ leases' \in [Pairs -> Leases \cup {None}]
        /\ \A p \in Held(leases') : p \in Held(leases) /\ leases'[p] = leases[p] /\ p \notin revoking
    BY <1>1, EndedFact DEF Held
  <1>3. StoreInv' /\ UNCHANGED <<spaces, members, made>>
    BY <1>1, StoreStutters DEF ServiceInv, tables
  <1>4. TypeOK'
    BY <1>1, <1>2, <1>3 DEF TypeOK, StoreInv, TablesAreSound
  <1>5. LeasesFollowMembership'
    <2>1. ASSUME NEW p \in Held(leases') PROVE Standing(p[1], p[2], leases[p].address)'
      <3>1. Standing(p[1], p[2], leases[p].address) /\ <<p[1], p[2]>> \notin revoking
        BY <1>1, <1>2, LeasesFact DEF ServiceInv, RelayIsSound, LeasesFollowMembership, Pairs
      <3>2. leases'[p].address = leases[p].address
        BY <1>2
      <3> QED
        BY <1>3, <3>1, <3>2 DEF Standing, HasAddress
    <2> QED
      BY <2>1 DEF LeasesFollowMembership
  <1>6. SessionsAgree'
    BY <1>1, <1>2, <1>3 DEF ServiceInv, SessionsAgree, Pair
  <1>7. OneVoice'
    <2>1. \A x : LiveSession(x)' => LiveSession(x)
      BY <1>2 DEF LiveSession
    <2> QED
      BY <1>1, <2>1, VoiceKept DEF Open, Same
  <1> QED
    BY <1>3, <1>4, <1>5, <1>6, <1>7 DEF ServiceInv, RelayIsSound

\* A lease is renewed or closed: the sessions that are left are what they were.
LEMMA RefreshCloseKeeps ==
  ASSUME ServiceInv, NEW s \in Spaces, NEW d \in Devices,
         RefreshSession(s, d) \/ CloseSession(s, d)
  PROVE  ServiceInv'
  <1>1. /\ UNCHANGED <<tables, clock, sessions, revoking, conns, hub>> /\ TypeOK
        /\ <<s, d>> \in Pairs
    BY DEF RefreshSession, CloseSession, relay, ServiceInv, RelayIsSound, Pairs
  <1>2. /\ leases' \in [Pairs -> Leases \cup {None}]
        /\ \A p \in Held(leases') : /\ p \in Held(leases)
                                    /\ leases'[p].session = leases[p].session
                                    /\ leases'[p].address = leases[p].address
    <2>1. CASE CloseSession(s, d)
      BY <1>1, <2>1, EndedFact DEF CloseSession, Held
    <2>2. CASE RefreshSession(s, d)
      <3>1. PICK at \in Stamps :
              leases' = [leases EXCEPT ![<<s, d>>].expires = at + AccessTtl]
        BY <2>2 DEF RefreshSession
      <3>2. at + AccessTtl \in Nat /\ leases[<<s, d>>] \in Leases /\ leases[<<s, d>>] # None
        BY <1>1, <2>2, StampFact, LeaseAssumption DEF LeaseAssumption, TypeOK, RefreshSession
      <3> DEFINE l == [leases[<<s, d>>] EXCEPT !.expires = at + AccessTtl]
      <3>3. leases' = [leases EXCEPT ![<<s, d>>] = l]
        BY <3>1
      <3>4. /\ l \in Leases /\ l.session = leases[<<s, d>>].session
            /\ l.address = leases[<<s, d>>].address
        BY <3>2 DEF Leases
      <3> HIDE DEF l
      <3> QED
        BY <1>1, <3>2, <3>3, <3>4 DEF TypeOK, Held
    <2> QED
      BY <2>1, <2>2
  <1>3. \A c \in Conns : Same(conns'[c], conns[c]) /\ conns'[c] = conns[c]
    BY <1>1 DEF Same
  <1> QED
    BY <1>1, <1>2, <1>3, ConnStep DEF TypeOK

\* A session is opened for a member: its number is new, and so no connection's.
LEMMA OpenSessionKeeps ==
  ASSUME ServiceInv, NEW s \in Spaces, NEW d \in Devices, OpenSession(s, d)
  PROVE  ServiceInv'
  <1>1. PICK at \in Stamps :
          LET swept == Ended(leases, Lapsed(at))
              a == CHOOSE m \in MembersOf(s) : m.device = d
              room == swept[<<s, d>>] # None \/ Cardinality(Held(swept)) < TotalMembers
          IN  /\ Membership(s, d, at)
              /\ sessions < MaxSessions
              /\ leases' = IF ~room THEN swept ELSE
                    [swept EXCEPT ![<<s, d>>] = [session |-> sessions + 1, address |-> a.address,
                                                opened |-> clock, expires |-> at + AccessTtl]]
              /\ sessions' = IF room THEN sessions + 1 ELSE sessions
              /\ UNCHANGED <<tables, clock, revoking, relay>>
    BY DEF OpenSession
  <1>2. /\ UNCHANGED <<tables, clock, revoking, conns, hub>> /\ TypeOK /\ StoreInv
        /\ <<s, d>> \in Pairs /\ revoking = {}
    BY <1>1 DEF OpenSession, Idle, relay, ServiceInv, RelayIsSound, Pairs
  <1> DEFINE swept == Ended(leases, Lapsed(at))
             a == CHOOSE m \in MembersOf(s) : m.device = d
             room == swept[<<s, d>>] # None \/ Cardinality(Held(swept)) < TotalMembers
             new == [session |-> sessions + 1, address |-> a.address,
                     opened |-> clock, expires |-> at + AccessTtl]
  <1>3. /\ swept \in [Pairs -> Leases \cup {None}]
        /\ \A p \in Held(swept) : p \in Held(leases) /\ swept[p] = leases[p]
    BY <1>2, EndedFact DEF Held
  <1>4. CASE ~room
    <2>1. leases' = swept /\ sessions' = sessions
      BY <1>1, <1>4
    <2> HIDE DEF swept, room
    <2>2. \A c \in Conns : Same(conns'[c], conns[c]) /\ conns'[c] = conns[c]
      BY <1>2 DEF Same
    <2> QED
      BY <1>2, <1>3, <2>1, <2>2, ConnStep DEF TypeOK
  <1>5. CASE room
    <2>1. leases' = [swept EXCEPT ![<<s, d>>] = new] /\ sessions' = sessions + 1
      BY <1>1, <1>5
    <2>2. sessions \in Nat /\ sessions + 1 \in 1..MaxSessions
      BY <1>1, <1>2, LeaseAssumption DEF LeaseAssumption, TypeOK
    <2>3. a \in MembersOf(s) /\ a.device = d
      BY <1>1 DEF Membership, IsMember
    <2>4. a.address \in Addresses /\ HasAddress(s, d, a.address)
      BY <1>2, <2>3 DEF MembersOf, HasAddress, StoreInv, TablesAreSound, StoreTypeOK
    <2>5. at + AccessTtl \in Nat /\ clock \in Nat
      BY <1>2, StampFact, LeaseAssumption DEF LeaseAssumption, TypeOK
    <2>6. new \in Leases /\ new.session = sessions + 1 /\ new.address = a.address
      BY <2>2, <2>4, <2>5 DEF Leases
    <2> HIDE DEF swept, room, new, a
    <2>7. /\ leases' \in [Pairs -> Leases \cup {None}] /\ leases'[<<s, d>>] = new
          /\ \A p \in Held(leases') : p # <<s, d>> => p \in Held(leases) /\ leases'[p] = leases[p]
      BY <1>2, <1>3, <2>1, <2>6 DEF Held
    <2>8. StoreInv' /\ UNCHANGED <<spaces, members, made>>
      BY <1>2, StoreStutters DEF tables
    <2>9. TypeOK'
      BY <1>2, <2>1, <2>2, <2>7, <2>8 DEF TypeOK, StoreInv, TablesAreSound
    <2>10. LeasesFollowMembership'
      <3>1. ASSUME NEW p \in Held(leases') PROVE Standing(p[1], p[2], leases[p].address)'
        <4>1. CASE p = <<s, d>>
          <5>1. leases'[p].address = a.address /\ p[1] = s /\ p[2] = d
            BY <2>6, <2>7, <4>1
          <5> QED
            BY <2>4, <2>8, <5>1 DEF Standing, HasAddress
        <4>2. CASE p # <<s, d>>
          <5>1. Standing(p[1], p[2], leases[p].address) /\ leases'[p] = leases[p]
            BY <2>7, <3>1, <4>2 DEF ServiceInv, RelayIsSound, LeasesFollowMembership
          <5> QED
            BY <1>2, <2>8, <5>1 DEF Standing, HasAddress
        <4> QED
          BY <4>1, <4>2
      <3> QED
        BY <3>1 DEF LeasesFollowMembership
    <2>11. \A p \in Held(leases') :
             /\ p = <<s, d>> => leases'[p].session = sessions + 1
             /\ p # <<s, d>> => p \in Held(leases) /\ leases'[p] = leases[p]
                                /\ leases[p].session <= sessions /\ leases[p].session \in Nat
      BY <1>2, <2>6, <2>7, LeasesFact DEF ServiceInv, SessionsAgree, Leases
    <2>12. \A c \in Conns : conns[c] # None =>
             conns[c].session <= sessions /\ conns[c].session \in Nat
      BY <1>2, ConnsFact DEF ServiceInv, SessionsAgree, Relays
    <2>13. s <= made.spaces
      <3>1. \E row \in spaces : row.id = s
        BY <1>1 DEF Membership, Active
      <3> QED
        BY <1>2, <3>1 DEF StoreInv, RowsAgree
    <2>14. SessionsAgree'
      <3>1. ASSUME NEW p \in Held(leases')
            PROVE  p[1] <= made'.spaces /\ leases'[p].session <= sessions'
        <4>1. CASE p = <<s, d>>
          <5>1. p[1] = s /\ leases'[p].session = sessions + 1
            BY <2>11, <4>1
          <5> QED
            BY <2>1, <2>2, <2>8, <2>13, <5>1
        <4>2. CASE p # <<s, d>>
          <5>1. /\ leases'[p].session <= sessions /\ leases'[p].session \in Nat
                /\ p[1] <= made.spaces
            BY <2>11, <4>2 DEF ServiceInv, SessionsAgree
          <5> QED
            BY <2>1, <2>2, <2>8, <5>1
        <4> QED
          BY <4>1, <4>2
      <3>2. ASSUME NEW p \in Held(leases'), NEW q \in Held(leases'),
                   leases'[p].session = leases'[q].session
            PROVE  p = q
        BY <2>2, <2>11, <3>2 DEF ServiceInv, SessionsAgree
      <3>3. ASSUME NEW c \in Conns, conns[c] # None
            PROVE  /\ conns[c].session <= sessions'
                   /\ \A p \in Held(leases') : leases'[p].session = conns[c].session =>
                         p = <<conns[c].space, conns[c].device>> /\ leases'[p].address = conns[c].address
        <4>1. conns[c].session <= sessions /\ conns[c].session \in Nat
          BY <2>12, <3>3
        <4>2. conns[c].session <= sessions' /\ conns[c].session # sessions + 1
          BY <2>1, <2>2, <4>1
        <4>3. ASSUME NEW p \in Held(leases'), leases'[p].session = conns[c].session
              PROVE  p = <<conns[c].space, conns[c].device>>
                     /\ leases'[p].address = conns[c].address
          <5>1. p \in Held(leases) /\ leases'[p] = leases[p]
            BY <2>11, <4>2, <4>3
          <5> QED
            BY <3>3, <4>3, <5>1 DEF ServiceInv, SessionsAgree, Pair
        <4> QED
          BY <4>2, <4>3
      <3> QED
        BY <1>2, <3>1, <3>2, <3>3 DEF SessionsAgree, Pair
    <2>15. OneVoice'
      <3>1. ASSUME NEW c \in Conns, NEW x, Open(c), x = conns[c].session, LiveSession(x)'
            PROVE  LiveSession(x)
        <4>1. conns[c] # None
          BY <3>1 DEF Open
        <4>2. PICK p \in Held(leases') : leases'[p].session = x
          BY <3>1 DEF LiveSession
        <4>3. p # <<s, d>>
          BY <2>2, <2>11, <2>12, <3>1, <4>1, <4>2
        <4> QED
          BY <2>11, <4>2, <4>3 DEF LiveSession
      <3> QED
        BY <1>2, <3>1, VoiceKept DEF Open, Same
    <2> QED
      BY <2>8, <2>9, <2>10, <2>14, <2>15 DEF ServiceInv, RelayIsSound
  <1> QED
    BY <1>4, <1>5

LEMMA RequestKeeps ==
  ASSUME ServiceInv, NEW d \in Devices, Request(d)
  PROVE  ServiceInv'
  BY OnStoreKeeps, EndsMembershipKeeps, OpenSessionKeeps, RefreshCloseKeeps DEF Request

LEMMA PassKeeps ==
  ASSUME ServiceInv, Pass
  PROVE  ServiceInv'
  <1>1. Tick /\ UNCHANGED <<spaces, members, made, leases, sessions, revoking, conns, hub>>
        /\ UNCHANGED relay
    BY DEF Pass, Tick, tables, control, relay
  <1>2. StoreInv' /\ TypeOK /\ StoreInv
    BY <1>1, TickKeeps DEF ServiceInv, RelayIsSound
  <1>3. \A p \in Held(leases) : Standing(p[1], p[2], leases[p].address)'
    BY <1>1 DEF ServiceInv, RelayIsSound, LeasesFollowMembership, Standing, HasAddress
  <1>4. revoking' \subseteq Pairs /\ made'.spaces >= made.spaces
    BY <1>1, <1>2 DEF TypeOK, StoreTypeOK
  <1> QED
    BY <1>1, <1>2, <1>3, <1>4, WorkStep

\* Nothing but the tables remains, and nothing is held.
LEMMA RestartKeeps ==
  ASSUME ServiceInv, Restart
  PROVE  ServiceInv'
  <1>1. /\ \A p \in Pairs : leases'[p] = None
        /\ \A c \in Conns : conns'[c] = None
        /\ \A q \in Places : hub'[q] = None
        /\ revoking' = {} /\ UNCHANGED <<tables, clock, sessions>>
    BY DEF Restart
  <1>2. StoreInv' /\ TypeOK
    BY <1>1, StoreStutters DEF ServiceInv, RelayIsSound
  <1>3. TypeOK'
    BY <1>1, <1>2 DEF Restart, TypeOK, StoreInv, TablesAreSound
  <1>4. Held(leases') = {}
    BY <1>1 DEF Held
  <1>5. LeasesFollowMembership' /\ SessionsAgree'
    BY <1>1, <1>4 DEF LeasesFollowMembership, SessionsAgree
  <1>6. OneVoice'
    BY <1>1 DEF OneVoice, Open
  <1> QED
    BY <1>2, <1>3, <1>5, <1>6 DEF ServiceInv, RelayIsSound

LEMMA ServiceInitSound ==
  ASSUME Init
  PROVE  ServiceInv
  <1>1. StoreInv
    BY StoreInitSound DEF Init
  <1>2. TypeOK
    BY <1>1, LeaseAssumption DEF LeaseAssumption, Init, TypeOK, StoreInv, TablesAreSound
  <1>3. Held(leases) = {}
    BY DEF Init, Held
  <1>4. LeasesFollowMembership /\ SessionsAgree
    BY <1>3 DEF Init, LeasesFollowMembership, SessionsAgree
  <1>5. OneVoice
    BY DEF Init, OneVoice, Open
  <1> QED
    BY <1>1, <1>2, <1>4, <1>5 DEF ServiceInv, RelayIsSound

LEMMA ServiceStep ==
  ASSUME ServiceInv, [Next]_vars
  PROVE  ServiceInv'
  <1>1. CASE UNCHANGED vars
    <2>1. UNCHANGED <<tables, clock, sessions, revoking, leases, conns, hub>>
      BY <1>1 DEF vars, control, relay
    <2> QED
      BY <2>1, ConnStep DEF Same, ServiceInv, RelayIsSound, TypeOK
  <1> QED
    BY <1>1, RequestKeeps, ConnectionKeeps, RevokeKeeps, PassKeeps, RestartKeeps DEF Next

\* However sessions are opened, replaced and revoked while connections are upgraded and
\* tables change, leases, connections, hub and tables agree.
THEOREM ServiceInvHolds == Spec => []ServiceInv
  <1>1. Init => ServiceInv
    BY ServiceInitSound
  <1>2. ServiceInv /\ [Next]_vars => ServiceInv'
    BY ServiceStep
  <1> QED
    BY <1>1, <1>2, PTL DEF Spec

\* No lease survives its membership or passes to another address, there is one voice
\* at an address, and the hub names only connections at their own place.
THEOREM RelayHolds == Spec => []RelayIsSound
  <1>1. ServiceInv => RelayIsSound
    BY DEF ServiceInv
  <1> QED
    BY <1>1, ServiceInvHolds, PTL

\* The tables are sound under the service too, whatever its requests interleave with.
THEOREM ServedTablesHold == Spec => []TablesAreSound
  <1>1. ServiceInv => TablesAreSound
    BY DEF ServiceInv, StoreInv
  <1> QED
    BY <1>1, ServiceInvHolds, PTL

-----------------------------------------------------------------------------
(* What a connection receives *)

\* What RelayOnlyMembers says of one connection that receives or delivers.
Admitted(t) ==
    conns[t] # None /\ conns'[t] # None /\ conns'[t].rx # conns[t].rx =>
       /\ LiveSession(conns[t].session)
       /\ Standing(conns[t].space, conns[t].device, conns[t].address)
       /\ conns'[t].rx # None => \E c \in Conns : Speaks(c, t)

\* Whoever has a live session stands at the address of its connection.
LEMMA LiveStands ==
  ASSUME ServiceInv, NEW c \in Conns, conns[c] # None, LiveSession(conns[c].session)
  PROVE  Standing(conns[c].space, conns[c].device, conns[c].address)
  <1>1. PICK p \in Held(leases) : leases[p].session = conns[c].session
    BY DEF LiveSession
  <1>2. p = <<conns[c].space, conns[c].device>> /\ leases[p].address = conns[c].address
    BY <1>1 DEF ServiceInv, SessionsAgree, Pair
  <1>3. p[1] = conns[c].space /\ p[2] = conns[c].device
    BY <1>2
  <1> QED
    BY <1>2, <1>3 DEF ServiceInv, RelayIsSound, LeasesFollowMembership

LEMMA RouteFrameAdmits ==
  ASSUME ServiceInv, NEW c \in Conns, RouteFrame(c), NEW t \in Conns
  PROVE  Admitted(t)
  <1> SUFFICES ASSUME conns[t] # None, conns'[t] # None, conns'[t].rx # conns[t].rx
               PROVE  /\ LiveSession(conns[t].session)
                      /\ Standing(conns[t].space, conns[t].device, conns[t].address)
                      /\ \E s \in Conns : Speaks(s, t)
    BY DEF Admitted
  <1> DEFINE hit == hub[<<conns[c].space, conns[c].frame>>]
             reaches == IsRegistered(c) /\ hit # None /\ ~Cancelled(hit) /\ conns[hit].rx = None
  <1>1. conns' = [o \in Conns |->
               IF o = c THEN [conns[c] EXCEPT !.frame = None]
               ELSE IF reaches /\ o = hit THEN [conns[o] EXCEPT !.rx = conns[c].address]
               ELSE conns[o]]
    BY DEF RouteFrame
  <1>2. /\ conns[c] # None /\ conns[c] \in Relays /\ conns[t] \in Relays /\ TypeOK
        /\ conns[c].frame # None
    BY ConnsFact DEF RouteFrame, Open, ServiceInv, RelayIsSound
  <1>3. t # c
    <2>1. ASSUME t = c PROVE FALSE
      <3>1. conns'[t] = [conns[c] EXCEPT !.frame = None]
        BY SMTT(30), <1>1, <2>1
      <3> QED
        BY <1>2, <2>1, <3>1, FrameFact
    <2> QED
      BY <2>1
  <1>4. reaches /\ t = hit
    BY <1>1, <1>3
  <1>5. conns'[t].rx = conns[c].address
    <2>1. conns'[t] = [conns[t] EXCEPT !.rx = conns[c].address]
      BY <1>1, <1>3, <1>4
    <2>2. conns[c].address \in Addresses
      BY <1>2 DEF Relays
    <2> QED
      BY SMTT(30), <1>2, <2>1, <2>2, RxFact
  <1>6. conns'[c] # None /\ conns'[c].frame = None
    <2>1. conns'[c] = [conns[c] EXCEPT !.frame = None]
      BY <1>1
    <2> QED
      BY SMTT(30), <1>2, <2>1, FrameFact
  <1>7. conns[c].frame = conns[t].address /\ conns[c].space = conns[t].space
    <2>1. <<conns[c].space, conns[c].frame>> \in Places
      BY <1>2 DEF Relays, Places
    <2>2. Place(t) = <<conns[c].space, conns[c].frame>>
      BY <1>4, <2>1 DEF ServiceInv, RelayIsSound, OneVoice
    <2> QED
      BY <2>2 DEF Place
  <1>8. \A o \in Conns : Open(o) /\ Place(o) = Place(c) /\ ~Cancelled(o) => o = c
    BY <1>4 DEF IsRegistered, ServiceInv, RelayIsSound, OneVoice
  <1>9. LiveSession(conns[c].session) => Standing(conns[c].space, conns[c].device, conns[c].address)
    BY <1>2, LiveStands
  <1>10. Speaks(c, t)
    BY <1>2, <1>5, <1>6, <1>7, <1>8, <1>9 DEF Speaks
  <1>11. LiveSession(conns[t].session)
    BY <1>4 DEF Cancelled
  <1> QED
    BY <1>10, <1>11, LiveStands

\* Every other step leaves the inputs as they are, or takes one out.
LEMMA OthersAdmit ==
  ASSUME ServiceInv, NEW t \in Conns, NEW c \in Conns, Connection(c), ~RouteFrame(c)
  PROVE  Admitted(t)
  <1> SUFFICES ASSUME conns[t] # None, conns'[t] # None, conns'[t].rx # conns[t].rx
               PROVE  /\ LiveSession(conns[t].session)
                      /\ Standing(conns[t].space, conns[t].device, conns[t].address)
                      /\ conns'[t].rx = None
    BY DEF Admitted
  <1>1. TypeOK /\ conns[t] \in Relays
    BY ConnsFact DEF ServiceInv, RelayIsSound
  <1>2. ASSUME conns' = [conns EXCEPT ![c] = None] PROVE FALSE
    BY <1>1, <1>2 DEF TypeOK
  <1>3. ~End(c)
    BY <1>2 DEF End
  <1>4. CASE \E p \in Pairs : Upgrade(c, p)
    BY <1>1, <1>4 DEF Upgrade, TypeOK
  <1>5. CASE Register(c)
    <2>1. conns'[t] = IF t = c THEN [conns[c] EXCEPT !.phase = "serving"]
                      ELSE IF t = hub[Place(c)] THEN [conns[t] EXCEPT !.cut = TRUE]
                      ELSE conns[t]
      BY <1>5 DEF Register
    <2> QED
      BY <1>1, <2>1, PhaseFact, CutFact
  <1>6. CASE Ask(c) \/ Answer(c)
    <2>1. PICK ph \in {"asking", "serving"} : conns' = [conns EXCEPT ![c].phase = ph]
      BY <1>3, <1>6 DEF Ask, Answer
    <2>2. conns'[t] = IF t = c THEN [conns[t] EXCEPT !.phase = ph] ELSE conns[t]
      BY <1>1, <2>1 DEF TypeOK
    <2> QED
      BY <1>1, <2>2, PhaseFact
  <1>7. CASE \E a \in Addresses : TakeFrame(c, a)
    <2>1. PICK a \in Addresses : conns' = [conns EXCEPT ![c].frame = a]
      BY <1>7 DEF TakeFrame
    <2>2. conns'[t] = IF t = c THEN [conns[t] EXCEPT !.frame = a] ELSE conns[t]
      BY <1>1, <2>1 DEF TypeOK
    <2> QED
      BY <1>1, <2>2, FrameFact
  <1>8. CASE Deliver(c)
    <2>1. conns' = [conns EXCEPT ![c].rx = None] /\ ~Cancelled(c)
      BY <1>3, <1>8 DEF Deliver
    <2>2. conns'[t] = IF t = c THEN [conns[t] EXCEPT !.rx = None] ELSE conns[t]
      BY <1>1, <2>1 DEF TypeOK
    <2>3. t = c /\ conns'[t].rx = None
      BY <1>1, <2>2, RxFact
    <2>4. LiveSession(conns[t].session)
      BY <2>1, <2>3 DEF Cancelled
    <2> QED
      BY <2>3, <2>4, LiveStands
  <1>9. ~Hangup(c) /\ ~Notice(c)
    BY <1>3 DEF Hangup, Notice
  <1> QED
    BY <1>4, <1>5, <1>6, <1>7, <1>8, <1>9 DEF Connection

LEMMA StepAdmits ==
  ASSUME ServiceInv, [Next]_vars, NEW t \in Conns
  PROVE  Admitted(t)
  <1>1. CASE conns' = conns
    BY <1>1 DEF Admitted
  <1>2. CASE \E c \in Conns : Connection(c)
    BY <1>2, RouteFrameAdmits, OthersAdmit
  <1>3. CASE Restart
    BY <1>3 DEF Restart, Admitted
  <1>4. (\E d \in Devices : Request(d)) => conns' = conns
    BY ZenonT(60) DEF Request, OnStore, EndsMembership, OpenSession, RefreshSession, CloseSession, relay
  <1>5. Revoke \/ Pass \/ UNCHANGED vars => conns' = conns
    BY DEF Revoke, Pass, vars, relay
  <1> QED
    BY <1>1, <1>2, <1>3, <1>4, <1>5 DEF Next

\* A frame is forwarded between members of one space only, under the address its
\* sender holds, whatever was removed, replaced or displaced before it.
THEOREM OnlyMembersHear == Spec => RelayOnlyMembers
  <1>1. ServiceInv /\ [Next]_vars =>
          [\A t \in Conns : conns[t] # None /\ conns'[t] # None /\ conns'[t].rx # conns[t].rx =>
              /\ LiveSession(conns[t].session)
              /\ Standing(conns[t].space, conns[t].device, conns[t].address)
              /\ conns'[t].rx # None => \E c \in Conns : Speaks(c, t)]_vars
    BY StepAdmits DEF Admitted
  <1> QED
    BY <1>1, ServiceInvHolds, PTL DEF Spec, RelayOnlyMembers

-----------------------------------------------------------------------------
(* The bridge tunnel: what is on its way, and who has said what *)

\* What is on its way to a side and not yet taken.
Coming(s) == acc[s] \o wire[s]

\* The chunks of connection c after the first k.
Run(q, c, k) == \A i \in 1..Len(q) : q[i] = Data(c, k + i)

LoopTypes ==
    /\ main \in [Side -> {"accept", "wait", "dial", "pump", "ended"}]
    /\ main["guest"] \in {"accept", "pump", "ended"} /\ main["host"] \in {"wait", "dial", "pump", "ended"}
    /\ opened \in [Side -> 0..MaxConns] /\ lost \in BOOLEAN
    /\ rtask \in [Side -> {"none", "select", "take", "write", "end", "wait_end"}]
WireTypes ==
    /\ wire \in [Side -> Seq(Frames)] /\ \A s \in Side : Len(wire[s]) <= WireCap
    /\ acc \in [Side -> Seq(Frames)] /\ out \in [Side -> Seq(Frames)]
LocalTypes ==
    /\ ltask \in [Side -> [Conn -> {"none", "select", "send", "write", "over"}]]
    /\ app \in [Side -> [Conn -> {"none", "open", "closed"}]]
    /\ sent \in [Side -> [Conn -> Nat]] /\ got \in [Side -> [Conn -> Seq(Frames)]]
    /\ \A s \in Side, c \in Conn : sent[s][c] <= Chunks[s][c]
ChannelTypes ==
    /\ toRemote \in [Side -> [Conn -> Seq(Frames)]] /\ toLocal \in [Side -> [Conn -> Seq(Frames)]]
    /\ \A s \in Side, c \in Conn : Len(toRemote[s][c]) <= Cap /\ Len(toLocal[s][c]) <= Cap
BridgeTypes == LoopTypes /\ WireTypes /\ LocalTypes /\ ChannelTypes

\* How many chunks of its connection a side has put on the transport.
PutN(s) == sent[s][opened[s]] - Len(toRemote[s][opened[s]]) - Len(out[s])
           - (IF ltask[s][opened[s]] = "send" THEN 1 ELSE 0)

\* The tasks of a pump: what they hold goes on where the transport stops.
TaskInv(s) ==
    /\ main[s] \notin {"pump", "ended"} => opened[s] < MaxConns
    /\ main[s] # "pump" => rtask[s] = "none" /\ acc[s] = <<>> /\ out[s] = <<>>
    /\ main[s] = "pump" =>
         /\ opened[s] > 0 /\ rtask[s] # "none" /\ ltask[s][opened[s]] # "none"
         /\ acc[s] # <<>> => rtask[s] \in {"take", "wait_end"}
         /\ rtask[s] \in {"end", "wait_end"} => LocalOver(s)
         /\ rtask[s] = "end" => toRemote[s][opened[s]] = <<>>
         /\ Len(out[s]) = IF rtask[s] = "write" THEN 1 ELSE 0
         /\ PutN(s) >= 0 /\ Run(out[s], opened[s], PutN(s))
         /\ Run(toRemote[s][opened[s]], opened[s], PutN(s) + Len(out[s]))

\* What a program was given and what waits for it are the first chunks of the other one.
Had(s, c) == Len(got[s][c]) + Len(toLocal[s][c])
ChainInv(s, c) ==
    /\ c > opened[s] => /\ ltask[s][c] = "none" /\ sent[s][c] = 0
                        /\ got[s][c] = <<>> /\ toLocal[s][c] = <<>> /\ toRemote[s][c] = <<>>
    /\ ltask[s][c] = "over" => toLocal[s][c] = <<>>
    /\ Run(got[s][c], c, 0) /\ Run(toLocal[s][c], c, Len(got[s][c]))
    /\ Had(s, c) <= sent[Peer(s)][c]

\* The other program has closed, before it had all that was sent to it.
CutOff(s, c) == ltask[Peer(s)][c] = "over" /\ Len(got[Peer(s)][c]) < sent[s][c]
\* A connection a side is through with is over at the other one, and all that was sent
\* there has come, unless that program did not want all it was sent.
SettledInv(s, c) ==
    /\ c < opened[s] \/ (c = opened[s] /\ main[s] \notin {"pump", "ended"})
    /\ ltask[s][c] # "over"
    => ltask[Peer(s)][c] = "over" /\ (Had(s, c) = sent[Peer(s)][c] \/ CutOff(s, c))

\* A side has said all about its connection.
Over(p) == main[p] # "pump" \/ rtask[p] = "wait_end"

\* Side p has put n chunks of its connection on the transport and, with e = 1, the end.
Link(p, n, e) ==
    /\ n <= sent[p][opened[p]]
    /\ main[p] = "pump" => n = PutN(p) /\ (e = 1 <=> rtask[p] = "wait_end")
    /\ main[p] \notin {"pump", "ended"} => e = 1
\* Side s has taken b of them off.
Recv(s, c, b) == Had(s, c) <= b /\ (ltask[s][c] # "over" => Had(s, c) = b)
\* What the end says to a program that has not closed.
Means(s, c, n) ==
    \/ ltask[s][c] = "over"
    \/ ltask[Peer(s)][c] = "over" /\ (n = sent[Peer(s)][c] \/ CutOff(s, c))
\* Behind its first j frames, what comes to s is the rest of the connection of its peer.
Carries(s, j, b, n, e) ==
    LET q == Coming(s)  c == opened[Peer(s)] IN
    /\ b <= n /\ Len(q) = j + (n - b) + e
    /\ \A i \in 1..(n - b) : q[j + i] = Data(c, b + i)
    /\ e = 1 => q[j + (n - b) + 1] = EndFrame /\ Means(s, c, n)
    /\ Link(Peer(s), n, e) /\ Recv(s, c, b)
Flow(s, j) == \E b, n \in Nat, e \in {0, 1} : Carries(s, j, b, n, e)

\* The peer has gone on: the end of the old connection and the new one are under way.
Late(s) == \E j \in 2..Len(Coming(s)) :
    /\ Coming(s)[j] = Cnew /\ Coming(s)[j - 1] = EndFrame /\ Flow(s, j)
    /\ \A i \in 1..(j - 2) : Coming(s)[i].kind = "data"
Fresh(s) == Coming(s) # <<>> /\ Coming(s)[1] = Cnew /\ Flow(s, 1)
Missed(s) == \A i \in 1..Len(Coming(s)) : Coming(s)[i] # Cnew
Nothing(s) == Coming(s) = <<>> /\ Over(Peer(s))

Equal(s) == opened[Peer(s)] = opened[s]
Ahead(s) == opened[Peer(s)] = opened[s] + 1
Toward(s) ==
    /\ main[s] = "pump" =>
          \/ Equal(s) /\ Flow(s, 0)
          \/ s = "guest" /\ opened[s] = opened[Peer(s)] + 1 /\ Nothing(s)
          \/ s = "host" /\ Ahead(s) /\ rtask[s] = "wait_end" /\ Late(s)
    /\ main[s] \in {"accept", "wait"} =>
          \/ Equal(s) /\ Nothing(s)
          \/ s = "host" /\ Ahead(s) /\ (Missed(s) \/ Fresh(s))
    /\ main[s] = "dial" => Ahead(s) /\ Flow(s, 0)

\* The invariant of what is on its way, until a part of a frame is dropped.
BridgeInv ==
    /\ BridgeTypes
    /\ \A s \in Side : TaskInv(s) /\ Toward(s)
    /\ \A s \in Side, c \in Conn : ChainInv(s, c) /\ SettledInv(s, c)

\* The inductive invariant.
PartTypes == begun \in BOOLEAN /\ torn \in BOOLEAN
BridgeAll == PartTypes /\ (torn \/ BridgeInv)

-----------------------------------------------------------------------------
(* Sides and sequences *)

LEMMA PeerFact ==
  ASSUME NEW s \in Side
  PROVE  /\ Peer(s) \in Side /\ Peer(s) # s /\ Peer(Peer(s)) = s /\ Side = {"guest", "host"}
         /\ \A t \in Side : t = s \/ t = Peer(s)
  BY DEF Side, Peer

LEMMA BridgeSizes ==
  /\ MaxConns \in Nat \ {0} /\ Cap \in Nat /\ WireCap \in Nat /\ Conn \subseteq Nat \ {0}
  /\ \A s \in Side, c \in Conn : Chunks[s][c] \in Nat
  BY BridgeAssumption, ChunksAssumption DEF BridgeAssumption, ChunksAssumption, Conn, Side

LEMMA ChunkFact ==
  ASSUME NEW c \in Conn, NEW n \in Nat
  PROVE  /\ Data(c, n) \in Frames /\ EndFrame \in Frames /\ Cnew \in Frames
         /\ Data(c, n) # EndFrame /\ Data(c, n) # Cnew /\ EndFrame # Cnew /\ Data(c, n).kind = "data"
         /\ EndFrame.kind # "data"
         /\ \A d \in Nat : Data(c, n) = Data(c, d) => n = d
  BY BridgeSizes DEF Data, EndFrame, Cnew, Frames, Conn

\* r is q with f behind it; r is q without its first frame; r is q without its first k.
IsMore(r, q, f) == /\ r \in Seq(Frames) /\ Len(r) = Len(q) + 1 /\ r[Len(r)] = f
                   /\ \A i \in 1..Len(q) : r[i] = q[i]
IsPast(r, q, k) == /\ r \in Seq(Frames) /\ k <= Len(q) /\ Len(r) = Len(q) - k
                   /\ \A i \in 1..Len(r) : r[i] = q[i + k]

LEMMA AppendFact ==
  ASSUME NEW q \in Seq(Frames), NEW f \in Frames
  PROVE  IsMore(Append(q, f), q, f)
  BY DEF IsMore

LEMMA TailFact ==
  ASSUME NEW q \in Seq(Frames), q # <<>>
  PROVE  IsPast(Tail(q), q, 1) /\ Head(q) = q[1] /\ q[1] \in Frames /\ Len(q) >= 1
  BY DEF IsPast

LEMMA JoinFact ==
  ASSUME NEW a \in Seq(Frames), NEW w \in Seq(Frames)
  PROVE  /\ a \o w \in Seq(Frames) /\ Len(a \o w) = Len(a) + Len(w)
         /\ \A i \in 1..Len(a) : (a \o w)[i] = a[i]
         /\ \A i \in 1..Len(w) : (a \o w)[Len(a) + i] = w[i]
         /\ IsPast(w, a \o w, Len(a)) /\ (a = <<>> => a \o w = w)
  <1>1. /\ a \o w \in Seq(Frames) /\ Len(a \o w) = Len(a) + Len(w)
        /\ \A i \in 1..Len(a) : (a \o w)[i] = a[i]
        /\ \A i \in 1..Len(w) : (a \o w)[Len(a) + i] = w[i]
    OBVIOUS
  <1>2. IsPast(w, a \o w, Len(a))
    BY <1>1 DEF IsPast
  <1>3. a = <<>> => a \o w = w
    OBVIOUS
  <1> QED
    BY <1>1, <1>2, <1>3

LEMMA JoinMore ==
  ASSUME NEW a \in Seq(Frames), NEW w \in Seq(Frames), NEW f \in Frames
  PROVE  IsMore(a \o Append(w, f), a \o w, f)
  <1>1. PICK v : v = Append(w, f)
    OBVIOUS
  <1>2. IsMore(v, w, f)
    BY <1>1, AppendFact
  <1>3. v \in Seq(Frames) /\ Len(v) = Len(w) + 1 /\ v[Len(v)] = f /\ \A i \in 1..Len(w) : v[i] = w[i]
    BY <1>2 DEF IsMore
  <1>4. PICK x, y : x = a \o v /\ y = a \o w
    OBVIOUS
  <1>5. /\ x \in Seq(Frames) /\ Len(x) = Len(a) + Len(v)
        /\ \A i \in 1..Len(a) : x[i] = a[i]
        /\ \A i \in 1..Len(v) : x[Len(a) + i] = v[i]
    BY <1>3, <1>4, JoinFact
  <1>6. /\ y \in Seq(Frames) /\ Len(y) = Len(a) + Len(w)
        /\ \A i \in 1..Len(a) : y[i] = a[i]
        /\ \A i \in 1..Len(w) : y[Len(a) + i] = w[i]
    BY <1>4, JoinFact
  <1>7. Len(x) = Len(y) + 1 /\ x[Len(x)] = f
    BY ONLY <1>3, <1>5, <1>6, w \in Seq(Frames), a \in Seq(Frames)
  <1>8. ASSUME NEW i \in 1..Len(y)
        PROVE  x[i] = y[i]
    <2>1. CASE i <= Len(a)
      BY <2>1, <1>5, <1>6
    <2>2. CASE i > Len(a)
      <3>1. PICK d : d = i - Len(a)
        OBVIOUS
      <3>2. d \in 1..Len(w) /\ d \in 1..Len(v) /\ i = Len(a) + d
        BY <3>1, <2>2, <1>6, <1>3
      <3> QED
        BY <3>2, <1>3, <1>5, <1>6
    <2> QED
      BY <2>1, <2>2
  <1> QED
    BY <1>1, <1>4, <1>5, <1>7, <1>8 DEF IsMore

LEMMA JoinRest ==
  ASSUME NEW a \in Seq(Frames), NEW w \in Seq(Frames), a # <<>>
  PROVE  IsPast(Tail(a) \o w, a \o w, 1) /\ (a \o w)[1] = a[1] /\ a[1] \in Frames
  <1>1. PICK t : t = Tail(a)
    OBVIOUS
  <1>2. /\ t \in Seq(Frames) /\ Len(a) >= 1 /\ Len(t) = Len(a) - 1 /\ a[1] \in Frames
        /\ \A i \in 1..Len(t) : t[i] = a[i + 1]
    BY <1>1, TailFact DEF IsPast
  <1>3. PICK x, y : x = t \o w /\ y = a \o w
    OBVIOUS
  <1>4. /\ x \in Seq(Frames) /\ Len(x) = Len(t) + Len(w)
        /\ \A i \in 1..Len(t) : x[i] = t[i]
        /\ \A i \in 1..Len(w) : x[Len(t) + i] = w[i]
    BY <1>2, <1>3, JoinFact
  <1>5. /\ y \in Seq(Frames) /\ Len(y) = Len(a) + Len(w)
        /\ \A i \in 1..Len(a) : y[i] = a[i]
        /\ \A i \in 1..Len(w) : y[Len(a) + i] = w[i]
    BY <1>3, JoinFact
  <1>6. ASSUME NEW i \in 1..Len(x)
        PROVE  x[i] = y[i + 1]
    <2>1. CASE i <= Len(t)
      <3>1. i \in 1..Len(t) /\ i + 1 \in 1..Len(a)
        BY <2>1, <1>2
      <3> QED
        BY <3>1, <1>2, <1>4, <1>5
    <2>2. CASE i > Len(t)
      <3>1. PICK d : d = i - Len(t)
        OBVIOUS
      <3>2. d \in 1..Len(w) /\ i = Len(t) + d /\ i + 1 = Len(a) + d
        BY <3>1, <2>2, <1>2, <1>4
      <3> QED
        BY <3>2, <1>4, <1>5
    <2> QED
      BY <2>1, <2>2, <1>2
  <1>7. Len(x) = Len(y) - 1 /\ 1 <= Len(y) /\ y[1] = a[1]
    BY <1>2, <1>4, <1>5
  <1> QED
    BY <1>1, <1>2, <1>3, <1>4, <1>6, <1>7 DEF IsPast

\* A read moves frames from the transport into the buffer, and changes nothing of the two.
LEMMA ReadFact ==
  ASSUME NEW a \in Seq(Frames), NEW w \in Seq(Frames), NEW k \in 0..Len(w)
  PROVE  /\ a \o SubSeq(w, 1, k) \in Seq(Frames) /\ SubSeq(w, k + 1, Len(w)) \in Seq(Frames)
         /\ Len(SubSeq(w, k + 1, Len(w))) <= Len(w)
         /\ (a \o SubSeq(w, 1, k)) \o SubSeq(w, k + 1, Len(w)) = a \o w
  <1>1. PICK x, y : x = SubSeq(w, 1, k) /\ y = SubSeq(w, k + 1, Len(w))
    OBVIOUS
  <1>2. /\ x \in Seq(Frames) /\ y \in Seq(Frames) /\ Len(x) = k /\ Len(y) = Len(w) - k
        /\ \A i \in 1..k : x[i] = w[i]
        /\ \A i \in 1..Len(y) : y[i] = w[k + i]
    BY <1>1
  <1>3. x \o y = w
    <2>1. PICK z : z = x \o y
      OBVIOUS
    <2>2. /\ z \in Seq(Frames) /\ Len(z) = Len(x) + Len(y)
          /\ \A i \in 1..Len(x) : z[i] = x[i]
          /\ \A i \in 1..Len(y) : z[Len(x) + i] = y[i]
      BY ONLY <1>2, <2>1, JoinFact
    <2>3. Len(z) = Len(w) /\ \A i \in 1..Len(w) : z[i] = w[i]
      <3>1. ASSUME NEW i \in 1..Len(w), i > k
            PROVE  z[i] = w[i]
        <4>1. i - k \in 1..Len(y) /\ i = Len(x) + (i - k) /\ k + (i - k) = i
          BY <3>1, <1>2
        <4>2. PICK j \in 1..Len(y) : j = i - k
          BY <4>1
        <4>3. z[Len(x) + j] = y[j] /\ y[j] = w[k + j] /\ Len(x) + j = i /\ k + j = i
          BY <4>1, <4>2, <1>2, <2>2
        <4> QED
          BY <4>3
      <3> QED
        BY <3>1, <1>2, <2>2
    <2> QED
      BY <2>1, <2>2, <2>3, SeqEqual
  <1>4. (a \o x) \o y = a \o (x \o y)
    BY <1>2
  <1>5. a \o x \in Seq(Frames)
    BY <1>2, JoinFact
  <1>6. (a \o x) \o y = a \o w /\ Len(y) <= Len(w)
    BY <1>2, <1>3, <1>4
  <1> QED
    BY <1>1, <1>2, <1>5, <1>6

-----------------------------------------------------------------------------
(* States *)

LEMMA SideFact ==
  ASSUME BridgeTypes, NEW s \in Side
  PROVE  /\ main[s] \in {"accept", "wait", "dial", "pump", "ended"} /\ opened[s] \in 0..MaxConns
         /\ rtask[s] \in {"none", "select", "take", "write", "end", "wait_end"}
         /\ wire[s] \in Seq(Frames) /\ acc[s] \in Seq(Frames) /\ out[s] \in Seq(Frames)
         /\ Coming(s) \in Seq(Frames) /\ Len(Coming(s)) \in Nat
         /\ s = "guest" => main[s] \notin {"wait", "dial"}
         /\ s = "host" => main[s] # "accept"
  <1>1. wire[s] \in Seq(Frames) /\ acc[s] \in Seq(Frames)
    BY DEF BridgeTypes, LoopTypes, WireTypes, LocalTypes, ChannelTypes
  <1>2. Coming(s) \in Seq(Frames)
    BY <1>1 DEF Coming
  <1> QED
    BY <1>1, <1>2 DEF BridgeTypes, LoopTypes, WireTypes, LocalTypes, ChannelTypes

LEMMA ConnFact ==
  ASSUME BridgeTypes, NEW s \in Side, NEW c \in Conn
  PROVE  /\ ltask[s][c] \in {"none", "select", "send", "write", "over"} /\ sent[s][c] \in Nat
         /\ got[s][c] \in Seq(Frames) /\ Len(got[s][c]) \in Nat
         /\ toLocal[s][c] \in Seq(Frames) /\ Len(toLocal[s][c]) \in Nat
         /\ toRemote[s][c] \in Seq(Frames) /\ Len(toRemote[s][c]) \in Nat
         /\ Had(s, c) \in Nat /\ c \in Nat
  <1>1. /\ ltask[s][c] \in {"none", "select", "send", "write", "over"} /\ sent[s][c] \in Nat
        /\ got[s][c] \in Seq(Frames) /\ toLocal[s][c] \in Seq(Frames) /\ toRemote[s][c] \in Seq(Frames)
    BY DEF BridgeTypes, LoopTypes, WireTypes, LocalTypes, ChannelTypes
  <1>2. c \in Nat
    BY BridgeSizes
  <1>3. Len(got[s][c]) \in Nat /\ Len(toLocal[s][c]) \in Nat /\ Len(toRemote[s][c]) \in Nat
    BY <1>1
  <1>4. Had(s, c) \in Nat
    <2>1. PICK k \in Nat, l \in Nat : k = Len(got[s][c]) /\ l = Len(toLocal[s][c])
      BY <1>3
    <2>2. Had(s, c) = k + l
      BY <2>1 DEF Had
    <2> QED
      BY <2>2
  <1> QED
    BY <1>1, <1>2, <1>3, <1>4

\* A side that has a pump, or to which somebody sends, has a connection.
LEMMA PresentConn ==
  ASSUME BridgeTypes, NEW s \in Side, opened[s] > 0
  PROVE  opened[s] \in Conn
  BY SideFact, BridgeSizes DEF Conn

\* At first nobody has a connection.
LEMMA InitBridge == BridgeInit => BridgeInv
  <1> SUFFICES ASSUME BridgeInit PROVE BridgeInv
    OBVIOUS
  <1> USE BridgeSizes
  <1>1. <<>> \in Seq(Frames)
    OBVIOUS
  <1>2. \A s \in Side : /\ main[s] = IF s = "guest" THEN "accept" ELSE "wait"
                        /\ opened[s] = 0 /\ wire[s] = <<>> /\ acc[s] = <<>> /\ out[s] = <<>>
                        /\ rtask[s] = "none"
    BY DEF BridgeInit, Between, Side
  <1>3. \A s \in Side, c \in Conn : /\ ltask[s][c] = "none" /\ sent[s][c] = 0 /\ toRemote[s][c] = <<>>
                                    /\ toLocal[s][c] = <<>> /\ got[s][c] = <<>>
    BY DEF BridgeInit, PerConn
  <1>4. BridgeTypes
    <2>1. main \in [Side -> {"accept", "wait", "dial", "pump", "ended"}]
      BY DEF BridgeInit, Between, Side
    <2>2. /\ sent \in [Side -> [Conn -> Nat]] /\ got \in [Side -> [Conn -> Seq(Frames)]]
          /\ toRemote \in [Side -> [Conn -> Seq(Frames)]] /\ toLocal \in [Side -> [Conn -> Seq(Frames)]]
          /\ ltask \in [Side -> [Conn -> {"none", "select", "send", "write", "over"}]]
          /\ app \in [Side -> [Conn -> {"none", "open", "closed"}]]
      BY <1>1 DEF BridgeInit, PerConn
    <2>3. /\ opened \in [Side -> 0..MaxConns] /\ lost \in BOOLEAN
          /\ rtask \in [Side -> {"none", "select", "take", "write", "end", "wait_end"}]
          /\ wire \in [Side -> Seq(Frames)] /\ acc \in [Side -> Seq(Frames)] /\ out \in [Side -> Seq(Frames)]
      <3>1. 0 \in 0..MaxConns
        OBVIOUS
      <3> QED
        BY <1>1, <3>1 DEF BridgeInit
    <2>4. \A s \in Side : Len(wire[s]) <= WireCap
      BY <1>2
    <2>5. \A s \in Side, c \in Conn : /\ sent[s][c] <= Chunks[s][c]
                                   /\ Len(toRemote[s][c]) <= Cap /\ Len(toLocal[s][c]) <= Cap
      BY <1>3
    <2> QED
      BY <1>2, <2>1, <2>2, <2>3, <2>4, <2>5 DEF BridgeTypes, LoopTypes, WireTypes, LocalTypes, ChannelTypes, Side
  <1>5. ASSUME NEW s \in Side
        PROVE  TaskInv(s) /\ Toward(s)
    <2>1. Coming(s) = <<>>
      BY <1>1, <1>2, JoinFact DEF Coming
    <2>2. Nothing(s) /\ Equal(s)
      BY <2>1, <1>2, PeerFact DEF Nothing, Equal, Over, Side
    <2> QED
      BY <2>2, <1>2 DEF TaskInv, Toward
  <1>6. ASSUME NEW s \in Side, NEW c \in Conn
        PROVE  ChainInv(s, c) /\ SettledInv(s, c)
    <2>1. Peer(s) \in Side
      BY PeerFact
    <2>2. /\ ltask[s][c] = "none" /\ sent[s][c] = 0 /\ toRemote[s][c] = <<>> /\ toLocal[s][c] = <<>>
          /\ got[s][c] = <<>> /\ sent[Peer(s)][c] = 0 /\ opened[s] = 0
      BY <1>2, <1>3, <2>1
    <2>3. Len(got[s][c]) = 0 /\ Len(toLocal[s][c]) = 0
      BY <2>2
    <2>4. ChainInv(s, c)
      BY <2>2, <2>3 DEF ChainInv, Run, Had
    <2>5. c \in Nat \ {0}
      OBVIOUS
    <2> QED
      BY <2>2, <2>4, <2>5 DEF SettledInv
  <1> QED
    BY <1>4, <1>5, <1>6 DEF BridgeInv

\* What the invariant says of what a program sees.
LEMMA BridgeShows == BridgeAll => TunnelIsSound
  <1> SUFFICES ASSUME PartTypes, BridgeInv
               PROVE  /\ BridgeTypeOK /\ CnewInPlace /\ DeliveredInOrder
                      /\ HostIsDone /\ GuestIsClear /\ EndFollowsData
    BY DEF BridgeAll, TunnelIsSound
  <1>1. BridgeTypes /\ \A s \in Side : TaskInv(s) /\ Toward(s)
    BY DEF BridgeInv
  <1>2. \A s \in Side, c \in Conn : ChainInv(s, c) /\ SettledInv(s, c)
    BY DEF BridgeInv
  <1>3. BridgeTypeOK
    <2>1. \A s \in Side : /\ wire[s] \in Seq(Frames) /\ Len(wire[s]) <= WireCap
                          /\ acc[s] \in Seq(Frames)
                          /\ out[s] \in Seq(Frames) /\ (out[s] # <<>> <=> rtask[s] = "write")
      <3> TAKE s \in Side
      <3>1. out[s] \in Seq(Frames) /\ (Len(out[s]) = 0 <=> out[s] = <<>>)
        BY <1>1, SideFact
      <3>2. out[s] # <<>> <=> rtask[s] = "write"
        BY <3>1, <1>1, SideFact DEF TaskInv
      <3> QED
        BY <3>2, <1>1 DEF BridgeTypes, LoopTypes, WireTypes, LocalTypes, ChannelTypes
    <2>2. \A s \in Side, c \in Conn : sent[s][c] \in 0..Chunks[s][c]
      BY <1>1, BridgeSizes DEF BridgeTypes, LoopTypes, WireTypes, LocalTypes, ChannelTypes
    <2>3. \A s \in Side, c \in Conn :
          /\ toRemote[s][c] \in Seq(Frames) /\ Len(toRemote[s][c]) <= Cap
          /\ toLocal[s][c] \in Seq(Frames) /\ Len(toLocal[s][c]) <= Cap
          /\ got[s][c] \in Seq(Frames)
      BY <1>1 DEF BridgeTypes, LoopTypes, WireTypes, LocalTypes, ChannelTypes
    <2> QED
      BY <1>1, <2>1, <2>2, <2>3
         DEF BridgeTypes, LoopTypes, WireTypes, LocalTypes, ChannelTypes, PartTypes, BridgeTypeOK
  <1>4. CnewInPlace
    <2> SUFFICES ASSUME NEW s \in Side, main[s] = "pump", acc[s] # <<>> PROVE acc[s][1] # Cnew
      BY DEF CnewInPlace
    <2>1. /\ acc[s] \in Seq(Frames) /\ wire[s] \in Seq(Frames) /\ Peer(s) \in Side
          /\ Coming(s) \in Seq(Frames)
      BY <1>1, SideFact, PeerFact
    <2>2. Coming(s)[1] = acc[s][1] /\ Len(Coming(s)) >= 1 /\ Coming(s) # <<>>
      <3>1. PICK k \in Nat, l \in Nat : k >= 1 /\ k = Len(acc[s]) /\ l = Len(wire[s])
        BY <2>1
      <3>2. /\ Len(Coming(s)) = Len(acc[s]) + Len(wire[s])
            /\ \A i \in 1..Len(acc[s]) : Coming(s)[i] = acc[s][i]
        BY <2>1, JoinFact DEF Coming
      <3>3. Len(Coming(s)) >= 1 /\ 1 \in 1..Len(acc[s])
        <4>1. Len(Coming(s)) = k + l
          BY <3>1, <3>2
        <4>2. k + l >= 1 /\ 1 \in 1..k
          <5>1. k >= 1
            BY <3>1
          <5> QED
            BY <5>1
        <4> QED
          BY <3>1, <4>1, <4>2
      <3>4. Coming(s) # <<>>
        BY <2>1, <3>3
      <3> QED
        BY <3>2, <3>3, <3>4
    <2>3. CASE Equal(s) /\ Flow(s, 0)
      <3>1. opened[s] > 0 /\ opened[s] \in Conn /\ opened[Peer(s)] \in Conn
        BY <2>3, <1>1, PresentConn DEF TaskInv, Equal
      <3>2. PICK b \in Nat, n \in Nat, e \in {0, 1} : Carries(s, 0, b, n, e)
        BY <2>3 DEF Flow
      <3>3. CASE b < n
        <4>1. 1 \in 1..(n - b)
          BY <3>3
        <4>2. Coming(s)[0 + 1] = Data(opened[Peer(s)], b + 1)
          BY <4>1, <3>2 DEF Carries
        <4>3. b + 1 \in Nat
          OBVIOUS
        <4> QED
          BY <4>2, <4>3, <2>2, <3>1, ChunkFact
      <3>4. CASE b = n
        <4>1. e = 1 /\ Coming(s)[0 + (n - b) + 1] = EndFrame
          BY <3>2, <3>4, <2>2 DEF Carries
        <4>2. 0 + (n - b) + 1 = 1
          BY <3>4
        <4> QED
          BY <4>1, <4>2, <2>2, <3>1, ChunkFact
      <3> QED
        BY <3>2, <3>3, <3>4 DEF Carries
    <2>4. CASE Late(s)
      <3>1. PICK j \in 2..Len(Coming(s)) : /\ Coming(s)[j - 1] = EndFrame
                                           /\ \A i \in 1..(j - 2) : Coming(s)[i].kind = "data"
        BY <2>4 DEF Late
      <3>2. Cnew.kind # "data" /\ EndFrame # Cnew
        BY DEF Cnew, EndFrame
      <3>3. CASE j = 2
        BY <3>1, <3>2, <3>3, <2>2
      <3>4. CASE j > 2
        <4>1. 1 \in 1..(j - 2)
          BY <3>4
        <4> QED
          BY <4>1, <3>1, <3>2, <2>2
      <3> QED
        BY <3>3, <3>4
    <2> QED
      BY <1>1, <2>2, <2>3, <2>4 DEF Toward, Nothing
  <1>5. DeliveredInOrder
    <2> SUFFICES ASSUME NEW s \in Side, NEW c \in Conn
                 PROVE  /\ Len(got[s][c]) <= sent[Peer(s)][c]
                        /\ \A i \in DOMAIN got[s][c] : got[s][c][i] = Data(c, i)
      BY DEF DeliveredInOrder
    <2>1. /\ got[s][c] \in Seq(Frames) /\ Len(toLocal[s][c]) \in Nat /\ Len(got[s][c]) \in Nat
          /\ sent[Peer(s)][c] \in Nat
      BY <1>1, ConnFact, PeerFact
    <2>2. Run(got[s][c], c, 0) /\ Had(s, c) <= sent[Peer(s)][c]
      BY <1>2 DEF ChainInv
    <2>3. \A i \in DOMAIN got[s][c] : i \in 1..Len(got[s][c]) /\ 0 + i = i
      BY <2>1
    <2> QED
      <3>1. Len(got[s][c]) + Len(toLocal[s][c]) <= sent[Peer(s)][c]
        BY <2>2 DEF Had
      <3>2. \A i \in 1..Len(got[s][c]) : got[s][c][i] = Data(c, 0 + i)
        BY <2>2 DEF Run
      <3> QED
        <4>1. Len(got[s][c]) <= sent[Peer(s)][c]
          <5>1. PICK k \in Nat, l \in Nat : k = Len(got[s][c]) /\ l = Len(toLocal[s][c])
            BY <2>1
          <5>2. k + l <= sent[Peer(s)][c]
            BY <5>1, <3>1
          <5>3. PICK m \in Nat : m = sent[Peer(s)][c]
            BY <2>1
          <5>4. k + l <= m
            BY <5>2, <5>3
          <5>5. k <= m
            BY <5>4
          <5> QED
            BY <5>1, <5>3, <5>5
        <4>2. \A i \in DOMAIN got[s][c] : got[s][c][i] = Data(c, i)
          <5> TAKE i \in DOMAIN got[s][c]
          <5>1. i \in 1..Len(got[s][c]) /\ 0 + i = i
            BY <2>3
          <5>2. got[s][c][i] = Data(c, 0 + i)
            BY <5>1, <3>2
          <5> QED
            BY <5>1, <5>2
        <4> QED
          BY <4>1, <4>2
  <1>6. HostIsDone
    <2> DEFINE g == "guest"  h == "host"
    <2>1. /\ g \in Side /\ h \in Side /\ Peer(g) = h /\ Peer(h) = g
          /\ opened[g] \in Nat /\ opened[h] \in Nat
      BY <1>1, SideFact, BridgeSizes DEF Side, Peer
    <2>2. CASE main[g] = "accept"
      <3>1. Nothing(g)
        BY <2>1, <2>2, <1>1 DEF Toward
      <3> QED
        BY <2>1, <3>1 DEF Nothing, Over, HostIsDone
    <2>3. CASE opened[g] > opened[h]
      <3>1. main[h] = "pump" => rtask[h] = "wait_end"
        BY <2>1, <2>3, <1>1 DEF Toward, Equal, Ahead, Nothing, Over
      <3> QED
        BY <3>1 DEF HostIsDone
    <2> QED
      BY <2>2, <2>3 DEF HostIsDone
  <1>8. GuestIsClear
    <2> SUFFICES ASSUME main["guest"] = "accept" PROVE wire["guest"] = <<>>
      BY DEF GuestIsClear
    <2>1. "guest" \in Side
      BY DEF Side
    <2>2. Coming("guest") = <<>> /\ acc["guest"] = <<>>
      BY <2>1, <1>1 DEF Toward, Nothing, TaskInv
    <2>3. wire["guest"] \in Seq(Frames)
      BY <2>1, <1>1, SideFact
    <2>4. Coming("guest") = wire["guest"]
      BY <2>2, <2>3, JoinFact DEF Coming
    <2> QED
      BY <2>2, <2>4
  <1>7. EndFollowsData
    <2> SUFFICES ASSUME NEW s \in Side, NEW c \in Conn, ltask[s][c] \in {"select", "send", "write"},
                        ~Live(s, c), main[s] # "ended", Len(got[Peer(s)][c]) = sent[s][c]
                 PROVE  Len(got[s][c]) + Len(toLocal[s][c]) = sent[Peer(s)][c]
      BY DEF EndFollowsData
    <2>1. c \in Nat /\ opened[s] \in Nat
      BY <1>1, SideFact, BridgeSizes
    <2>2. c <= opened[s]
      BY <1>2, <2>1 DEF ChainInv
    <2>3. c < opened[s] \/ (c = opened[s] /\ main[s] \notin {"pump", "ended"})
      BY <2>1, <2>2 DEF Live
    <2>4. Had(s, c) = sent[Peer(s)][c] \/ CutOff(s, c)
      BY <2>3, <1>2 DEF SettledInv
    <2>5. sent[s][c] \in Nat
      BY <1>1, ConnFact
    <2>6. ~CutOff(s, c)
      BY <2>5 DEF CutOff
    <2> QED
      BY <2>4, <2>6 DEF Had
  <1> QED
    BY <1>3, <1>4, <1>5, <1>6, <1>7, <1>8

-----------------------------------------------------------------------------
(* What a step leaves alone *)

\* Nothing of a side changes.
Still(x) ==
    /\ main'[x] = main[x] /\ opened'[x] = opened[x] /\ rtask'[x] = rtask[x]
    /\ acc'[x] = acc[x] /\ out'[x] = out[x] /\ ltask'[x] = ltask[x] /\ sent'[x] = sent[x]
    /\ got'[x] = got[x] /\ toRemote'[x] = toRemote[x] /\ toLocal'[x] = toLocal[x]
\* What a program has sent only grows, and what is over stays as it is.
Frozen(x) == \A c \in Conn :
    /\ sent'[x][c] \in Nat /\ sent[x][c] <= sent'[x][c]
    /\ ltask[x][c] = "over" => /\ ltask'[x][c] = "over" /\ sent'[x][c] = sent[x][c]
                               /\ got'[x][c] = got[x][c]
\* What a side has said on the transport stays as it is.
Keeps(x) ==
    \/ main'[x] = "ended"
    \/ /\ main[x] = "pump" /\ main'[x] = "pump" /\ PutN(x)' = PutN(x)
       /\ rtask'[x] = "wait_end" <=> rtask[x] = "wait_end"
    \/ Over(x) /\ main[x] # "ended" /\ main'[x] # "pump"

LEMMA StillFact ==
  ASSUME BridgeTypes, NEW x \in Side, Still(x)
  PROVE  /\ Frozen(x) /\ Keeps(x) /\ (Over(x) => Over(x)') /\ PutN(x)' = PutN(x)
         /\ \A c \in Conn, b \in Nat : Recv(x, c, b) => Recv(x, c, b)'
         /\ \A c \in Conn : Had(x, c)' = Had(x, c)
  <1>1. PutN(x)' = PutN(x)
    BY DEF PutN, Still
  <1>2. Over(x) => Over(x)'
    BY DEF Over, Still
  <1>3. Keeps(x)
    BY <1>1 DEF Keeps, Over, Still
  <1>4. Frozen(x)
    BY ConnFact DEF Frozen, Still
  <1>5. \A c \in Conn : Had(x, c)' = Had(x, c)
    BY DEF Had, Still
  <1>6. \A c \in Conn, b \in Nat : Recv(x, c, b) => Recv(x, c, b)'
    BY <1>5 DEF Recv, Still
  <1> QED
    BY <1>1, <1>2, <1>3, <1>4, <1>5, <1>6

LEMMA LinkKept ==
  ASSUME BridgeTypes, NEW p \in Side, opened[p] \in Conn, opened'[p] = opened[p], Frozen(p), Keeps(p),
         NEW n \in Nat, NEW e \in {0, 1}, Link(p, n, e)
  PROVE  Link(p, n, e)'
  <1>1. n <= sent'[p][opened'[p]]
    BY ConnFact DEF Link, Frozen
  <1>2. main'[p] = "pump" => n = PutN(p)' /\ (e = 1 <=> rtask'[p] = "wait_end")
    BY DEF Keeps, Link
  <1>3. main'[p] \notin {"pump", "ended"} => e = 1
    BY DEF Keeps, Link, Over
  <1> QED
    BY <1>1, <1>2, <1>3 DEF Link

LEMMA MeansKept ==
  ASSUME BridgeTypes, NEW s \in Side, NEW c \in Conn, Frozen(s), Frozen(Peer(s)), NEW n, Means(s, c, n)
  PROVE  Means(s, c, n)'
  <1>1. Peer(s) \in Side
    BY PeerFact
  <1>2. CASE ltask[s][c] = "over"
    BY <1>2 DEF Means, Frozen
  <1>3. CASE ltask[Peer(s)][c] = "over" /\ (n = sent[Peer(s)][c] \/ CutOff(s, c))
    <2>1. /\ ltask'[Peer(s)][c] = "over" /\ sent'[Peer(s)][c] = sent[Peer(s)][c]
          /\ got'[Peer(s)][c] = got[Peer(s)][c]
      BY <1>3 DEF Frozen
    <2>2. sent'[s][c] \in Nat /\ sent[s][c] \in Nat /\ sent[s][c] <= sent'[s][c] /\ Len(got[Peer(s)][c]) \in Nat
      BY <1>1, ConnFact DEF Frozen
    <2>3. CutOff(s, c) => CutOff(s, c)'
      BY <2>1, <2>2 DEF CutOff
    <2> QED
      BY <1>3, <2>1, <2>3 DEF Means
  <1> QED
    BY <1>2, <1>3 DEF Means

\* What is under way to s stays a flow as long as nobody writes or takes.
LEMMA FlowKept ==
  ASSUME BridgeTypes, NEW s \in Side, NEW p, p = Peer(s), NEW j \in Nat, NEW c \in Conn, c = opened[p],
         opened'[p] = opened[p], Coming(s)' = Coming(s), Frozen(s), Frozen(p), Keeps(p),
         \A b \in Nat : Recv(s, c, b) => Recv(s, c, b)', Flow(s, j)
  PROVE  Flow(s, j)'
  <1>1. p \in Side
    BY PeerFact
  <1>2. PICK b \in Nat, n \in Nat, e \in {0, 1} : Carries(s, j, b, n, e)
    BY DEF Flow
  <1>3. Link(p, n, e)'
    BY <1>1, <1>2, LinkKept DEF Carries
  <1>4. Recv(s, c, b)'
    BY <1>2 DEF Carries
  <1>5. e = 1 => Means(s, c, n)'
    BY <1>2, MeansKept DEF Carries
  <1>6. Carries(s, j, b, n, e)'
    BY <1>2, <1>3, <1>4, <1>5 DEF Carries
  <1> QED
    BY <1>6 DEF Flow

\* The peer puts another chunk on the transport.
LEMMA FlowData ==
  ASSUME BridgeTypes, NEW s \in Side, NEW p, p = Peer(s), NEW j \in Nat, NEW c \in Conn, c = opened[p],
         opened'[p] = opened[p], Still(s), Frozen(p), main[p] = "pump", rtask[p] # "wait_end",
         main'[p] = "pump", rtask'[p] # "wait_end", PutN(p)' = PutN(p) + 1, PutN(p) + 1 <= sent'[p][c],
         IsMore(Coming(s)', Coming(s), Data(c, PutN(p) + 1)), Flow(s, j)
  PROVE  Flow(s, j)'
  <1>1. p \in Side
    BY PeerFact
  <1>2. PICK b \in Nat, n \in Nat, e \in {0, 1} : Carries(s, j, b, n, e)
    BY DEF Flow
  <1>3. n = PutN(p) /\ e = 0 /\ n + 1 \in Nat
    BY <1>2 DEF Carries, Link
  <1>4. Link(p, n + 1, 0)'
    BY <1>3 DEF Link
  <1>5. Recv(s, c, b)'
    BY <1>2, StillFact DEF Carries
  <1>6. PICK q, r : q = Coming(s) /\ r = Coming(s)'
    OBVIOUS
  <1>7. b <= n /\ Len(q) = j + (n - b) + 0 /\ \A i \in 1..(n - b) : q[j + i] = Data(c, b + i)
    BY <1>2, <1>3, <1>6 DEF Carries
  <1>8. Len(r) = Len(q) + 1 /\ r[Len(r)] = Data(c, n + 1) /\ \A i \in 1..Len(q) : r[i] = q[i]
    BY <1>3, <1>6 DEF IsMore
  <1>9. b <= n + 1 /\ Len(r) = j + (n + 1 - b) + 0
    BY <1>7, <1>8
  <1>10. ASSUME NEW i \in 1..(n + 1 - b)
         PROVE  r[j + i] = Data(c, b + i)
    <2>1. CASE i <= n - b
      <3>1. i \in 1..(n - b) /\ j + i \in 1..Len(q)
        BY <2>1, <1>7
      <3> QED
        BY <3>1, <1>7, <1>8
    <2>2. CASE i > n - b
      <3>1. b + i = n + 1 /\ j + i = Len(r)
        BY <2>2, <1>7, <1>9
      <3> QED
        BY <3>1, <1>8
    <2> QED
      BY <2>1, <2>2
  <1>11. Carries(s, j, b, n + 1, 0)'
    BY <1>4, <1>5, <1>6, <1>9, <1>10 DEF Carries
  <1> QED
    BY <1>3, <1>11 DEF Flow

\* The peer writes its end frame.
LEMMA FlowEnd ==
  ASSUME BridgeTypes, NEW s \in Side, NEW p, p = Peer(s), NEW j \in Nat, NEW c \in Conn, c = opened[p],
         opened'[p] = opened[p], Still(s), Frozen(p), main[p] = "pump", rtask[p] # "wait_end",
         main'[p] # "pump" \/ (main'[p] = "pump" /\ rtask'[p] = "wait_end" /\ PutN(p)' = PutN(p)),
         IsMore(Coming(s)', Coming(s), EndFrame), Means(s, c, PutN(p)), Flow(s, j)
  PROVE  Flow(s, j)'
  <1>1. p \in Side
    BY PeerFact
  <1>2. PICK b \in Nat, n \in Nat, e \in {0, 1} : Carries(s, j, b, n, e)
    BY DEF Flow
  <1>3. n = PutN(p) /\ e = 0
    BY <1>2 DEF Carries, Link
  <1>4. Link(p, n, 1)'
    <2>1. n <= sent[p][c]
      BY <1>2 DEF Carries, Link
    <2>2. n <= sent'[p][c]
      BY <2>1, <1>1, ConnFact DEF Frozen
    <2> QED
      BY <2>2, <1>3 DEF Link
  <1>5. Recv(s, c, b)'
    BY <1>2, StillFact DEF Carries
  <1>6. PICK q, r : q = Coming(s) /\ r = Coming(s)'
    OBVIOUS
  <1>7. b <= n /\ Len(q) = j + (n - b) + 0 /\ \A i \in 1..(n - b) : q[j + i] = Data(c, b + i)
    BY <1>2, <1>3, <1>6 DEF Carries
  <1>8. Len(r) = Len(q) + 1 /\ r[Len(r)] = EndFrame /\ \A i \in 1..Len(q) : r[i] = q[i]
    BY <1>6 DEF IsMore
  <1>9. Len(r) = j + (n - b) + 1 /\ r[j + (n - b) + 1] = EndFrame
    BY <1>7, <1>8
  <1>10. \A i \in 1..(n - b) : r[j + i] = Data(c, b + i)
    <2> TAKE i \in 1..(n - b)
    <2>1. j + i \in 1..Len(q)
      BY <1>7
    <2> QED
      BY <2>1, <1>7, <1>8
  <1>11. Means(s, c, n)'
    BY <1>3, MeansKept, StillFact
  <1>12. Carries(s, j, b, n, 1)'
    BY <1>4, <1>5, <1>6, <1>7, <1>9, <1>10, <1>11 DEF Carries
  <1> QED
    BY <1>12 DEF Flow

\* A frame of data is taken.
LEMMA FlowTaken ==
  ASSUME BridgeTypes, NEW s \in Side, NEW p, p = Peer(s), NEW c \in Conn, c = opened[p],
         Still(p), Frozen(s), IsPast(Coming(s)', Coming(s), 1), Coming(s)[1].kind = "data",
         NEW b \in Nat, NEW n \in Nat, NEW e \in {0, 1}, Carries(s, 0, b, n, e), Recv(s, c, b + 1)'
  PROVE  b < n /\ Coming(s)[1] = Data(c, b + 1) /\ Flow(s, 0)'
  <1>1. p \in Side
    BY PeerFact
  <1>2. PICK q, r : q = Coming(s) /\ r = Coming(s)'
    OBVIOUS
  <1>3. /\ b <= n /\ Len(q) = 0 + (n - b) + e /\ (e = 1 => q[0 + (n - b) + 1] = EndFrame)
        /\ \A i \in 1..(n - b) : q[0 + i] = Data(c, b + i)
    BY <1>2 DEF Carries
  <1>4. 1 <= Len(q) /\ Len(r) = Len(q) - 1 /\ \A i \in 1..Len(r) : r[i] = q[i + 1]
    BY <1>2 DEF IsPast
  <1>5. b < n
    <2>1. EndFrame.kind # "data"
      BY DEF EndFrame
    <2>2. CASE b = n
      <3>1. e = 1 /\ 0 + (n - b) + 1 = 1
        BY <2>2, <1>3, <1>4
      <3> QED
        BY <3>1, <2>1, <1>2, <1>3
    <2> QED
      BY <1>3, <2>2
  <1>6. q[1] = Data(c, b + 1)
    <2>1. 1 \in 1..(n - b) /\ 0 + 1 = 1
      BY <1>5
    <2> QED
      BY <2>1, <1>3
  <1>7. b + 1 \in Nat /\ b + 1 <= n /\ Len(r) = 0 + (n - (b + 1)) + e
    BY <1>3, <1>4, <1>5
  <1>8. ASSUME NEW i \in 1..(n - (b + 1))
        PROVE  r[0 + i] = Data(c, b + 1 + i)
    <2>1. PICK l \in Nat : l = Len(r) /\ l = 0 + (n - (b + 1)) + e
      BY <1>7
    <2>2. /\ i \in 1..l /\ 0 + i = i /\ i + 1 \in 1..(n - b) /\ 0 + (i + 1) = i + 1
          /\ b + (i + 1) = b + 1 + i
      BY ONLY <2>1, b \in Nat, n \in Nat, e \in {0, 1}, i \in 1..(n - (b + 1))
    <2>3. i \in 1..Len(r)
      BY ONLY <2>1, <2>2
    <2> QED
      BY <2>2, <2>3, <1>3, <1>4
  <1>9. e = 1 => r[0 + (n - (b + 1)) + 1] = EndFrame
    <2>1. e = 1 => /\ 0 + (n - (b + 1)) + 1 \in 1..Len(r)
                   /\ (0 + (n - (b + 1)) + 1) + 1 = 0 + (n - b) + 1
      BY <1>7
    <2> QED
      BY <2>1, <1>3, <1>4
  <1>10. Link(p, n, e)'
    <2>1. opened'[p] = opened[p] /\ Frozen(p) /\ Keeps(p)
      BY <1>1, StillFact DEF Still
    <2>2. Link(p, n, e)
      BY DEF Carries
    <2> QED
      BY <2>1, <2>2, <1>1, LinkKept
  <1>11. e = 1 => Means(s, c, n)'
    <2>1. Frozen(p)
      BY <1>1, StillFact
    <2>2. e = 1 => Means(s, c, n)
      BY DEF Carries
    <2> QED
      BY <2>1, <2>2, MeansKept
  <1>12. opened'[p] = c
    BY DEF Still
  <1>13. Carries(s, 0, b + 1, n, e)'
    BY <1>2, <1>7, <1>8, <1>9, <1>10, <1>11, <1>12 DEF Carries
  <1> QED
    BY <1>2, <1>5, <1>6, <1>7, <1>13 DEF Flow

-----------------------------------------------------------------------------
(* What a step does to the transport *)

LEMMA WireFact ==
  ASSUME WireTypes, NEW s \in Side
  PROVE  /\ wire[s] \in Seq(Frames) /\ Len(wire[s]) \in Nat /\ Len(wire[s]) <= WireCap
         /\ acc[s] \in Seq(Frames) /\ Len(acc[s]) \in Nat
         /\ out[s] \in Seq(Frames) /\ Coming(s) \in Seq(Frames)
  <1>1. wire[s] \in Seq(Frames) /\ acc[s] \in Seq(Frames) /\ out[s] \in Seq(Frames) /\ Len(wire[s]) <= WireCap
    BY DEF WireTypes
  <1>2. Coming(s) \in Seq(Frames)
    BY <1>1, JoinFact DEF Coming
  <1> QED
    BY <1>1, <1>2

LEMMA WriteFact ==
  ASSUME WireTypes, NEW a \in Side, NEW p, p = Peer(a), NEW f \in Frames, Write(a, f)
  PROVE  /\ wire' \in [Side -> Seq(Frames)] /\ \A s \in Side : Len(wire'[s]) <= WireCap
         /\ wire'[a] = wire[a]
         /\ acc'[p] = acc[p] => IsMore(Coming(p)', Coming(p), f)
  <1>1. p \in Side /\ p # a /\ \A t \in Side : t = a \/ t = p
    BY PeerFact
  <1>2. PICK w : w = Append(wire[p], f)
    OBVIOUS
  <1>3. Len(wire[p]) < WireCap /\ wire' = [wire EXCEPT ![p] = w]
    BY <1>2 DEF Write
  <1>4. w \in Seq(Frames) /\ Len(w) = Len(wire[p]) + 1
    BY <1>1, <1>2, WireFact, AppendFact DEF IsMore
  <1>5. wire \in [Side -> Seq(Frames)] /\ \A s \in Side : Len(wire[s]) <= WireCap
    BY DEF WireTypes
  <1>6. wire' \in [Side -> Seq(Frames)] /\ wire'[p] = w /\ wire'[a] = wire[a]
    BY <1>1, <1>3, <1>4, <1>5
  <1>7. Len(w) <= WireCap
    BY <1>1, <1>3, <1>4, WireFact, BridgeSizes
  <1>8. \A s \in Side : Len(wire'[s]) <= WireCap
    BY <1>1, <1>5, <1>6, <1>7
  <1>9. acc'[p] = acc[p] => IsMore(Coming(p)', Coming(p), f)
    <2>1. IsMore(acc[p] \o Append(wire[p], f), acc[p] \o wire[p], f)
      BY <1>1, WireFact, JoinMore
    <2> QED
      BY <2>1, <1>2, <1>6 DEF Coming
  <1> QED
    BY <1>6, <1>8, <1>9

LEMMA ReadsFact ==
  ASSUME WireTypes, ~torn, NEW a \in Side, NEW p, p = Peer(a), Read(a), out' = out
  PROVE  WireTypes' /\ acc'[p] = acc[p] /\ wire'[p] = wire[p] /\ Coming(a)' = Coming(a) /\ Coming(p)' = Coming(p)
  <1>1. p \in Side /\ p # a /\ \A t \in Side : t = a \/ t = p
    BY PeerFact
  <1>2. PICK k \in 0..Len(wire[a]) :
          /\ acc' = [acc EXCEPT ![a] = acc[a] \o SubSeq(wire[a], 1, k)]
          /\ wire' = [wire EXCEPT ![a] = SubSeq(wire[a], k + 1, Len(wire[a]))]
    BY DEF Read, Framed
  <1>3. PICK x, y : x = acc[a] \o SubSeq(wire[a], 1, k) /\ y = SubSeq(wire[a], k + 1, Len(wire[a]))
    OBVIOUS
  <1>4. /\ x \in Seq(Frames) /\ y \in Seq(Frames) /\ Len(y) <= Len(wire[a])
        /\ x \o y = acc[a] \o wire[a]
    BY <1>3, WireFact, ReadFact
  <1>5. /\ wire \in [Side -> Seq(Frames)] /\ acc \in [Side -> Seq(Frames)] /\ out \in [Side -> Seq(Frames)]
        /\ \A s \in Side : Len(wire[s]) <= WireCap
    BY DEF WireTypes
  <1>6. acc' = [acc EXCEPT ![a] = x] /\ wire' = [wire EXCEPT ![a] = y]
    BY <1>2, <1>3
  <1>7. /\ acc' \in [Side -> Seq(Frames)] /\ wire' \in [Side -> Seq(Frames)]
        /\ acc'[a] = x /\ wire'[a] = y /\ acc'[p] = acc[p] /\ wire'[p] = wire[p]
    BY <1>1, <1>4, <1>5, <1>6
  <1>8. Len(y) <= WireCap
    <2>1. Len(y) \in Nat /\ Len(wire[a]) \in Nat /\ Len(wire[a]) <= WireCap
      BY <1>4, WireFact
    <2> QED
      BY <2>1, <1>4, BridgeSizes
  <1>9. WireTypes'
    BY <1>1, <1>5, <1>7, <1>8 DEF WireTypes
  <1> QED
    BY <1>4, <1>7, <1>9 DEF Coming

LEMMA TakenFact ==
  ASSUME WireTypes, NEW a \in Side, NEW p, p = Peer(a), acc[a] # <<>>, acc' = [acc EXCEPT ![a] = Tail(@)],
         wire'[a] = wire[a]
  PROVE  /\ acc' \in [Side -> Seq(Frames)] /\ acc'[p] = acc[p] /\ IsPast(acc'[a], acc[a], 1)
         /\ IsPast(Coming(a)', Coming(a), 1) /\ Coming(a)[1] = acc[a][1] /\ acc[a][1] \in Frames
         /\ Head(acc[a]) = acc[a][1] /\ Len(acc[a]) >= 1
  <1>1. p \in Side /\ p # a
    BY PeerFact
  <1>2. PICK x : x = Tail(acc[a])
    OBVIOUS
  <1>3. IsPast(x, acc[a], 1) /\ x \in Seq(Frames) /\ Head(acc[a]) = acc[a][1] /\ Len(acc[a]) >= 1
    BY <1>2, WireFact, TailFact DEF IsPast
  <1>4. acc' = [acc EXCEPT ![a] = x]
    BY <1>2
  <1>5. acc' \in [Side -> Seq(Frames)] /\ acc'[a] = x /\ acc'[p] = acc[p]
    BY <1>1, <1>3, <1>4 DEF WireTypes
  <1>6. /\ IsPast(Tail(acc[a]) \o wire[a], acc[a] \o wire[a], 1)
        /\ (acc[a] \o wire[a])[1] = acc[a][1] /\ acc[a][1] \in Frames
    BY WireFact, JoinRest
  <1> QED
    BY <1>2, <1>3, <1>5, <1>6 DEF Coming

\* The task ends: what it has read and not taken is lost.
LEMMA DroppedFact ==
  ASSUME WireTypes, NEW a \in Side, NEW p, p = Peer(a), acc' = [acc EXCEPT ![a] = <<>>], wire'[a] = wire[a]
  PROVE  /\ acc' \in [Side -> Seq(Frames)] /\ acc'[p] = acc[p] /\ acc'[a] = <<>>
         /\ Coming(a)' = wire[a] /\ IsPast(Coming(a)', Coming(a), Len(acc[a]))
         /\ acc[a] # <<>> => Coming(a)[1] = acc[a][1] /\ Len(acc[a]) >= 1
  <1>1. p \in Side /\ p # a
    BY PeerFact
  <1>2. <<>> \in Seq(Frames)
    OBVIOUS
  <1>3. acc' \in [Side -> Seq(Frames)] /\ acc'[a] = <<>> /\ acc'[p] = acc[p]
    BY <1>1, <1>2 DEF WireTypes
  <1>4. Coming(a)' = wire[a]
    BY <1>3, WireFact DEF Coming
  <1>5. IsPast(wire[a], Coming(a), Len(acc[a]))
    BY WireFact, JoinFact DEF Coming
  <1>6. acc[a] # <<>> => Coming(a)[1] = acc[a][1] /\ Len(acc[a]) >= 1
    <2>1. acc[a] # <<>> => Len(acc[a]) >= 1
      BY WireFact, TailFact
    <2> QED
      BY <2>1, WireFact, JoinRest DEF Coming
  <1> QED
    BY <1>3, <1>4, <1>5, <1>6

-----------------------------------------------------------------------------
(* What the other side's step leaves of the invariant *)

\* The side that does nothing itself still has its place towards the other one.
LEMMA TowardKept ==
  ASSUME BridgeTypes, NEW a \in Side, NEW s, s = Peer(a), Still(s), Toward(s), TaskInv(s), opened'[a] = opened[a],
         Over(a) => Over(a)', opened[a] \in Conn => \A j \in Nat : Flow(s, j) => Flow(s, j)',
         \/ Coming(s)' = Coming(s)
         \/ ~Over(a) /\ \E f \in Frames : f # Cnew /\ IsMore(Coming(s)', Coming(s), f)
  PROVE  Toward(s)'
  <1>1. s \in Side /\ Peer(s) = a
    BY PeerFact
  <1>2. PICK q, r : q = Coming(s) /\ r = Coming(s)'
    OBVIOUS
  <1>3. q \in Seq(Frames) /\ Len(q) \in Nat
    BY <1>1, <1>2, SideFact
  <1>4. /\ Len(q) <= Len(r) /\ Len(r) \in Nat /\ \A i \in 1..Len(q) : r[i] = q[i]
        /\ \A i \in 1..Len(r) : i \in 1..Len(q) \/ r[i] # Cnew
    <2>1. CASE r = q
      BY <2>1, <1>3
    <2>2. CASE \E f \in Frames : f # Cnew /\ IsMore(r, q, f)
      <3>1. PICK f \in Frames : f # Cnew /\ IsMore(r, q, f)
        BY <2>2
      <3>2. Len(r) = Len(q) + 1 /\ r[Len(r)] = f /\ \A i \in 1..Len(q) : r[i] = q[i]
        BY <3>1 DEF IsMore
      <3>3. ASSUME NEW i \in 1..Len(r), i \notin 1..Len(q)
            PROVE  r[i] # Cnew
        <4>1. i = Len(r)
          BY <3>2, <3>3, <1>3
        <4> QED
          BY <4>1, <3>1, <3>2
      <3> QED
        BY <3>2, <3>3, <1>3
    <2> QED
      BY <1>2, <2>1, <2>2
  <1>5. Late(s) /\ opened[a] \in Conn => Late(s)'
    <2> SUFFICES ASSUME Late(s), opened[a] \in Conn PROVE Late(s)'
      OBVIOUS
    <2>1. PICK j \in 2..Len(q) : /\ q[j] = Cnew /\ q[j - 1] = EndFrame /\ Flow(s, j)
                                 /\ \A i \in 1..(j - 2) : q[i].kind = "data"
      BY <1>2 DEF Late
    <2>2. j \in Nat /\ j \in 2..Len(r) /\ j \in 1..Len(q) /\ j - 1 \in 1..Len(q)
          /\ \A i \in 1..(j - 2) : i \in 1..Len(q)
      BY <2>1, <1>3, <1>4
    <2>3. Flow(s, j)'
      BY <2>1, <2>2
    <2>4. r[j] = Cnew /\ r[j - 1] = EndFrame /\ \A i \in 1..(j - 2) : r[i].kind = "data"
      BY <2>1, <2>2, <1>4
    <2> QED
      BY <2>2, <2>3, <2>4, <1>2 DEF Late
  <1>6. Fresh(s) /\ opened[a] \in Conn => Fresh(s)'
    <2> SUFFICES ASSUME Fresh(s), opened[a] \in Conn PROVE Fresh(s)'
      OBVIOUS
    <2>1. q # <<>> /\ q[1] = Cnew /\ Flow(s, 1)'
      BY <1>2 DEF Fresh
    <2>2. Len(q) >= 1
      BY <2>1, <1>3
    <2>3. 1 \in 1..Len(q) /\ Len(r) # 0
      BY <2>2, <1>3, <1>4
    <2>4. r # <<>> /\ r[1] = Cnew
      BY <2>1, <2>3, <1>4
    <2> QED
      BY <2>1, <2>4, <1>2 DEF Fresh
  <1>7. Missed(s) => Missed(s)'
    BY <1>2, <1>4 DEF Missed
  <1>8. Nothing(s) => Nothing(s)'
    BY <1>1 DEF Nothing
  <1>9. (Equal(s) <=> Equal(s)') /\ (Ahead(s) <=> Ahead(s)')
    BY <1>1 DEF Equal, Ahead, Still
  <1>10. Flow(s, 0) /\ opened[a] \in Conn => Flow(s, 0)'
    OBVIOUS
  <1>12. (Equal(s) /\ main[s] = "pump") \/ Ahead(s) => opened[a] \in Conn
    <2>1. opened[s] \in Nat /\ opened[a] \in Nat
      BY <1>1, SideFact
    <2>2. (Equal(s) /\ main[s] = "pump") \/ Ahead(s) => opened[a] > 0
      BY <1>1, <2>1 DEF Equal, Ahead, TaskInv
    <2> QED
      BY <2>2, PresentConn
  <1>11. main'[s] = main[s] /\ rtask'[s] = rtask[s] /\ opened'[s] = opened[s] /\ opened'[Peer(s)] = opened[Peer(s)]
    BY <1>1 DEF Still
  <1> QED
    BY <1>5, <1>6, <1>7, <1>8, <1>9, <1>10, <1>11, <1>12 DEF Toward

LEMMA PeerQuiet ==
  ASSUME BridgeInv, NEW a \in Side, NEW s, s = Peer(a), Still(s), opened'[a] = opened[a],
         Coming(s)' = Coming(s), Frozen(a), Keeps(a), Over(a) => Over(a)'
  PROVE  Toward(s)'
  <1>1. s \in Side /\ Peer(s) = a /\ Toward(s) /\ TaskInv(s) /\ BridgeTypes
    BY PeerFact DEF BridgeInv
  <1>2. \A c \in Conn, b \in Nat : Recv(s, c, b) => Recv(s, c, b)'
    BY <1>1, StillFact
  <1>3. Frozen(s)
    BY <1>1, StillFact
  <1>4. ASSUME NEW j \in Nat, Flow(s, j), opened[a] \in Conn
        PROVE  Flow(s, j)'
    BY ONLY <1>1, <1>2, <1>3, <1>4, FlowKept, PeerFact, opened'[a] = opened[a], Coming(s)' = Coming(s), Frozen(a), Keeps(a), a \in Side
  <1> QED
    BY <1>1, <1>4, TowardKept

\* A side whose own step changes nothing of what comes to it.
LEMMA OwnKept ==
  ASSUME BridgeInv, NEW a \in Side, NEW p, p = Peer(a), Still(p), opened'[a] = opened[a], Frozen(a),
         \/ main'[a] = "ended"
         \/ /\ main'[a] = main[a] /\ Coming(a)' = Coming(a)
            /\ rtask[a] = "wait_end" => rtask'[a] = "wait_end"
            /\ \A c \in Conn, b \in Nat : Recv(a, c, b) => Recv(a, c, b)'
  PROVE  Toward(a)'
  <1>1. p \in Side /\ Toward(a) /\ TaskInv(a) /\ BridgeTypes
    BY PeerFact DEF BridgeInv
  <1>2. CASE main'[a] = "ended"
    BY <1>2 DEF Toward
  <1>3. CASE /\ main'[a] = main[a] /\ Coming(a)' = Coming(a)
             /\ rtask[a] = "wait_end" => rtask'[a] = "wait_end"
             /\ \A c \in Conn, b \in Nat : Recv(a, c, b) => Recv(a, c, b)'
    <2>1. Frozen(p) /\ Keeps(p) /\ opened'[p] = opened[p] /\ (Over(p) => Over(p)')
      BY <1>1, StillFact DEF Still
    <2>2. ASSUME NEW j \in Nat, Flow(a, j), opened[p] \in Conn
          PROVE  Flow(a, j)'
      <3>0. PICK c \in Conn : c = opened[p]
        BY <2>2
      <3>1. \A b \in Nat : Recv(a, c, b) => Recv(a, c, b)'
        BY <1>3
      <3>2. Coming(a)' = Coming(a)
        BY <1>3
      <3> QED
        BY ONLY <1>1, <2>1, <2>2, <3>0, <3>1, <3>2, FlowKept, p = Peer(a), Frozen(a), a \in Side
    <2>3. (Equal(a) /\ main[a] = "pump") \/ Ahead(a) => opened[p] \in Conn
      <3>1. opened[a] \in Nat /\ opened[p] \in Nat
        BY <1>1, SideFact
      <3>2. (Equal(a) /\ main[a] = "pump") \/ Ahead(a) => opened[p] > 0
        BY <1>1, <3>1 DEF Equal, Ahead, TaskInv
      <3> QED
        BY <1>1, <3>2, PresentConn
    <2>4. Late(a) /\ opened[p] \in Conn => Late(a)'
      <3> SUFFICES ASSUME Late(a), opened[p] \in Conn PROVE Late(a)'
        OBVIOUS
      <3>1. PICK j \in 2..Len(Coming(a)) :
               /\ Coming(a)[j] = Cnew /\ Coming(a)[j - 1] = EndFrame /\ Flow(a, j)
               /\ \A i \in 1..(j - 2) : Coming(a)[i].kind = "data"
        BY DEF Late
      <3>2. Flow(a, j)'
        BY <3>1, <2>2
      <3>3. Coming(a)' = Coming(a)
        BY <1>3
      <3> QED
        BY <3>1, <3>2, <3>3 DEF Late
    <2>5. Fresh(a) /\ opened[p] \in Conn => Fresh(a)'
      BY <1>3, <2>2 DEF Fresh
    <2>6. (Missed(a) => Missed(a)') /\ (Nothing(a) => Nothing(a)')
      BY <1>3, <2>1 DEF Missed, Nothing
    <2>7. (Equal(a) <=> Equal(a)') /\ (Ahead(a) <=> Ahead(a)')
      BY <2>1 DEF Equal, Ahead
    <2>8. Flow(a, 0) /\ opened[p] \in Conn => Flow(a, 0)'
      BY <2>2
    <2>9. opened'[a] = opened[a] /\ opened'[Peer(a)] = opened[Peer(a)]
      BY <2>1
    <2> QED
      BY <1>1, <1>3, <2>3, <2>4, <2>5, <2>6, <2>7, <2>8, <2>9 DEF Toward
  <1> QED
    BY <1>2, <1>3

LEMMA PeerGetsData ==
  ASSUME BridgeInv, NEW a \in Side, NEW s, s = Peer(a), Still(s), Frozen(a), opened'[a] = opened[a],
         main[a] = "pump", rtask[a] # "wait_end", main'[a] = "pump", rtask'[a] # "wait_end",
         NEW c \in Conn, c = opened[a], NEW n \in Nat, n = PutN(a) + 1, PutN(a)' = n, n <= sent'[a][c],
         IsMore(Coming(s)', Coming(s), Data(c, n))
  PROVE  Toward(s)'
  <1>1. s \in Side /\ Peer(s) = a /\ Toward(s) /\ TaskInv(s) /\ BridgeTypes
    BY PeerFact DEF BridgeInv
  <1>2. ASSUME NEW j \in Nat, Flow(s, j)
        PROVE  Flow(s, j)'
    BY <1>1, <1>2, FlowData
  <1>3. ~Over(a) /\ Data(c, n) \in Frames /\ Data(c, n) # Cnew
    BY ChunkFact DEF Over
  <1> QED
    BY <1>1, <1>2, <1>3, TowardKept

LEMMA PeerGetsEnd ==
  ASSUME BridgeInv, NEW a \in Side, NEW s, s = Peer(a), Still(s), Frozen(a), opened'[a] = opened[a],
         main[a] = "pump", rtask[a] # "wait_end", NEW c \in Conn, c = opened[a],
         main'[a] # "pump" \/ (main'[a] = "pump" /\ rtask'[a] = "wait_end" /\ PutN(a)' = PutN(a)),
         Means(s, c, PutN(a)), IsMore(Coming(s)', Coming(s), EndFrame)
  PROVE  Toward(s)'
  <1>1. s \in Side /\ Peer(s) = a /\ Toward(s) /\ TaskInv(s) /\ BridgeTypes
    BY PeerFact DEF BridgeInv
  <1>2. ASSUME NEW j \in Nat, Flow(s, j)
        PROVE  Flow(s, j)'
    BY <1>1, <1>2, FlowEnd
  <1>3. ~Over(a) /\ EndFrame \in Frames /\ EndFrame # Cnew
    BY ChunkFact DEF Over
  <1> QED
    BY <1>1, <1>2, <1>3, TowardKept

\* The parts of the invariant, one side at a time.
LEMMA Assemble ==
  ASSUME BridgeInv, BridgeTypes', NEW a \in Side, NEW p, p = Peer(a), Still(p), Frozen(a),
         TaskInv(a)', Toward(a)', Toward(p)', \A c \in Conn : ChainInv(a, c)' /\ SettledInv(a, c)'
  PROVE  BridgeInv'
  <1>1. p \in Side /\ Peer(p) = a /\ \A t \in Side : t = a \/ t = p
    BY PeerFact
  <1>2. BridgeTypes /\ TaskInv(p) /\ \A c \in Conn : ChainInv(p, c) /\ SettledInv(p, c)
    BY <1>1 DEF BridgeInv
  <1>3. TaskInv(p)'
    <2>1. PutN(p)' = PutN(p)
      BY <1>1, <1>2, StillFact
    <2> QED
      BY <1>2, <2>1 DEF TaskInv, Still, LocalOver
  <1>4. ASSUME NEW c \in Conn
        PROVE  ChainInv(p, c)' /\ SettledInv(p, c)'
    <2>1. Had(p, c)' = Had(p, c)
      BY <1>1, <1>2, StillFact
    <2>2. /\ sent'[a][c] \in Nat /\ sent[a][c] <= sent'[a][c] /\ Had(p, c) \in Nat /\ sent[a][c] \in Nat
          /\ ltask[a][c] = "over" => /\ ltask'[a][c] = "over" /\ sent'[a][c] = sent[a][c]
                                     /\ got'[a][c] = got[a][c]
      BY <1>1, <1>2, ConnFact DEF Frozen
    <2>3. Had(p, c) <= sent[a][c]
      BY <1>1, <1>2 DEF ChainInv
    <2>4. Had(p, c)' <= sent'[a][c]
      BY <2>1, <2>2, <2>3
    <2>5. ChainInv(p, c)'
      BY <1>1, <1>2, <2>4 DEF ChainInv, Still
    <2>6. CutOff(p, c) => CutOff(p, c)'
      BY <1>1, <2>2 DEF CutOff, Still
    <2>7. SettledInv(p, c)'
      BY <1>1, <1>2, <2>1, <2>2, <2>6 DEF SettledInv, Still
    <2> QED
      BY <2>5, <2>7
  <1>5. \A t \in Side : TaskInv(t)' /\ Toward(t)'
    BY <1>1, <1>3
  <1>6. \A t \in Side, c \in Conn : ChainInv(t, c)' /\ SettledInv(t, c)'
    BY <1>1, <1>4
  <1> QED
    BY <1>5, <1>6 DEF BridgeInv

\* A step that leaves the local tasks alone.
Alone(a) ==
    /\ ltask'[a] = ltask[a] /\ sent'[a] = sent[a] /\ got'[a] = got[a] /\ toLocal'[a] = toLocal[a]
    /\ opened'[a] = opened[a] /\ \A c \in Conn : c # opened[a] => toRemote'[a][c] = toRemote[a][c]

LEMMA AloneFact ==
  ASSUME BridgeInv, NEW a \in Side, NEW p, p = Peer(a), Still(p), Alone(a),
         main'[a] \notin {"pump", "ended"} =>
           \/ main[a] \notin {"pump", "ended"}
           \/ ltask[a][opened[a]] = "over"
           \/ /\ ltask[p][opened[a]] = "over"
              /\ Had(a, opened[a]) = sent[p][opened[a]] \/ CutOff(a, opened[a])
  PROVE  /\ Frozen(a) /\ \A c \in Conn : ChainInv(a, c)' /\ SettledInv(a, c)'
         /\ \A c \in Conn, b \in Nat : Recv(a, c, b) => Recv(a, c, b)'
  <1>1. p \in Side /\ BridgeTypes /\ \A c \in Conn : ChainInv(a, c) /\ SettledInv(a, c)
    BY PeerFact DEF BridgeInv
  <1>2. Frozen(a)
    BY <1>1, ConnFact DEF Alone, Frozen
  <1>3. \A c \in Conn : Had(a, c)' = Had(a, c)
    BY DEF Alone, Had
  <1>4. \A c \in Conn, b \in Nat : Recv(a, c, b) => Recv(a, c, b)'
    BY <1>3 DEF Alone, Recv
  <1>5. ASSUME NEW c \in Conn
        PROVE  ChainInv(a, c)'
    <2>1. opened[a] \in Nat /\ c \in Nat
      BY <1>1, SideFact, ConnFact
    <2>2. c > opened[a] => toRemote'[a][c] = toRemote[a][c]
      BY <2>1 DEF Alone
    <2> QED
      BY <1>1, <1>3, <2>2 DEF ChainInv, Alone, Still
  <1>6. ASSUME NEW c \in Conn
        PROVE  SettledInv(a, c)'
    <2>1. CutOff(a, c) => CutOff(a, c)'
      BY DEF CutOff, Alone, Still
    <2> QED
      BY <1>1, <1>3, <2>1 DEF SettledInv, Alone, Still
  <1> QED
    BY <1>2, <1>4, <1>5, <1>6

-----------------------------------------------------------------------------
(* Steps that take nothing and tell the other side nothing *)

LEMMA QuietStep ==
  ASSUME BridgeInv, BridgeTypes', NEW a \in Side, NEW p, p = Peer(a), Still(p), Alone(a), TaskInv(a)',
         Coming(p)' = Coming(p),
         \/ main'[a] = "ended"
         \/ /\ main'[a] = main[a] /\ Coming(a)' = Coming(a)
            /\ main[a] = "pump" => /\ PutN(a)' = PutN(a)
                                   /\ rtask'[a] = "wait_end" <=> rtask[a] = "wait_end"
  PROVE  BridgeInv'
  <1>1. p \in Side /\ Peer(p) = a /\ Toward(a) /\ TaskInv(a) /\ BridgeTypes
    BY PeerFact DEF BridgeInv
  <1>2. opened'[a] = opened[a]
    BY DEF Alone
  <1>3. /\ Frozen(a) /\ \A c \in Conn : ChainInv(a, c)' /\ SettledInv(a, c)'
        /\ \A c \in Conn, b \in Nat : Recv(a, c, b) => Recv(a, c, b)'
    BY AloneFact
  <1>4. Keeps(a) /\ (Over(a) => Over(a)')
    BY <1>1 DEF Keeps, Over
  <1>5. rtask[a] = "wait_end" => main'[a] = "ended" \/ rtask'[a] = "wait_end"
    BY <1>1 DEF TaskInv
  <1>6. Toward(p)'
    BY <1>2, <1>3, <1>4, PeerQuiet
  <1>7. Toward(a)'
    BY <1>2, <1>3, <1>5, OwnKept
  <1> QED
    BY <1>3, <1>6, <1>7, Assemble

LEMMA StepTransportLost == BridgeInv /\ TransportLost => BridgeInv'
  <1> SUFFICES ASSUME BridgeInv, TransportLost PROVE BridgeInv'
    OBVIOUS
  <1>1. PICK a, p : a \in Side /\ p = Peer(a) /\ p \in Side
    BY PeerFact DEF Side
  <1>2. BridgeTypes /\ TaskInv(a)
    BY <1>1 DEF BridgeInv
  <1>3. BridgeTypes'
    BY <1>2 DEF TransportLost, BridgeTypes, LoopTypes, WireTypes, LocalTypes, ChannelTypes, mainVars, remoteVars, localVars
  <1>4. Still(p) /\ Alone(a)
    BY DEF Still, Alone, TransportLost, mainVars, remoteVars, localVars
  <1>5. main' = main /\ rtask' = rtask /\ Coming(p)' = Coming(p) /\ Coming(a)' = Coming(a) /\ PutN(a)' = PutN(a)
    BY DEF Coming, PutN, TransportLost, mainVars, remoteVars, localVars
  <1>6. TaskInv(a)'
    BY <1>2, <1>5 DEF TaskInv, LocalOver, TransportLost, mainVars, remoteVars, localVars
  <1> QED
    BY <1>1, <1>3, <1>4, <1>5, <1>6, QuietStep

\* A main loop that ends.
LEMMA StepStops ==
  ASSUME BridgeInv, NEW a \in Side, main[a] \in {"accept", "wait", "dial"}, Stop(a),
         UNCHANGED <<opened, wire, lost, remoteVars, localVars, toRemote, toLocal>>
  PROVE  BridgeInv'
  <1>1. PICK p : p = Peer(a) /\ p \in Side /\ p # a
    BY PeerFact
  <1>2. BridgeTypes /\ TaskInv(a)
    BY DEF BridgeInv
  <1>3. BridgeTypes'
    <2>1. LoopTypes'
      BY <1>2 DEF Stop, BridgeTypes, LoopTypes, remoteVars, Side
    <2> QED
      BY <1>2, <2>1 DEF BridgeTypes, WireTypes, LocalTypes, ChannelTypes, remoteVars, localVars
  <1>4. main'[a] = "ended" /\ main'[p] = main[p]
    BY <1>1, <1>2 DEF Stop, BridgeTypes, LoopTypes
  <1>5. Still(p) /\ Alone(a)
    BY <1>4 DEF Still, Alone, remoteVars, localVars
  <1>6. Coming(p)' = Coming(p)
    BY DEF Coming, remoteVars
  <1>7. TaskInv(a)'
    BY <1>2, <1>4 DEF TaskInv, remoteVars
  <1> QED
    BY <1>1, <1>3, <1>4, <1>5, <1>6, <1>7, QuietStep

LEMMA StepAppCloses ==
  ASSUME BridgeInv, NEW a \in Side, NEW d \in Conn, AppCloses(a, d)
  PROVE  BridgeInv'
  <1>1. PICK p : p = Peer(a) /\ p \in Side
    BY PeerFact
  <1>2. BridgeTypes /\ TaskInv(a)
    BY DEF BridgeInv
  <1>3. BridgeTypes'
    <2>1. LocalTypes'
      BY <1>2 DEF AppCloses, BridgeTypes, LocalTypes
    <2> QED
      BY <1>2, <2>1 DEF AppCloses, BridgeTypes, LoopTypes, WireTypes, ChannelTypes, remoteVars, mainVars
  <1>4. Still(p) /\ Alone(a)
    BY DEF Still, Alone, AppCloses, mainVars, remoteVars
  <1>5. main' = main /\ rtask' = rtask /\ Coming(p)' = Coming(p) /\ Coming(a)' = Coming(a) /\ PutN(a)' = PutN(a)
    BY DEF Coming, PutN, AppCloses, mainVars, remoteVars
  <1>6. TaskInv(a)'
    BY <1>2, <1>5 DEF TaskInv, LocalOver, AppCloses, mainVars, remoteVars
  <1> QED
    BY <1>1, <1>3, <1>4, <1>5, <1>6, QuietStep

LEMMA StepReads ==
  ASSUME BridgeInv, ~torn, NEW a \in Side, RemoteReads(a) \/ WaitReads(a)
  PROVE  BridgeInv'
  <1>1. PICK p : p = Peer(a) /\ p \in Side /\ p # a
    BY PeerFact
  <1>2. BridgeTypes /\ TaskInv(a) /\ WireTypes
    BY DEF BridgeInv, BridgeTypes
  <1>3. /\ main[a] = "pump" /\ Read(a) /\ out' = out
        /\ UNCHANGED <<mainVars, lost, localVars, toRemote, toLocal>>
        /\ \/ rtask[a] = "select" /\ rtask' = [rtask EXCEPT ![a] = "take"]
           \/ rtask[a] = "wait_end" /\ rtask' = rtask
    BY DEF RemoteReads, WaitReads, In
  <1>4. WireTypes' /\ acc'[p] = acc[p] /\ wire'[p] = wire[p] /\ Coming(a)' = Coming(a) /\ Coming(p)' = Coming(p)
    BY <1>1, <1>2, <1>3, ReadsFact
  <1>5. BridgeTypes'
    <2>1. LoopTypes'
      BY <1>2, <1>3 DEF BridgeTypes, LoopTypes, mainVars
    <2> QED
      BY <1>2, <1>3, <1>4, <2>1 DEF BridgeTypes, LocalTypes, ChannelTypes, localVars
  <1>6. rtask'[p] = rtask[p] /\ rtask'[a] \in {"take", "wait_end"} /\ (rtask'[a] = "wait_end" <=> rtask[a] = "wait_end")
    BY <1>1, <1>2, <1>3 DEF BridgeTypes, LoopTypes
  <1>7. Still(p) /\ Alone(a)
    BY <1>3, <1>4, <1>6 DEF Still, Alone, mainVars, localVars
  <1>8. PutN(a)' = PutN(a)
    BY <1>3 DEF PutN, mainVars, localVars
  <1>9. TaskInv(a)'
    BY <1>2, <1>3, <1>6, <1>8 DEF TaskInv, LocalOver, mainVars, localVars
  <1> QED
    BY <1>1, <1>3, <1>4, <1>5, <1>6, <1>7, <1>8, <1>9, QuietStep DEF mainVars

LEMMA StepRemoteFails ==
  ASSUME BridgeInv, NEW a \in Side, RemoteFails(a)
  PROVE  BridgeInv'
  <1>1. PICK p : p = Peer(a) /\ p \in Side /\ p # a
    BY PeerFact
  <1>2. BridgeTypes /\ TaskInv(a) /\ WireTypes /\ LoopTypes
    BY DEF BridgeInv, BridgeTypes
  <1>3. /\ main[a] = "pump" /\ out' = [out EXCEPT ![a] = <<>>] /\ acc' = [acc EXCEPT ![a] = <<>>]
        /\ rtask' = [rtask EXCEPT ![a] = "none"] /\ main' = [main EXCEPT ![a] = "ended"]
        /\ UNCHANGED <<opened, wire, lost, localVars, toRemote, toLocal>>
    BY DEF RemoteFails, In, Finish, GoesOn
  <1>4. acc' \in [Side -> Seq(Frames)] /\ acc'[p] = acc[p] /\ acc'[a] = <<>>
    BY <1>1, <1>2, <1>3, DroppedFact
  <1>5. out' \in [Side -> Seq(Frames)] /\ out'[a] = <<>> /\ out'[p] = out[p]
    <2>1. <<>> \in Seq(Frames)
      OBVIOUS
    <2> QED
      BY <1>1, <1>2, <1>3, <2>1 DEF WireTypes
  <1>6. BridgeTypes'
    <2>1. LoopTypes'
      BY <1>2, <1>3 DEF LoopTypes, Side
    <2>2. WireTypes'
      BY <1>2, <1>3, <1>4, <1>5 DEF WireTypes
    <2> QED
      BY <1>2, <1>3, <2>1, <2>2 DEF BridgeTypes, LocalTypes, ChannelTypes, localVars
  <1>7. main'[a] = "ended" /\ main'[p] = main[p] /\ rtask'[a] = "none" /\ rtask'[p] = rtask[p]
    BY <1>1, <1>2, <1>3 DEF LoopTypes
  <1>8. Still(p) /\ Alone(a)
    BY <1>3, <1>4, <1>5, <1>7 DEF Still, Alone, localVars
  <1>9. Coming(p)' = Coming(p)
    BY <1>3, <1>4 DEF Coming
  <1>10. TaskInv(a)'
    BY <1>4, <1>5, <1>7 DEF TaskInv
  <1> QED
    BY <1>1, <1>6, <1>7, <1>8, <1>9, <1>10, QuietStep

LEMMA StepTurns ==
  ASSUME BridgeInv, NEW a \in Side, TakeDone(a) \/ RemoteEnds(a)
  PROVE  BridgeInv'
  <1>1. PICK p : p = Peer(a) /\ p \in Side /\ p # a
    BY PeerFact
  <1>2. BridgeTypes /\ TaskInv(a) /\ LoopTypes
    BY DEF BridgeInv, BridgeTypes
  <1>3. /\ main[a] = "pump" /\ UNCHANGED <<mainVars, wire, lost, acc, out, localVars, toRemote, toLocal>>
        /\ \/ rtask[a] = "take" /\ acc[a] = <<>> /\ rtask' = [rtask EXCEPT ![a] = "select"]
           \/ rtask[a] = "select" /\ NothingToSend(a) /\ rtask' = [rtask EXCEPT ![a] = "end"]
    BY DEF TakeDone, RemoteEnds, In
  <1>4. BridgeTypes'
    <2>1. LoopTypes'
      BY <1>2, <1>3 DEF LoopTypes, mainVars
    <2> QED
      BY <1>2, <1>3, <2>1 DEF BridgeTypes, WireTypes, LocalTypes, ChannelTypes, localVars
  <1>5. /\ rtask'[p] = rtask[p]
        /\ \/ rtask[a] = "take" /\ acc[a] = <<>> /\ rtask'[a] = "select"
           \/ rtask[a] = "select" /\ NothingToSend(a) /\ rtask'[a] = "end"
    BY <1>1, <1>2, <1>3 DEF LoopTypes
  <1>6. Still(p) /\ Alone(a)
    BY <1>3, <1>5 DEF Still, Alone, mainVars, localVars
  <1>7. Coming(p)' = Coming(p) /\ Coming(a)' = Coming(a) /\ PutN(a)' = PutN(a)
    BY <1>3 DEF Coming, PutN, mainVars, localVars
  <1>8. TaskInv(a)'
    BY <1>2, <1>3, <1>5, <1>7 DEF TaskInv, LocalOver, NothingToSend, mainVars, localVars
  <1> QED
    BY <1>1, <1>3, <1>4, <1>5, <1>6, <1>7, <1>8, QuietStep DEF mainVars

-----------------------------------------------------------------------------
(* Steps of the local task, and what the remote task takes from it *)

\* One entry of a table of connections.
LEMMA UpdateFact ==
  ASSUME NEW S, NEW f \in [Side -> [Conn -> S]], NEW a \in Side, NEW d \in Conn, NEW x \in S,
         NEW h, h = [f EXCEPT ![a][d] = x]
  PROVE  /\ h \in [Side -> [Conn -> S]] /\ h[a][d] = x
         /\ \A t \in Side : t # a => h[t] = f[t]
         /\ \A t \in Side, c \in Conn : (t = a /\ c = d) \/ h[t][c] = f[t][c]
  OBVIOUS

LEMMA LocalStep ==
  ASSUME BridgeInv, BridgeTypes', NEW a \in Side, NEW p, p = Peer(a), Still(p), Frozen(a),
         UNCHANGED <<mainVars, wire, rtask, acc>>,
         main[a] = "pump" => PutN(a)' = PutN(a), TaskInv(a)',
         \A c \in Conn, b \in Nat : Recv(a, c, b) => Recv(a, c, b)',
         \A c \in Conn : ChainInv(a, c)' /\ SettledInv(a, c)'
  PROVE  BridgeInv'
  <1>1. p \in Side /\ Peer(p) = a /\ BridgeTypes
    BY PeerFact DEF BridgeInv
  <1>2. /\ opened'[a] = opened[a] /\ main'[a] = main[a] /\ rtask'[a] = rtask[a]
        /\ Coming(a)' = Coming(a) /\ Coming(p)' = Coming(p)
    BY DEF mainVars, Coming
  <1>3. Keeps(a) /\ (Over(a) => Over(a)')
    BY <1>2 DEF Keeps, Over
  <1>4. Toward(p)'
    BY <1>2, <1>3, PeerQuiet
  <1>5. Toward(a)'
    BY <1>2, OwnKept
  <1> QED
    BY <1>4, <1>5, Assemble

LEMMA StepLocalReads ==
  ASSUME BridgeInv, NEW a \in Side, NEW d \in Conn, LocalReads(a, d)
  PROVE  BridgeInv'
  <1>1. PICK p : p = Peer(a) /\ p \in Side /\ p # a
    BY PeerFact
  <1>2. BridgeTypes /\ TaskInv(a) /\ LocalTypes /\ \A c \in Conn : ChainInv(a, c) /\ SettledInv(a, c)
    BY DEF BridgeInv, BridgeTypes
  <1>3. /\ ltask[a][d] = "select" /\ sent[a][d] < Chunks[a][d]
        /\ UNCHANGED <<mainVars, wire, lost, remoteVars, app, got, toRemote, toLocal>>
        /\ sent' = [sent EXCEPT ![a][d] = sent[a][d] + 1] /\ ltask' = [ltask EXCEPT ![a][d] = "send"]
    BY DEF LocalReads
  <1>4. sent[a][d] \in Nat /\ sent[a][d] + 1 \in Nat /\ sent[a][d] + 1 <= Chunks[a][d] /\ opened[a] \in Nat
    BY <1>2, <1>3, ConnFact, SideFact, BridgeSizes
  <1>5. /\ sent' \in [Side -> [Conn -> Nat]] /\ sent'[a][d] = sent[a][d] + 1 /\ sent'[p] = sent[p]
        /\ \A t \in Side, c \in Conn : (t = a /\ c = d) \/ sent'[t][c] = sent[t][c]
    BY ONLY <1>1, <1>2, <1>3, <1>4, UpdateFact, a \in Side, d \in Conn DEF LocalTypes
  <1>6. /\ ltask' \in [Side -> [Conn -> {"none", "select", "send", "write", "over"}]] /\ ltask'[a][d] = "send"
        /\ ltask'[p] = ltask[p] /\ \A t \in Side, c \in Conn : (t = a /\ c = d) \/ ltask'[t][c] = ltask[t][c]
    BY ONLY <1>1, <1>2, <1>3, UpdateFact, a \in Side, d \in Conn DEF LocalTypes
  <1>7. BridgeTypes'
    <2>1. ASSUME NEW t \in Side, NEW c \in Conn
          PROVE  sent'[t][c] <= Chunks[t][c]
      <3>1. CASE t = a /\ c = d
        BY ONLY <3>1, <1>4, <1>5
      <3>2. CASE ~(t = a /\ c = d)
        BY ONLY <3>2, <1>2, <1>5, t \in Side, c \in Conn DEF LocalTypes
      <3> QED
        BY <3>1, <3>2
    <2>2. LocalTypes'
      BY <1>2, <1>3, <1>5, <1>6, <2>1 DEF LocalTypes
    <2> QED
      BY <1>2, <1>3, <2>2 DEF BridgeTypes, LoopTypes, WireTypes, ChannelTypes, mainVars, remoteVars
  <1>8. Still(p)
    BY <1>3, <1>5, <1>6 DEF Still, mainVars, remoteVars
  <1>9. Frozen(a)
    <2> SUFFICES ASSUME NEW c \in Conn
                 PROVE  /\ sent'[a][c] \in Nat /\ sent[a][c] <= sent'[a][c]
                        /\ ltask[a][c] = "over" => /\ ltask'[a][c] = "over" /\ sent'[a][c] = sent[a][c]
                                                   /\ got'[a][c] = got[a][c]
      BY DEF Frozen
    <2>1. sent[a][c] \in Nat
      BY <1>2, ConnFact
    <2> QED
      BY <2>1, <1>3, <1>4, <1>5, <1>6
  <1>10. \A c \in Conn : Had(a, c)' = Had(a, c) /\ (ltask'[a][c] = "over" <=> ltask[a][c] = "over")
    BY <1>3, <1>6 DEF Had
  <1>11. main[a] = "pump" => PutN(a)' = PutN(a)
    <2> SUFFICES ASSUME main[a] = "pump" PROVE PutN(a)' = PutN(a)
      OBVIOUS
    <2>1. PICK o \in Conn : o = opened[a] /\ o = opened'[a]
      BY <1>2, <1>3, PresentConn DEF TaskInv, mainVars
    <2>2. toRemote' = toRemote /\ out' = out /\ Len(toRemote[a][o]) \in Nat /\ Len(out[a]) \in Nat /\ sent[a][o] \in Nat
      BY <1>2, <1>3, ConnFact, SideFact DEF remoteVars
    <2>3. CASE o = d
      <3>1. sent'[a][o] = sent[a][o] + 1 /\ ltask'[a][o] = "send" /\ ltask[a][o] = "select"
        BY <2>3, <1>3, <1>5, <1>6
      <3>2. PICK k \in Nat, l \in Nat, m \in Nat :
              k = sent[a][o] /\ l = Len(toRemote[a][o]) /\ m = Len(out[a])
        BY <2>2
      <3>3. PutN(a)' = (k + 1) - l - m - 1 /\ PutN(a) = k - l - m - 0
        BY <2>1, <2>2, <3>1, <3>2 DEF PutN
      <3>4. (k + 1) - l - m - 1 = k - l - m - 0
        OBVIOUS
      <3> QED
        BY <3>3, <3>4
    <2>4. CASE o # d
      <3>1. sent'[a][o] = sent[a][o] /\ ltask'[a][o] = ltask[a][o]
        BY <2>4, <1>5, <1>6
      <3> QED
        BY <2>1, <2>2, <3>1 DEF PutN
    <2> QED
      BY <2>3, <2>4
  <1>12. TaskInv(a)'
    <2>1. UNCHANGED <<main, opened, rtask, acc, out, toRemote>>
      BY <1>3 DEF mainVars, remoteVars
    <2>2. main[a] = "pump" => opened[a] \in Conn
      BY <1>2, PresentConn DEF TaskInv
    <2>3. main[a] = "pump" => /\ ltask'[a][opened[a]] # "none"
                              /\ ltask[a][opened[a]] = "over" => ltask'[a][opened[a]] = "over"
      BY <1>2, <1>6, <1>10, <2>2 DEF TaskInv
    <2> QED
      BY <1>2, <1>11, <2>1, <2>3 DEF TaskInv, LocalOver
  <1>13. \A c \in Conn, b \in Nat : Recv(a, c, b) => Recv(a, c, b)'
    BY <1>10 DEF Recv
  <1>14. ASSUME NEW c \in Conn
         PROVE  ChainInv(a, c)' /\ SettledInv(a, c)'
    <2>1. UNCHANGED <<main, opened, got, toLocal, toRemote>> /\ sent'[p] = sent[p] /\ ltask'[p] = ltask[p]
      BY <1>3, <1>5, <1>6 DEF mainVars
    <2>2. c > opened[a] => ltask'[a][c] = ltask[a][c] /\ sent'[a][c] = sent[a][c]
      BY <1>2, <1>3, <1>5, <1>6 DEF ChainInv
    <2>3. ChainInv(a, c)'
      BY <1>1, <1>2, <1>10, <2>1, <2>2 DEF ChainInv
    <2>4. CutOff(a, c) => CutOff(a, c)'
      <3>1. sent[a][c] <= sent'[a][c] /\ sent[a][c] \in Nat /\ sent'[a][c] \in Nat /\ Len(got[p][c]) \in Nat
        BY <1>1, <1>2, <1>9, ConnFact DEF Frozen
      <3> QED
        BY <1>1, <2>1, <3>1 DEF CutOff
    <2>5. SettledInv(a, c)'
      BY <1>1, <1>2, <1>10, <2>1, <2>4 DEF SettledInv
    <2> QED
      BY <2>3, <2>5
  <1> QED
    BY <1>1, <1>3, <1>7, <1>8, <1>9, <1>11, <1>12, <1>13, <1>14, LocalStep DEF mainVars, remoteVars

LEMMA StepLocalSends ==
  ASSUME BridgeInv, NEW a \in Side, NEW d \in Conn, LocalSends(a, d)
  PROVE  BridgeInv'
  <1>1. PICK p : p = Peer(a) /\ p \in Side /\ p # a
    BY PeerFact
  <1>2. /\ BridgeTypes /\ TaskInv(a) /\ LocalTypes /\ ChannelTypes
        /\ \A c \in Conn : ChainInv(a, c) /\ SettledInv(a, c)
    BY DEF BridgeInv, BridgeTypes
  <1>3. PICK q, r : q = toRemote[a][d] /\ r = Append(q, Data(d, sent[a][d]))
    OBVIOUS
  <1>4. /\ ltask[a][d] = "send" /\ main[a] = "pump" /\ opened[a] = d /\ Len(q) < Cap
        /\ UNCHANGED <<mainVars, wire, lost, remoteVars, app, sent, got, toLocal>>
        /\ toRemote' = [toRemote EXCEPT ![a][d] = r] /\ ltask' = [ltask EXCEPT ![a][d] = "select"]
    BY <1>3 DEF LocalSends, Live, HasRoom
  <1>5. sent[a][d] \in Nat /\ q \in Seq(Frames) /\ Len(q) \in Nat /\ Len(out[a]) \in Nat /\ PutN(a) >= 0
    BY <1>2, <1>3, <1>4, ConnFact, SideFact DEF TaskInv
  <1>6. /\ r \in Seq(Frames) /\ Len(r) = Len(q) + 1 /\ r[Len(r)] = Data(d, sent[a][d])
        /\ \A i \in 1..Len(q) : r[i] = q[i]
    BY <1>3, <1>5, ChunkFact, AppendFact DEF IsMore
  <1>7. /\ toRemote' \in [Side -> [Conn -> Seq(Frames)]] /\ toRemote'[a][d] = r /\ toRemote'[p] = toRemote[p]
        /\ \A t \in Side, c \in Conn : (t = a /\ c = d) \/ toRemote'[t][c] = toRemote[t][c]
    BY ONLY <1>1, <1>2, <1>4, <1>6, UpdateFact, a \in Side, d \in Conn DEF ChannelTypes
  <1>8. /\ ltask' \in [Side -> [Conn -> {"none", "select", "send", "write", "over"}]] /\ ltask'[a][d] = "select"
        /\ ltask'[p] = ltask[p] /\ \A t \in Side, c \in Conn : (t = a /\ c = d) \/ ltask'[t][c] = ltask[t][c]
    BY ONLY <1>1, <1>2, <1>4, UpdateFact, a \in Side, d \in Conn DEF LocalTypes
  <1>9. BridgeTypes'
    <2>1. \A t \in Side, c \in Conn : Len(toRemote'[t][c]) <= Cap
      BY <1>2, <1>4, <1>5, <1>6, <1>7, BridgeSizes DEF ChannelTypes
    <2>2. ChannelTypes'
      BY <1>2, <1>4, <1>7, <2>1 DEF ChannelTypes
    <2>3. LocalTypes'
      BY <1>2, <1>4, <1>8 DEF LocalTypes
    <2> QED
      BY <1>2, <1>4, <2>2, <2>3 DEF BridgeTypes, LoopTypes, WireTypes, mainVars, remoteVars
  <1>10. Still(p)
    BY <1>4, <1>7, <1>8 DEF Still, mainVars, remoteVars
  <1>11. Frozen(a)
    BY <1>2, <1>4, <1>8, ConnFact DEF Frozen
  <1>12. \A c \in Conn : Had(a, c)' = Had(a, c) /\ (ltask'[a][c] = "over" <=> ltask[a][c] = "over")
    BY <1>4, <1>8 DEF Had
  <1>13. PICK k \in Nat, l \in Nat, m \in Nat : k = sent[a][d] /\ l = Len(q) /\ m = Len(out[a])
    BY <1>5
  <1>14. PutN(a)' = PutN(a) /\ PutN(a) = k - l - m - 1
    <2>1. out'[a] = out[a] /\ opened'[a] = d /\ sent'[a][d] = k
      BY <1>4, <1>13 DEF remoteVars, mainVars
    <2>2. Len(r) = l + 1
      BY <1>6, <1>13
    <2>3. PutN(a)' = k - (l + 1) - m - 0
      BY <1>7, <1>8, <1>13, <2>1, <2>2 DEF PutN
    <2>4. PutN(a) = k - l - m - 1
      BY <1>3, <1>4, <1>13 DEF PutN
    <2>5. k - (l + 1) - m - 0 = k - l - m - 1
      OBVIOUS
    <2> QED
      BY <2>3, <2>4, <2>5
  <1>15. TaskInv(a)'
    <2>1. UNCHANGED <<main, opened, rtask, acc, out>>
      BY <1>4 DEF mainVars, remoteVars
    <2>2. Run(q, d, PutN(a) + m)
      BY <1>2, <1>3, <1>4, <1>13 DEF TaskInv
    <2>3. Run(r, d, PutN(a) + m)
      <3>1. \A i \in 1..l : q[i] = Data(d, PutN(a) + m + i)
        BY <2>2, <1>13 DEF Run
      <3>2. Len(r) = l + 1
        BY <1>6, <1>13
      <3>3. PutN(a) + m + (l + 1) = k
        BY <1>14
      <3>4. ASSUME NEW i \in 1..Len(r)
            PROVE  r[i] = Data(d, PutN(a) + m + i)
        <4>1. CASE i \in 1..l
          BY <4>1, <3>1, <1>6, <1>13
        <4>2. CASE i = l + 1
          BY <4>2, <3>2, <3>3, <1>6, <1>13
        <4> QED
          BY <4>1, <4>2, <3>2
      <3> QED
        BY <3>4 DEF Run
    <2>4. ~LocalOver(a) /\ ltask'[a][opened'[a]] # "none" /\ rtask[a] \notin {"end", "wait_end"}
      BY <1>2, <1>4, <1>8, <2>1 DEF LocalOver, TaskInv
    <2>5. Run(toRemote'[a][opened'[a]], opened'[a], PutN(a)' + Len(out'[a]))
      BY <1>4, <1>7, <1>13, <1>14, <2>1, <2>3
    <2> QED
      BY <1>2, <1>4, <1>14, <2>1, <2>4, <2>5 DEF TaskInv
  <1>16. \A c \in Conn, b \in Nat : Recv(a, c, b) => Recv(a, c, b)'
    BY <1>12 DEF Recv
  <1>17. ASSUME NEW c \in Conn
         PROVE  ChainInv(a, c)' /\ SettledInv(a, c)'
    <2>1. UNCHANGED <<main, opened, got, toLocal, sent>> /\ ltask'[p] = ltask[p]
      BY <1>4, <1>8 DEF mainVars
    <2>2. c > opened[a] => ltask'[a][c] = ltask[a][c] /\ toRemote'[a][c] = toRemote[a][c]
      BY <1>2, <1>4, <1>7, <1>8 DEF ChainInv
    <2>3. ChainInv(a, c)'
      BY <1>1, <1>2, <1>12, <2>1, <2>2 DEF ChainInv
    <2>4. CutOff(a, c) => CutOff(a, c)'
      BY <1>1, <2>1 DEF CutOff
    <2>5. SettledInv(a, c)'
      BY <1>1, <1>2, <1>12, <2>1, <2>4 DEF SettledInv
    <2> QED
      BY <2>3, <2>5
  <1> QED
    BY <1>1, <1>4, <1>9, <1>10, <1>11, <1>14, <1>15, <1>16, <1>17, LocalStep DEF mainVars, remoteVars

LEMMA StepLocalWrites ==
  ASSUME BridgeInv, NEW a \in Side, NEW d \in Conn, LocalWrites(a, d)
  PROVE  BridgeInv'
  <1>1. PICK p : p = Peer(a) /\ p \in Side /\ p # a
    BY PeerFact
  <1>2. /\ BridgeTypes /\ TaskInv(a) /\ LocalTypes /\ ChannelTypes
        /\ \A c \in Conn : ChainInv(a, c) /\ SettledInv(a, c)
    BY DEF BridgeInv, BridgeTypes
  <1>3. PICK q, r, g, h : q = toLocal[a][d] /\ r = Tail(q) /\ g = got[a][d] /\ h = Append(g, Head(q))
    OBVIOUS
  <1>4. /\ ltask[a][d] = "select" /\ q # <<>>
        /\ UNCHANGED <<mainVars, wire, lost, remoteVars, app, sent, toRemote>>
        /\ ltask' = [ltask EXCEPT ![a][d] = "write"]
        /\ toLocal' = [toLocal EXCEPT ![a][d] = r] /\ got' = [got EXCEPT ![a][d] = h]
    BY <1>3 DEF LocalWrites
  <1>5. q \in Seq(Frames) /\ g \in Seq(Frames) /\ Len(q) \in Nat /\ Len(g) \in Nat
    BY <1>2, <1>3, ConnFact
  <1>6. /\ r \in Seq(Frames) /\ Len(q) >= 1 /\ Len(r) = Len(q) - 1 /\ \A i \in 1..Len(r) : r[i] = q[i + 1]
        /\ Head(q) = q[1] /\ q[1] \in Frames
    BY <1>3, <1>4, <1>5, TailFact DEF IsPast
  <1>7. h \in Seq(Frames) /\ Len(h) = Len(g) + 1 /\ h[Len(h)] = q[1] /\ \A i \in 1..Len(g) : h[i] = g[i]
    BY <1>3, <1>5, <1>6, AppendFact DEF IsMore
  <1>8. /\ toLocal' \in [Side -> [Conn -> Seq(Frames)]] /\ toLocal'[a][d] = r /\ toLocal'[p] = toLocal[p]
        /\ \A t \in Side, c \in Conn : (t = a /\ c = d) \/ toLocal'[t][c] = toLocal[t][c]
    BY ONLY <1>1, <1>2, <1>4, <1>6, UpdateFact, a \in Side, d \in Conn DEF ChannelTypes
  <1>9. /\ got' \in [Side -> [Conn -> Seq(Frames)]] /\ got'[a][d] = h /\ got'[p] = got[p]
        /\ \A t \in Side, c \in Conn : (t = a /\ c = d) \/ got'[t][c] = got[t][c]
    BY ONLY <1>1, <1>2, <1>4, <1>7, UpdateFact, a \in Side, d \in Conn DEF LocalTypes
  <1>20. /\ ltask' \in [Side -> [Conn -> {"none", "select", "send", "write", "over"}]] /\ ltask'[a][d] = "write"
         /\ ltask'[p] = ltask[p] /\ \A t \in Side, c \in Conn : (t = a /\ c = d) \/ ltask'[t][c] = ltask[t][c]
    BY ONLY <1>1, <1>2, <1>4, UpdateFact, a \in Side, d \in Conn DEF LocalTypes
  <1>21. \A c \in Conn : /\ ltask'[a][c] = "over" <=> ltask[a][c] = "over"
                         /\ ltask'[a][c] = "send" <=> ltask[a][c] = "send"
                         /\ ltask'[a][c] = "none" <=> ltask[a][c] = "none"
    BY <1>4, <1>20
  <1>10. PICK k \in Nat, l \in Nat : k = Len(g) /\ l = Len(q) /\ Len(h) = k + 1 /\ Len(r) = l - 1 /\ l >= 1
    BY <1>5, <1>6, <1>7
  <1>11. BridgeTypes'
    <2>1. \A t \in Side, c \in Conn : Len(toLocal'[t][c]) <= Cap
      <3>1. Len(q) <= Cap
        BY <1>2, <1>3 DEF ChannelTypes
      <3>2. Len(r) <= Cap
        BY <3>1, <1>10, BridgeSizes
      <3> QED
        BY <1>2, <1>8, <3>2 DEF ChannelTypes
    <2>2. ChannelTypes'
      BY <1>2, <1>4, <1>8, <2>1 DEF ChannelTypes
    <2>3. LocalTypes'
      BY <1>2, <1>4, <1>9, <1>20 DEF LocalTypes
    <2> QED
      BY <1>2, <1>4, <2>2, <2>3 DEF BridgeTypes, LoopTypes, WireTypes, mainVars, remoteVars
  <1>12. Still(p)
    BY <1>4, <1>8, <1>9, <1>20 DEF Still, mainVars, remoteVars
  <1>13. Frozen(a)
    BY <1>2, <1>4, <1>9, <1>20, <1>21, ConnFact DEF Frozen
  <1>14. ASSUME NEW c \in Conn
         PROVE  Had(a, c)' = Had(a, c)
    <2>1. CASE c = d
      <3>1. Had(a, c)' = (k + 1) + (l - 1) /\ Had(a, c) = k + l
        BY <2>1, <1>3, <1>8, <1>9, <1>10 DEF Had
      <3> QED
        BY <3>1
    <2>2. CASE c # d
      BY <2>2, <1>8, <1>9 DEF Had
    <2> QED
      BY <2>1, <2>2
  <1>15. (main[a] = "pump" => PutN(a)' = PutN(a)) /\ TaskInv(a)'
    <2>1. UNCHANGED <<main, opened, rtask, acc, out, sent, toRemote>>
      BY <1>4 DEF mainVars, remoteVars
    <2>2. main[a] = "pump" => opened[a] \in Conn
      BY <1>2, PresentConn DEF TaskInv
    <2>3. main[a] = "pump" => PutN(a)' = PutN(a)
      BY <1>21, <2>1, <2>2 DEF PutN
    <2>4. main[a] = "pump" => /\ ltask'[a][opened[a]] # "none"
                              /\ ltask[a][opened[a]] = "over" => ltask'[a][opened[a]] = "over"
      BY <1>2, <1>21, <2>2 DEF TaskInv
    <2> QED
      BY <1>2, <2>1, <2>3, <2>4 DEF TaskInv, LocalOver
  <1>16. \A c \in Conn, b \in Nat : Recv(a, c, b) => Recv(a, c, b)'
    BY <1>14, <1>21 DEF Recv
  <1>17. Run(h, d, 0) /\ Run(r, d, k + 1)
    <2>1. Run(g, d, 0) /\ Run(q, d, k)
      BY <1>2, <1>3, <1>10 DEF ChainInv
    <2>2. (\A i \in 1..k : g[i] = Data(d, 0 + i)) /\ (\A i \in 1..l : q[i] = Data(d, k + i))
      BY <2>1, <1>10 DEF Run
    <2>3. ASSUME NEW i \in 1..(k + 1)
          PROVE  h[i] = Data(d, 0 + i)
      <3>1. CASE i \in 1..k
        BY <3>1, <2>2, <1>7, <1>10
      <3>2. CASE i = k + 1
        <4>1. 1 \in 1..l /\ 0 + i = k + 1
          BY <3>2, <1>10
        <4> QED
          BY <4>1, <3>2, <2>2, <1>7, <1>10
      <3> QED
        BY <3>1, <3>2
    <2>4. ASSUME NEW i \in 1..(l - 1)
          PROVE  r[i] = Data(d, k + 1 + i)
      <3>1. i + 1 \in 1..l /\ k + (i + 1) = k + 1 + i
        OBVIOUS
      <3> QED
        BY <3>1, <2>2, <1>6, <1>10
    <2> QED
      BY <2>3, <2>4, <1>10 DEF Run
  <1>18. ASSUME NEW c \in Conn
         PROVE  ChainInv(a, c)' /\ SettledInv(a, c)'
    <2>1. UNCHANGED <<main, opened, sent, toRemote>> /\ got'[p] = got[p] /\ ltask'[p] = ltask[p]
      BY <1>4, <1>9, <1>20 DEF mainVars
    <2>2. c > opened[a] => toLocal'[a][c] = toLocal[a][c] /\ got'[a][c] = got[a][c]
      BY <1>2, <1>4, <1>8, <1>9 DEF ChainInv
    <2>3. ltask[a][c] = "over" => toLocal'[a][c] = toLocal[a][c]
      BY <1>4, <1>8
    <2>4. Run(got'[a][c], c, 0) /\ Run(toLocal'[a][c], c, Len(got'[a][c]))
      <3>1. CASE c = d
        BY <3>1, <1>8, <1>9, <1>10, <1>17
      <3>2. CASE c # d
        BY <3>2, <1>2, <1>8, <1>9 DEF ChainInv
      <3> QED
        BY <3>1, <3>2
    <2>5. Had(a, c)' <= sent'[Peer(a)][c]
      BY <1>2, <1>14, <2>1 DEF ChainInv
    <2>6. ChainInv(a, c)'
      BY <1>2, <1>21, <2>1, <2>2, <2>3, <2>4, <2>5 DEF ChainInv
    <2>7. CutOff(a, c) => CutOff(a, c)'
      BY <1>1, <2>1 DEF CutOff
    <2>8. SettledInv(a, c)'
      BY <1>1, <1>2, <1>14, <1>21, <2>1, <2>7 DEF SettledInv
    <2> QED
      BY <2>6, <2>8
  <1> QED
    BY <1>1, <1>4, <1>11, <1>12, <1>13, <1>15, <1>16, <1>18, LocalStep DEF mainVars, remoteVars

\* The program takes what the task has for it.
LEMMA StepAppReads ==
  ASSUME BridgeInv, NEW a \in Side, NEW d \in Conn, AppReads(a, d)
  PROVE  BridgeInv'
  <1>1. PICK p : p = Peer(a) /\ p \in Side /\ p # a
    BY PeerFact
  <1>2. BridgeTypes /\ TaskInv(a) /\ LocalTypes /\ \A c \in Conn : ChainInv(a, c) /\ SettledInv(a, c)
    BY DEF BridgeInv, BridgeTypes
  <1>3. /\ ltask[a][d] = "write" /\ ltask' = [ltask EXCEPT ![a][d] = "select"]
        /\ UNCHANGED <<mainVars, wire, lost, remoteVars, app, sent, got, toRemote, toLocal>>
    BY DEF AppReads
  <1>4. /\ ltask' \in [Side -> [Conn -> {"none", "select", "send", "write", "over"}]] /\ ltask'[a][d] = "select"
        /\ ltask'[p] = ltask[p] /\ \A t \in Side, c \in Conn : (t = a /\ c = d) \/ ltask'[t][c] = ltask[t][c]
    BY ONLY <1>1, <1>2, <1>3, UpdateFact, a \in Side, d \in Conn DEF LocalTypes
  <1>5. \A c \in Conn : /\ ltask'[a][c] = "over" <=> ltask[a][c] = "over"
                        /\ ltask'[a][c] = "send" <=> ltask[a][c] = "send"
                        /\ ltask'[a][c] = "none" <=> ltask[a][c] = "none"
    BY <1>3, <1>4
  <1>6. BridgeTypes'
    <2>1. LocalTypes'
      BY <1>2, <1>3, <1>4 DEF LocalTypes
    <2> QED
      BY <1>2, <1>3, <2>1 DEF BridgeTypes, LoopTypes, WireTypes, ChannelTypes, mainVars, remoteVars
  <1>7. Still(p)
    BY <1>3, <1>4 DEF Still, mainVars, remoteVars
  <1>8. Frozen(a)
    BY <1>2, <1>3, <1>5, ConnFact DEF Frozen
  <1>9. \A c \in Conn : Had(a, c)' = Had(a, c)
    BY <1>3 DEF Had
  <1>10. (main[a] = "pump" => PutN(a)' = PutN(a)) /\ TaskInv(a)'
    <2>1. UNCHANGED <<main, opened, rtask, acc, out, sent, toRemote>>
      BY <1>3 DEF mainVars, remoteVars
    <2>2. main[a] = "pump" => opened[a] \in Conn
      BY <1>2, PresentConn DEF TaskInv
    <2>3. main[a] = "pump" => PutN(a)' = PutN(a)
      BY <1>5, <2>1, <2>2 DEF PutN
    <2>4. main[a] = "pump" => /\ ltask'[a][opened[a]] # "none"
                              /\ ltask[a][opened[a]] = "over" => ltask'[a][opened[a]] = "over"
      BY <1>2, <1>5, <2>2 DEF TaskInv
    <2> QED
      BY <1>2, <2>1, <2>3, <2>4 DEF TaskInv, LocalOver
  <1>11. \A c \in Conn, b \in Nat : Recv(a, c, b) => Recv(a, c, b)'
    BY <1>5, <1>9 DEF Recv
  <1>12. ASSUME NEW c \in Conn
         PROVE  ChainInv(a, c)' /\ SettledInv(a, c)'
    <2>1. UNCHANGED <<main, opened, got, sent, toLocal, toRemote>> /\ ltask'[p] = ltask[p]
      BY <1>3, <1>4 DEF mainVars
    <2>2. ChainInv(a, c)'
      BY <1>2, <1>5, <1>9, <2>1 DEF ChainInv
    <2>3. CutOff(a, c) => CutOff(a, c)'
      BY <1>1, <2>1 DEF CutOff
    <2>4. SettledInv(a, c)'
      BY <1>1, <1>2, <1>5, <1>9, <2>1, <2>3 DEF SettledInv
    <2> QED
      BY <2>2, <2>4
  <1> QED
    BY <1>1, <1>3, <1>6, <1>7, <1>8, <1>10, <1>11, <1>12, LocalStep DEF mainVars, remoteVars

LEMMA StepLocalEnds ==
  ASSUME BridgeInv, NEW a \in Side, NEW d \in Conn, LocalEnds(a, d)
  PROVE  BridgeInv'
  <1>1. PICK p : p = Peer(a) /\ p \in Side /\ p # a
    BY PeerFact
  <1>2. /\ BridgeTypes /\ TaskInv(a) /\ LocalTypes /\ ChannelTypes
        /\ \A c \in Conn : ChainInv(a, c) /\ SettledInv(a, c)
    BY DEF BridgeInv, BridgeTypes
  <1>3. /\ ltask[a][d] \in {"select", "write"} \/ (ltask[a][d] = "send" /\ ~Live(a, d))
        /\ UNCHANGED <<mainVars, wire, lost, remoteVars, sent, got, toRemote>>
        /\ ltask' = [ltask EXCEPT ![a][d] = "over"] /\ app' = [app EXCEPT ![a][d] = "closed"]
        /\ toLocal' = [toLocal EXCEPT ![a][d] = <<>>]
    BY DEF LocalEnds
  <1>4. <<>> \in Seq(Frames) /\ Len(toLocal[a][d]) \in Nat /\ Len(got[a][d]) \in Nat
    BY <1>2, ConnFact
  <1>5. /\ toLocal' \in [Side -> [Conn -> Seq(Frames)]] /\ toLocal'[a][d] = <<>> /\ toLocal'[p] = toLocal[p]
        /\ \A t \in Side, c \in Conn : (t = a /\ c = d) \/ toLocal'[t][c] = toLocal[t][c]
    BY ONLY <1>1, <1>2, <1>3, <1>4, UpdateFact, a \in Side, d \in Conn DEF ChannelTypes
  <1>6. /\ ltask' \in [Side -> [Conn -> {"none", "select", "send", "write", "over"}]] /\ ltask'[a][d] = "over"
        /\ ltask'[p] = ltask[p] /\ \A t \in Side, c \in Conn : (t = a /\ c = d) \/ ltask'[t][c] = ltask[t][c]
    BY ONLY <1>1, <1>2, <1>3, UpdateFact, a \in Side, d \in Conn DEF LocalTypes
  <1>7. BridgeTypes'
    <2>1. \A t \in Side, c \in Conn : Len(toLocal'[t][c]) <= Cap
      <3>1. Len(toLocal'[a][d]) <= Cap
        <4>1. Len(<<>>) = 0 /\ 0 <= Cap
          BY BridgeSizes
        <4> QED
          BY <4>1, <1>5
      <3> QED
        BY <1>2, <1>5, <3>1 DEF ChannelTypes
    <2>2. ChannelTypes'
      BY <1>2, <1>3, <1>5, <2>1 DEF ChannelTypes
    <2>3. app' \in [Side -> [Conn -> {"none", "open", "closed"}]]
      BY ONLY <1>2, <1>3, UpdateFact, a \in Side, d \in Conn DEF LocalTypes
    <2>4. LocalTypes'
      BY <1>2, <1>3, <1>6, <2>3 DEF LocalTypes
    <2> QED
      BY <1>2, <1>3, <2>2, <2>4 DEF BridgeTypes, LoopTypes, WireTypes, mainVars, remoteVars
  <1>8. Still(p)
    BY <1>3, <1>5, <1>6 DEF Still, mainVars, remoteVars
  <1>9. Frozen(a)
    BY <1>2, <1>3, <1>6, ConnFact DEF Frozen
  <1>10. ASSUME NEW c \in Conn
         PROVE  Had(a, c)' <= Had(a, c) /\ (c # d => Had(a, c)' = Had(a, c)) /\ Had(a, c)' \in Nat
    <2>1. CASE c = d
      <3>1. PICK k \in Nat, l \in Nat : k = Len(got[a][d]) /\ l = Len(toLocal[a][d])
        BY <1>4
      <3>2. Had(a, c)' = k + 0 /\ Had(a, c) = k + l
        BY <2>1, <3>1, <1>3, <1>5 DEF Had
      <3> QED
        BY <2>1, <3>2
    <2>2. CASE c # d
      <3>1. Had(a, c)' = Had(a, c)
        BY <2>2, <1>3, <1>5 DEF Had
      <3> QED
        BY <3>1, <1>2, ConnFact
    <2> QED
      BY <2>1, <2>2
  <1>11. main[a] = "pump" => PutN(a)' = PutN(a)
    <2> SUFFICES ASSUME main[a] = "pump" PROVE PutN(a)' = PutN(a)
      OBVIOUS
    <2>1. PICK o \in Conn : o = opened[a] /\ o = opened'[a]
      BY <1>2, <1>3, PresentConn DEF TaskInv, mainVars
    <2>2. ltask'[a][o] = "send" <=> ltask[a][o] = "send"
      BY <1>3, <1>6, <2>1 DEF Live
    <2> QED
      BY <1>3, <2>1, <2>2 DEF PutN, remoteVars, mainVars
  <1>12. TaskInv(a)'
    <2>1. UNCHANGED <<main, opened, rtask, acc, out, toRemote>>
      BY <1>3 DEF mainVars, remoteVars
    <2>2. main[a] = "pump" => opened[a] \in Conn
      BY <1>2, PresentConn DEF TaskInv
    <2>3. main[a] = "pump" => /\ ltask'[a][opened[a]] # "none"
                              /\ ltask[a][opened[a]] = "over" => ltask'[a][opened[a]] = "over"
      BY <1>2, <1>6, <2>2 DEF TaskInv
    <2> QED
      BY <1>2, <1>11, <2>1, <2>3 DEF TaskInv, LocalOver
  <1>13. ASSUME NEW c \in Conn, NEW b \in Nat, Recv(a, c, b)
         PROVE  Recv(a, c, b)'
    <2>1. Had(a, c) \in Nat /\ Had(a, c) <= b /\ (ltask[a][c] # "over" => Had(a, c) = b)
      BY <1>2, <1>13, ConnFact DEF Recv
    <2>2. Had(a, c)' <= b /\ (ltask'[a][c] # "over" => Had(a, c)' = b)
      BY <2>1, <1>6, <1>10
    <2> QED
      BY <2>2 DEF Recv
  <1>14. ASSUME NEW c \in Conn
         PROVE  ChainInv(a, c)' /\ SettledInv(a, c)'
    <2>1. UNCHANGED <<main, opened, got, sent, toRemote>> /\ ltask'[p] = ltask[p]
      BY <1>3, <1>6 DEF mainVars
    <2>2. c > opened[a] => ltask'[a][c] = ltask[a][c] /\ toLocal'[a][c] = toLocal[a][c]
      BY <1>2, <1>3, <1>5, <1>6 DEF ChainInv
    <2>3. ltask'[a][c] = "over" => toLocal'[a][c] = <<>>
      BY <1>2, <1>5, <1>6 DEF ChainInv
    <2>4. Run(got'[a][c], c, 0) /\ Run(toLocal'[a][c], c, Len(got'[a][c]))
      <3>1. Run(<<>>, c, Len(got[a][c]))
        BY DEF Run
      <3> QED
        BY <1>2, <1>5, <2>1, <3>1 DEF ChainInv
    <2>5. Had(a, c)' <= sent'[Peer(a)][c]
      <3>1. Had(a, c) <= sent[p][c] /\ sent[p][c] \in Nat /\ Had(a, c) \in Nat
        BY <1>1, <1>2, ConnFact DEF ChainInv
      <3> QED
        BY <3>1, <1>1, <1>10, <2>1
    <2>6. ChainInv(a, c)'
      BY <1>2, <2>1, <2>2, <2>3, <2>4, <2>5 DEF ChainInv
    <2>7. CutOff(a, c) => CutOff(a, c)'
      BY <1>1, <2>1 DEF CutOff
    <2>8. SettledInv(a, c)'
      BY <1>1, <1>2, <1>6, <1>10, <2>1, <2>7 DEF SettledInv
    <2> QED
      BY <2>6, <2>8
  <1> QED
    BY <1>1, <1>3, <1>7, <1>8, <1>9, <1>11, <1>12, <1>13, <1>14, LocalStep DEF mainVars, remoteVars

LEMMA StepRemoteTakesLocal ==
  ASSUME BridgeInv, NEW a \in Side, RemoteTakesLocal(a)
  PROVE  BridgeInv'
  <1>1. PICK p : p = Peer(a) /\ p \in Side /\ p # a
    BY PeerFact
  <1>2. BridgeTypes /\ TaskInv(a) /\ LoopTypes /\ WireTypes /\ ChannelTypes
    BY DEF BridgeInv, BridgeTypes
  <1>3. PICK o, q, r, f : o = opened[a] /\ q = toRemote[a][o] /\ r = Tail(q) /\ f = <<Head(q)>>
    OBVIOUS
  <1>4. /\ main[a] = "pump" /\ rtask[a] = "select" /\ q # <<>>
        /\ UNCHANGED <<mainVars, wire, lost, acc, localVars, toLocal>>
        /\ out' = [out EXCEPT ![a] = f] /\ rtask' = [rtask EXCEPT ![a] = "write"]
        /\ toRemote' = [toRemote EXCEPT ![a][o] = r]
    BY <1>3 DEF RemoteTakesLocal, In
  <1>5. o \in Conn /\ q \in Seq(Frames) /\ Len(out[a]) = 0 /\ sent[a][o] \in Nat /\ PutN(a) >= 0
    BY <1>2, <1>3, <1>4, PresentConn, ConnFact DEF TaskInv
  <1>6. /\ r \in Seq(Frames) /\ Len(q) >= 1 /\ Len(r) = Len(q) - 1 /\ \A i \in 1..Len(r) : r[i] = q[i + 1]
        /\ Head(q) = q[1] /\ q[1] \in Frames
    BY <1>3, <1>4, <1>5, TailFact DEF IsPast
  <1>7. f \in Seq(Frames) /\ Len(f) = 1 /\ f[1] = q[1]
    BY <1>3, <1>6
  <1>8. PICK l \in Nat : l = Len(q) /\ l >= 1 /\ Len(r) = l - 1
    BY <1>5, <1>6
  <1>9. /\ toRemote' \in [Side -> [Conn -> Seq(Frames)]] /\ toRemote'[a][o] = r /\ toRemote'[p] = toRemote[p]
        /\ \A t \in Side, c \in Conn : (t = a /\ c = o) \/ toRemote'[t][c] = toRemote[t][c]
    BY ONLY <1>1, <1>2, <1>4, <1>5, <1>6, UpdateFact, a \in Side DEF ChannelTypes
  <1>10. /\ out' \in [Side -> Seq(Frames)] /\ out'[a] = f /\ out'[p] = out[p]
         /\ rtask'[a] = "write" /\ rtask'[p] = rtask[p]
    BY <1>1, <1>2, <1>4, <1>7 DEF WireTypes, LoopTypes
  <1>11. BridgeTypes'
    <2>1. LoopTypes'
      BY <1>2, <1>4 DEF LoopTypes, mainVars
    <2>2. WireTypes'
      BY <1>2, <1>4, <1>10 DEF WireTypes
    <2>3. \A t \in Side, c \in Conn : Len(toRemote'[t][c]) <= Cap
      <3>1. Len(q) <= Cap
        BY <1>2, <1>3, <1>5 DEF ChannelTypes
      <3>2. Len(r) <= Cap
        BY <3>1, <1>8, BridgeSizes
      <3> QED
        BY <1>2, <1>9, <3>2 DEF ChannelTypes
    <2>4. ChannelTypes'
      BY <1>2, <1>4, <1>9, <2>3 DEF ChannelTypes
    <2> QED
      BY <1>2, <1>4, <2>1, <2>2, <2>4 DEF BridgeTypes, LocalTypes, localVars
  <1>12. Still(p) /\ Alone(a)
    BY <1>3, <1>4, <1>9, <1>10 DEF Still, Alone, mainVars, localVars
  <1>13. Coming(p)' = Coming(p) /\ Coming(a)' = Coming(a)
    BY <1>4 DEF Coming
  <1>14. PutN(a)' = PutN(a)
    <2>1. PICK x : x = IF ltask[a][o] = "send" THEN 1 ELSE 0
      OBVIOUS
    <2>2. PutN(a) = sent[a][o] - l - 0 - x
      BY <1>3, <1>5, <1>8, <2>1 DEF PutN
    <2>3. PutN(a)' = sent[a][o] - (l - 1) - 1 - x
      BY <1>3, <1>4, <1>7, <1>8, <1>9, <1>10, <2>1 DEF PutN, mainVars, localVars
    <2>4. PICK k \in Nat : k = sent[a][o]
      BY <1>5
    <2>5. x \in {0, 1} /\ k - l - 0 - x = k - (l - 1) - 1 - x
      BY <2>1
    <2> QED
      BY <2>2, <2>3, <2>4, <2>5
  <1>15. TaskInv(a)'
    <2>1. PICK n \in Nat : n = PutN(a)
      <3>1. PutN(a) \in Int
        <4>1. PICK k \in Nat : k = sent[a][o]
          BY <1>5
        <4>2. PutN(a) = k - l - 0 - (IF ltask[a][o] = "send" THEN 1 ELSE 0)
          BY <1>3, <1>5, <1>8, <4>1 DEF PutN
        <4> QED
          BY <4>2
      <3> QED
        BY <3>1, <1>5
    <2>2. Run(q, o, n + 0)
      BY <1>2, <1>3, <1>4, <1>5, <2>1 DEF TaskInv
    <2>3. \A i \in 1..l : q[i] = Data(o, n + i)
      BY <2>2, <1>8 DEF Run
    <2>4. Run(f, o, n)
      <3>1. 1 \in 1..l
        BY <1>8
      <3>2. f[1] = Data(o, n + 1)
        BY <3>1, <2>3, <1>7
      <3> QED
        BY <3>2, <1>7 DEF Run
    <2>5. Run(r, o, n + 1)
      <3>1. ASSUME NEW i \in 1..(l - 1)
            PROVE  r[i] = Data(o, n + 1 + i)
        <4>1. i + 1 \in 1..l /\ n + (i + 1) = n + 1 + i
          BY <1>8
        <4> QED
          BY <4>1, <2>3, <1>6, <1>8
      <3> QED
        BY <3>1, <1>8 DEF Run
    <2>6. UNCHANGED <<main, opened, acc, ltask>>
      BY <1>4 DEF mainVars, localVars
    <2> QED
      BY <1>2, <1>3, <1>4, <1>7, <1>9, <1>10, <1>14, <2>1, <2>4, <2>5, <2>6 DEF TaskInv
  <1> QED
    BY <1>1, <1>4, <1>10, <1>11, <1>12, <1>13, <1>14, <1>15, QuietStep DEF mainVars

-----------------------------------------------------------------------------
(* Steps that write to the other side *)

\* The side that writes keeps its own place.
LEMMA WriterStep ==
  ASSUME BridgeInv, BridgeTypes', NEW a \in Side, NEW p, p = Peer(a), Still(p), Alone(a), TaskInv(a)',
         Toward(p)', main'[a] = main[a], Coming(a)' = Coming(a), rtask[a] = "wait_end" => rtask'[a] = "wait_end"
  PROVE  BridgeInv'
  <1>1. p \in Side /\ Peer(p) = a /\ BridgeTypes
    BY PeerFact DEF BridgeInv
  <1>2. opened'[a] = opened[a]
    BY DEF Alone
  <1>3. /\ Frozen(a) /\ \A c \in Conn : ChainInv(a, c)' /\ SettledInv(a, c)'
        /\ \A c \in Conn, b \in Nat : Recv(a, c, b) => Recv(a, c, b)'
    BY AloneFact
  <1>4. Toward(a)'
    BY <1>2, <1>3, OwnKept
  <1> QED
    BY <1>3, <1>4, Assemble

\* A remote task has put on the transport no more than what was sent.
LEMMA PutFact ==
  ASSUME BridgeTypes, NEW a \in Side, TaskInv(a), main[a] = "pump"
  PROVE  /\ opened[a] \in Conn /\ PutN(a) \in Nat /\ sent[a][opened[a]] \in Nat
         /\ PutN(a) + Len(toRemote[a][opened[a]]) + Len(out[a]) <= sent[a][opened[a]]
         /\ Len(toRemote[a][opened[a]]) \in Nat /\ Len(out[a]) \in Nat
         /\ (ltask[a][opened[a]] = "over" /\ toRemote[a][opened[a]] = <<>> /\ rtask[a] # "write"
               => PutN(a) = sent[a][opened[a]])
  <1>1. PICK o \in Conn : o = opened[a]
    BY PresentConn DEF TaskInv
  <1>2. sent[a][o] \in Nat /\ Len(toRemote[a][o]) \in Nat /\ Len(out[a]) \in Nat /\ PutN(a) >= 0
        /\ (rtask[a] # "write" => Len(out[a]) = 0)
    BY ConnFact, SideFact DEF TaskInv
  <1>3. PICK k \in Nat, l \in Nat, m \in Nat : k = sent[a][o] /\ l = Len(toRemote[a][o]) /\ m = Len(out[a])
    BY <1>2
  <1>4. PICK x \in {0, 1} : x = IF ltask[a][o] = "send" THEN 1 ELSE 0
    OBVIOUS
  <1>5. PutN(a) = k - l - m - x
    BY <1>1, <1>3, <1>4 DEF PutN
  <1>6. k - l - m - x >= 0
    BY <1>2, <1>5
  <1>7. k - l - m - x \in Nat /\ (k - l - m - x) + l + m <= k
    BY <1>6
  <1>8. ltask[a][o] = "over" /\ toRemote[a][o] = <<>> /\ rtask[a] # "write" => PutN(a) = k
    <2> SUFFICES ASSUME ltask[a][o] = "over", toRemote[a][o] = <<>>, rtask[a] # "write" PROVE PutN(a) = k
      OBVIOUS
    <2>1. x = 0
      BY <1>4
    <2>2. l = 0
      BY <1>3
    <2>3. m = 0
      BY <1>2, <1>3
    <2> QED
      BY <1>5, <2>1, <2>2, <2>3
  <1> QED
    BY <1>1, <1>3, <1>5, <1>7, <1>8

LEMMA StepRemoteWrites ==
  ASSUME BridgeInv, NEW a \in Side, RemoteWrites(a)
  PROVE  BridgeInv'
  <1>1. PICK p : p = Peer(a) /\ p \in Side /\ p # a
    BY PeerFact
  <1>2. BridgeTypes /\ TaskInv(a) /\ LoopTypes /\ WireTypes
    BY DEF BridgeInv, BridgeTypes
  <1>3. PICK o, f : o = opened[a] /\ f = out[a][1]
    OBVIOUS
  <1>4. /\ main[a] = "pump" /\ rtask[a] = "write" /\ Write(a, f)
        /\ out' = [out EXCEPT ![a] = <<>>] /\ rtask' = [rtask EXCEPT ![a] = "select"]
        /\ UNCHANGED <<mainVars, lost, acc, localVars, toRemote, toLocal>>
    BY <1>3 DEF RemoteWrites, In
  <1>5. /\ o \in Conn /\ PutN(a) \in Nat /\ sent[a][o] \in Nat
        /\ PutN(a) + Len(toRemote[a][o]) + Len(out[a]) <= sent[a][o]
        /\ Len(out[a]) = 1 /\ Len(toRemote[a][o]) \in Nat
    BY <1>2, <1>3, <1>4, PutFact DEF TaskInv
  <1>6. PICK n \in Nat : n = PutN(a) + 1 /\ n <= sent[a][o]
    <2>1. PICK k \in Nat, l \in Nat, m \in Nat : k = PutN(a) /\ l = Len(toRemote[a][o]) /\ m = sent[a][o]
      BY <1>5
    <2>2. k + l + 1 <= m
      BY <1>5, <2>1
    <2>3. k + 1 \in Nat /\ k + 1 <= m
      BY <2>2
    <2> QED
      BY <2>1, <2>3
  <1>7. f = Data(o, n) /\ f \in Frames
    <2>1. Run(out[a], o, PutN(a))
      BY <1>2, <1>3, <1>4 DEF TaskInv
    <2>2. 1 \in 1..Len(out[a])
      BY <1>5
    <2>3. f = Data(o, n)
      BY <2>1, <2>2, <1>3, <1>6 DEF Run
    <2> QED
      BY <2>3, <1>5, ChunkFact
  <1>8. /\ wire' \in [Side -> Seq(Frames)] /\ \A s \in Side : Len(wire'[s]) <= WireCap
        /\ wire'[a] = wire[a] /\ IsMore(Coming(p)', Coming(p), f)
    <2>1. acc'[p] = acc[p]
      BY <1>4
    <2> QED
      BY <2>1, <1>1, <1>2, <1>4, <1>7, WriteFact
  <1>9. out' \in [Side -> Seq(Frames)] /\ out'[a] = <<>> /\ out'[p] = out[p]
    <2>1. <<>> \in Seq(Frames)
      OBVIOUS
    <2> QED
      BY <1>1, <1>2, <1>4, <2>1 DEF WireTypes
  <1>10. BridgeTypes'
    <2>1. LoopTypes'
      BY <1>2, <1>4 DEF LoopTypes, mainVars
    <2>2. WireTypes'
      BY <1>2, <1>4, <1>8, <1>9 DEF WireTypes
    <2> QED
      BY <1>2, <1>4, <2>1, <2>2 DEF BridgeTypes, LocalTypes, ChannelTypes, localVars
  <1>11. rtask'[a] = "select" /\ rtask'[p] = rtask[p]
    BY <1>1, <1>2, <1>4 DEF LoopTypes
  <1>12. Still(p) /\ Alone(a)
    BY <1>4, <1>9, <1>11 DEF Still, Alone, mainVars, localVars
  <1>13. PutN(a)' = n
    <2>1. PICK k \in Nat, l \in Nat : k = sent[a][o] /\ l = Len(toRemote[a][o])
      BY <1>5
    <2>2. PICK x \in {0, 1} : x = IF ltask[a][o] = "send" THEN 1 ELSE 0
      OBVIOUS
    <2>3. PutN(a) = k - l - 1 - x
      BY <1>3, <1>5, <2>1, <2>2 DEF PutN
    <2>4. Len(out'[a]) = 0
      BY <1>9
    <2>5. PutN(a)' = k - l - 0 - x
      BY <1>3, <1>4, <2>1, <2>2, <2>4 DEF PutN, mainVars, localVars
    <2>6. (k - l - 1 - x) + 1 = k - l - 0 - x
      BY <2>2
    <2> QED
      BY <1>6, <2>3, <2>5, <2>6
  <1>14. TaskInv(a)'
    <2>1. Run(toRemote[a][o], o, n)
      BY <1>2, <1>3, <1>4, <1>5, <1>6 DEF TaskInv
    <2>2. Len(out'[a]) = 0 /\ n + 0 = n /\ Run(<<>>, o, n)
      BY <1>9 DEF Run
    <2>3. UNCHANGED <<main, opened, acc, ltask, toRemote>>
      BY <1>4 DEF mainVars, localVars
    <2>4. acc[a] = <<>> /\ opened[a] > 0 /\ ltask[a][o] # "none"
      BY <1>2, <1>3, <1>4 DEF TaskInv
    <2> QED
      BY <1>3, <1>4, <1>6, <1>9, <1>11, <1>13, <2>1, <2>2, <2>3, <2>4 DEF TaskInv
  <1>15. Frozen(a)
    BY <1>1, <1>4, <1>12, AloneFact DEF mainVars
  <1>16. /\ rtask[a] # "wait_end" /\ rtask'[a] # "wait_end" /\ main'[a] = "pump" /\ opened'[a] = opened[a]
         /\ n <= sent'[a][o]
    BY <1>4, <1>6, <1>11 DEF mainVars, localVars
  <1>17. Toward(p)'
    BY <1>1, <1>3, <1>4, <1>5, <1>6, <1>7, <1>8, <1>12, <1>13, <1>15, <1>16, PeerGetsData
  <1>18. Coming(a)' = Coming(a)
    BY <1>4, <1>8 DEF Coming
  <1> QED
    BY <1>1, <1>4, <1>10, <1>12, <1>14, <1>16, <1>17, <1>18, WriterStep

LEMMA StepRemoteWritesEnd ==
  ASSUME BridgeInv, NEW a \in Side, RemoteWritesEnd(a)
  PROVE  BridgeInv'
  <1>1. PICK p : p = Peer(a) /\ p \in Side /\ p # a /\ Peer(p) = a
    BY PeerFact
  <1>2. BridgeTypes /\ TaskInv(a) /\ LoopTypes /\ WireTypes
    BY DEF BridgeInv, BridgeTypes
  <1>3. PICK o : o = opened[a]
    OBVIOUS
  <1>4. /\ main[a] = "pump" /\ rtask[a] = "end" /\ Write(a, EndFrame)
        /\ rtask' = [rtask EXCEPT ![a] = "wait_end"]
        /\ UNCHANGED <<mainVars, lost, acc, out, localVars, toRemote, toLocal>>
    BY DEF RemoteWritesEnd, In
  <1>5. /\ o \in Conn /\ PutN(a) \in Nat /\ sent[a][o] \in Nat
        /\ ltask[a][o] = "over" /\ toRemote[a][o] = <<>> /\ PutN(a) = sent[a][o]
    BY <1>2, <1>3, <1>4, PutFact DEF TaskInv, LocalOver
  <1>6. EndFrame \in Frames
    BY <1>5, ChunkFact
  <1>7. /\ wire' \in [Side -> Seq(Frames)] /\ \A s \in Side : Len(wire'[s]) <= WireCap
        /\ wire'[a] = wire[a] /\ IsMore(Coming(p)', Coming(p), EndFrame)
    <2>1. acc'[p] = acc[p]
      BY <1>4
    <2> QED
      BY <2>1, <1>1, <1>2, <1>4, <1>6, WriteFact
  <1>8. BridgeTypes'
    <2>1. LoopTypes'
      BY <1>2, <1>4 DEF LoopTypes, mainVars
    <2>2. WireTypes'
      BY <1>2, <1>4, <1>7 DEF WireTypes
    <2> QED
      BY <1>2, <1>4, <2>1, <2>2 DEF BridgeTypes, LocalTypes, ChannelTypes, localVars
  <1>9. rtask'[a] = "wait_end" /\ rtask'[p] = rtask[p]
    BY <1>1, <1>2, <1>4 DEF LoopTypes
  <1>10. Still(p) /\ Alone(a)
    BY <1>4, <1>9 DEF Still, Alone, mainVars, localVars
  <1>11. PutN(a)' = PutN(a)
    BY <1>4 DEF PutN, mainVars, localVars
  <1>12. TaskInv(a)'
    <2>1. UNCHANGED <<main, opened, acc, out, ltask, toRemote>>
      BY <1>4 DEF mainVars, localVars
    <2> QED
      BY <1>2, <1>3, <1>4, <1>5, <1>9, <1>11, <2>1 DEF TaskInv, LocalOver
  <1>13. Frozen(a)
    BY <1>1, <1>4, <1>10, AloneFact DEF mainVars
  <1>14. rtask[a] # "wait_end" /\ main'[a] = "pump" /\ opened'[a] = opened[a]
    BY <1>4 DEF mainVars
  <1>15. Means(p, o, PutN(a))
    BY <1>1, <1>5 DEF Means
  <1>16. Toward(p)'
    BY <1>1, <1>3, <1>4, <1>5, <1>7, <1>9, <1>10, <1>11, <1>13, <1>14, <1>15, PeerGetsEnd
  <1>17. Coming(a)' = Coming(a)
    BY <1>4, <1>7 DEF Coming
  <1> QED
    BY <1>1, <1>4, <1>8, <1>9, <1>10, <1>12, <1>14, <1>16, <1>17, WriterStep

-----------------------------------------------------------------------------
(* Steps that take what has come *)

\* With data or an end in hand, both sides are on the same connection.
LEMMA TakerFact ==
  ASSUME BridgeInv, NEW a \in Side, NEW p, p = Peer(a), main[a] = "pump", rtask[a] \in {"take", "wait_end"},
         acc[a] # <<>>
  PROVE  /\ opened[a] \in Conn /\ Coming(a)[1] = acc[a][1] /\ Len(Coming(a)) >= 1
         /\ (opened[p] = opened[a] /\ Flow(a, 0)) \/ (a = "host" /\ Ahead(a) /\ rtask[a] = "wait_end" /\ Late(a))
  <1>1. BridgeTypes /\ WireTypes /\ TaskInv(a) /\ Toward(a)
    BY DEF BridgeInv, BridgeTypes
  <1>2. IsPast(Tail(acc[a]) \o wire[a], Coming(a), 1) /\ Coming(a)[1] = acc[a][1]
    BY <1>1, WireFact, JoinRest DEF Coming
  <1>3. Coming(a) \in Seq(Frames) /\ Len(Coming(a)) >= 1
    BY <1>1, <1>2, WireFact DEF IsPast
  <1>4. Coming(a) # <<>>
    BY <1>3
  <1>5. opened[a] \in Conn
    BY <1>1, PresentConn DEF TaskInv
  <1> QED
    BY <1>1, <1>2, <1>3, <1>4, <1>5 DEF Toward, Nothing, Equal

\* A flow whose first frame is the end holds nothing else.
LEMMA EndComes ==
  ASSUME BridgeTypes, NEW a \in Side, NEW p, p = Peer(a), opened[p] \in Conn, Flow(a, 0),
         Len(Coming(a)) >= 1, Coming(a)[1] = EndFrame
  PROVE  /\ Len(Coming(a)) = 1 /\ Over(p)
         /\ \E n \in Nat : Means(a, opened[p], n) /\ Recv(a, opened[p], n) /\ n <= sent[p][opened[p]]
  <1>1. PICK b \in Nat, n \in Nat, e \in {0, 1} : Carries(a, 0, b, n, e)
    BY DEF Flow
  <1>2. PICK q : q = Coming(a)
    OBVIOUS
  <1>3. /\ b <= n /\ Len(q) = 0 + (n - b) + e /\ \A i \in 1..(n - b) : q[0 + i] = Data(opened[p], b + i)
        /\ (e = 1 => Means(a, opened[p], n)) /\ Link(p, n, e) /\ Recv(a, opened[p], b)
    BY <1>1, <1>2 DEF Carries
  <1>4. b = n
    <2>1. CASE b < n
      <3>1. 1 \in 1..(n - b) /\ 0 + 1 = 1 /\ b + 1 \in Nat
        BY <2>1
      <3>2. q[1] = Data(opened[p], b + 1)
        BY <3>1, <1>3
      <3> QED
        BY <3>1, <3>2, <1>2, ChunkFact
    <2> QED
      BY <2>1, <1>3
  <1>5. e = 1 /\ Len(q) = 1
    BY <1>2, <1>3, <1>4
  <1>6. Over(p)
    BY <1>3, <1>5 DEF Link, Over
  <1>7. Means(a, opened[p], n) /\ Recv(a, opened[p], n) /\ n <= sent[p][opened[p]]
    BY <1>3, <1>4, <1>5 DEF Link
  <1> QED
    BY <1>2, <1>5, <1>6, <1>7

\* Frames before a flow are dropped.
LEMMA FlowShift ==
  ASSUME BridgeTypes, NEW s \in Side, NEW p, p = Peer(s), opened[p] \in Conn, Still(p), Frozen(s),
         \A c \in Conn, b \in Nat : Recv(s, c, b) => Recv(s, c, b)',
         NEW j \in Nat, NEW k \in Nat, k <= j, IsPast(Coming(s)', Coming(s), k), Flow(s, j)
  PROVE  Flow(s, j - k)'
  <1>1. p \in Side
    BY PeerFact
  <1>2. PICK b \in Nat, n \in Nat, e \in {0, 1} : Carries(s, j, b, n, e)
    BY DEF Flow
  <1>3. PICK c \in Conn : c = opened[p] /\ c = opened'[p]
    BY DEF Still
  <1>4. PICK q, r : q = Coming(s) /\ r = Coming(s)'
    OBVIOUS
  <1>5. /\ b <= n /\ Len(q) = j + (n - b) + e /\ (e = 1 => q[j + (n - b) + 1] = EndFrame)
        /\ \A i \in 1..(n - b) : q[j + i] = Data(c, b + i)
    BY <1>2, <1>3, <1>4 DEF Carries
  <1>6. k <= Len(q) /\ Len(r) = Len(q) - k /\ \A i \in 1..Len(r) : r[i] = q[i + k]
    BY <1>4 DEF IsPast
  <1>7. PICK m \in Nat : m = j - k /\ m + k = j
    OBVIOUS
  <1>8. Len(r) = m + (n - b) + e
    <2>1. PICK x \in Nat : x = j + (n - b) + e
      BY <1>5
    <2>2. Len(r) = x - k
      BY <2>1, <1>5, <1>6
    <2>3. x - k = m + (n - b) + e
      BY ONLY <2>1, <1>7, j \in Nat, k \in Nat, b \in Nat, n \in Nat, e \in {0, 1}
    <2> QED
      BY ONLY <2>2, <2>3
  <1>9. ASSUME NEW i \in 1..(n - b)
        PROVE  r[m + i] = Data(c, b + i)
    <2>1. m + i \in 1..Len(r) /\ (m + i) + k = j + i
      BY <1>5, <1>7, <1>8
    <2> QED
      BY <2>1, <1>5, <1>6
  <1>10. e = 1 => r[m + (n - b) + 1] = EndFrame
    <2> SUFFICES ASSUME e = 1 PROVE r[m + (n - b) + 1] = EndFrame
      OBVIOUS
    <2>1. m + (n - b) + 1 \in 1..Len(r) /\ (m + (n - b) + 1) + k = j + (n - b) + 1
      BY <1>5, <1>7, <1>8
    <2> QED
      BY <2>1, <1>5, <1>6
  <1>11. Frozen(p) /\ Keeps(p) /\ opened'[p] = opened[p]
    BY <1>1, StillFact DEF Still
  <1>12. Link(p, n, e)'
    <2>1. Link(p, n, e)
      BY <1>2 DEF Carries
    <2> QED
      BY <2>1, <1>1, <1>11, LinkKept
  <1>13. e = 1 => Means(s, c, n)'
    <2>1. e = 1 => Means(s, c, n)
      BY <1>2, <1>3 DEF Carries
    <2> QED
      BY <2>1, <1>11, MeansKept
  <1>14. Recv(s, c, b)'
    BY <1>2, <1>3 DEF Carries
  <1>15. Carries(s, m, b, n, e)'
    BY <1>3, <1>4, <1>5, <1>8, <1>9, <1>10, <1>12, <1>13, <1>14 DEF Carries
  <1> QED
    BY <1>7, <1>15 DEF Flow

LEMMA StepTakeData ==
  ASSUME BridgeInv, NEW a \in Side, TakeData(a)
  PROVE  BridgeInv'
  <1>1. PICK p : p = Peer(a) /\ p \in Side /\ p # a
    BY PeerFact
  <1>2. /\ BridgeTypes /\ TaskInv(a) /\ LocalTypes /\ ChannelTypes /\ WireTypes
        /\ \A c \in Conn : ChainInv(a, c) /\ SettledInv(a, c)
    BY DEF BridgeInv, BridgeTypes
  <1>3. PICK o, f, q, r : o = opened[a] /\ f = acc[a][1] /\ q = toLocal[a][o] /\ r = Append(q, f)
    OBVIOUS
  <1>4. /\ main[a] = "pump" /\ rtask[a] = "take" /\ acc[a] # <<>> /\ f.kind = "data"
        /\ ltask[a][o] # "over" /\ Len(q) < Cap
        /\ UNCHANGED <<mainVars, wire, lost, rtask, out, localVars, toRemote>>
        /\ toLocal' = [toLocal EXCEPT ![a][o] = r] /\ acc' = [acc EXCEPT ![a] = Tail(@)]
    BY <1>3 DEF TakeData, In, LocalOver, HasRoom
  <1>5. /\ o \in Conn /\ Coming(a)[1] = f /\ opened[p] = o /\ Flow(a, 0)
    BY <1>1, <1>3, <1>4, TakerFact
  <1>6. /\ acc' \in [Side -> Seq(Frames)] /\ acc'[p] = acc[p]
        /\ IsPast(Coming(a)', Coming(a), 1) /\ f \in Frames
    BY <1>1, <1>2, <1>3, <1>4, TakenFact
  <1>7. q \in Seq(Frames) /\ Len(q) \in Nat /\ Len(got[a][o]) \in Nat
    BY <1>2, <1>3, <1>5, ConnFact
  <1>8. r \in Seq(Frames) /\ Len(r) = Len(q) + 1 /\ r[Len(r)] = f /\ \A i \in 1..Len(q) : r[i] = q[i]
    BY <1>3, <1>6, <1>7, AppendFact DEF IsMore
  <1>9. /\ toLocal' \in [Side -> [Conn -> Seq(Frames)]] /\ toLocal'[a][o] = r /\ toLocal'[p] = toLocal[p]
        /\ \A t \in Side, c \in Conn : (t = a /\ c = o) \/ toLocal'[t][c] = toLocal[t][c]
    BY ONLY <1>1, <1>2, <1>4, <1>5, <1>8, UpdateFact, a \in Side DEF ChannelTypes
  <1>10. PICK k \in Nat, l \in Nat : k = Len(got[a][o]) /\ l = Len(q) /\ Len(r) = l + 1 /\ l < Cap
    BY <1>4, <1>7, <1>8
  <1>11. BridgeTypes'
    <2>1. \A t \in Side, c \in Conn : Len(toLocal'[t][c]) <= Cap
      <3>1. Len(r) <= Cap
        BY <1>10, BridgeSizes
      <3> QED
        BY <1>2, <1>9, <3>1 DEF ChannelTypes
    <2>2. ChannelTypes'
      BY <1>2, <1>4, <1>9, <2>1 DEF ChannelTypes
    <2>3. WireTypes'
      BY <1>2, <1>4, <1>6 DEF WireTypes
    <2> QED
      BY <1>2, <1>4, <2>2, <2>3 DEF BridgeTypes, LoopTypes, LocalTypes, mainVars, localVars
  <1>12. Still(p)
    BY <1>4, <1>6, <1>9 DEF Still, mainVars, localVars
  <1>13. Frozen(a)
    BY <1>2, <1>4, ConnFact DEF Frozen, localVars
  <1>14. Had(a, o)' = k + l + 1 /\ Had(a, o) = k + l /\ \A c \in Conn : c # o => Had(a, c)' = Had(a, c)
    <2>1. Had(a, o)' = k + (l + 1) /\ Had(a, o) = k + l
      BY <1>3, <1>4, <1>9, <1>10 DEF Had, localVars
    <2>2. \A c \in Conn : c # o => Had(a, c)' = Had(a, c)
      BY <1>4, <1>9 DEF Had, localVars
    <2> QED
      BY <2>1, <2>2
  <1>15. PICK b \in Nat, n \in Nat, e \in {0, 1} : Carries(a, 0, b, n, e)
    BY <1>5 DEF Flow
  <1>16. b = k + l /\ n <= sent[p][o]
    BY <1>1, <1>4, <1>5, <1>14, <1>15 DEF Carries, Recv, Link
  <1>17. Recv(a, o, b + 1)'
    BY <1>14, <1>16 DEF Recv
  <1>18. b < n /\ f = Data(o, b + 1) /\ Flow(a, 0)'
    BY <1>1, <1>2, <1>4, <1>5, <1>6, <1>12, <1>13, <1>15, <1>17, FlowTaken
  <1>19. Toward(a)'
    BY <1>1, <1>3, <1>4, <1>5, <1>18 DEF Toward, Equal, mainVars
  <1>20. PutN(a)' = PutN(a) /\ Coming(p)' = Coming(p)
    BY <1>4, <1>6 DEF PutN, Coming, mainVars, localVars
  <1>21. Keeps(a) /\ (Over(a) => Over(a)') /\ opened'[a] = opened[a]
    BY <1>4, <1>20 DEF Keeps, Over, mainVars
  <1>22. Toward(p)'
    BY <1>1, <1>12, <1>13, <1>20, <1>21, PeerQuiet
  <1>23. TaskInv(a)'
    <2>1. UNCHANGED <<main, opened, rtask, out, ltask, sent, toRemote>>
      BY <1>4 DEF mainVars, localVars
    <2> QED
      BY <1>2, <1>4, <1>20, <2>1 DEF TaskInv, LocalOver
  <1>24. ASSUME NEW c \in Conn
         PROVE  ChainInv(a, c)' /\ SettledInv(a, c)'
    <2>1. UNCHANGED <<main, opened, ltask, got, sent, toRemote>>
      BY <1>4 DEF mainVars, localVars
    <2>2. CASE c # o
      <3>1. toLocal'[a][c] = toLocal[a][c] /\ Had(a, c)' = Had(a, c)
        BY <2>2, <1>9, <1>14
      <3>2. CutOff(a, c)' <=> CutOff(a, c)
        BY <2>1 DEF CutOff
      <3> QED
        BY <1>2, <2>1, <3>1, <3>2 DEF ChainInv, SettledInv
    <2>3. CASE c = o
      <3>1. Run(q, o, k) /\ Run(got[a][o], o, 0)
        BY <1>2, <1>3, <1>5, <1>10 DEF ChainInv
      <3>2. Run(r, o, k)
        <4>1. \A i \in 1..l : q[i] = Data(o, k + i)
          BY <3>1, <1>10 DEF Run
        <4>2. ASSUME NEW i \in 1..(l + 1)
              PROVE  r[i] = Data(o, k + i)
          <5>1. CASE i \in 1..l
            BY <5>1, <4>1, <1>8, <1>10
          <5>2. CASE i = l + 1
            <6>1. k + i = b + 1
              BY <5>2, <1>16
            <6> QED
              BY <6>1, <5>2, <1>8, <1>10, <1>18
          <5> QED
            BY <5>1, <5>2
        <4> QED
          BY <4>2, <1>10 DEF Run
      <3>3. Had(a, c)' <= sent'[Peer(a)][c]
        <4>1. sent[p][o] \in Nat
          BY <1>1, <1>2, <1>5, ConnFact
        <4>2. b + 1 <= sent[p][o]
          BY <4>1, <1>16, <1>18
        <4>3. Had(a, o)' = b + 1
          BY <1>14, <1>16
        <4> QED
          BY <4>2, <4>3, <2>1, <2>3, <1>1
      <3>4. ~(c > opened[a]) /\ ltask[a][c] # "over"
        BY <2>3, <1>3, <1>4, <1>5, BridgeSizes
      <3>5. ChainInv(a, c)'
        BY <2>1, <2>3, <3>1, <3>2, <3>3, <3>4, <1>9, <1>10 DEF ChainInv
      <3>6. SettledInv(a, c)'
        BY <2>1, <2>3, <1>3, <1>4, <1>5, BridgeSizes DEF SettledInv
      <3> QED
        BY <3>5, <3>6
    <2> QED
      BY <2>2, <2>3
  <1> QED
    BY <1>1, <1>11, <1>12, <1>13, <1>19, <1>22, <1>23, <1>24, Assemble

LEMMA StepWaitDrops ==
  ASSUME BridgeInv, NEW a \in Side, WaitDrops(a)
  PROVE  BridgeInv'
  <1>1. PICK p : p = Peer(a) /\ p \in Side /\ p # a
    BY PeerFact
  <1>2. BridgeTypes /\ TaskInv(a) /\ WireTypes
    BY DEF BridgeInv, BridgeTypes
  <1>3. PICK o : o = opened[a]
    OBVIOUS
  <1>4. /\ main[a] = "pump" /\ rtask[a] = "wait_end" /\ acc[a] # <<>> /\ acc[a][1].kind = "data"
        /\ UNCHANGED <<mainVars, wire, lost, rtask, out, localVars, toRemote, toLocal>>
        /\ acc' = [acc EXCEPT ![a] = Tail(@)]
    BY DEF WaitDrops, In
  <1>5. /\ o \in Conn /\ Coming(a)[1].kind = "data" /\ Len(Coming(a)) >= 1
        /\ (opened[p] = o /\ Flow(a, 0)) \/ (a = "host" /\ Ahead(a) /\ Late(a))
    BY <1>1, <1>3, <1>4, TakerFact
  <1>6. /\ acc' \in [Side -> Seq(Frames)] /\ acc'[p] = acc[p] /\ IsPast(Coming(a)', Coming(a), 1)
    BY <1>1, <1>2, <1>4, TakenFact
  <1>7. BridgeTypes'
    <2>1. WireTypes'
      BY <1>2, <1>4, <1>6 DEF WireTypes
    <2> QED
      BY <1>2, <1>4, <2>1 DEF BridgeTypes, LoopTypes, LocalTypes, ChannelTypes, mainVars, localVars
  <1>8. Still(p) /\ Alone(a)
    BY <1>4, <1>6 DEF Still, Alone, mainVars, localVars
  <1>9. /\ Frozen(a) /\ \A c \in Conn : ChainInv(a, c)' /\ SettledInv(a, c)'
        /\ \A c \in Conn, b \in Nat : Recv(a, c, b) => Recv(a, c, b)'
    BY <1>1, <1>4, <1>8, AloneFact DEF mainVars
  <1>10. PutN(a)' = PutN(a) /\ Coming(p)' = Coming(p)
    BY <1>4, <1>6 DEF PutN, Coming, mainVars, localVars
  <1>11. Keeps(a) /\ (Over(a) => Over(a)') /\ opened'[a] = opened[a]
    BY <1>4, <1>10 DEF Keeps, Over, mainVars
  <1>12. Toward(p)'
    BY <1>1, <1>8, <1>9, <1>10, <1>11, PeerQuiet
  <1>13. TaskInv(a)'
    <2>1. UNCHANGED <<main, opened, rtask, out, ltask, sent, toRemote>>
      BY <1>4 DEF mainVars, localVars
    <2> QED
      BY <1>2, <1>4, <1>10, <2>1 DEF TaskInv, LocalOver
  <1>14. CASE opened[p] = o /\ Flow(a, 0)
    <2>1. PICK b \in Nat, n \in Nat, e \in {0, 1} : Carries(a, 0, b, n, e)
      BY <1>14 DEF Flow
    <2>2. ltask[a][o] = "over" /\ Had(a, o) \in Nat
      BY <1>2, <1>3, <1>4, <1>5, ConnFact DEF TaskInv, LocalOver
    <2>3. Had(a, o) <= b
      BY <1>1, <1>14, <2>1 DEF Carries, Recv
    <2>4. Had(a, o)' = Had(a, o) /\ ltask'[a][o] = "over"
      BY <1>4, <2>2 DEF Had, localVars
    <2>5. Recv(a, o, b + 1)'
      BY <2>2, <2>3, <2>4 DEF Recv
    <2>6. Flow(a, 0)'
      BY <1>1, <1>2, <1>5, <1>6, <1>8, <1>9, <1>14, <2>1, <2>5, FlowTaken
    <2>7. Toward(a)'
      BY <1>1, <1>3, <1>4, <1>14, <2>6 DEF Toward, Equal, mainVars
    <2> QED
      BY <1>1, <1>7, <1>8, <1>9, <1>12, <1>13, <2>7, Assemble
  <1>15. CASE a = "host" /\ Ahead(a) /\ Late(a)
    <2>1. PICK j \in 2..Len(Coming(a)) :
             /\ Coming(a)[j] = Cnew /\ Coming(a)[j - 1] = EndFrame /\ Flow(a, j)
             /\ \A i \in 1..(j - 2) : Coming(a)[i].kind = "data"
      BY <1>15 DEF Late
    <2>2. PICK x, y : x = Coming(a) /\ y = Coming(a)'
      OBVIOUS
    <2>3. Len(y) = Len(x) - 1 /\ \A i \in 1..Len(y) : y[i] = x[i + 1]
      BY <1>6, <2>2 DEF IsPast
    <2>4. Len(x) \in Nat
      BY <1>2, <2>2, SideFact
    <2>5. j # 2
      <3>1. EndFrame.kind # "data"
        BY DEF EndFrame
      <3> QED
        BY <1>5, <2>1, <3>1
    <2>6. PICK k \in Nat : k = j - 1 /\ k \in 2..Len(y) /\ k - 1 \in 1..Len(y) /\ (k - 1) + 1 = j - 1 /\ k + 1 = j
      BY <2>1, <2>2, <2>3, <2>4, <2>5
    <2>7. y[k] = Cnew /\ y[k - 1] = EndFrame
      BY <2>1, <2>2, <2>3, <2>6
    <2>8. \A i \in 1..(k - 2) : y[i].kind = "data"
      <3> TAKE i \in 1..(k - 2)
      <3>1. i + 1 \in 1..(j - 2) /\ i \in 1..Len(y)
        BY <2>6
      <3> QED
        BY <3>1, <2>1, <2>2, <2>3
    <2>9. opened[p] \in Conn
      <3>1. opened[p] \in Nat /\ opened[a] \in Nat
        BY <1>1, <1>2, SideFact
      <3>2. opened[p] > 0
        BY <1>1, <1>15, <3>1 DEF Ahead
      <3> QED
        BY <1>1, <1>2, <3>2, PresentConn
    <2>10. Flow(a, k)'
      <3>1. j \in Nat /\ 1 \in Nat /\ 1 <= j /\ j - 1 = k
        BY <2>1, <2>6
      <3>2. Flow(a, j)
        BY <2>1
      <3> QED
        BY <3>1, <3>2, <1>1, <1>2, <1>6, <1>8, <1>9, <2>9, FlowShift
    <2>11. Late(a)'
      BY <2>2, <2>6, <2>7, <2>8, <2>10 DEF Late
    <2>12. Ahead(a)'
      BY <1>4, <1>15 DEF Ahead, mainVars
    <2>13. Toward(a)'
      BY <1>4, <1>15, <2>11, <2>12 DEF Toward, mainVars
    <2> QED
      BY <1>1, <1>7, <1>8, <1>9, <1>12, <1>13, <2>13, Assemble
  <1> QED
    BY <1>5, <1>14, <1>15

LEMMA StepTakeUnwanted ==
  ASSUME BridgeInv, NEW a \in Side, TakeUnwanted(a)
  PROVE  BridgeInv'
  <1>1. PICK p : p = Peer(a) /\ p \in Side /\ p # a /\ Peer(p) = a
    BY PeerFact
  <1>2. BridgeTypes /\ TaskInv(a) /\ LoopTypes /\ WireTypes
    BY DEF BridgeInv, BridgeTypes
  <1>3. PICK o : o = opened[a]
    OBVIOUS
  <1>4. /\ main[a] = "pump" /\ rtask[a] = "take" /\ acc[a] # <<>> /\ acc[a][1].kind = "data"
        /\ ltask[a][o] = "over" /\ Write(a, EndFrame)
        /\ UNCHANGED <<mainVars, lost, out, localVars, toRemote, toLocal>>
        /\ acc' = [acc EXCEPT ![a] = Tail(@)] /\ rtask' = [rtask EXCEPT ![a] = "wait_end"]
    BY <1>3 DEF TakeUnwanted, In, LocalOver
  <1>5. /\ o \in Conn /\ Coming(a)[1].kind = "data" /\ opened[p] = o /\ Flow(a, 0)
    BY <1>1, <1>3, <1>4, TakerFact
  <1>6. EndFrame \in Frames
    BY <1>5, ChunkFact
  <1>7. /\ wire' \in [Side -> Seq(Frames)] /\ \A s \in Side : Len(wire'[s]) <= WireCap
        /\ wire'[a] = wire[a] /\ (acc'[p] = acc[p] => IsMore(Coming(p)', Coming(p), EndFrame))
    BY <1>1, <1>2, <1>4, <1>6, WriteFact
  <1>8. /\ acc' \in [Side -> Seq(Frames)] /\ acc'[p] = acc[p] /\ IsPast(Coming(a)', Coming(a), 1)
    BY <1>1, <1>2, <1>4, <1>7, TakenFact
  <1>9. BridgeTypes'
    <2>1. LoopTypes'
      BY <1>2, <1>4 DEF LoopTypes, mainVars
    <2>2. WireTypes'
      BY <1>2, <1>4, <1>7, <1>8 DEF WireTypes
    <2> QED
      BY <1>2, <1>4, <2>1, <2>2 DEF BridgeTypes, LocalTypes, ChannelTypes, localVars
  <1>10. rtask'[a] = "wait_end" /\ rtask'[p] = rtask[p]
    BY <1>1, <1>2, <1>4 DEF LoopTypes
  <1>11. Still(p) /\ Alone(a)
    BY <1>4, <1>8, <1>10 DEF Still, Alone, mainVars, localVars
  <1>12. /\ Frozen(a) /\ \A c \in Conn : ChainInv(a, c)' /\ SettledInv(a, c)'
    BY <1>1, <1>4, <1>11, AloneFact DEF mainVars
  <1>13. PutN(a)' = PutN(a)
    BY <1>4 DEF PutN, mainVars, localVars
  <1>14. PICK b \in Nat, n \in Nat, e \in {0, 1} : Carries(a, 0, b, n, e)
    BY <1>5 DEF Flow
  <1>15. Had(a, o) <= b /\ n <= sent[p][o]
    BY <1>1, <1>5, <1>14 DEF Carries, Recv, Link
  <1>16. Had(a, o) \in Nat /\ Len(got[a][o]) \in Nat /\ sent[p][o] \in Nat /\ Len(toLocal[a][o]) \in Nat
    BY <1>1, <1>2, <1>5, ConnFact
  <1>17. Recv(a, o, b + 1)'
    <2>1. Had(a, o)' = Had(a, o) /\ ltask'[a][o] = "over"
      BY <1>4 DEF Had, localVars
    <2> QED
      BY <2>1, <1>15, <1>16 DEF Recv
  <1>18. b < n /\ Flow(a, 0)'
    BY <1>1, <1>2, <1>5, <1>8, <1>11, <1>12, <1>14, <1>17, FlowTaken
  <1>19. Toward(a)'
    BY <1>1, <1>3, <1>4, <1>5, <1>18 DEF Toward, Equal, mainVars
  <1>20. CutOff(p, o)
    <2>1. PICK k \in Nat, l \in Nat : k = Len(got[a][o]) /\ l = Len(toLocal[a][o])
      BY <1>16
    <2>2. Had(a, o) = k + l
      BY <2>1 DEF Had
    <2>3. k < sent[p][o]
      BY <2>2, <1>15, <1>16, <1>18
    <2> QED
      BY <2>1, <2>3, <1>1, <1>4 DEF CutOff
  <1>21. Means(p, o, PutN(a))
    BY <1>1, <1>4, <1>20 DEF Means
  <1>22. rtask[a] # "wait_end" /\ main'[a] = "pump" /\ opened'[a] = opened[a]
    BY <1>4 DEF mainVars
  <1>23. Toward(p)'
    BY <1>1, <1>3, <1>4, <1>5, <1>7, <1>8, <1>10, <1>11, <1>12, <1>13, <1>21, <1>22, PeerGetsEnd
  <1>24. TaskInv(a)'
    <2>1. UNCHANGED <<main, opened, out, ltask, sent, toRemote>>
      BY <1>4 DEF mainVars, localVars
    <2> QED
      BY <1>2, <1>3, <1>4, <1>10, <1>13, <2>1 DEF TaskInv, LocalOver
  <1> QED
    BY <1>1, <1>9, <1>11, <1>12, <1>19, <1>23, <1>24, Assemble

\* The pump ends: the loop goes on or the session is over.
LEMMA FinishFact ==
  ASSUME BridgeInv, NEW a \in Side, NEW p, p = Peer(a), main[a] = "pump", rtask[a] # "write", Finish(a, "conn"),
         UNCHANGED <<opened, lost, out>>, wire'[a] = wire[a]
  PROVE  /\ LoopTypes' /\ acc' \in [Side -> Seq(Frames)] /\ acc'[a] = <<>> /\ acc'[p] = acc[p]
         /\ main'[p] = main[p] /\ rtask'[p] = rtask[p] /\ TaskInv(a)'
         /\ main'[a] = "ended" \/ (main'[a] = Between[a] /\ main'[a] \in {"accept", "wait"})
         /\ Coming(a)' = wire[a] /\ IsPast(Coming(a)', Coming(a), Len(acc[a]))
  <1>1. p \in Side /\ p # a
    BY PeerFact
  <1>2. LoopTypes /\ WireTypes /\ BridgeTypes /\ TaskInv(a)
    BY DEF BridgeInv, BridgeTypes
  <1>3. PICK m : /\ m = IF opened[a] < MaxConns THEN Between[a] ELSE "ended"
                 /\ main' = [main EXCEPT ![a] = m]
    BY DEF Finish, GoesOn
  <1>4. (m = "ended" \/ (m = Between[a] /\ opened[a] < MaxConns /\ m \in {"accept", "wait"}))
        /\ (a = "guest" => m \in {"accept", "ended"}) /\ (a = "host" => m \in {"wait", "ended"})
    BY <1>3 DEF Between, Side
  <1>5. acc' = [acc EXCEPT ![a] = <<>>] /\ rtask' = [rtask EXCEPT ![a] = "none"]
    BY DEF Finish
  <1>6. /\ acc' \in [Side -> Seq(Frames)] /\ acc'[p] = acc[p] /\ acc'[a] = <<>>
        /\ Coming(a)' = wire[a] /\ IsPast(Coming(a)', Coming(a), Len(acc[a]))
    BY <1>1, <1>2, <1>5, DroppedFact
  <1>7. main'[a] = m /\ main'[p] = main[p] /\ rtask'[a] = "none" /\ rtask'[p] = rtask[p]
    BY <1>1, <1>2, <1>3, <1>5 DEF LoopTypes
  <1>8. LoopTypes'
    <2>1. main' \in [Side -> {"accept", "wait", "dial", "pump", "ended"}]
      BY <1>2, <1>3, <1>4 DEF LoopTypes
    <2>2. main'["guest"] \in {"accept", "pump", "ended"} /\ main'["host"] \in {"wait", "dial", "pump", "ended"}
      <3>1. "guest" \in Side /\ "host" \in Side
        BY DEF Side
      <3> QED
        BY <3>1, <1>2, <1>3, <1>4 DEF LoopTypes
    <2>3. rtask' \in [Side -> {"none", "select", "take", "write", "end", "wait_end"}]
      BY <1>2, <1>5 DEF LoopTypes
    <2> QED
      BY <1>2, <2>1, <2>2, <2>3 DEF LoopTypes
  <1>9. TaskInv(a)'
    <2>1. out[a] = <<>>
      <3>1. out[a] \in Seq(Frames) /\ Len(out[a]) = 0
        BY <1>2, WireFact DEF TaskInv
      <3> QED
        BY <3>1
    <2> QED
      BY <2>1, <1>4, <1>6, <1>7 DEF TaskInv
  <1> QED
    BY <1>4, <1>6, <1>7, <1>8, <1>9

LEMMA StepWaitEnds ==
  ASSUME BridgeInv, NEW a \in Side, WaitEnds(a)
  PROVE  BridgeInv'
  <1>1. PICK p : p = Peer(a) /\ p \in Side /\ p # a
    BY PeerFact
  <1>2. BridgeTypes /\ TaskInv(a) /\ WireTypes
    BY DEF BridgeInv, BridgeTypes
  <1>3. PICK o : o = opened[a]
    OBVIOUS
  <1>4. /\ main[a] = "pump" /\ rtask[a] = "wait_end" /\ acc[a] # <<>> /\ acc[a][1] = EndFrame
        /\ Finish(a, "conn") /\ UNCHANGED <<opened, wire, lost, out, localVars, toRemote, toLocal>>
    BY DEF WaitEnds, In, IsEnd
  <1>5. /\ o \in Conn /\ Coming(a)[1] = EndFrame /\ Len(Coming(a)) >= 1
        /\ (opened[p] = o /\ Flow(a, 0)) \/ (a = "host" /\ Ahead(a) /\ Late(a))
    BY <1>1, <1>3, <1>4, TakerFact
  <1>6. /\ LoopTypes' /\ acc' \in [Side -> Seq(Frames)] /\ acc'[a] = <<>> /\ acc'[p] = acc[p]
        /\ main'[p] = main[p] /\ rtask'[p] = rtask[p] /\ TaskInv(a)'
        /\ main'[a] = "ended" \/ (main'[a] = Between[a] /\ main'[a] \in {"accept", "wait"})
        /\ Coming(a)' = wire[a] /\ IsPast(Coming(a)', Coming(a), Len(acc[a]))
    BY <1>1, <1>4, FinishFact
  <1>7. BridgeTypes'
    <2>1. WireTypes'
      BY <1>2, <1>4, <1>6 DEF WireTypes
    <2> QED
      BY <1>2, <1>4, <1>6, <2>1 DEF BridgeTypes, LocalTypes, ChannelTypes, localVars
  <1>8. Still(p) /\ Alone(a)
    BY <1>4, <1>6 DEF Still, Alone, localVars
  <1>9. /\ Frozen(a) /\ \A c \in Conn : ChainInv(a, c)' /\ SettledInv(a, c)'
        /\ \A c \in Conn, b \in Nat : Recv(a, c, b) => Recv(a, c, b)'
    <2>1. ltask[a][opened[a]] = "over"
      BY <1>2, <1>4 DEF TaskInv, LocalOver
    <2> QED
      BY <2>1, <1>1, <1>8, AloneFact
  <1>10. Coming(p)' = Coming(p) /\ opened'[a] = opened[a] /\ opened'[p] = opened[p]
    BY <1>4, <1>6 DEF Coming
  <1>11. Keeps(a) /\ (Over(a) => Over(a)')
    BY <1>4, <1>6 DEF Keeps, Over
  <1>12. Toward(p)'
    BY <1>1, <1>8, <1>9, <1>10, <1>11, PeerQuiet
  <1>13. /\ Coming(a) \in Seq(Frames) /\ Coming(a)' \in Seq(Frames) /\ Len(acc[a]) >= 1 /\ Len(acc[a]) \in Nat
         /\ Len(Coming(a)) \in Nat
    <2>1. acc[a] \in Seq(Frames) /\ Coming(a) \in Seq(Frames) /\ wire[a] \in Seq(Frames)
      BY <1>2, WireFact
    <2>2. Len(acc[a]) >= 1
      BY <2>1, <1>4, TailFact
    <2> QED
      BY <2>1, <2>2, <1>6
  <1>14. CASE main'[a] = "ended"
    <2>1. Toward(a)'
      BY <1>14 DEF Toward
    <2> QED
      BY <1>1, <1>6, <1>7, <1>8, <1>9, <1>12, <2>1, Assemble
  <1>15. CASE main'[a] = Between[a] /\ main'[a] \in {"accept", "wait"} /\ opened[p] = o /\ Flow(a, 0)
    <2>1. Len(Coming(a)) = 1 /\ Over(p)
      BY <1>1, <1>2, <1>5, <1>15, EndComes
    <2>2. Coming(a)' = <<>>
      <3>1. PICK y : y = Coming(a)'
        OBVIOUS
      <3>2. y \in Seq(Frames) /\ Len(acc[a]) <= 1 /\ Len(y) = 1 - Len(acc[a])
        BY <3>1, <2>1, <1>6, <1>13 DEF IsPast
      <3>3. Len(y) = 0
        <4>1. PICK k \in Nat : k = Len(acc[a]) /\ k >= 1 /\ k <= 1
          BY <3>2, <1>13
        <4>2. k = 1
          <5>1. k >= 1 /\ k <= 1
            BY <4>1
          <5> QED
            BY <5>1
        <4> QED
          BY <3>2, <4>1, <4>2
      <3> QED
        BY <3>1, <3>2, <3>3
    <2>3. Over(p)'
      BY <1>1, <1>2, <1>8, <2>1, StillFact
    <2>4. Toward(a)'
      BY <1>1, <1>3, <1>10, <1>15, <2>2, <2>3 DEF Toward, Equal, Nothing
    <2> QED
      BY <1>1, <1>6, <1>7, <1>8, <1>9, <1>12, <2>4, Assemble
  <1>16. CASE main'[a] = Between[a] /\ a = "host" /\ Ahead(a) /\ Late(a)
    <2>1. PICK j \in 2..Len(Coming(a)) :
             /\ Coming(a)[j] = Cnew /\ Flow(a, j) /\ \A i \in 1..(j - 2) : Coming(a)[i].kind = "data"
      BY <1>16 DEF Late
    <2>2. PICK x, y, k : x = Coming(a) /\ y = Coming(a)' /\ k = Len(acc[a])
      OBVIOUS
    <2>3. /\ k \in Nat /\ k >= 1 /\ k <= Len(x) /\ Len(y) = Len(x) - k /\ \A i \in 1..Len(y) : y[i] = x[i + k]
          /\ Len(x) \in Nat /\ y \in Seq(Frames)
      BY <1>6, <1>13, <2>2 DEF IsPast
    <2>4. j = 2
      <3>1. EndFrame.kind # "data"
        BY DEF EndFrame
      <3>2. CASE j > 2
        <4>1. 1 \in 1..(j - 2)
          BY <3>2
        <4> QED
          BY <4>1, <3>1, <1>5, <2>1
      <3> QED
        BY <3>2
    <2>5. opened[p] \in Conn
      <3>1. opened[p] \in Nat /\ opened[a] \in Nat
        BY <1>1, <1>2, SideFact
      <3>2. opened[p] > 0
        BY <1>1, <1>16, <3>1 DEF Ahead
      <3> QED
        BY <1>1, <1>2, <3>2, PresentConn
    <2>6. CASE k = 1
      <3>1. Flow(a, 1)'
        <4>1. 2 \in Nat /\ 1 \in Nat /\ 1 <= 2 /\ 2 - 1 = 1 /\ Flow(a, 2)
          BY <2>1, <2>4
        <4>2. IsPast(Coming(a)', Coming(a), 1)
          BY <1>6, <2>2, <2>6
        <4> QED
          BY <4>1, <4>2, <1>1, <1>2, <1>8, <1>9, <2>5, FlowShift
      <3>2. 1 \in 1..Len(y) /\ 1 + 1 = 2
        BY <2>1, <2>2, <2>3, <2>4, <2>6
      <3>3. y[1] = Cnew /\ y # <<>>
        BY <3>2, <2>1, <2>2, <2>3, <2>4, <2>6
      <3> QED
        <4>1. Fresh(a)'
          BY <3>1, <3>3, <2>2 DEF Fresh
        <4>2. Toward(a)'
          BY <4>1, <1>4, <1>10, <1>16 DEF Toward, Ahead, Between
        <4> QED
          BY <1>1, <1>6, <1>7, <1>8, <1>9, <1>12, <4>2, Assemble
    <2>7. CASE k >= 2
      <3>1. PICK b \in Nat, n \in Nat, e \in {0, 1} : Carries(a, 2, b, n, e)
        BY <2>1, <2>4 DEF Flow
      <3>2. /\ b <= n /\ Len(x) = 2 + (n - b) + e
            /\ \A i \in 1..(n - b) : x[2 + i] = Data(opened[p], b + i)
            /\ e = 1 => x[2 + (n - b) + 1] = EndFrame
        BY <3>1, <2>2, <1>1 DEF Carries
      <3>3. ASSUME NEW i \in 1..Len(y)
            PROVE  y[i] # Cnew
        <4>1. PICK d \in Nat : d = i + k - 2 /\ d >= 1 /\ i + k = 2 + d /\ d <= (n - b) + e /\ b + d \in Nat
          <5>1. PICK l \in Nat : l = Len(y) /\ l = (n - b) + e + 2 - k
            <6>1. Len(y) \in Nat
              BY <2>3
            <6> QED
              BY <6>1, <2>3, <3>2
          <5>2. i \in 1..l /\ k \in Nat
            BY <5>1, <2>3
          <5>3. PICK d \in Nat : d = i + k - 2 /\ d >= 1 /\ i + k = 2 + d /\ b + d \in Nat
            BY ONLY <5>2, <2>7, b \in Nat, l \in Nat
          <5>4. d <= (n - b) + e
            <6>1. l = (n - b) + e + 2 - k
              BY <5>1
            <6> QED
              BY ONLY <6>1, <5>2, <5>3, l \in Nat, d \in Nat, b \in Nat, n \in Nat, e \in {0, 1}
          <5> QED
            BY <5>3, <5>4
        <4>2. y[i] = x[2 + d]
          BY <4>1, <2>3
        <4>3. CASE d <= n - b
          <5>1. d \in 1..(n - b)
            BY <4>1, <4>3, <3>2
          <5>2. x[2 + d] = Data(opened[p], b + d)
            BY <5>1, <3>2
          <5> QED
            BY <5>2, <4>1, <4>2, <2>5, ChunkFact
        <4>4. CASE d > n - b
          <5>1. e = 1 /\ 2 + d = 2 + (n - b) + 1
            BY ONLY <4>1, <4>4, d \in Nat, b \in Nat, n \in Nat, e \in {0, 1}
          <5>2. EndFrame # Cnew
            BY <2>5, ChunkFact
          <5> QED
            BY <5>1, <5>2, <4>2, <3>2
        <4> QED
          BY <4>1, <4>3, <4>4, <3>2
      <3> QED
        <4>1. Missed(a)'
          BY <3>3, <2>2 DEF Missed
        <4>2. Toward(a)'
          BY <4>1, <1>4, <1>10, <1>16 DEF Toward, Ahead, Between
        <4> QED
          BY <1>1, <1>6, <1>7, <1>8, <1>9, <1>12, <4>2, Assemble
    <2> QED
      BY <2>3, <2>6, <2>7
  <1> QED
    BY <1>5, <1>6, <1>14, <1>15, <1>16

LEMMA StepTakeEnd ==
  ASSUME BridgeInv, NEW a \in Side, TakeEnd(a)
  PROVE  BridgeInv'
  <1>1. PICK p : p = Peer(a) /\ p \in Side /\ p # a /\ Peer(p) = a
    BY PeerFact
  <1>2. BridgeTypes /\ TaskInv(a) /\ WireTypes /\ TaskInv(p) /\ Toward(p)
    BY <1>1 DEF BridgeInv, BridgeTypes
  <1>3. PICK o : o = opened[a]
    OBVIOUS
  <1>4. /\ main[a] = "pump" /\ rtask[a] = "take" /\ acc[a] # <<>> /\ acc[a][1] = EndFrame
        /\ Write(a, EndFrame)
        /\ Finish(a, "conn") /\ UNCHANGED <<opened, lost, out, localVars, toRemote, toLocal>>
    BY DEF TakeEnd, In
  <1>5. /\ o \in Conn /\ Coming(a)[1] = EndFrame /\ Len(Coming(a)) >= 1 /\ opened[p] = o /\ Flow(a, 0)
    BY <1>1, <1>3, <1>4, TakerFact
  <1>6. EndFrame \in Frames
    BY <1>5, ChunkFact
  <1>7. /\ wire' \in [Side -> Seq(Frames)] /\ \A s \in Side : Len(wire'[s]) <= WireCap
        /\ wire'[a] = wire[a] /\ (acc'[p] = acc[p] => IsMore(Coming(p)', Coming(p), EndFrame))
    BY <1>1, <1>2, <1>4, <1>6, WriteFact
  <1>8. /\ LoopTypes' /\ acc' \in [Side -> Seq(Frames)] /\ acc'[a] = <<>> /\ acc'[p] = acc[p]
        /\ main'[p] = main[p] /\ rtask'[p] = rtask[p] /\ TaskInv(a)'
        /\ main'[a] = "ended" \/ (main'[a] = Between[a] /\ main'[a] \in {"accept", "wait"})
        /\ Coming(a)' = wire[a] /\ IsPast(Coming(a)', Coming(a), Len(acc[a]))
    BY <1>1, <1>4, <1>7, FinishFact
  <1>9. BridgeTypes'
    <2>1. WireTypes'
      BY <1>2, <1>4, <1>7, <1>8 DEF WireTypes
    <2> QED
      BY <1>2, <1>4, <1>8, <2>1 DEF BridgeTypes, LocalTypes, ChannelTypes, localVars
  <1>10. Still(p) /\ Alone(a)
    BY <1>4, <1>8 DEF Still, Alone, localVars
  <1>11. Len(Coming(a)) = 1 /\ Over(p)
         /\ \E n \in Nat : Means(a, o, n) /\ Recv(a, o, n) /\ n <= sent[p][o]
    BY <1>1, <1>2, <1>5, EndComes
  <1>12. PICK n \in Nat : Means(a, o, n) /\ Recv(a, o, n)
    BY <1>11
  <1>13. ltask[a][o] = "over" \/ (ltask[p][o] = "over" /\ (Had(a, o) = sent[p][o] \/ CutOff(a, o)))
    BY <1>1, <1>12 DEF Means, Recv
  <1>14. /\ Frozen(a) /\ \A c \in Conn : ChainInv(a, c)' /\ SettledInv(a, c)'
    BY <1>1, <1>3, <1>10, <1>13, AloneFact
  <1>15. Toward(p)'
    <2>1. CASE main[p] = "ended"
      BY <2>1, <1>8 DEF Toward
    <2>2. CASE main[p] = "pump"
      <3>1. ltask[p][o] = "over"
        BY <2>2, <1>2, <1>5, <1>11 DEF Over, TaskInv, LocalOver
      <3>2. Means(p, o, PutN(a))
        BY <3>1 DEF Means
      <3>3. main'[a] # "pump" /\ rtask[a] # "wait_end" /\ opened'[a] = opened[a]
        BY <1>4, <1>8
      <3> QED
        BY <1>1, <1>3, <1>4, <1>5, <1>7, <1>8, <1>10, <1>14, <3>2, <3>3, PeerGetsEnd
    <2>3. CASE main[p] \in {"accept", "wait", "dial"}
      <3>1. ~Over(a)
        BY <1>4 DEF Over
      <3>2. ~Ahead(p)
        BY <1>1, <1>3, <1>5, BridgeSizes DEF Ahead
      <3> QED
        BY <3>1, <3>2, <2>3, <1>1, <1>2 DEF Toward, Nothing
    <2> QED
      BY <2>1, <2>2, <2>3, <1>1, <1>2, SideFact
  <1>16. Toward(a)'
    <2>1. CASE main'[a] = "ended"
      BY <2>1 DEF Toward
    <2>2. CASE main'[a] \in {"accept", "wait"}
      <3>1. Coming(a)' = <<>>
        <4>1. acc[a] \in Seq(Frames) /\ wire[a] \in Seq(Frames)
          BY <1>2, WireFact
        <4>2. Len(acc[a]) >= 1 /\ Len(acc[a]) \in Nat
          BY <4>1, <1>4, TailFact
        <4>3. PICK y : y = Coming(a)' /\ y \in Seq(Frames)
          BY <4>1, <1>8
        <4>4. Len(acc[a]) <= 1 /\ Len(y) = 1 - Len(acc[a])
          BY <4>3, <1>8, <1>11 DEF IsPast
        <4>5. Len(y) = 0
          <5>1. PICK k \in Nat : k = Len(acc[a]) /\ k >= 1 /\ k <= 1
            BY <4>2, <4>4
          <5>2. k = 1
            <6>1. k >= 1 /\ k <= 1
              BY <5>1
            <6> QED
              BY <6>1
          <5> QED
            BY <4>4, <5>1, <5>2
        <4> QED
          BY <4>3, <4>5
      <3>2. Over(p)' /\ opened'[p] = opened[p] /\ opened'[a] = opened[a]
        BY <1>1, <1>2, <1>4, <1>10, <1>11, StillFact
      <3> QED
        BY <1>1, <1>3, <1>5, <2>2, <3>1, <3>2 DEF Toward, Equal, Nothing
    <2> QED
      BY <2>1, <2>2, <1>8
  <1> QED
    BY <1>1, <1>8, <1>9, <1>10, <1>14, <1>15, <1>16, Assemble

-----------------------------------------------------------------------------
(* Steps of the main loops *)

LEMMA StepHostReads == BridgeInv /\ HostReads => BridgeInv'
  <1> SUFFICES ASSUME BridgeInv, HostReads PROVE BridgeInv'
    OBVIOUS
  <1>1. PICK a, p : a = "host" /\ a \in Side /\ p = Peer(a) /\ p \in Side /\ p # a
    BY PeerFact DEF Side
  <1>2. BridgeTypes /\ LoopTypes /\ WireTypes /\ TaskInv(a) /\ Toward(a)
    BY <1>1 DEF BridgeInv, BridgeTypes
  <1>3. PICK q, r, f : q = wire[a] /\ r = Tail(q) /\ f = Head(q)
    OBVIOUS
  <1>4. /\ main[a] = "wait" /\ q # <<>> /\ wire' = [wire EXCEPT ![a] = r]
        /\ UNCHANGED <<opened, lost, remoteVars, localVars, toRemote, toLocal>>
        /\ \/ f = Cnew /\ main' = [main EXCEPT ![a] = "dial"]
           \/ f.kind = "data" /\ main' = main
           \/ f = EndFrame /\ main' = [main EXCEPT ![a] = "ended"]
    BY <1>1, <1>3 DEF HostReads, Stop
  <1>5. q \in Seq(Frames) /\ Len(q) \in Nat /\ Len(q) <= WireCap /\ acc[a] = <<>>
    BY <1>1, <1>2, <1>3, <1>4, WireFact DEF TaskInv
  <1>6. IsPast(r, q, 1) /\ f = q[1] /\ Len(q) >= 1
    BY <1>3, <1>4, <1>5, TailFact
  <1>7. r \in Seq(Frames) /\ Len(r) <= WireCap
    <2>1. r \in Seq(Frames) /\ Len(r) = Len(q) - 1
      BY <1>6 DEF IsPast
    <2>2. PICK k \in Nat : k = Len(q)
      BY <1>5
    <2>3. k <= WireCap /\ Len(r) = k - 1
      BY <1>5, <2>1, <2>2
    <2>4. k - 1 <= WireCap
      BY <2>3, BridgeSizes
    <2> QED
      BY <2>1, <2>3, <2>4
  <1>8. wire' \in [Side -> Seq(Frames)] /\ wire'[a] = r /\ wire'[p] = wire[p]
    BY <1>1, <1>2, <1>4, <1>7 DEF WireTypes
  <1>9. /\ main'[p] = main[p] /\ LoopTypes' /\ main'[a] \in {"wait", "dial", "ended"}
        /\ (f = Cnew /\ main'[a] = "dial") \/ (f.kind = "data" /\ main'[a] = "wait") \/ main'[a] = "ended"
    <2>1. main' \in [Side -> {"accept", "wait", "dial", "pump", "ended"}]
      BY <1>2, <1>4 DEF LoopTypes
    <2>2. /\ main'[p] = main[p] /\ main'[a] \in {"wait", "dial", "ended"}
          /\ (f = Cnew /\ main'[a] = "dial") \/ (f.kind = "data" /\ main'[a] = "wait") \/ main'[a] = "ended"
      BY <1>1, <1>2, <1>4 DEF LoopTypes
    <2>3. p = "guest"
      BY <1>1 DEF Side
    <2> QED
      BY <1>1, <1>2, <1>4, <2>1, <2>2, <2>3 DEF LoopTypes, remoteVars
  <1>10. BridgeTypes'
    <2>1. WireTypes'
      <3>1. \A s \in Side : Len(wire'[s]) <= WireCap
        BY <1>1, <1>2, <1>7, <1>8, PeerFact DEF WireTypes
      <3> QED
        BY <1>2, <1>4, <1>8, <3>1 DEF WireTypes, remoteVars
    <2> QED
      BY <1>2, <1>4, <1>9, <2>1 DEF BridgeTypes, LocalTypes, ChannelTypes, localVars
  <1>11. Still(p) /\ Alone(a)
    BY <1>4, <1>9 DEF Still, Alone, remoteVars, localVars
  <1>12. /\ Frozen(a) /\ \A c \in Conn : ChainInv(a, c)' /\ SettledInv(a, c)'
         /\ \A c \in Conn, b \in Nat : Recv(a, c, b) => Recv(a, c, b)'
    BY <1>1, <1>4, <1>11, AloneFact
  <1>13. Coming(p)' = Coming(p) /\ Coming(a) = q /\ Coming(a)' = r
    <2>1. Coming(p)' = Coming(p)
      BY <1>4, <1>8 DEF Coming, remoteVars
    <2>2. acc'[a] = <<>>
      BY <1>4, <1>5 DEF remoteVars
    <2> QED
      BY <2>1, <2>2, <1>3, <1>5, <1>7, <1>8 DEF Coming
  <1>14. Keeps(a) /\ (Over(a) => Over(a)') /\ opened'[a] = opened[a] /\ opened'[p] = opened[p]
    BY <1>4, <1>9 DEF Keeps, Over
  <1>15. Toward(p)'
    BY <1>1, <1>11, <1>12, <1>13, <1>14, PeerQuiet
  <1>16. TaskInv(a)'
    <2>1. UNCHANGED <<opened, rtask, acc, out>>
      BY <1>4 DEF remoteVars
    <2> QED
      BY <1>2, <1>4, <1>9, <2>1 DEF TaskInv
  <1>17. Ahead(a) /\ (Missed(a) \/ Fresh(a))
    BY <1>1, <1>2, <1>4, <1>13 DEF Toward, Nothing
  <1>18. Cnew.kind # "data" /\ 1 \in 1..Len(q)
    BY <1>5, <1>6 DEF Cnew
  <1>19. Toward(a)'
    <2>1. CASE f = Cnew /\ main'[a] = "dial"
      <3>1. Fresh(a)
        BY <2>1, <1>6, <1>13, <1>17, <1>18 DEF Missed
      <3>2. opened[p] \in Conn
        <4>1. opened[p] \in Nat /\ opened[a] \in Nat
          BY <1>1, <1>2, SideFact
        <4>2. opened[p] > 0
          BY <1>1, <1>17, <4>1 DEF Ahead
        <4> QED
          BY <1>1, <1>2, <4>2, PresentConn
      <3>3. Flow(a, 0)'
        <4>1. 1 \in Nat /\ 1 <= 1 /\ 1 - 1 = 0 /\ Flow(a, 1)
          BY <3>1 DEF Fresh
        <4>2. IsPast(Coming(a)', Coming(a), 1)
          BY <1>6, <1>13
        <4> QED
          BY <4>1, <4>2, <1>1, <1>2, <1>11, <1>12, <3>2, FlowShift
      <3> QED
        BY <2>1, <3>3, <1>1, <1>14, <1>17 DEF Toward, Ahead
    <2>2. CASE f.kind = "data" /\ main'[a] = "wait"
      <3>1. Missed(a)
        BY <2>2, <1>6, <1>13, <1>17, <1>18 DEF Fresh
      <3>2. \A i \in 1..Len(r) : r[i] = q[i + 1] /\ i + 1 \in 1..Len(q)
        BY <1>5, <1>6, <1>7 DEF IsPast
      <3>3. Missed(a)'
        BY <3>1, <3>2, <1>13 DEF Missed
      <3> QED
        BY <2>2, <3>3, <1>1, <1>14, <1>17 DEF Toward, Ahead
    <2>3. CASE main'[a] = "ended"
      BY <2>3 DEF Toward
    <2> QED
      BY <2>1, <2>2, <2>3, <1>9
  <1> QED
    BY <1>1, <1>10, <1>11, <1>12, <1>15, <1>16, <1>19, Assemble

\* A new pump has nothing from before.
LEMMA SpawnFact ==
  ASSUME BridgeInv, NEW a \in Side, NEW p, p = Peer(a), main[a] \in {"accept", "dial"}, SpawnPump(a),
         UNCHANGED <<lost, acc, out, toRemote, toLocal, sent, got>>
  PROVE  \E o \in Conn :
         /\ o = opened[a] + 1 /\ opened'[a] = o /\ main'[a] = "pump" /\ rtask'[a] = "select" /\ PutN(a)' = 0
         /\ Had(a, o) = 0 /\ sent[a][o] = 0
         /\ LoopTypes' /\ LocalTypes' /\ Still(p) /\ Frozen(a) /\ TaskInv(a)'
         /\ \A c \in Conn : ChainInv(a, c)' /\ SettledInv(a, c)'
         /\ \A c \in Conn, b \in Nat : Recv(a, c, b) => Recv(a, c, b)'
  <1>1. p \in Side /\ p # a
    BY PeerFact
  <1>2. /\ BridgeTypes /\ LoopTypes /\ LocalTypes /\ TaskInv(a)
        /\ \A c \in Conn : ChainInv(a, c) /\ SettledInv(a, c)
    BY DEF BridgeInv, BridgeTypes
  <1>3. opened[a] \in Nat /\ opened[a] < MaxConns /\ rtask[a] = "none" /\ acc[a] = <<>> /\ out[a] = <<>>
    BY <1>2, SideFact DEF TaskInv
  <1>4. PICK o \in Conn : o = opened[a] + 1 /\ o \in 1..MaxConns
    BY <1>3, BridgeSizes DEF Conn
  <1>5. /\ opened' = [opened EXCEPT ![a] = o] /\ main' = [main EXCEPT ![a] = "pump"]
        /\ rtask' = [rtask EXCEPT ![a] = "select"] /\ ltask' = [ltask EXCEPT ![a][o] = "select"]
        /\ app' = [app EXCEPT ![a][o] = "open"]
    BY <1>4 DEF SpawnPump
  <1>6. /\ opened'[a] = o /\ main'[a] = "pump" /\ rtask'[a] = "select"
        /\ opened'[p] = opened[p] /\ main'[p] = main[p] /\ rtask'[p] = rtask[p]
    BY <1>1, <1>2, <1>5 DEF LoopTypes
  <1>7. /\ ltask' \in [Side -> [Conn -> {"none", "select", "send", "write", "over"}]] /\ ltask'[a][o] = "select"
        /\ ltask'[p] = ltask[p] /\ \A t \in Side, c \in Conn : (t = a /\ c = o) \/ ltask'[t][c] = ltask[t][c]
    BY ONLY <1>1, <1>2, <1>5, UpdateFact, a \in Side, o \in Conn DEF LocalTypes
  <1>8. LoopTypes'
    <2>1. "guest" \in Side /\ "host" \in Side
      BY DEF Side
    <2>2. main' \in [Side -> {"accept", "wait", "dial", "pump", "ended"}]
      BY <1>2, <1>5 DEF LoopTypes
    <2>3. main'["guest"] \in {"accept", "pump", "ended"} /\ main'["host"] \in {"wait", "dial", "pump", "ended"}
      BY <2>1, <1>2, <1>5 DEF LoopTypes
    <2>4. opened' \in [Side -> 0..MaxConns]
      <3>1. o \in 0..MaxConns
        BY <1>4, BridgeSizes
      <3> QED
        BY <3>1, <1>2, <1>5 DEF LoopTypes
    <2>5. rtask' \in [Side -> {"none", "select", "take", "write", "end", "wait_end"}]
      BY <1>2, <1>5 DEF LoopTypes
    <2> QED
      BY <1>2, <2>2, <2>3, <2>4, <2>5 DEF LoopTypes
  <1>9. LocalTypes'
    <2>1. app' \in [Side -> [Conn -> {"none", "open", "closed"}]]
      BY ONLY <1>2, <1>5, UpdateFact, a \in Side, o \in Conn DEF LocalTypes
    <2> QED
      BY <1>2, <1>7, <2>1 DEF LocalTypes
  <1>10. o > opened[a]
    BY <1>3, <1>4
  <1>11. /\ ltask[a][o] = "none" /\ sent[a][o] = 0
         /\ got[a][o] = <<>> /\ toLocal[a][o] = <<>> /\ toRemote[a][o] = <<>>
    BY <1>2, <1>10 DEF ChainInv
  <1>12. Still(p)
    BY <1>6, <1>7 DEF Still
  <1>13. Frozen(a)
    <2>1. \A c \in Conn : sent[a][c] \in Nat /\ (ltask[a][c] = "over" => ltask'[a][c] = "over")
      BY <1>2, <1>7, <1>11, ConnFact
    <2>2. sent' = sent /\ got' = got /\ \A k \in Nat : k <= k
      OBVIOUS
    <2> QED
      BY <2>1, <2>2 DEF Frozen
  <1>14. \A c \in Conn : Had(a, c)' = Had(a, c) /\ (ltask'[a][c] = "over" <=> ltask[a][c] = "over")
    BY <1>7, <1>11 DEF Had
  <1>15. Had(a, o) = 0
    <2>1. Len(<<>>) = 0
      OBVIOUS
    <2> QED
      BY <2>1, <1>11 DEF Had
  <1>16. PutN(a)' = 0
    <2>1. Len(toRemote'[a][o]) = 0 /\ Len(out'[a]) = 0 /\ sent'[a][o] = 0
      BY <1>3, <1>11
    <2>2. PutN(a)' = 0 - 0 - 0 - 0
      BY <2>1, <1>6, <1>7 DEF PutN
    <2> QED
      BY <2>2
  <1>17. TaskInv(a)'
    <2>1. opened'[a] > 0 /\ ltask'[a][opened'[a]] # "none" /\ acc'[a] = <<>>
      BY <1>3, <1>4, <1>6, <1>7
    <2>2. out'[a] = <<>> /\ toRemote'[a][opened'[a]] = <<>> /\ Len(out'[a]) = 0
      BY <1>3, <1>6, <1>11
    <2>3. Run(<<>>, o, 0) /\ Run(<<>>, o, 0 + 0)
      BY DEF Run
    <2>4. 0 >= 0
      OBVIOUS
    <2> QED
      BY <1>6, <1>16, <2>1, <2>2, <2>3, <2>4 DEF TaskInv
  <1>18. ASSUME NEW c \in Conn
         PROVE  ChainInv(a, c)' /\ SettledInv(a, c)'
    <2>1. c \in Nat /\ (c > opened'[a] => c > opened[a] /\ c # o) /\ (c < opened'[a] => c <= opened[a] /\ c # o)
      <3>1. PICK n \in Nat, k \in Nat, m \in Nat : n = opened[a] /\ k = opened'[a] /\ m = c
        BY <1>3, <1>4, <1>6, BridgeSizes
      <3>2. k = n + 1 /\ k = o
        BY <3>1, <1>4, <1>6
      <3>3. (m > k => m > n /\ m # k) /\ (m < k => m <= n /\ m # k)
        BY ONLY <3>2, n \in Nat, k \in Nat, m \in Nat
      <3> QED
        BY ONLY <3>1, <3>2, <3>3, m \in Nat
    <2>2. c # o => ltask'[a][c] = ltask[a][c]
      BY <1>7
    <2>3. ChainInv(a, c)'
      BY <1>2, <1>14, <2>1, <2>2 DEF ChainInv
    <2>4. CutOff(a, c) => CutOff(a, c)'
      BY <1>1, <1>7 DEF CutOff
    <2>5. SettledInv(a, c)'
      <3> SUFFICES ASSUME c < opened'[a], ltask'[a][c] # "over"
                   PROVE  ltask'[p][c] = "over" /\ (Had(a, c)' = sent'[p][c] \/ CutOff(a, c)')
        BY <1>6 DEF SettledInv
      <3>1. c < opened[a] \/ (c = opened[a] /\ main[a] \notin {"pump", "ended"})
        BY <2>1, <1>3
      <3>2. ltask[a][c] # "over"
        BY <1>14
      <3>3. ltask[p][c] = "over" /\ (Had(a, c) = sent[p][c] \/ CutOff(a, c))
        BY <3>1, <3>2, <1>2 DEF SettledInv
      <3> QED
        BY <3>3, <1>7, <1>14, <2>4
    <2> QED
      BY <2>3, <2>5
  <1>19. \A c \in Conn, b \in Nat : Recv(a, c, b) => Recv(a, c, b)'
    BY <1>14 DEF Recv
  <1> QED
    BY <1>4, <1>6, <1>8, <1>9, <1>11, <1>12, <1>13, <1>15, <1>16, <1>17, <1>18, <1>19

\* Nothing of a new connection is under way.
LEMMA NewFlow ==
  ASSUME NEW a \in Side, NEW s, s = Peer(a), NEW o \in Conn, opened'[a] = o, main'[a] = "pump",
         rtask'[a] = "select", PutN(a)' = 0, sent'[a][o] \in Nat, Had(s, o)' = 0,
         NEW j \in Nat, Len(Coming(s)') = j
  PROVE  Flow(s, j)'
  <1>1. Peer(s) = a
    BY PeerFact
  <1>2. Link(a, 0, 0)' /\ Recv(s, o, 0)'
    BY DEF Link, Recv
  <1>3. Len(Coming(s)') = j + (0 - 0) + 0 /\ \A i \in 1..(0 - 0) : FALSE
    OBVIOUS
  <1>4. Carries(s, j, 0, 0, 0)'
    BY <1>1, <1>2, <1>3 DEF Carries
  <1> QED
    BY <1>4 DEF Flow

LEMMA StepGuestAccepts == BridgeInv /\ GuestAccepts => BridgeInv'
  <1> SUFFICES ASSUME BridgeInv, GuestAccepts PROVE BridgeInv'
    OBVIOUS
  <1>1. PICK a, p : a = "guest" /\ p = "host" /\ a \in Side /\ p = Peer(a) /\ p \in Side /\ p # a /\ Peer(p) = a
    BY PeerFact DEF Side
  <1>2. /\ BridgeTypes /\ WireTypes /\ ChannelTypes /\ Toward(a) /\ Toward(p) /\ TaskInv(p)
        /\ \A c \in Conn : ChainInv(p, c)
    BY <1>1 DEF BridgeInv, BridgeTypes
  <1>3. main[a] = "accept" /\ Write(a, Cnew) /\ SpawnPump(a)
        /\ UNCHANGED <<lost, acc, out, toRemote, toLocal, sent, got>>
    BY <1>1 DEF GuestAccepts
  <1>4. PICK o \in Conn :
         /\ o = opened[a] + 1 /\ opened'[a] = o /\ main'[a] = "pump" /\ rtask'[a] = "select" /\ PutN(a)' = 0
         /\ sent[a][o] = 0
         /\ LoopTypes' /\ LocalTypes' /\ Still(p) /\ Frozen(a) /\ TaskInv(a)'
         /\ \A c \in Conn : ChainInv(a, c)' /\ SettledInv(a, c)'
    BY <1>1, <1>3, SpawnFact
  <1>5. Cnew \in Frames /\ EndFrame # Cnew
    BY ChunkFact
  <1>6. /\ wire' \in [Side -> Seq(Frames)] /\ \A s \in Side : Len(wire'[s]) <= WireCap
        /\ wire'[a] = wire[a] /\ (acc'[p] = acc[p] => IsMore(Coming(p)', Coming(p), Cnew))
    BY <1>1, <1>2, <1>3, <1>5, WriteFact
  <1>7. BridgeTypes'
    <2>1. WireTypes'
      BY <1>2, <1>3, <1>6 DEF WireTypes
    <2>2. ChannelTypes'
      BY <1>2, <1>3 DEF ChannelTypes
    <2> QED
      BY <1>4, <2>1, <2>2 DEF BridgeTypes
  <1>8. Equal(a) /\ Nothing(a) /\ opened[p] = opened[a] /\ opened[p] \in Nat /\ opened[a] \in Nat
    BY <1>1, <1>2, <1>3, SideFact DEF Toward, Equal
  <1>9. opened'[p] = opened[p] /\ main'[p] = main[p] /\ rtask'[p] = rtask[p]
    BY <1>4 DEF Still
  <1>10. Toward(a)'
    <2>1. Coming(a)' = Coming(a)
      BY <1>3, <1>6 DEF Coming
    <2>2. Over(p)'
      BY <1>1, <1>8, <1>9 DEF Nothing, Over
    <2>3. Nothing(a)'
      BY <1>1, <1>8, <2>1, <2>2 DEF Nothing
    <2>4. opened'[a] = opened'[Peer(a)] + 1
      BY <1>1, <1>4, <1>8, <1>9
    <2> QED
      BY <1>1, <1>4, <2>3, <2>4 DEF Toward
  <1>11. PICK x, y : x = Coming(p) /\ y = Coming(p)'
    OBVIOUS
  <1>12. PICK k \in Nat : /\ k = Len(x) /\ Len(y) = k + 1 /\ y[k + 1] = Cnew /\ \A i \in 1..k : y[i] = x[i]
                          /\ x \in Seq(Frames) /\ y \in Seq(Frames)
    <2>1. IsMore(y, x, Cnew)
      BY <1>3, <1>6, <1>11
    <2>2. x \in Seq(Frames) /\ Len(x) \in Nat
      BY <1>1, <1>2, <1>11, SideFact
    <2> QED
      BY <2>1, <2>2 DEF IsMore
  <1>13. Flow(p, k + 1)'
    <2>1. Had(p, o)' = 0
      <3>1. o > opened[p]
        BY <1>4, <1>8
      <3>2. got[p][o] = <<>> /\ toLocal[p][o] = <<>>
        BY <1>2, <3>1 DEF ChainInv
      <3>3. got'[p][o] = <<>> /\ toLocal'[p][o] = <<>> /\ Len(<<>>) = 0
        BY <3>2, <1>3
      <3> QED
        BY <3>3 DEF Had
    <2>2. sent'[a][o] \in Nat
      BY <1>3, <1>4
    <2>3. k + 1 \in Nat /\ Len(Coming(p)') = k + 1
      BY <1>11, <1>12
    <2> QED
      BY <2>1, <2>2, <2>3, <1>1, <1>4, NewFlow
  <1>14. Ahead(p)' /\ ~Ahead(p) /\ Equal(p)
    BY <1>1, <1>4, <1>8, <1>9 DEF Ahead, Equal
  <1>15. Toward(p)'
    <2>1. CASE main[p] = "pump"
      <3>1. rtask[p] = "wait_end"
        BY <2>1, <1>1, <1>8 DEF Nothing, Over
      <3>2. Flow(p, 0) /\ opened[a] \in Conn
        <4>1. Flow(p, 0)
          BY <2>1, <1>1, <1>2, <1>14 DEF Toward
        <4>2. opened[a] > 0
          BY <2>1, <1>2, <1>8 DEF TaskInv
        <4> QED
          BY <4>1, <4>2, <1>1, <1>2, PresentConn
      <3>3. PICK b \in Nat, n \in Nat, e \in {0, 1} : Carries(p, 0, b, n, e)
        BY <3>2 DEF Flow
      <3>4. e = 1
        BY <3>3, <1>1, <1>3 DEF Carries, Link
      <3>5. /\ b <= n /\ k = 0 + (n - b) + 1 /\ x[0 + (n - b) + 1] = EndFrame
            /\ \A i \in 1..(n - b) : x[0 + i] = Data(opened[a], b + i)
        BY <3>3, <3>4, <1>1, <1>11, <1>12 DEF Carries
      <3>6. k >= 1 /\ x[k] = EndFrame /\ k \in 1..k /\ k + 1 - 1 = k
        BY <3>5
      <3>7. k + 1 \in 2..Len(y) /\ y[k + 1] = Cnew /\ y[k + 1 - 1] = EndFrame
        BY <3>6, <1>12
      <3>8. ASSUME NEW i \in 1..(k + 1 - 2)
            PROVE  y[i].kind = "data"
        <4>1. i \in 1..(n - b) /\ i \in 1..k /\ 0 + i = i /\ b + i \in Nat
          BY <3>5
        <4>2. y[i] = Data(opened[a], b + i)
          BY <4>1, <3>5, <1>12
        <4> QED
          BY <4>1, <4>2, <3>2, ChunkFact
      <3>9. Late(p)'
        BY <3>7, <3>8, <1>11, <1>13 DEF Late
      <3> QED
        BY <2>1, <3>1, <3>9, <1>1, <1>9, <1>14 DEF Toward
    <2>2. CASE main[p] = "wait"
      <3>1. x = <<>>
        BY <2>2, <1>1, <1>2, <1>11, <1>14 DEF Toward, Nothing
      <3>2. k = 0
        BY <3>1, <1>12
      <3>3. y[1] = Cnew /\ y # <<>> /\ Flow(p, 1)'
        BY <3>2, <1>12, <1>13
      <3>4. Fresh(p)'
        BY <3>3, <1>11 DEF Fresh
      <3> QED
        BY <2>2, <3>4, <1>1, <1>9, <1>14 DEF Toward
    <2>3. CASE main[p] \in {"dial", "ended"}
      BY <2>3, <1>2, <1>9, <1>14 DEF Toward
    <2>4. main[p] \in {"wait", "dial", "pump", "ended"}
      BY <1>1, <1>2, SideFact
    <2> QED
      BY <2>1, <2>2, <2>3, <2>4
  <1> QED
    BY <1>1, <1>4, <1>7, <1>10, <1>15, Assemble

LEMMA StepHostDials == BridgeInv /\ HostDials => BridgeInv'
  <1> SUFFICES ASSUME BridgeInv, HostDials PROVE BridgeInv'
    OBVIOUS
  <1>1. PICK a, p : a = "host" /\ p = "guest" /\ a \in Side /\ p = Peer(a) /\ p \in Side /\ p # a /\ Peer(p) = a
    BY PeerFact DEF Side
  <1>2. /\ BridgeTypes /\ WireTypes /\ ChannelTypes /\ Toward(a) /\ Toward(p)
        /\ \A c \in Conn : ChainInv(p, c)
    BY <1>1 DEF BridgeInv, BridgeTypes
  <1>3. main[a] = "dial" /\ SpawnPump(a) /\ wire' = wire
        /\ UNCHANGED <<lost, acc, out, toRemote, toLocal, sent, got>>
    BY <1>1 DEF HostDials
  <1>4. PICK o \in Conn :
         /\ o = opened[a] + 1 /\ opened'[a] = o /\ main'[a] = "pump" /\ rtask'[a] = "select" /\ PutN(a)' = 0
         /\ sent[a][o] = 0
         /\ LoopTypes' /\ LocalTypes' /\ Still(p) /\ Frozen(a) /\ TaskInv(a)'
         /\ \A c \in Conn : ChainInv(a, c)' /\ SettledInv(a, c)'
         /\ \A c \in Conn, b \in Nat : Recv(a, c, b) => Recv(a, c, b)'
    BY <1>1, <1>3, SpawnFact
  <1>5. BridgeTypes'
    <2>1. WireTypes'
      BY <1>2, <1>3 DEF WireTypes
    <2>2. ChannelTypes'
      BY <1>2, <1>3 DEF ChannelTypes
    <2> QED
      BY <1>4, <2>1, <2>2 DEF BridgeTypes
  <1>6. Ahead(a) /\ Flow(a, 0) /\ opened[p] = o /\ opened[a] \in Nat
    BY <1>1, <1>2, <1>3, <1>4, SideFact DEF Toward, Ahead
  <1>7. opened'[p] = opened[p] /\ main'[p] = main[p]
    BY <1>4 DEF Still
  <1>8. Coming(a)' = Coming(a) /\ Coming(p)' = Coming(p)
    BY <1>3 DEF Coming
  <1>9. Frozen(p) /\ Keeps(p)
    BY <1>1, <1>2, <1>4, StillFact
  <1>10. Flow(a, 0)'
    <2>1. 0 \in Nat /\ \A b \in Nat : Recv(a, o, b) => Recv(a, o, b)'
      BY <1>4
    <2> QED
      BY <2>1, <1>1, <1>2, <1>4, <1>6, <1>7, <1>8, <1>9, FlowKept
  <1>11. Toward(a)'
    BY <1>1, <1>4, <1>6, <1>7, <1>10 DEF Toward, Equal
  <1>12. Toward(p)'
    <2>1. ~Equal(p) /\ Equal(p)'
      BY <1>1, <1>4, <1>6, <1>7 DEF Equal
    <2>2. CASE main[p] = "pump"
      <3>1. Coming(p)' = <<>>
        BY <2>1, <2>2, <1>1, <1>2, <1>8 DEF Toward, Nothing
      <3>2. Had(p, o)' = 0
        <4>1. Had(p, o) <= 0 /\ Had(p, o) \in Nat
          BY <1>1, <1>2, <1>4, ConnFact DEF ChainInv
        <4>2. Had(p, o)' = Had(p, o)
          BY <1>1, <1>2, <1>4, StillFact
        <4> QED
          BY <4>1, <4>2
      <3>3. sent'[a][o] \in Nat /\ 0 \in Nat /\ Len(Coming(p)') = 0
        BY <3>1, <1>3, <1>4
      <3>4. Flow(p, 0)'
        BY <3>2, <3>3, <1>1, <1>4, NewFlow
      <3> QED
        BY <2>1, <2>2, <3>4, <1>1, <1>7 DEF Toward
    <2>3. CASE main[p] \in {"accept", "ended"}
      BY <2>1, <2>3, <1>1, <1>2, <1>7 DEF Toward
    <2>4. main[p] \in {"accept", "pump", "ended"}
      BY <1>1, <1>2, SideFact
    <2> QED
      BY <2>2, <2>3, <2>4
  <1> QED
    BY <1>1, <1>4, <1>5, <1>11, <1>12, Assemble

-----------------------------------------------------------------------------
(* The invariant *)

LEMMA BridgeStep == ~torn /\ BridgeInv /\ [BridgeNext]_bridgeVars => BridgeInv'
  <1> SUFFICES ASSUME ~torn, BridgeInv, [BridgeNext]_bridgeVars PROVE BridgeInv'
    OBVIOUS
  <1>1. CASE UNCHANGED bridgeVars
    <2>1. PICK a, p : a \in Side /\ p = Peer(a) /\ p \in Side
      BY PeerFact DEF Side
    <2>2. BridgeTypes /\ TaskInv(a)
      BY <2>1 DEF BridgeInv
    <2>3. UNCHANGED <<main, opened, wire, lost, rtask, acc, out, ltask, app, sent, got, toRemote, toLocal>>
      BY <1>1 DEF bridgeVars, mainVars, remoteVars, localVars
    <2>4. BridgeTypes'
      BY <2>2, <2>3 DEF BridgeTypes, LoopTypes, WireTypes, LocalTypes, ChannelTypes
    <2>5. Still(p) /\ Alone(a)
      BY <2>3 DEF Still, Alone
    <2>6. Coming(p)' = Coming(p) /\ Coming(a)' = Coming(a) /\ PutN(a)' = PutN(a)
      BY <2>3 DEF Coming, PutN
    <2>7. TaskInv(a)'
      BY <2>2, <2>3, <2>6 DEF TaskInv, LocalOver
    <2> QED
      BY <2>1, <2>3, <2>4, <2>5, <2>6, <2>7, QuietStep
  <1>2. CASE Loops
    <2>0. "guest" \in Side /\ "host" \in Side
      BY DEF Side
    <2>1. CASE GuestFails
      BY <2>0, <2>1, StepStops DEF GuestFails
    <2>2. CASE HostReads
      BY <2>2, StepHostReads
    <2>3. CASE HostReadFails
      BY <2>0, <2>3, StepStops DEF HostReadFails
    <2>4. CASE HostDials
      BY <2>4, StepHostDials
    <2>5. CASE DialFails
      BY <2>0, <2>5, StepStops DEF DialFails
    <2> QED
      BY <1>2, <2>1, <2>2, <2>3, <2>4, <2>5 DEF Loops
  <1>3. ASSUME NEW a \in Side, Remote(a)
        PROVE  BridgeInv'
    <2>1. CASE RemoteReads(a) \/ WaitReads(a)
      BY <2>1, StepReads
    <2>2. CASE RemoteFails(a)
      BY <2>2, StepRemoteFails
    <2>3. CASE TakeData(a)
      BY <2>3, StepTakeData
    <2>4. CASE TakeUnwanted(a)
      BY <2>4, StepTakeUnwanted
    <2>5. CASE TakeEnd(a)
      BY <2>5, StepTakeEnd
    <2>6. CASE TakeDone(a) \/ RemoteEnds(a)
      BY <2>6, StepTurns
    <2>7. CASE RemoteTakesLocal(a)
      BY <2>7, StepRemoteTakesLocal
    <2>8. CASE RemoteWrites(a)
      BY <2>8, StepRemoteWrites
    <2>9. CASE RemoteWritesEnd(a)
      BY <2>9, StepRemoteWritesEnd
    <2>10. CASE WaitDrops(a)
      BY <2>10, StepWaitDrops
    <2>11. CASE WaitEnds(a)
      BY <2>11, StepWaitEnds
    <2> QED
      BY <1>3, <2>1, <2>2, <2>3, <2>4, <2>5, <2>6, <2>7, <2>8, <2>9, <2>10, <2>11 DEF Remote
  <1>4. ASSUME NEW a \in Side, NEW d \in Conn,
               Local(a, d) \/ LocalReads(a, d) \/ AppReads(a, d) \/ AppCloses(a, d)
        PROVE  BridgeInv'
    BY <1>4, StepLocalSends, StepLocalWrites, StepLocalEnds, StepLocalReads, StepAppReads, StepAppCloses
       DEF Local
  <1>5. CASE GuestAccepts
    BY <1>5, StepGuestAccepts
  <1>6. CASE TransportLost
    BY <1>6, StepTransportLost
  <1>7. ~HostMisreads
    BY DEF HostMisreads
  <1> QED
    BY <1>1, <1>2, <1>3, <1>4, <1>5, <1>6, <1>7 DEF BridgeNext, Tasks

\* The host's task keeps a part of a frame, or drops it for good.
LEMMA PartStep == PartTypes /\ [BridgeNext]_bridgeVars => PartTypes' /\ (torn => torn')
  <1> SUFFICES ASSUME PartTypes, [BridgeNext]_bridgeVars PROVE PartTypes' /\ (torn => torn')
    OBVIOUS
  <1>1. ASSUME begun' = begun, torn' = torn PROVE PartTypes' /\ (torn => torn')
    BY <1>1 DEF PartTypes
  <1>2. ASSUME NEW a \in Side, Read(a), torn' = torn PROVE PartTypes' /\ (torn => torn')
    BY <1>2 DEF Read, PartTypes
  <1>3. ASSUME NEW a \in Side, NEW done, Finish(a, done) PROVE PartTypes' /\ (torn => torn')
    BY <1>3 DEF Finish, PartTypes
  <1>4. CASE UNCHANGED bridgeVars
    BY <1>4, <1>1 DEF bridgeVars, remoteVars, partVars
  <1>5. CASE Loops
    BY <1>5, <1>1 DEF Loops, GuestFails, HostReads, HostReadFails, HostDials, DialFails, remoteVars, partVars
  <1>6. ASSUME NEW a \in Side, Remote(a)
        PROVE  PartTypes' /\ (torn => torn')
    <2>1. CASE RemoteReads(a) \/ WaitReads(a)
      BY <2>1, <1>2 DEF RemoteReads, WaitReads
    <2>2. CASE RemoteFails(a) \/ TakeEnd(a) \/ WaitEnds(a)
      BY <2>2, <1>3 DEF RemoteFails, TakeEnd, WaitEnds
    <2>3. CASE \/ TakeData(a) \/ TakeUnwanted(a) \/ TakeDone(a) \/ RemoteTakesLocal(a)
               \/ RemoteWrites(a) \/ RemoteEnds(a) \/ RemoteWritesEnd(a) \/ WaitDrops(a)
      BY <2>3, <1>1 DEF TakeData, TakeUnwanted, TakeDone, RemoteTakesLocal, RemoteWrites, RemoteEnds,
                        RemoteWritesEnd, WaitDrops, partVars
    <2> QED
      BY <1>6, <2>1, <2>2, <2>3 DEF Remote
  <1>7. ASSUME NEW a \in Side, NEW d \in Conn,
               Local(a, d) \/ LocalReads(a, d) \/ AppReads(a, d) \/ AppCloses(a, d)
        PROVE  PartTypes' /\ (torn => torn')
    BY <1>7, <1>1 DEF Local, LocalSends, LocalWrites, LocalEnds, LocalReads, AppReads, AppCloses,
                      remoteVars, partVars
  <1>8. CASE GuestAccepts \/ TransportLost \/ HostMisreads
    BY <1>8, <1>1 DEF GuestAccepts, TransportLost, HostMisreads, remoteVars, partVars
  <1> QED
    BY <1>4, <1>5, <1>6, <1>7, <1>8 DEF BridgeNext, Tasks

\* The invariant of the bridge.
LEMMA BridgeInvHolds == BridgeSpec => []BridgeAll
  <1>1. BridgeInit => BridgeAll
    BY InitBridge DEF BridgeInit, PartTypes, BridgeAll
  <1>2. BridgeAll /\ [BridgeNext]_bridgeVars => BridgeAll'
    BY BridgeStep, PartStep DEF BridgeAll
  <1> QED
    BY <1>1, <1>2, PTL DEF BridgeSpec

\* No frame of the bridge is lost, out of place or told too early, however many
\* connections, chunks and places in the channels there are, as long as the host does
\* not drop a part of one; and only the host ever does.
THEOREM TunnelHolds == BridgeSpec => []TunnelIsSound
  BY BridgeInvHolds, BridgeShows, PTL

=============================================================================
