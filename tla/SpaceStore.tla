----------------------------- MODULE SpaceStore -----------------------------
(***************************************************************************)
(* The durable store of permanent spaces: storage/mod.rs and               *)
(* storage/membership.rs.  The tables are sets of rows, and each operation *)
(* is one transaction: storage/worker.rs runs them one after another.      *)
(*                                                                         *)
(* An operation is judged by the clock of the request, which was read      *)
(* before the request was queued: `at` is now, or somewhat earlier.        *)
(*                                                                         *)
(* An operation that is refused leaves the tables as they were, and so     *)
(* does one that is answered from a record (a repeated creation, a         *)
(* repeated redemption): the actions are those that change something.     *)
(* Names, tokens and their digests, the schema and its migration are left  *)
(* out.  The clock does not go back.                                       *)
(***************************************************************************)
EXTENDS Naturals, FiniteSets, FiniteSetsExt

CONSTANTS
    Devices,            \* device keys
    Founders,           \* those that know the server's password: they may create
    Requests,           \* request identifiers of clients
    Forever,            \* the life of a space that does not expire
    SpaceLimit, MembersPerSpace, TotalMembers,  \* Quota
    Outstanding,        \* invitations of a space that may be open
    LastAddress,        \* addresses go from 1 to this
    Lives,              \* how long a space may live, or Forever
    Ttls, Uses,         \* how long and how often an invitation may serve
    MaxSpaces, MaxInvites,  \* bounds: spaces and invitations made
    MaxClock, MaxLag    \* bounds: the time, and a request's wait in the queue

ASSUME QuotaAssumption ==
    /\ Founders \subseteq Devices
    /\ SpaceLimit \in Nat /\ TotalMembers \in Nat
    /\ LastAddress \in Nat /\ MembersPerSpace \in 1..LastAddress
    /\ Uses \subseteq Nat \ {0}
ASSUME BoundAssumption == MaxSpaces \in Nat /\ MaxInvites \in Nat /\ MaxClock \in Nat
ASSUME TimeAssumption ==
    /\ MaxLag \in Nat
    /\ \A t \in Ttls \cup (Lives \ {Forever}) : t \in Nat \ {0}

Spaces == 1..MaxSpaces
Invites == 1..MaxInvites
Addresses == 1..LastAddress

VARIABLES
    spaces,     \* table of spaces: [id, owner, request, expires]
    members,    \* table of members: [space, device, address]
    invites,    \* table of invites: [id, space, expires, remaining, revoked, uses]
    receipts,   \* table of redemptions: [invite, device, request]
    made,       \* identifiers drawn: spaces and invites
    clock

tables == <<spaces, members, invites, receipts, made>>

StoreInit ==
    /\ spaces = {} /\ members = {} /\ invites = {} /\ receipts = {}
    /\ made = [spaces |-> 0, invites |-> 0]
    /\ clock = 0

-----------------------------------------------------------------------------
(* Queries *)

\* When the request that runs now may have read the clock.
Stamps == {at \in 0..clock : clock <= at + MaxLag}

Alive(row, at) == row.expires # Forever => row.expires > at
Active(s, at) == \E row \in spaces : row.id = s /\ Alive(row, at)
Owns(s, d) == \E row \in spaces : row.id = s /\ row.owner = d
MembersOf(s) == {m \in members : m.space = s}
IsMember(s, d) == \E m \in MembersOf(s) : m.device = d
HasAddress(s, d, a) == [space |-> s, device |-> d, address |-> a] \in members
MembersAt(at) == {m \in members : Active(m.space, at)}

\* membership: what every operation on a space asks of the caller first.
Membership(s, d, at) == IsMember(s, d) /\ Active(s, at)

\* The lowest address nobody in the space has; 1 is the owner's.
\* Mutant: the address after as many as there are members.
NextAddress(s) == 1 + Cardinality(MembersOf(s))
FreeAddress(s) ==
    Min({a \in 2..LastAddress : \A m \in MembersOf(s) : m.address # a})

\* The quota a new member meets.  Mutant: off by one.
RoomyFor(s, at) ==
    /\ Cardinality(MembersOf(s)) <= MembersPerSpace
    /\ Cardinality(MembersAt(at)) <= TotalMembers
RoomFor(s, at) ==
    /\ Cardinality(MembersOf(s)) < MembersPerSpace
    /\ Cardinality(MembersAt(at)) < TotalMembers

-----------------------------------------------------------------------------
(* Transactions *)

InvitesOf(s) == {i.id : i \in {j \in invites : j.space = s}}

\* The rows of the tables that outlive the spaces `gone` (ON DELETE CASCADE).
Cascade(gone) ==
    /\ invites' = {i \in invites : i.space \notin gone}
    /\ receipts' = {r \in receipts : \A s \in gone : r.invite \notin InvitesOf(s)}

\* create_idempotent: expired spaces go, unless the request was served before.
Create(d, request, at) == \E life \in Lives :
    LET expires == IF life = Forever THEN Forever ELSE at + life
        kept == {row \in spaces : Alive(row, at)}
        gone == {row.id : row \in spaces \ kept}
        staying == {m \in members : m.space \notin gone}
        id == made.spaces + 1
    IN  /\ d \in Founders
        /\ ~ \E row \in kept : row.owner = d /\ row.request = request
        /\ Cardinality(kept) < SpaceLimit /\ Cardinality(staying) < TotalMembers
        /\ id \in Spaces
        /\ spaces' = kept \cup
              {[id |-> id, owner |-> d, request |-> request, expires |-> expires]}
        /\ members' = staying \cup {[space |-> id, device |-> d, address |-> 1]}
        /\ Cascade(gone)
        /\ made' = [made EXCEPT !.spaces = id]

\* The invitation is in force.  Mutant: used up or not.
StillOpen(i, at) == i.expires > at
Usable(i, at) == i.expires > at /\ i.remaining > 0

Invite(s, d, at) == \E ttl \in Ttls, uses \in Uses :
    LET open == {i \in invites : i.space = s /\ Usable(i, at) /\ ~i.revoked}
        id == made.invites + 1
    IN  /\ Owns(s, d) /\ Active(s, at)
        /\ Cardinality(open) < Outstanding
        /\ id \in Invites
        /\ invites' = invites \cup
              {[id |-> id, space |-> s, expires |-> at + ttl,
                remaining |-> uses, uses |-> uses, revoked |-> FALSE]}
        /\ made' = [made EXCEPT !.invites = id]
        /\ UNCHANGED <<spaces, members, receipts>>

Receipt(i, d, request) == [invite |-> i.id, device |-> d, request |-> request]

\* redeem.  A member is answered without a record, whether it comes again with
\* the same request or with another.  Mutant: it is recorded like a new one.
RedeemForAll(i, d, request, at) ==
    /\ ~i.revoked /\ Active(i.space, at)
    /\ Usable(i, at)
    /\ IF IsMember(i.space, d) THEN UNCHANGED <<members, invites>>
       ELSE /\ RoomFor(i.space, at)
            /\ members' = members \cup {[space |-> i.space, device |-> d,
                                         address |-> FreeAddress(i.space)]}
            /\ invites' = (invites \ {i}) \cup {[i EXCEPT !.remaining = @ - 1]}
    /\ receipts' = receipts \cup {Receipt(i, d, request)}
    /\ UNCHANGED <<spaces, made>>
Redeem(i, d, request, at) ==
    /\ ~i.revoked /\ Active(i.space, at)
    /\ ~IsMember(i.space, d)
    /\ Usable(i, at)
    /\ RoomFor(i.space, at)
    /\ members' = members \cup {[space |-> i.space, device |-> d,
                                 address |-> FreeAddress(i.space)]}
    /\ invites' = (invites \ {i}) \cup {[i EXCEPT !.remaining = @ - 1]}
    /\ receipts' = receipts \cup {Receipt(i, d, request)}
    /\ UNCHANGED <<spaces, made>>

\* A member goes, and its receipts for the space with it.
Without(s, d) ==
    /\ members' = {m \in MembersOf(s) : m.device # d} \cup {m \in members : m.space # s}
    /\ receipts' = {r \in receipts : ~(r.device = d /\ r.invite \in InvitesOf(s))}
    /\ UNCHANGED <<spaces, invites, made>>

\* The owner may remove any key, a member's or not.
RemoveMember(s, owner, d, at) ==
    Membership(s, owner, at) /\ Owns(s, owner) /\ owner # d /\ Without(s, d)
Leave(s, d, at) == Membership(s, d, at) /\ ~Owns(s, d) /\ Without(s, d)

Delete(s, owner, at) ==
    /\ Membership(s, owner, at) /\ Owns(s, owner)
    /\ spaces' = {row \in spaces : row.id # s}
    /\ members' = {m \in members : m.space # s}
    /\ Cascade({s})
    /\ UNCHANGED made

RevokeInvites(s, owner, at) ==
    /\ Membership(s, owner, at) /\ Owns(s, owner)
    /\ invites' = {IF i.space = s THEN [i EXCEPT !.revoked = TRUE] ELSE i : i \in invites}
    /\ UNCHANGED <<spaces, members, receipts, made>>

Tick == clock < MaxClock /\ clock' = clock + 1 /\ UNCHANGED tables

-----------------------------------------------------------------------------
(* The store alone, under any requests *)

StoreNext ==
    \/ Tick
    \/ /\ UNCHANGED clock
       /\ \E d \in Devices, at \in Stamps :
          \/ \E r \in Requests : Create(d, r, at)
          \/ \E i \in invites, r \in Requests : Redeem(i, d, r, at)
          \/ \E s \in Spaces :
                \/ Invite(s, d, at) \/ RevokeInvites(s, d, at)
                \/ Leave(s, d, at) \/ Delete(s, d, at)
                \/ \E e \in Devices : RemoveMember(s, d, e, at)
StoreSpec == StoreInit /\ [][StoreNext]_<<tables, clock>>

-----------------------------------------------------------------------------
(* Properties *)

\* The tables hold rows of their kinds.
StoreTypeOK ==
    /\ spaces \subseteq [id: Spaces, owner: Devices, request: Requests,
                         expires: Nat \cup {Forever}]
    /\ members \subseteq [space: Spaces, device: Devices, address: Addresses]
    /\ invites \subseteq [id: Invites, space: Spaces, expires: Nat, remaining: Nat,
                          uses: Uses, revoked: BOOLEAN]
    /\ receipts \subseteq [invite: Invites, device: Devices, request: Requests]
    /\ made \in [spaces: 0..MaxSpaces, invites: 0..MaxInvites]
    /\ clock \in 0..MaxClock

\* Nobody in a space shares an address, the owner has the first one, and an owner
\* is never without its space: what is given back by one member and given out to
\* the next (storage/mod.rs:272) never collides.
AddressesHold ==
    /\ \A m, n \in members : m.space = n.space /\ m.address = n.address => m = n
    /\ \A m, n \in members : m.space = n.space /\ m.device = n.device => m = n
    /\ \A row \in spaces : HasAddress(row.id, row.owner, 1)
    /\ \A m \in members : \E row \in spaces : row.id = m.space

\* An invitation admits no more devices than it has uses, however often they come
\* again, leave and return; and a receipt is a member's, so that no old one brings
\* a removed member back (storage/mod.rs:243, 316).
InviteLedger == \A i \in invites :
    LET held == {r \in receipts : r.invite = i.id}
    IN  /\ Cardinality(held) <= i.uses - i.remaining
        /\ \A r \in held : IsMember(i.space, r.device)

\* The quotas hold for the spaces that have not expired, though a request is
\* judged by an old clock and expired rows stay in the tables.
QuotasHold ==
    /\ Cardinality(MembersAt(clock)) <= TotalMembers
    /\ Cardinality({row \in spaces : Alive(row, clock)}) <= SpaceLimit
    /\ \A s \in Spaces : Cardinality(MembersOf(s)) <= MembersPerSpace

\* The tables agree with each other after every transaction, the quotas included.
TablesAreSound == StoreTypeOK /\ AddressesHold /\ InviteLedger /\ QuotasHold
=============================================================================
