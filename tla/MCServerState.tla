--------------------------- MODULE MCServerState ---------------------------
(* The state the server keeps, in one run: the rooms, and the tables of the      *)
(* permanent spaces.  They share nothing; in a behaviour the one that `part`     *)
(* names moves, the other rests.  There are three devices, two spaces that       *)
(* expire and two invitations with two uses each.                                *)
EXTENDS RoomRegistry, SpaceStore, TLC

CONSTANTS x1, x2, x3, y1, y2, a1, i1, i2

VARIABLE part

\* A room whose owner has an address, one with a pool of addresses, and one whose pool
\* holds the owner's own address.
ThreeSetups == {<<i1, <<>>>>, <<None, <<i1, i2>>>>, <<i1, <<i1, i2>>>>}
Interchangeable == Permutations({x1, x2, x3}) \cup Permutations({y1, y2})

ServerInit == part \in {"rooms", "store"} /\ Init /\ StoreInit
ServerNext ==
    /\ UNCHANGED part
    /\ \/ part = "rooms" /\ Next /\ UNCHANGED <<tables, clock>>
       \/ part = "store" /\ StoreNext /\ UNCHANGED vars
ServerSpec == ServerInit /\ [][ServerNext]_<<part, vars, tables, clock>>
=============================================================================
