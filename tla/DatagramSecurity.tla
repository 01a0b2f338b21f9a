---------------------------- MODULE DatagramSecurity ----------------------------
(* The envelope of datagrams, p2p/security.rs: the state of one side of a keyed  *)
(* link and what becomes of the messages it receives.  Each side has a random    *)
(* nonce of its own.  A hello carries it and echoes the receiver's; who hears    *)
(* its own nonce echoed knows the other side to be alive and binds itself to it, *)
(* for good.  Sealed messages are numbered, and are bound to both nonces.        *)
(*                                                                               *)
(* A message that is authentic is one made by New's owner of the same key: the   *)
(* key is a field, and only equality of keys is asked of the cryptography.       *)
EXTENDS Integers

CONSTANTS
    Nothing,
    Window      \* the replay window, 128

ASSUME WindowAssumption == Window \in Nat \ {0}

New(key, nonce) == [key |-> key, local |-> nonce, remote |-> Nothing,
                    tx |-> 0, high |-> Nothing, seen |-> {}]
Ready(c) == c.remote # Nothing

Hello(c, echo) == [kind |-> "hello", key |-> c.key, from |-> c.local, echo |-> echo]
Sealed(c, seq, data) ==
    [kind |-> "sealed", key |-> c.key, from |-> c.local, aad |-> c.remote,
     seq |-> seq, data |-> data]

\* A hello of another link, of our own, or of another side than the one we are bound
\* to says nothing.  Mutant: the key does not matter.
HeedsAnyKey(c, m) == m.kind = "hello" /\ m.from # c.local /\ (Ready(c) => c.remote = m.from)
Heeds(c, m) ==
    /\ m.kind = "hello" /\ m.key = c.key /\ m.from # c.local
    /\ Ready(c) => c.remote = m.from

\* A first hello is answered, also by who is bound already, whose own last hello may
\* have been lost; one that echoes us binds us, once.  Mutants: who is bound answers
\* no more; any hello binds.
BindsToAny(c, m) == Heeds(c, m) /\ ~Ready(c)
Binds(c, m) == Heeds(c, m) /\ ~Ready(c) /\ m.echo = c.local
RepliesUnbound(c, m) == ~Ready(c) /\ ((Heeds(c, m) /\ m.echo = Nothing) \/ Binds(c, m))
Replies(c, m) == (Heeds(c, m) /\ m.echo = Nothing) \/ Binds(c, m)
Bound(c, m) == [c EXCEPT !.remote = m.from]
Reply(c, m) == Hello(c, m.from)

\* Mutant: what was sealed for a former link is taken.
FromBound(c, m) == m.kind = "sealed" /\ Ready(c) /\ m.key = c.key /\ m.from = c.remote
Genuine(c, m) == FromBound(c, m) /\ m.aad = c.local

\* The replay window: seen holds the distances from high of what was taken.
\* Mutant: the distances are not shifted.
Unseen(c, seq) ==
    c.high # Nothing /\ seq <= c.high => c.high - seq < Window /\ c.high - seq \notin c.seen
ShiftsNothing(c, seq) == c.seen
Shifted(c, seq) == {d \in {s + seq - c.high : s \in c.seen} : d < Window}
Taken(c, seq) ==
    IF c.high = Nothing \/ (c.high # Nothing /\ seq > c.high)
    THEN [c EXCEPT !.high = seq, !.seen = {0} \cup IF c.high = Nothing THEN {} ELSE Shifted(c, seq)]
    ELSE [c EXCEPT !.seen = @ \cup {c.high - seq}]
=============================================================================
