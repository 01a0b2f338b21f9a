------------------------------- MODULE SecureLink -------------------------------
(* Two ends of a keyed UDP stream (p2p/stream.rs) that come and go: an end is    *)
(* replaced at the same address while the other still has its old stream and     *)
(* datagrams of both are on their way, to be lost, repeated and reordered.       *)
(* What the streams do with a frame that passes is FrsStream's.                  *)
(*                                                                               *)
(* All datagrams ever sent stay in net: each may come late, again or never.      *)
(* On a prompt network none outlasts the silence a stream dies of (three         *)
(* seconds at least).                                                            *)
EXTENDS DatagramSecurity, FiniteSets

CONSTANTS
    A, B, Key,
    Senders,        \* bound: the ends that send frames
    MaxSent,        \* bound: frames sealed by one stream (one on a prompt network)
    MaxFaults,      \* bound: streams replaced while they work
    MaxNonces       \* bound: streams ever made

ASSUME EndsAssumption == A # B
ASSUME NonceAssumption == Nothing \notin Nat /\ MaxNonces \in Nat /\ MaxNonces > 1
ASSUME FramesAssumption == MaxSent \in Nat \ {0} /\ MaxFaults \in Nat

VARIABLES
    cipher,         \* of an end: its present stream's DatagramSecurity
    nonces,         \* nonces drawn
    faults,
    prompt,         \* the network is prompt
    net,            \* datagrams to an end
    taken,          \* history: what the present stream of an end let pass
    again           \* history: a stream let a message pass twice

linkVars == <<cipher, nonces, faults, prompt, net, taken, again>>

Ends == {A, B}
Peer(e) == IF e = A THEN B ELSE A

LinkInit ==
    /\ cipher = [e \in Ends |-> New(Key, IF e = A THEN 1 ELSE 2)]
    /\ nonces = 2 /\ faults = 0 /\ prompt \in BOOLEAN
    /\ net = [e \in Ends |-> {}] /\ taken = [e \in Ends |-> {}] /\ again = FALSE

Post(e, m) == net' = [net EXCEPT ![Peer(e)] = @ \cup {m}]

\* A new stream takes the place of the old one: add_peer, or another attempt.
Replace(e) ==
    /\ nonces < MaxNonces /\ nonces' = nonces + 1
    /\ cipher' = [cipher EXCEPT ![e] = New(Key, nonces + 1)]
    /\ taken' = [taken EXCEPT ![e] = {}]
    /\ UNCHANGED <<prompt, again>>
Restart(e) == faults < MaxFaults /\ faults' = faults + 1 /\ Replace(e) /\ UNCHANGED net

\* A stream whose other side is no more hears nothing that passes, dies of silence
\* and is made anew.  Of itself and of the former streams of the other side no hello
\* is under way by then.
Orphaned(e) == Ready(cipher[e]) /\ cipher[e].remote # cipher[Peer(e)].local
DiesOfSilence(e) ==
    /\ prompt /\ Orphaned(e) /\ Replace(e)
    /\ net' = [net EXCEPT ![e] = {m \in @ : m.from = cipher[Peer(e)].local},
                          ![Peer(e)] = {m \in @ : m.kind = "sealed"}]
    /\ UNCHANGED faults

\* on_timer: hello until the other side has answered.
Greet(e) ==
    /\ ~Ready(cipher[e]) /\ Post(e, Hello(cipher[e], Nothing))
    /\ UNCHANGED <<cipher, nonces, faults, prompt, taken, again>>

\* The hellos under way to an end are lost.  (A frame that never comes is as good as
\* lost; and on a network that is not prompt nothing need come.)
Lose(e) ==
    /\ prompt
    /\ net' = [net EXCEPT ![e] = {m \in @ : m.kind = "sealed"}]
    /\ UNCHANGED <<cipher, nonces, faults, prompt, taken, again>>

\* send_frame
Send(e) ==
    /\ e \in Senders /\ Ready(cipher[e]) /\ cipher[e].tx < (IF prompt THEN 1 ELSE MaxSent)
    /\ Post(e, Sealed(cipher[e], cipher[e].tx, "frame"))
    /\ cipher' = [cipher EXCEPT ![e].tx = @ + 1]
    /\ UNCHANGED <<nonces, faults, prompt, taken, again>>

\* handle_incoming, up to where the frame goes on to the stream.
Answer(e, m) ==
    /\ Replies(cipher[e], m)
    /\ cipher' = [cipher EXCEPT ![e] = IF Binds(@, m) THEN Bound(@, m) ELSE @]
    /\ Post(e, Reply(cipher[e], m))
    /\ UNCHANGED <<nonces, faults, prompt, taken, again>>
Admit(e, m) ==
    /\ Genuine(cipher[e], m) /\ Unseen(cipher[e], m.seq)
    /\ cipher' = [cipher EXCEPT ![e] = Taken(@, m.seq)]
    /\ again' = (again \/ m \in taken[e])
    /\ taken' = [taken EXCEPT ![e] = @ \cup {m}]
    /\ UNCHANGED <<nonces, faults, prompt, net>>
Greeted(e) == \E m \in net[e] : m.kind = "hello" /\ m.echo = Nothing /\ Answer(e, m)
Echoed(e) == \E m \in net[e] : m.kind = "hello" /\ m.echo # Nothing /\ Answer(e, m)

LinkNext == \E e \in Ends :
    \/ Restart(e) \/ DiesOfSilence(e) \/ Greet(e) \/ Lose(e) \/ Send(e)
    \/ Greeted(e) \/ Echoed(e) \/ \E m \in net[e] : Admit(e, m)

\* Timers run; of hellos that are sent again and again some come through, and so do
\* their answers.
LinkFairness == \A e \in Ends :
    /\ WF_linkVars(DiesOfSilence(e)) /\ WF_linkVars(Greet(e))
    /\ SF_linkVars(Greeted(e)) /\ SF_linkVars(Echoed(e))
LinkSpec == LinkInit /\ [][LinkNext]_linkVars /\ LinkFairness

-----------------------------------------------------------------------------
(* Properties *)

Nonces == 1..MaxNonces
LinkTypeOK ==
    /\ cipher \in [Ends -> [key: {Key}, local: Nonces, remote: Nonces \cup {Nothing}, tx: 0..MaxSent,
                            high: 0..(MaxSent - 1) \cup {Nothing}, seen: SUBSET (0..(Window - 1))]]
    /\ nonces \in Nonces /\ faults \in 0..MaxFaults /\ {prompt, again} \subseteq BOOLEAN

\* No datagram passes twice, however often the network repeats it, and none that was
\* made for a former stream of this end passes or was made by a former stream of the other.
PassesOnce ==
    /\ ~again
    /\ \A e \in Ends : \A m \in taken[e] :
          m.aad = cipher[e].local /\ m.from = cipher[e].remote

\* The window knows exactly what passed of the latest numbers: nothing new that is
\* recent enough is taken for a repetition.
WindowIsExact == \A e \in Ends :
    LET seqs == {m.seq : m \in taken[e]}
        high == CHOOSE s \in seqs : \A t \in seqs : t <= s
    IN  IF seqs = {} THEN cipher[e].high = Nothing
        ELSE /\ cipher[e].high = high
             /\ cipher[e].seen = {high - s : s \in {t \in seqs : high - t < Window}}

ReplayIsSound == LinkTypeOK /\ PassesOnce /\ WindowIsExact

\* When streams are no longer replaced for other reasons, the two ends come to be
\* bound to each other, if the network is prompt.
Together == \A e \in Ends : cipher[e].remote = cipher[Peer(e)].local
BoundInTheEnd == prompt => <>[]Together
=============================================================================
