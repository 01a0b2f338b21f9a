---------------------------- MODULE MCFrsStream ----------------------------
(* Bounds for the runs of FrsStream. *)
EXTENDS FrsStream

CONSTANTS d1, d2

\* A writes, B does not (B's answers and B's FIN still cross A's data).
WritesNone == [e \in Ends |-> 0]
WritesOneNone == [e \in Ends |-> IF e = A THEN 1 ELSE 0]
WritesTwoNone == [e \in Ends |-> IF e = A THEN 2 ELSE 0]

\* One frame of each end can be late, repeated or lost.
NetOneOne == [e \in Ends |-> 1]
\* Two frames from A can overtake each other.
NetTwoOne == [e \in Ends |-> IF e = A THEN 2 ELSE 1]

\* For safety the stream never looks at the data, so that it is enough to take two
\* chunks that differ; and one of the two streams fails at most, and the other sees
\* a peer that went silent.  (The proofs know neither limit.)
Chunks == {<<>>, <<d1>>, <<d1, d2>>}
SafeSpec == Init /\ [][Next /\ sent'[A] \in Chunks /\ \E e \in Ends : err'[e] = "none"]_vars

\* For liveness A writes, or it shuts down, or B drops its handle: three small
\* systems in one run.  B asks for the end of the data only where it has data to read,
\* and that its task, once done, leaves its loop changes nothing for A.
OneThing ==
    /\ sent'[A] = <<>> \/ ~writeClosed'[A]
    /\ rd'[B] = "dropped" => sent'[A] = <<>> /\ ~writeClosed'[A]
    /\ writeClosed'[A] => rd'[B] = "open"
    /\ err'[B] # "none" => running'[B]
\* Of the conjuncts of FairSpec those are left out that nothing here can need (B neither
\* writes nor closes, A has nothing to read): what holds without them holds with them.
LiveSpec == Init /\ [][Next /\ OneThing]_vars
            /\ \A e \in Ends : WF_vars(Timer(e)) /\ SF_vars(LastCopy(e))
            /\ SF_vars(RetransmitsThrough(A)) /\ SF_vars(AckThrough(A))
            /\ SF_vars(CarriedThrough(B))
            /\ WF_vars(ShutdownPoll(A) \/ ShutdownWaits(A) \/ WriteFails(A))
            /\ WF_vars(Read(B))
=============================================================================
