------------------------------- MODULE EncStream -------------------------------
(* The encrypted byte stream of p2p/enc.rs over a relayed TCP connection, at     *)
(* both ends.  The user of an end talks to a task through a pair of bounded      *)
(* buffers (tokio's duplex); the task agrees on keys with the other end, then    *)
(* seals blocks one way and opens them the other way at once.  Of the task's     *)
(* progress the user knows the counters, the error and its own waker, under one  *)
(* lock.                                                                         *)
(*                                                                               *)
(* A block carries one write.  The connection keeps the order and may break at   *)
(* any time, with all that is under way; an end that is gone leaves it behind.   *)
(* Keys, challenges and tags are one bit: whether both have the same password.   *)
EXTENDS Naturals, Sequences

CONSTANTS
    A, B, Data,
    IoCap,          \* what fits between a user and its task, 64 KB
    WireCap,        \* what the connection buffers
    MaxWrites,      \* bound: writes of each end
    Droppers        \* bound: the ends whose user may let go
ASSUME EndsAssumption == A # B
ASSUME CapsAssumption == IoCap \in Nat /\ WireCap \in Nat

VARIABLES
    sent, got,      \* history: what the users wrote and read
    wr, rd,         \* what the writing and the reading side of a user last saw
    progress,       \* Progress: [accepted, flushed, closed, error, parked]
    up, down,       \* from the user to its task and back: [q, shut]
    task,           \* where the task is
    sending,        \* its half that seals: None or what it holds
    seq,            \* blocks written to the connection
    heard,          \* its other half has seen the last block
    wire,           \* what is on its way to an end
    broken, samePassword

userVars == <<sent, got, wr, rd>>
vars == <<userVars, progress, up, down, task, sending, seq, heard, wire, broken, samePassword>>

Ends == {A, B}
Peer(e) == IF e = A THEN B ELSE A
Block(v) == [kind |-> "data", data |-> v]
Signal(k) == [kind |-> k]

Init ==
    /\ sent = [e \in Ends |-> <<>>] /\ got = [e \in Ends |-> <<>>]
    /\ wr = [e \in Ends |-> "open"] /\ rd = [e \in Ends |-> "open"]
    /\ progress = [e \in Ends |->
          [accepted |-> 0, flushed |-> 0, closed |-> FALSE, error |-> FALSE, parked |-> FALSE]]
    /\ up = [e \in Ends |-> [q |-> <<>>, shut |-> FALSE]] /\ down = up
    /\ task = [e \in Ends |-> "new"] /\ sending = [e \in Ends |-> Signal("none")]
    /\ seq = [e \in Ends |-> 0] /\ heard = [e \in Ends |-> FALSE]
    /\ wire = [e \in Ends |-> <<>>] /\ broken = FALSE
    /\ samePassword \in BOOLEAN

Failed(e) == progress[e].error
Put(e, m) == Len(wire[Peer(e)]) < WireCap /\ ~broken
             /\ wire' = [wire EXCEPT ![Peer(e)] = Append(@, m)]
Arrives(e, k) == wire[e] # <<>> /\ Head(wire[e]).kind = k
WithoutFirst(e) == [wire EXCEPT ![e] = Tail(@)]

\* The connection is dropped with the task.
Left(e) == task[e] \in {"over", "failed", "aborted"}
CannotRead(e) == broken \/ (Left(Peer(e)) /\ wire[e] = <<>>)
CannotWrite(e) == broken \/ Left(Peer(e))

-----------------------------------------------------------------------------
(* The user *)

Write(e) ==
    /\ wr[e] = "open" /\ ~Failed(e) /\ Len(up[e].q) < IoCap /\ Len(sent[e]) < MaxWrites[e]
    /\ \E v \in Data :
          /\ sent' = [sent EXCEPT ![e] = Append(@, v)]
          /\ up' = [up EXCEPT ![e].q = Append(@, v)]
    /\ progress' = [progress EXCEPT ![e].accepted = @ + 1]
    /\ UNCHANGED <<got, wr, rd, down, task, sending, seq, heard, wire, broken, samePassword>>
WriteFails(e) ==
    /\ wr[e] = "open" /\ Failed(e) /\ wr' = [wr EXCEPT ![e] = "err"]
    /\ UNCHANGED <<sent, got, rd, progress, up, down, task, sending, seq, heard, wire, broken, samePassword>>

Flush(e) ==
    /\ wr[e] = "open" /\ wr' = [wr EXCEPT ![e] = "flushing"]
    /\ UNCHANGED <<sent, got, rd, progress, up, down, task, sending, seq, heard, wire, broken, samePassword>>
Close(e) ==
    /\ wr[e] = "open" /\ wr' = [wr EXCEPT ![e] = "closing"]
    /\ up' = [up EXCEPT ![e].shut = TRUE]
    /\ UNCHANGED <<sent, got, rd, progress, down, task, sending, seq, heard, wire, broken, samePassword>>

\* poll_flush and poll_shutdown: the error, the result, or a waker for the task.
Ready(e) == IF wr[e] = "closing" THEN progress[e].closed
            ELSE progress[e].flushed = progress[e].accepted
Poll(e) ==
    /\ wr[e] \in {"flushing", "closing"} /\ ~progress[e].parked
    /\ \/ /\ Failed(e) /\ wr' = [wr EXCEPT ![e] = "err"] /\ UNCHANGED progress
       \/ /\ ~Failed(e) /\ Ready(e) /\ wr' = [wr EXCEPT ![e] = IF @ = "closing" THEN "ok" ELSE "open"]
          /\ UNCHANGED progress
       \/ /\ ~Failed(e) /\ ~Ready(e) /\ progress' = [progress EXCEPT ![e].parked = TRUE] /\ UNCHANGED wr
    /\ UNCHANGED <<sent, got, rd, up, down, task, sending, seq, heard, wire, broken, samePassword>>

\* poll_read looks at the error under the lock and, having let go of it, at the buffer,
\* where it finds data, the end, or nothing yet.  The buffer also ends when the task has
\* left it.
ReadBegins(e) ==
    /\ rd[e] = "open" /\ rd' = [rd EXCEPT ![e] = IF Failed(e) THEN "err" ELSE "reading"]
    /\ UNCHANGED <<sent, got, wr, progress, up, down, task, sending, seq, heard, wire, broken, samePassword>>
Read(e) ==
    /\ rd[e] = "reading"
    /\ IF down[e].q # <<>>
       THEN /\ got' = [got EXCEPT ![e] = Append(@, Head(down[e].q))]
            /\ down' = [down EXCEPT ![e].q = Tail(@)] /\ rd' = [rd EXCEPT ![e] = "open"]
       ELSE /\ rd' = [rd EXCEPT ![e] = IF down[e].shut \/ Left(e) THEN "eof" ELSE "open"]
            /\ UNCHANGED <<got, down>>
    /\ UNCHANGED <<sent, wr, progress, up, task, sending, seq, heard, wire, broken, samePassword>>

\* The task is aborted wherever it is, and its buffers go with it.
Drop(e) ==
    /\ e \in Droppers /\ rd[e] # "dropped"
    /\ wr' = [wr EXCEPT ![e] = "dropped"] /\ rd' = [rd EXCEPT ![e] = "dropped"]
    /\ task' = [task EXCEPT ![e] = IF Left(e) THEN @ ELSE "aborted"]
    /\ progress' = [progress EXCEPT ![e].parked = FALSE]
    /\ up' = [up EXCEPT ![e].q = <<>>] /\ down' = [down EXCEPT ![e].q = <<>>]
    /\ sending' = [sending EXCEPT ![e] = Signal("none")]
    /\ UNCHANGED <<sent, got, seq, heard, wire, broken, samePassword>>

-----------------------------------------------------------------------------
(* The task *)

Handshaking(e) == task[e] \in {"new", "hello", "heard", "confirm"}
Challenge(e) ==
    /\ task[e] = "new" /\ Put(e, Signal("challenge")) /\ task' = [task EXCEPT ![e] = "hello"]
    /\ UNCHANGED <<userVars, progress, up, down, sending, seq, heard, broken, samePassword>>
Hear(e) ==
    /\ task[e] = "hello" /\ Arrives(e, "challenge") /\ ~broken
    /\ wire' = WithoutFirst(e) /\ task' = [task EXCEPT ![e] = "heard"]
    /\ UNCHANGED <<userVars, progress, up, down, sending, seq, heard, broken, samePassword>>
Confirm(e) ==
    /\ task[e] = "heard" /\ Put(e, Signal("tag")) /\ task' = [task EXCEPT ![e] = "confirm"]
    /\ UNCHANGED <<userVars, progress, up, down, sending, seq, heard, broken, samePassword>>
Agree(e) ==
    /\ task[e] = "confirm" /\ Arrives(e, "tag") /\ samePassword /\ ~broken
    /\ wire' = WithoutFirst(e) /\ task' = [task EXCEPT ![e] = "on"]
    /\ UNCHANGED <<userVars, progress, up, down, sending, seq, heard, broken, samePassword>>

\* The send half: a block is taken, written, and then counted.  The last one is empty.
\* Mutant: it overtakes what the user has left.
DrainedEarly(e) == up[e].shut
Drained(e) == up[e].q = <<>> /\ up[e].shut
Seal(e) ==
    /\ task[e] = "on" /\ sending[e].kind = "none"
    /\ \/ /\ up[e].q # <<>> /\ sending' = [sending EXCEPT ![e] = Block(Head(up[e].q))]
          /\ up' = [up EXCEPT ![e].q = Tail(@)]
       \/ /\ Drained(e) /\ sending' = [sending EXCEPT ![e] = Signal("last")]
          /\ UNCHANGED up
    /\ UNCHANGED <<userVars, progress, down, task, seq, heard, wire, broken, samePassword>>
Holds(e) == sending[e].kind \in {"data", "last"}
Emit(e) ==
    /\ task[e] = "on" /\ Holds(e) /\ Put(e, sending[e])
    /\ seq' = [seq EXCEPT ![e] = @ + 1]
    /\ sending' = [sending EXCEPT ![e] = Signal(IF @.kind = "last" THEN "end" ELSE "written")]
    /\ UNCHANGED <<userVars, progress, up, down, task, heard, broken, samePassword>>
\* The user is woken.  Mutant: a block counts as soon as there is one.
CountsEarly(e) == task[e] = "on" /\ sending[e].kind \in {"written", "data", "end", "last"}
Counts(e) == task[e] = "on" /\ sending[e].kind \in {"written", "end"}
Count(e) ==
    /\ Counts(e) /\ ~progress[e].closed
    /\ progress' = [progress EXCEPT ![e].parked = FALSE,
          ![e].flushed = IF sending[e].kind = "written" THEN @ + 1 ELSE @,
          ![e].closed = sending[e].kind \in {"end", "last"}]
    /\ sending' = [sending EXCEPT ![e] = IF @.kind = "written" THEN Signal("none") ELSE @]
    /\ UNCHANGED <<userVars, up, down, task, seq, heard, wire, broken, samePassword>>

\* The other half: a block is opened and handed on; the last one is the end.
Open(e) ==
    /\ task[e] = "on" /\ ~heard[e] /\ ~broken
    /\ \/ /\ Arrives(e, "data") /\ Len(down[e].q) < IoCap
          /\ down' = [down EXCEPT ![e].q = Append(@, Head(wire[e]).data)] /\ UNCHANGED heard
       \/ /\ Arrives(e, "last") /\ down' = [down EXCEPT ![e].shut = TRUE]
          /\ heard' = [heard EXCEPT ![e] = TRUE]
    /\ wire' = WithoutFirst(e)
    /\ UNCHANGED <<userVars, progress, up, task, sending, seq, broken, samePassword>>

Finish(e) ==
    /\ task[e] = "on" /\ heard[e] /\ progress[e].closed
    /\ task' = [task EXCEPT ![e] = "over"]
    /\ UNCHANGED <<userVars, progress, up, down, sending, seq, heard, wire, broken, samePassword>>

\* An error in either half, a wrong tag, or ten seconds without an agreement.  The user
\* is woken.  Mutant: it is not.
Fails(e) ==
    \/ Handshaking(e)
    \/ task[e] = "on" /\ ~heard[e] /\ CannotRead(e)
    \/ task[e] = "on" /\ Holds(e) /\ CannotWrite(e)
FailUnheard(e) ==
    /\ Fails(e) /\ task' = [task EXCEPT ![e] = "failed"]
    /\ sending' = [sending EXCEPT ![e] = Signal("none")] /\ up' = [up EXCEPT ![e].q = <<>>]
    /\ progress' = [progress EXCEPT ![e].error = TRUE]
    /\ UNCHANGED <<userVars, down, seq, heard, wire, broken, samePassword>>
Fail(e) ==
    /\ Fails(e) /\ task' = [task EXCEPT ![e] = "failed"]
    /\ sending' = [sending EXCEPT ![e] = Signal("none")] /\ up' = [up EXCEPT ![e].q = <<>>]
    /\ progress' = [progress EXCEPT ![e].error = TRUE, ![e].parked = FALSE]
    /\ UNCHANGED <<userVars, down, seq, heard, wire, broken, samePassword>>

Break ==
    /\ ~broken /\ broken' = TRUE /\ wire' = [e \in Ends |-> <<>>]
    /\ UNCHANGED <<userVars, progress, up, down, task, sending, seq, heard, samePassword>>

-----------------------------------------------------------------------------
Task(e) == Challenge(e) \/ Hear(e) \/ Confirm(e) \/ Agree(e) \/ Seal(e) \/ Emit(e) \/ Count(e) \/ Open(e)
           \/ Finish(e) \/ Fail(e)
User(e) == Write(e) \/ WriteFails(e) \/ Flush(e) \/ Close(e) \/ Drop(e)
Next == Break \/ \E e \in Ends : Task(e) \/ User(e) \/ Poll(e) \/ ReadBegins(e) \/ Read(e)

\* Tasks run, a waker that was called is heeded, and who holds a stream reads it.
Fairness == \A e \in Ends :
    WF_vars(Task(e)) /\ WF_vars(Poll(e)) /\ WF_vars(ReadBegins(e) \/ Read(e))
Spec == Init /\ [][Next]_vars /\ Fairness

-----------------------------------------------------------------------------
(* Properties *)

TypeOK ==
    /\ \A e \in Ends :
          /\ sent[e] \in Seq(Data) /\ got[e] \in Seq(Data)
          /\ wr[e] \in {"open", "flushing", "closing", "ok", "err", "dropped"}
          /\ rd[e] \in {"open", "reading", "eof", "err", "dropped"}
          /\ Len(up[e].q) <= IoCap /\ Len(down[e].q) <= IoCap /\ Len(wire[e]) <= WireCap
          /\ task[e] \in {"new", "hello", "heard", "confirm", "on", "over", "failed", "aborted"}
    /\ {broken, samePassword} \subseteq BOOLEAN

\* What the user is told of its data is true: what counts as flushed is on the
\* connection or further, in order; and the stream is closed when its last block is.
ProgressIsTrue == \A e \in Ends :
    /\ progress[e].accepted = Len(sent[e])
    /\ progress[e].flushed <= seq[e] /\ seq[e] <= Len(sent[e]) + 1
    /\ progress[e].closed => progress[e].flushed = Len(sent[e]) /\ seq[e] = Len(sent[e]) + 1

\* Nothing is opened between ends that have not the same password.
StrangersShareNothing == ~samePassword => \A e \in Ends : got[e] = <<>> /\ seq[e] = 0 /\ ~down[e].shut

EncIsSound == TypeOK /\ ProgressIsTrue /\ StrangersShareNothing

\* The two ends are a pair of reliable pipes: a prefix is read and a shutdown that
\* succeeds has written everything.  Here an item is taken when it is written; and an
\* end of file is the end, or the error it stands for (see EofIsTheEnd).
Pipe == INSTANCE ReliablePipe WITH
    taken <- [e \in Ends |-> seq[Peer(e)]],
    closed <- [e \in Ends |-> up[e].shut],
    gone <- [e \in Ends |-> progress[e].error],
    wr <- [e \in Ends |-> IF wr[e] = "flushing" THEN "open" ELSE wr[e]],
    rd <- [e \in Ends |-> IF rd[e] = "reading" THEN "open"
                          ELSE IF rd[e] = "eof" /\ ~down[e].shut THEN "err" ELSE rd[e]]
PipeSpec == Pipe!PipeSpec

\* "Authenticated bounded byte stream" (enc.rs:1): who reads the end of file has read all
\* that was written before the other user closed.
EofIsTheEnd == \A e \in Ends :
    rd[e] = "eof" => up[Peer(e)].shut /\ got[e] = sent[Peer(e)]

\* Whoever waits for a flush or a shutdown is told: data that was counted, a closing
\* that was, and an error each call the waker that is there.
NobodyParksForEver == \A e \in Ends :
    wr[e] \in {"flushing", "closing"} ~> wr[e] \notin {"flushing", "closing"}
=============================================================================
