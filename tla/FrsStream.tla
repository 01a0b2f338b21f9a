------------------------------ MODULE FrsStream ------------------------------
(***************************************************************************)
(* The FRS2 reliable stream over UDP of p2p/stream.rs: two UdpStreams,     *)
(* each a task (`run`) that owns the socket and a `Shared` record under a  *)
(* mutex, and a user that polls it for reading, writing and shutdown.      *)
(* Go-back-N with cumulative acknowledgements, a FIN per direction, a      *)
(* keepalive ping, a liveness timeout and a close timeout.                 *)
(*                                                                         *)
(* A chunk of user data (at most MAX_PAYLOAD bytes) is one element of      *)
(* Data; buffer capacities count chunks.  Time is counted in rounds of the *)
(* retransmission timer.  The network may lose, delay, reorder and repeat  *)
(* frames.  The cipher of a keyed stream is not modelled here: a frame     *)
(* that fails to authenticate is a lost frame.                             *)
(***************************************************************************)
EXTENDS Naturals, Sequences, FiniteSets

CONSTANTS
    A, B,           \* the two ends
    Data,           \* chunks of user data
    NoData,         \* the payload of FIN and ACK frames
    Window,         \* WINDOW
    OutCap,         \* OUT_CAP, in chunks
    RxCap,          \* RX_CAP, in chunks
    MaxSeq,         \* u32::MAX
    LiveTicks,      \* the liveness timeout, in timer rounds
    Grace,          \* how many times longer it is before the first frame (5)
    CloseTicks,     \* CLOSE_TIMEOUT_MS, in timer rounds
    MaxLate,        \* how many rounds may pass between two runs of on_timer
    MaxWrites,      \* bound: MaxWrites[e] chunks are written by the user of e
    MaxNet,         \* bound: at most MaxNet[e] different frames are on their way from e
    Closers,        \* bound: the ends whose users shut their writing side down
    Droppers        \* bound: the ends whose users may drop the stream

Ends == {A, B}
Peer(e) == IF e = A THEN B ELSE A

ASSUME EndsAssumption == A # B
ASSUME DataAssumption == NoData \notin Data
ASSUME SizesAssumption ==
    /\ Window \in Nat \ {0} /\ OutCap \in Nat \ {0} /\ RxCap \in Nat \ {0}
    /\ MaxSeq \in Nat \ {0}
ASSUME TimeAssumption ==
    /\ LiveTicks \in Nat \ {0} /\ Grace \in Nat \ {0} /\ CloseTicks \in Nat \ {0}
    /\ MaxLate \in Nat \ {0}
ASSUME BoundAssumption == MaxWrites \in [Ends -> Nat] /\ MaxNet \in [Ends -> Nat]
                          /\ Closers \subseteq Ends /\ Droppers \subseteq Ends

VARIABLES
    \* Shared, receiving side
    rxBuf, rxClosed, nextExpected,
    \* Shared, sending side
    outQ, unacked, nextSeq, finSent, finSeq, finAcked, writeClosed,
    \* Shared, liveness: rounds since last_rx, whether a frame ever came, err
    quiet, hadRx, err,
    \* Shared.write_waker is set
    parked,
    \* the task has not left the loop of run
    running,
    \* datagrams on their way from e
    net,
    \* the user: outcome of its writing and reading side, and what it wrote and read
    wr, rd, sent, got,
    \* where a poll_shutdown that has to wait is: "no", "between" its two looks at
    \* Shared, or "missed": its second look registered a waker after fail took it
    look,
    \* history: on_timer declared an unacknowledged FIN acknowledged
    gaveUp

rcvVars == <<rxBuf, rxClosed, nextExpected>>
sndVars == <<outQ, unacked, nextSeq, finSent, finSeq>>
ackVars == <<finAcked, gaveUp>>
liveVars == <<quiet, hadRx, err>>
userVars == <<wr, rd, sent, got, writeClosed, look>>
vars == <<rcvVars, sndVars, ackVars, liveVars, userVars, parked, running, net>>

Frame == [kind : {"data"}, seq : Nat, ack : Nat, data : Data]
         \cup [kind : {"fin", "ack", "ping"}, seq : Nat, ack : Nat, data : {NoData}]

DataFrame(e, n, v) == [kind |-> "data", seq |-> n, ack |-> nextExpected[e], data |-> v]
FinFrame(e, n) == [kind |-> "fin", seq |-> n, ack |-> nextExpected[e], data |-> NoData]
\* A pure ACK also carries next_seq, which no receiver reads.
AckFrame(k, n) == [kind |-> k, seq |-> 0, ack |-> n, data |-> NoData]

-----------------------------------------------------------------------------
Init ==
    /\ rxBuf = [e \in Ends |-> <<>>]
    /\ rxClosed = [e \in Ends |-> FALSE]
    /\ nextExpected = [e \in Ends |-> 1]
    /\ outQ = [e \in Ends |-> <<>>]
    /\ unacked = [e \in Ends |-> <<>>]
    /\ nextSeq = [e \in Ends |-> 1]
    /\ finSent = [e \in Ends |-> FALSE]
    /\ finSeq = [e \in Ends |-> 0]
    /\ finAcked = [e \in Ends |-> FALSE]
    /\ gaveUp = [e \in Ends |-> FALSE]
    /\ writeClosed = [e \in Ends |-> FALSE]
    /\ quiet = [e \in Ends |-> 0]
    /\ hadRx = [e \in Ends |-> FALSE]
    /\ err = [e \in Ends |-> "none"]
    /\ parked = [e \in Ends |-> FALSE]
    /\ running = [e \in Ends |-> TRUE]
    /\ net = [e \in Ends |-> {}]
    /\ wr = [e \in Ends |-> "open"]
    /\ rd = [e \in Ends |-> "open"]
    /\ sent = [e \in Ends |-> <<>>]
    /\ got = [e \in Ends |-> <<>>]
    /\ look = [e \in Ends |-> "no"]

\* The network takes some of the frames F that e sends, and may lose all older ones.
Carried(e, F) == {N \in {net[e] \cup S : S \in SUBSET F} \cup SUBSET F :
                     Cardinality(N) <= MaxNet[e] \/ N = net[e]}
Post(e, F) == \E N \in Carried(e, F) : net' = [net EXCEPT ![e] = N]

-----------------------------------------------------------------------------
(* The user of the stream *)

\* The user calls poll_write, and it gets past its checks.
\* Mutant: without the check of write_closed.
AcceptsAfterShutdown(e) == wr[e] \in {"open", "closing"} /\ ~parked[e] /\ err[e] = "none"
Accepts(e) == wr[e] = "open" /\ ~parked[e] /\ err[e] = "none"

\* poll_write accepts a chunk.
Write(e) ==
    /\ Accepts(e) /\ Len(outQ[e]) < OutCap
    /\ Len(sent[e]) < MaxWrites[e]
    /\ \E v \in Data :
          /\ outQ' = [outQ EXCEPT ![e] = Append(@, v)]
          /\ sent' = [sent EXCEPT ![e] = Append(@, v)]
    /\ UNCHANGED <<rcvVars, unacked, nextSeq, finSent, finSeq, ackVars, liveVars,
                   wr, rd, got, writeClosed, look, parked, running, net>>

\* poll_write with a full queue registers the waker and returns Pending.
WriteParks(e) ==
    /\ Accepts(e) /\ Len(outQ[e]) >= OutCap
    /\ parked' = [parked EXCEPT ![e] = TRUE]
    /\ UNCHANGED <<rcvVars, sndVars, ackVars, liveVars, userVars, running, net>>

\* The first poll_shutdown, its first look at Shared: the writing side is closed.
Shutdown(e) ==
    /\ e \in Closers
    /\ wr[e] = "open" /\ ~parked[e]
    /\ err[e] = "none"
    /\ writeClosed' = [writeClosed EXCEPT ![e] = TRUE]
    /\ wr' = [wr EXCEPT ![e] = "closing"]
    /\ look' = [look EXCEPT ![e] = "between"]
    /\ UNCHANGED <<rcvVars, sndVars, ackVars, liveVars, rd, sent, got, parked, running, net>>

\* poll_shutdown after a wake-up, its first look.
ShutdownPoll(e) ==
    /\ wr[e] = "closing" /\ look[e] = "no" /\ ~parked[e]
    /\ err[e] = "none"
    /\ IF finAcked[e]
       THEN wr' = [wr EXCEPT ![e] = "ok"] /\ UNCHANGED look
       ELSE look' = [look EXCEPT ![e] = "between"] /\ UNCHANGED wr
    /\ UNCHANGED <<rcvVars, sndVars, ackVars, liveVars, rd, sent, got, writeClosed,
                   parked, running, net>>

\* The second look of poll_shutdown, under a lock of its own: it asks for the FIN's
\* ACK only.  A stream that failed since the first look has used its wakers already.
ShutdownWaits(e) ==
    /\ look[e] = "between"
    /\ IF finAcked[e]
       THEN /\ wr' = [wr EXCEPT ![e] = "ok"] /\ look' = [look EXCEPT ![e] = "no"]
            /\ UNCHANGED parked
       ELSE /\ parked' = [parked EXCEPT ![e] = TRUE]
            /\ look' = [look EXCEPT ![e] = IF err[e] = "none" THEN "no" ELSE "missed"]
            /\ UNCHANGED wr
    /\ UNCHANGED <<rcvVars, sndVars, ackVars, liveVars, rd, sent, got, writeClosed, running, net>>

\* poll_write or poll_shutdown on a failed stream.
WriteFails(e) ==
    /\ wr[e] \in {"open", "closing"} /\ look[e] = "no" /\ ~parked[e]
    /\ err[e] # "none"
    /\ wr' = [wr EXCEPT ![e] = "err"]
    /\ UNCHANGED <<rcvVars, sndVars, ackVars, liveVars, rd, sent, got, writeClosed, look,
                   parked, running, net>>

\* poll_read: the error goes before what is still buffered.
Read(e) ==
    /\ rd[e] = "open" /\ err[e] = "none" /\ rxBuf[e] # <<>>
    /\ got' = [got EXCEPT ![e] = Append(@, Head(rxBuf[e]))]
    /\ rxBuf' = [rxBuf EXCEPT ![e] = Tail(@)]
    /\ UNCHANGED <<rxClosed, nextExpected, sndVars, ackVars, liveVars, wr, rd, sent,
                   writeClosed, look, parked, running, net>>

\* Mutant: the end of the data is reported before the buffer is drained.
EofAtFin(e) == rxClosed[e]
AtEof(e) == rxBuf[e] = <<>> /\ rxClosed[e]

ReadEnds(e) ==
    /\ rd[e] = "open"
    /\ \/ err[e] # "none" /\ rd' = [rd EXCEPT ![e] = "err"]
       \/ err[e] = "none" /\ AtEof(e) /\ rd' = [rd EXCEPT ![e] = "eof"]
    /\ UNCHANGED <<rcvVars, sndVars, ackVars, liveVars, wr, sent, got, writeClosed,
                   look, parked, running, net>>

\* Drop for UdpStream, which no poll is using: idle_close tells the task.
DropHandle(e) ==
    /\ e \in Droppers
    /\ look[e] # "between"
    /\ rd[e] # "dropped"
    /\ rd' = [rd EXCEPT ![e] = "dropped"]
    /\ wr' = [wr EXCEPT ![e] = "dropped"]
    /\ parked' = [parked EXCEPT ![e] = FALSE]
    /\ look' = [look EXCEPT ![e] = "no"]
    /\ UNCHANGED <<rcvVars, sndVars, ackVars, liveVars, sent, got, writeClosed, running, net>>

-----------------------------------------------------------------------------
(* The task: run, flush_out, handle_incoming, on_timer *)

Done(e) == err[e] # "none" \/ (finAcked[e] /\ rxClosed[e])

Exit(e) ==
    /\ running[e]
    /\ Done(e) \/ rd[e] = "dropped"
    /\ running' = [running EXCEPT ![e] = FALSE]
    /\ UNCHANGED <<rcvVars, sndVars, ackVars, liveVars, userVars, parked, net>>

(***************************************************************************)
(* flush_out: queued chunks become DATA frames while the window and the    *)
(* sequence space last, then the FIN if the writing side is closed.  The   *)
(* loop releases the mutex while it sends; what the user does meanwhile    *)
(* (append to the queue, close, park) is the same done before or after.    *)
(***************************************************************************)
\* How many sequence numbers are left: the loop tests next_seq against u32::MAX.
\* Mutant: the test is one number late.
NumbersOneMore(e) == MaxSeq + 1 - nextSeq[e]
NumbersLeft(e) == MaxSeq - nextSeq[e]

Flushable(e) ==
    LET least(m, n) == IF m < n THEN m ELSE n
    IN  least(Len(outQ[e]), least(Window - Len(unacked[e]), NumbersLeft(e)))

FlushesFin(e) ==
    /\ writeClosed[e] /\ ~finSent[e]
    /\ Flushable(e) = Len(outQ[e])
    /\ Len(unacked[e]) + Len(outQ[e]) < Window
    /\ Len(outQ[e]) < NumbersLeft(e)

NewCount(e) == Flushable(e) + (IF FlushesFin(e) THEN 1 ELSE 0)
NewFrames(e) == [i \in 1..NewCount(e) |->
    IF i <= Flushable(e) THEN DataFrame(e, nextSeq[e] + i - 1, outQ[e][i])
                         ELSE FinFrame(e, nextSeq[e] + i - 1)]

FlushOut(e) ==
    /\ outQ' = [outQ EXCEPT ![e] = SubSeq(@, Flushable(e) + 1, Len(@))]
    /\ unacked' = [unacked EXCEPT ![e] = @ \o NewFrames(e)]
    /\ nextSeq' = [nextSeq EXCEPT ![e] = @ + NewCount(e)]
    /\ finSent' = [finSent EXCEPT ![e] = @ \/ FlushesFin(e)]
    /\ finSeq' = [finSeq EXCEPT ![e] = IF FlushesFin(e) THEN nextSeq[e] + Flushable(e) ELSE @]

InFlight(e) == {unacked[e][i] : i \in 1..Len(unacked[e])}
FirstSent(e) == InFlight(e)' \ InFlight(e)

\* The loop ends by failing the stream when next_seq has reached u32::MAX.
Exhausted(e) == nextSeq'[e] = MaxSeq

\* fail: record the error and wake whoever waits on the stream.
\* Mutant: the wakers are forgotten.
FailSilently(e, why) == err' = [err EXCEPT ![e] = why] /\ UNCHANGED parked
Fail(e, why) ==
    /\ err' = [err EXCEPT ![e] = why]
    /\ parked' = [parked EXCEPT ![e] = FALSE]

\* The task, waiting in select!, is woken by a write or a shutdown.
Flush(e) ==
    /\ running[e] /\ ~Done(e)
    /\ FlushOut(e)
    /\ Post(e, FirstSent(e))
    /\ IF Exhausted(e) THEN Fail(e, "exhausted") ELSE UNCHANGED <<err, parked>>
    /\ UNCHANGED <<rcvVars, ackVars, quiet, hadRx, userVars, running>>

-----------------------------------------------------------------------------
\* The liveness limit: Grace times as long until the peer was heard once.
\* Mutant: a peer that was heard once is taken to be alive for ever.
LimitUntilHeard(e) == IF hadRx[e] THEN Grace * LiveTicks + CloseTicks + 1 ELSE Grace * LiveTicks
Limit(e) == IF hadRx[e] THEN LiveTicks ELSE Grace * LiveTicks

\* bound: quiet stops counting beyond every limit it is compared with.
MaxQuiet == (IF CloseTicks > Grace * LiveTicks THEN CloseTicks ELSE Grace * LiveTicks) + 1
\* Mutant: the bound is forgotten.
LaterUnbounded(q, d) == q + d
Later(q, d) == IF q + d > MaxQuiet THEN MaxQuiet ELSE q + d

\* The timer fires, d rounds after it last did: flush_out, then on_timer.
TimerRound(e) ==
    /\ running[e] /\ ~Done(e)
    /\ \E d \in 1..MaxLate : quiet' = [quiet EXCEPT ![e] = Later(@, d)]
    /\ FlushOut(e)
    /\ UNCHANGED <<rcvVars, hadRx, userVars, running>>

CloseOverdue(e) == finSent'[e] /\ ~finAcked[e] /\ quiet'[e] > CloseTicks

\* The FIN went unacknowledged for too long: the shutdown is taken as complete.
TimerGivesUp(e) ==
    /\ TimerRound(e)
    /\ CloseOverdue(e)
    /\ Post(e, FirstSent(e))
    /\ finAcked' = [finAcked EXCEPT ![e] = TRUE]
    /\ gaveUp' = [gaveUp EXCEPT ![e] = TRUE]
    /\ err' = [err EXCEPT ![e] = IF Exhausted(e) THEN "exhausted" ELSE @]
    /\ parked' = [parked EXCEPT ![e] = FALSE]

\* The stream fails: out of sequence numbers, or the peer was silent for too long.
TimerFails(e) ==
    /\ TimerRound(e)
    /\ ~CloseOverdue(e)
    /\ \/ Exhausted(e) /\ Fail(e, "exhausted")
       \/ ~Exhausted(e) /\ quiet'[e] > Limit(e) /\ Fail(e, "lost")
    /\ Post(e, FirstSent(e))
    /\ UNCHANGED ackVars

\* Mutant: unacknowledged frames are not sent again.
TimerForgets(e) ==
    /\ TimerRound(e)
    /\ ~CloseOverdue(e) /\ ~Exhausted(e) /\ quiet'[e] <= Limit(e)
    /\ unacked'[e] # <<>>
    /\ Post(e, {AckFrame("ping", nextExpected[e])})
    /\ UNCHANGED <<ackVars, err, parked>>
TimerRetransmits(e) ==
    /\ TimerRound(e)
    /\ ~CloseOverdue(e) /\ ~Exhausted(e) /\ quiet'[e] <= Limit(e)
    /\ unacked'[e] # <<>>
    /\ Post(e, InFlight(e)')
    /\ UNCHANGED <<ackVars, err, parked>>

\* With nothing to retransmit: a keepalive ping, if the last one is a second old.
TimerIdles(e) ==
    /\ TimerRound(e)
    /\ ~CloseOverdue(e) /\ ~Exhausted(e) /\ quiet'[e] <= Limit(e)
    /\ unacked'[e] = <<>>
    /\ Post(e, {AckFrame("ping", nextExpected[e])})
    /\ UNCHANGED <<ackVars, err, parked>>

Timer(e) == TimerGivesUp(e) \/ TimerFails(e) \/ TimerRetransmits(e) \/ TimerIdles(e)

-----------------------------------------------------------------------------
\* The first k unacknowledged frames are those a cumulative ACK n confirms.
\* Mutant: an ACK n also confirms the frame n.
ConfirmsOneMore(e, n, k) ==
    IF n > 0 /\ n <= nextSeq[e]
    THEN /\ \A i \in 1..k : unacked[e][i].seq <= n
         /\ k < Len(unacked[e]) => unacked[e][k + 1].seq > n
    ELSE k = 0
Confirms(e, n, k) ==
    IF n > 0 /\ n <= nextSeq[e]
    THEN /\ \A i \in 1..k : unacked[e][i].seq < n
         /\ k < Len(unacked[e]) => unacked[e][k + 1].seq >= n
    ELSE k = 0

\* The ACK n is one this end could have caused.
Valid(e, n) == n > 0 /\ n <= nextSeq[e]

\* An ACK n beyond the FIN completes the shutdown.
\* Mutant: the FIN's own number is taken for its confirmation.
FinConfirmedEarly(e, n) == Valid(e, n) /\ finSent[e] /\ n >= finSeq[e] /\ ~finAcked[e]
FinConfirmed(e, n) == Valid(e, n) /\ finSent[e] /\ n > finSeq[e] /\ ~finAcked[e]

\* The ACK n, which confirms k frames, wakes a parked writer.
\* Mutants: only for the FIN; never.
WakesForFin(e, n, k) == FinConfirmed(e, n)
WakesNobody(e, n, k) == FALSE
Wakes(e, n, k) == FinConfirmed(e, n) \/ (Valid(e, n) /\ Len(unacked[e]) - k < Window)

\* handle_incoming, what it does with every frame: the peer is alive, and
\* the ACK field confirms frames, completes the shutdown and wakes the writer.
Heard(e, f) ==
    /\ running[e] /\ ~Done(e)
    /\ f \in net[Peer(e)]
    /\ quiet' = [quiet EXCEPT ![e] = 0]
    /\ hadRx' = [hadRx EXCEPT ![e] = TRUE]
    /\ finAcked' = [finAcked EXCEPT ![e] = @ \/ FinConfirmed(e, f.ack)]
    /\ \E k \in 0..Len(unacked[e]) :
          /\ Confirms(e, f.ack, k)
          /\ unacked' = [unacked EXCEPT ![e] = SubSeq(@, k + 1, Len(@))]
          /\ parked' = [parked EXCEPT ![e] = @ /\ ~Wakes(e, f.ack, k)]
    /\ UNCHANGED <<outQ, nextSeq, finSent, finSeq, gaveUp, err, userVars, running>>

\* f is delivered to e, which replies with the frames R; f may come again.
Delivered(e, f, R) ==
    \E D \in SUBSET {f} : \E N \in Carried(e, R) :
        net' = [net EXCEPT ![Peer(e)] = @ \ D, ![e] = N]

Carries(f) == f.kind \in {"data", "fin"}

\* Mutant: an early frame passes for the next one.
NotOld(e, f) == f.seq >= nextExpected[e]
InOrder(e, f) == f.seq = nextExpected[e]

\* The next DATA or FIN frame, with room for its payload.
RecvNext(e, f) ==
    /\ Heard(e, f)
    /\ Carries(f) /\ InOrder(e, f)
    /\ f.kind = "data" => Len(rxBuf[e]) < RxCap
    /\ rxBuf' = [rxBuf EXCEPT ![e] = IF f.kind = "data" THEN Append(@, f.data) ELSE @]
    /\ IF nextExpected[e] < MaxSeq
       THEN /\ nextExpected' = [nextExpected EXCEPT ![e] = @ + 1]
            /\ rxClosed' = [rxClosed EXCEPT ![e] = @ \/ f.kind = "fin"]
            /\ Delivered(e, f, {AckFrame("ack", nextExpected[e] + 1)})
       ELSE UNCHANGED <<nextExpected, rxClosed>> /\ Delivered(e, f, {})

\* The next DATA frame with RX_CAP reached: dropped without an ACK.
RecvFull(e, f) ==
    /\ Heard(e, f)
    /\ f.kind = "data" /\ InOrder(e, f)
    /\ Len(rxBuf[e]) >= RxCap
    /\ Delivered(e, f, {})
    /\ UNCHANGED rcvVars

\* A repeated or early frame: acknowledged again, its content ignored.
RecvOther(e, f) ==
    /\ Heard(e, f)
    /\ Carries(f) /\ ~InOrder(e, f)
    /\ Delivered(e, f, {AckFrame("ack", nextExpected[e])})
    /\ UNCHANGED rcvVars

\* A pure ACK; a ping is answered by an ACK.
RecvAck(e, f) ==
    /\ Heard(e, f)
    /\ ~Carries(f)
    /\ Delivered(e, f, IF f.kind = "ping" THEN {AckFrame("ack", nextExpected[e])} ELSE {})
    /\ UNCHANGED rcvVars

Recv(e) == \E f \in net[Peer(e)] :
    RecvNext(e, f) \/ RecvFull(e, f) \/ RecvOther(e, f) \/ RecvAck(e, f)

-----------------------------------------------------------------------------
User(e) ==
    \/ Write(e) \/ WriteParks(e) \/ WriteFails(e)
    \/ Shutdown(e) \/ ShutdownPoll(e) \/ ShutdownWaits(e)
    \/ Read(e) \/ ReadEnds(e) \/ DropHandle(e)

Task(e) == Exit(e) \/ Flush(e) \/ Timer(e) \/ Recv(e)

Next == \E e \in Ends : User(e) \/ Task(e)

Spec == Init /\ [][Next]_vars

(***************************************************************************)
(* Fairness.  The runtime keeps polling the task (its interval fires), and *)
(* a user that waits on the stream polls it again when woken.  The network *)
(* is fair-lossy: of infinitely many retransmissions some reach the        *)
(* network whole, and of infinitely many deliveries that matter some are   *)
(* not repeated and have their answer reach the network.                   *)
(***************************************************************************)
RetransmitsThrough(e) ==
    unacked[e] # <<>> /\ TimerRetransmits(e) /\ InFlight(e)' \subseteq net'[e]

\* A DATA or FIN frame comes once, and its ACK gets on its way.
CarriedThrough(e) == \E f \in net[Peer(e)] :
    /\ Carries(f)
    /\ RecvNext(e, f) \/ RecvOther(e, f)
    /\ f \notin net'[Peer(e)] /\ AckFrame("ack", nextExpected'[e]) \in net'[e]

\* A pure ACK comes that moves the window or completes the shutdown.
AckThrough(e) == \E f \in net[Peer(e)] :
    /\ ~Carries(f) /\ unacked[e] # <<>> /\ unacked[e][1].seq < f.ack
    /\ RecvAck(e, f)

\* The last copy of a pure ACK or ping comes at last.
LastCopy(e) == \E f \in net[Peer(e)] :
    ~Carries(f) /\ RecvAck(e, f) /\ f \notin net'[Peer(e)]

TaskFairness(e) ==
    /\ WF_vars(Exit(e)) /\ WF_vars(Timer(e))

NetFairness(e) ==
    /\ SF_vars(RetransmitsThrough(e)) /\ SF_vars(CarriedThrough(e))
    /\ SF_vars(AckThrough(e)) /\ SF_vars(LastCopy(e))

UserFairness(e) ==
    /\ WF_vars(ShutdownPoll(e) \/ ShutdownWaits(e) \/ WriteFails(e)) /\ WF_vars(Read(e) \/ ReadEnds(e))

FairSpec == Spec /\ \A e \in Ends : TaskFairness(e) /\ NetFairness(e) /\ UserFairness(e)

-----------------------------------------------------------------------------
(* Properties *)

\* Every variable keeps its type.
TypeOK ==
    /\ rxBuf \in [Ends -> Seq(Data)] /\ rxClosed \in [Ends -> BOOLEAN]
    /\ nextExpected \in [Ends -> Nat]
    /\ outQ \in [Ends -> Seq(Data)] /\ unacked \in [Ends -> Seq(Frame)]
    /\ nextSeq \in [Ends -> Nat] /\ finSeq \in [Ends -> Nat]
    /\ finSent \in [Ends -> BOOLEAN] /\ finAcked \in [Ends -> BOOLEAN]
    /\ gaveUp \in [Ends -> BOOLEAN] /\ writeClosed \in [Ends -> BOOLEAN]
    /\ quiet \in [Ends -> 0..MaxQuiet] /\ hadRx \in [Ends -> BOOLEAN]
    /\ err \in [Ends -> {"none", "lost", "exhausted"}]
    /\ parked \in [Ends -> BOOLEAN]
    /\ running \in [Ends -> BOOLEAN]
    /\ net \in [Ends -> SUBSET Frame]
    /\ wr \in [Ends -> {"open", "closing", "ok", "err", "dropped"}]
    /\ rd \in [Ends -> {"open", "eof", "err", "dropped"}]
    /\ sent \in [Ends -> Seq(Data)] /\ got \in [Ends -> Seq(Data)]
    /\ look \in [Ends -> {"no", "between", "missed"}]

\* Whatever the network does with the frames, a reader gets a prefix of what the
\* other side wrote: nothing lost, repeated, reordered or made up (the in-order
\* test of handle_incoming against the sequence numbers of flush_out).
DeliveredPrefix == \A e \in Ends :
    /\ Len(got[e]) <= Len(sent[Peer(e)])
    /\ \A i \in 1..Len(got[e]) : got[e][i] = sent[Peer(e)][i]

\* A reader that is told "end of file" has read everything its peer ever wrote,
\* and the peer had shut down: the FIN takes its number after the queued data.
EofComplete == \A e \in Ends :
    rd[e] = "eof" => writeClosed[Peer(e)] /\ got[e] = sent[Peer(e)]

\* A shutdown that returns Ok without having given the peer up means that the
\* peer holds all the data and the FIN (fin_acked through the cumulative ACK).
ShutdownMeansDelivered == \A e \in Ends :
    wr[e] = "ok" /\ ~gaveUp[e] =>
        rxClosed[Peer(e)] /\ nextExpected[Peer(e)] = Len(sent[e]) + 2

\* The frames of u have consecutive numbers, the last one before n.
Numbered(u, n) == \A i \in 1..Len(u) : u[i].seq + Len(u) = n + i - 1

\* The retransmission queue always holds every frame the peer may still need:
\* consecutive numbers, ending at next_seq, starting no later than next_expected.
WindowCoversGap == \A e \in Ends :
    /\ Len(unacked[e]) <= Window
    /\ Numbered(unacked[e], nextSeq[e])
    /\ nextSeq[e] <= nextExpected[Peer(e)] + Len(unacked[e])
    /\ nextExpected[Peer(e)] <= nextSeq[e]

\* At the end of the sequence space the stream stops: no number is used twice
\* and next_expected never has to step past u32::MAX.
SequenceBounded == \A e \in Ends : nextSeq[e] <= MaxSeq /\ nextExpected[e] <= nextSeq[Peer(e)]

\* Of the users of a stream whose task is gone only one is parked on a waker that
\* nobody will use: a shutdown between whose two looks the stream failed.
NobodyParkedAfterExit == \A e \in Ends :
    /\ ~running[e] /\ parked[e] => look[e] = "missed"
    /\ look[e] = "missed" => wr[e] = "closing" /\ err[e] # "none"

\* What a user is told about the end of a stream is the truth: end-of-file comes
\* after everything the peer wrote, a shutdown that succeeds was received, and but
\* for the shutdown that missed the failure nobody waits for a task that is gone.
UserIsToldTheTruth == EofComplete /\ ShutdownMeansDelivered /\ NobodyParkedAfterExit

StaysClosed == \A e \in Ends : rxClosed[e] =>
    rxClosed'[e] /\ nextExpected'[e] = nextExpected[e] /\ Len(rxBuf'[e]) <= Len(rxBuf[e])

\* The reading side never learns of an end it has to take back: once closed, the
\* receive buffer only shrinks, and next_expected never moves again.
ClosedStaysClosed == [][StaysClosed]_vars

\* Who waits for an acknowledgement does not wait for ever: a writer parked on the full
\* queue or on the FIN's ACK is woken, by an ACK, by the close timeout or by the failure
\* of the stream (write_waker), and a shutdown comes to a result, unless the stream
\* failed between its two looks: that one is never heard of again.
Awaits(e) == parked[e] \/ wr[e] = "closing"
Waiters == {e \in Ends : MaxWrites[e] > 0 \/ e \in Closers}
WaitersAreHeard == \A e \in Waiters : Awaits(e) ~> ~Awaits(e) \/ look[e] = "missed"

\* A stream has failed, has given its peer up or was dropped.
Broken == \E x \in Ends : err[x] # "none" \/ gaveUp[x] \/ rd[x] = "dropped"

\* Every chunk written reaches the reader unless a stream fails, gives up or is
\* dropped: the window moves on and retransmission fills every gap.
DataArrives == \A e \in Ends : \A n \in 1..MaxWrites[e] :
    Len(sent[e]) >= n ~> Len(got[Peer(e)]) >= n \/ Broken

\* docs/src/architecture.md:200 "FIN confirmation timeout reports no error": a
\* shutdown whose FIN went out never ends in an error.
CloseIsBestEffort == \A e \in Ends : wr[e] = "err" => ~finSent[e]

-----------------------------------------------------------------------------
(***************************************************************************)
(* The inductive invariant behind the safety properties.  It ties a frame  *)
(* to the chunk it was made from by its sequence number, and an end's      *)
(* receiving side to its peer's sending side.                              *)
(***************************************************************************)

\* q holds elements of s: those after its first n.
Continues(q, s, n) == n + Len(q) <= Len(s) /\ \A i \in 1..Len(q) : q[i] = s[n + i]

\* How many chunks of e have become frames.
Framed(e) == IF finSent[e] THEN finSeq[e] - 1 ELSE nextSeq[e] - 1

\* The queue holds the rest of what was written, in order; the FIN came last.
SendInv(e) ==
    /\ Framed(e) \in Nat /\ Framed(e) + Len(outQ[e]) = Len(sent[e])
    /\ Continues(outQ[e], sent[e], Framed(e))
    /\ finSent[e] => writeClosed[e] /\ outQ[e] = <<>> /\ nextSeq[e] = finSeq[e] + 1
    /\ wr[e] = "open" => ~writeClosed[e]
    /\ wr[e] = "ok" => finAcked[e]

\* A frame of e, on its way or kept for retransmission, tells the truth.
Truthful(e, f) ==
    /\ f.kind = "data" => /\ f.seq >= 1 /\ f.seq <= Len(sent[e]) /\ f.seq < nextSeq[e]
                          /\ f.data = sent[e][f.seq]
    /\ f.kind = "fin" => finSent[e] /\ f.seq = finSeq[e]
    /\ f.ack <= nextExpected[e]

FrameInv(e) ==
    /\ \A f \in net[e] : Truthful(e, f)
    /\ \A i \in 1..Len(unacked[e]) : Truthful(e, unacked[e][i])

\* The frames kept have consecutive numbers and cover what the peer lacks.
WindowInv(e) ==
    /\ Numbered(unacked[e], nextSeq[e])
    /\ nextSeq[e] <= nextExpected[Peer(e)] + Len(unacked[e])

\* What e holds of its peer's data is what the peer made the first frames of.
RecvInv(e) ==
    /\ nextExpected[e] >= 1 /\ nextExpected[e] <= nextSeq[Peer(e)]
    /\ rxClosed[e] <=> finSent[Peer(e)] /\ nextExpected[e] = finSeq[Peer(e)] + 1
    /\ ~rxClosed[e] => Len(got[e]) + Len(rxBuf[e]) + 1 = nextExpected[e]
    /\ rxClosed[e] => Len(got[e]) + Len(rxBuf[e]) = Len(sent[Peer(e)])
    /\ Continues(got[e], sent[Peer(e)], 0)
    /\ Continues(rxBuf[e], sent[Peer(e)], Len(got[e]))
    /\ rd[e] = "eof" => rxClosed[e] /\ rxBuf[e] = <<>>

\* A confirmed FIN was received.
AckInv(e) ==
    finAcked[e] /\ ~gaveUp[e] => finSent[e] /\ nextExpected[Peer(e)] = finSeq[e] + 1

\* All of it: the sequence numbers alone decide what the two ends know of each other.
StreamInv == \A e \in Ends :
    SendInv(e) /\ FrameInv(e) /\ WindowInv(e) /\ RecvInv(e) /\ AckInv(e)

\* A task leaves its loop only for a reason that stays, and nobody waits on such a
\* stream but a shutdown that missed its failure.
ParkInv == \A e \in Ends :
    /\ err[e] # "none" \/ finAcked[e] \/ rd[e] = "dropped" => ~parked[e] \/ look[e] = "missed"
    /\ ~running[e] => err[e] # "none" \/ finAcked[e] \/ rd[e] = "dropped"
    /\ rd[e] = "dropped" => wr[e] = "dropped" /\ look[e] = "no"
    /\ finAcked[e] => finSent[e]
    /\ look[e] # "no" => wr[e] = "closing"
    /\ look[e] = "missed" => err[e] # "none"

\* What the two ends know of each other is true in every state: the inductive
\* invariant and, spelled out, what follows from it for the data and the window.
StreamIsSound ==
    TypeOK /\ StreamInv /\ DeliveredPrefix /\ WindowCoversGap /\ SequenceBounded

-----------------------------------------------------------------------------
(* Refinement *)

Pipe == INSTANCE ReliablePipe WITH
    taken <- [e \in Ends |-> nextExpected[e] - 1],
    closed <- writeClosed,
    gone <- [e \in Ends |-> err[e] # "none" \/ gaveUp[e]]

\* Every behaviour of the two streams is one of the abstract pair of pipes.
PipeSpec == Pipe!PipeSpec
=============================================================================
