----------------------------- MODULE ServiceMux -----------------------------
(* The service multiplexer: one transport carries all TCP connections and UDP    *)
(* flows between a guest, whose applications connect to local ports, and a host, *)
(* whose services answer.  Each end is one session: a loop that reads frames and *)
(* local events, one task per stream, and a bounded queue that all of them share *)
(* to send.  Loop and tasks block when it is full; a stream's channel is never   *)
(* waited for, the stream is reset instead.                                      *)
(*                                                                               *)
(* The queue of an end stands for its outgoing channel, the transport and the    *)
(* other end's incoming channel, which are first-in-first-out in a row.          *)
EXTENDS Integers, Sequences, FiniteSets, SequencesExt

CONSTANTS MaxIds,     \* bound: streams of one session
          MaxChunks,  \* bound, for each end: chunks written to a TCP stream
          Beaters,    \* bound: ends whose heartbeat is modelled
          QueueCap,   \* capacity of each direction
          ChanCap,    \* capacity of a stream's channel (16)
          EventCap,   \* capacity of the channel of local events (64)
          Limit,      \* open streams per session (64)
          Sources,    \* UDP sources on the guest's side
          Nothing

ASSUME MuxAssumption ==
    /\ MaxIds \in Nat /\ MaxChunks \in [{"guest", "host"} -> Nat]
    /\ {QueueCap, ChanCap, EventCap, Limit} \subseteq Nat \ {0}

\* Nothing is neither a source nor a frame.
ASSUME NothingAssumption ==
    /\ Nothing \notin Sources
    /\ Nothing \notin [kind : {"open", "data", "fin", "reset", "ping", "pong"}, id : Nat, n : Nat]

Ends == {"guest", "host"}
Other(e) == IF e = "guest" THEN "host" ELSE "guest"
Ids == 1..MaxIds

\* Frame; n numbers the chunks of one stream and direction
Frame(kind, id, n) == [kind |-> kind, id |-> id, n |-> n]
OPEN(id) == Frame("open", id, 0)
DATA(id, n) == Frame("data", id, n)
FIN(id) == Frame("fin", id, 0)
RESET(id) == Frame("reset", id, 0)
PING == Frame("ping", 0, 0)
PONG == Frame("pong", 0, 0)

VARIABLES
    session,  \* end -> is its session running
    broken,   \* the transport has failed without a sign
    queue,    \* end -> frames it has sent that the other loop has not taken
    loop,     \* end -> the frame its loop is waiting to send, or Nothing
    streams,  \* end -> ids in the stream table: their channel is still open
    task,     \* end -> id -> the stream's task
    app,      \* end -> id -> what the application behind a TCP stream has sent and seen
    udp,      \* id -> the UDP source it was opened for, or Nothing
    counter,  \* next stream id
    flows,    \* UDP source -> the id it was given, or Nothing
    cut,      \* end -> ids whose connection closed before the FIN of the other side
    unsaid,   \* end -> ids whose last RESET found no room in time
    events    \* events from the guest's listeners to its loop

muxVars == <<session, broken, queue, loop, streams, task, app, udp, counter, flows, events,
            cut, unsaid>>

Unopened == [st |-> "none", chan |-> <<>>, hold |-> Nothing, rdone |-> FALSE, wdone |-> FALSE]
Gone == [Unopened EXCEPT !.st = "gone"]
Silent == [sent |-> 0, got |-> <<>>, eof |-> FALSE]

MuxInit ==
    /\ session = [e \in Ends |-> TRUE] /\ broken = FALSE
    /\ queue = [e \in Ends |-> <<>>] /\ loop = [e \in Ends |-> Nothing]
    /\ streams = [e \in Ends |-> {}]
    /\ task = [e \in Ends |-> [id \in Ids |-> Unopened]]
    /\ app = [e \in Ends |-> [id \in Ids |-> Silent]]
    /\ udp = [id \in Ids |-> Nothing] /\ counter = 1
    /\ flows = [s \in Sources |-> Nothing] /\ events = <<>>
    /\ cut = [e \in Ends |-> {}] /\ unsaid = [e \in Ends |-> {}]

QueueFull(e) == Len(queue[e]) = QueueCap
\* What is written to a broken transport or to an ended session is lost.
Sent(e, f) == IF broken \/ ~session[Other(e)] THEN queue ELSE [queue EXCEPT ![e] = Append(@, f)]
Live(e, id) == task[e][id].st \in {"dial", "run", "ending"}

table == <<streams, udp, counter, flows, events>>
network == <<session, broken, cut, unsaid>>

Pumped(e, id) == task[e][id].st = "run" /\ udp[id] = Nothing
\* A pump that is dropped drops its half of the program's connection: one that had
\* no FIN yet sees it end all the same.
CutOff(e, ids) ==
    cut' = [cut EXCEPT ![e] = @ \cup {id \in ids : Pumped(e, id) /\ ~task[e][id].wdone}]

(* ---- send: the loop or a task waits for room, for 5 s at most ---- *)

LoopSends(e) ==
    /\ loop[e] # Nothing /\ ~QueueFull(e)
    /\ queue' = Sent(e, loop[e]) /\ loop' = [loop EXCEPT ![e] = Nothing]
    /\ task' = IF loop[e].kind = "open"
                 THEN [task EXCEPT ![e][loop[e].id].st = "run"] ELSE task
    /\ UNCHANGED <<network, table, app>>

\* What a session leaves behind at its end: its tasks are aborted with it, and of
\* what waited in its queue a prefix had reached the transport.
Ends_(e) ==
    /\ session' = [session EXCEPT ![e] = FALSE]
    /\ \E n \in 0..Len(queue[e]) :
          queue' = [queue EXCEPT ![e] = SubSeq(@, 1, n), ![Other(e)] = <<>>]
    /\ loop' = [loop EXCEPT ![e] = Nothing] /\ streams' = [streams EXCEPT ![e] = {}]
    /\ task' = [task EXCEPT ![e] = [id \in Ids |-> Gone]]
    /\ events' = IF e = "guest" THEN <<>> ELSE events
    /\ flows' = IF e = "guest" THEN [s \in Sources |-> Nothing] ELSE flows
    /\ CutOff(e, Ids)
    /\ UNCHANGED <<broken, app, udp, counter, unsaid>>

Patience(e) == FALSE
\* The 5 s may pass whenever there is no room: both loops may be waiting for room that
\* only the other one makes, or the transport is merely slow.
Timeout(e) == QueueFull(e)

LoopGivesUp(e) == loop[e] # Nothing /\ Timeout(e) /\ Ends_(e)

(* ---- tcp_pump ---- *)

Pump(e, id) == Pumped(e, id) /\ task[e][id].hold = Nothing
Busy(t) == ~(t.rdone /\ t.wdone)

PumpReads(e, id) ==
    /\ Pump(e, id) /\ ~task[e][id].rdone
    /\ \/ /\ app[e][id].sent < MaxChunks[e]
          /\ app' = [app EXCEPT ![e][id].sent = @ + 1]
          /\ task' = [task EXCEPT ![e][id].hold = DATA(id, app[e][id].sent + 1)]
       \/ /\ task' = [task EXCEPT ![e][id].hold = FIN(id), ![e][id].rdone = TRUE]
          /\ UNCHANGED app
    /\ UNCHANGED <<network, queue, loop, table>>

TaskSends(e, id) ==
    /\ task[e][id].hold # Nothing /\ ~QueueFull(e)
    /\ queue' = Sent(e, task[e][id].hold) /\ task' = [task EXCEPT ![e][id].hold = Nothing]
    /\ UNCHANGED <<network, loop, table, app>>

PumpWrites(e, id) ==
    LET t == task[e][id]
    IN  /\ Pump(e, id) /\ Busy(t) /\ t.chan # <<>>
        /\ \/ /\ Head(t.chan).kind = "data" /\ ~t.wdone
              /\ app' = [app EXCEPT ![e][id].got = Append(@, Head(t.chan).n)]
              /\ task' = [task EXCEPT ![e][id].chan = Tail(@)]
           \/ /\ Head(t.chan).kind = "fin" /\ ~t.wdone
              /\ app' = [app EXCEPT ![e][id].eof = TRUE]
              /\ task' = [task EXCEPT ![e][id].chan = Tail(@), ![e][id].wdone = TRUE]
           \/ /\ t.wdone
              /\ task' = [task EXCEPT ![e][id].st = "ending"] /\ UNCHANGED app
        /\ UNCHANGED <<network, queue, loop, table>>

\* The pump ends: both directions are done; its channel is closed and drained; the
\* application fails or takes nothing for 5 s; nothing happens for 300 s; or its
\* frame found no room for 5 s.
PumpEnds(e, id) ==
    /\ Pumped(e, id) /\ (task[e][id].hold = Nothing \/ Timeout(e))
    /\ task' = [task EXCEPT ![e][id].st = "ending", ![e][id].hold = Nothing]
    /\ CutOff(e, {id})
    /\ UNCHANGED <<session, broken, unsaid, queue, loop, table, app>>

\* It is done, given up, or waiting for room.
Overdue(e, id) ==
    \/ task[e][id].chan = <<>> /\ id \notin streams[e]
    \/ task[e][id].hold # Nothing
PumpMustEnd(e, id) == (~Busy(task[e][id]) \/ Overdue(e, id)) /\ PumpEnds(e, id)

(* ---- udp_host and udp_guest ---- *)

\* A service answers through the host's socket.
UdpAnswers(id) ==
    /\ task["host"][id].st = "run" /\ udp[id] # Nothing /\ task["host"][id].hold = Nothing
    /\ task' = [task EXCEPT !["host"][id].hold = DATA(id, 0)]
    /\ UNCHANGED <<network, queue, loop, table, app>>

UdpDelivers(e, id) ==
    LET t == task[e][id]
    IN  /\ t.st = "run" /\ udp[id] # Nothing /\ t.hold = Nothing /\ t.chan # <<>>
        /\ task' = [task EXCEPT ![e][id].chan = Tail(@)]
        /\ UNCHANGED <<network, queue, loop, table, app>>

\* The channel is closed, a socket fails, or 30 s pass: at the guest 30 s without
\* an answer, whatever the source sends.
UdpEnds(e, id) ==
    /\ task[e][id].st = "run" /\ udp[id] # Nothing
    /\ task[e][id].hold = Nothing \/ Timeout(e)
    /\ task' = [task EXCEPT ![e][id].st = "ending", ![e][id].hold = Nothing]
    /\ UNCHANGED <<network, queue, loop, table, app>>

UdpMustEnd(e, id) == Overdue(e, id) /\ UdpEnds(e, id)

(* ---- the end of a task ---- *)

\* The host dials the service.
Dialled(id) ==
    /\ task["host"][id].st = "dial"
    /\ \E st \in {"run", "ending"} : task' = [task EXCEPT !["host"][id].st = st]
    /\ UNCHANGED <<network, queue, loop, table, app>>

NoReset(e, id) == queue
\* The task of a UDP flow at the guest says nothing at its end.
Says(e, id) == e = "host" \/ udp[id] = Nothing
LastReset(e, id) == IF Says(e, id) THEN Sent(e, RESET(id)) ELSE queue

\* Whether the RESET went out is not looked at.
TaskFinishes(e, id) ==
    /\ task[e][id].st = "ending"
    /\ \/ (~QueueFull(e) \/ ~Says(e, id)) /\ queue' = LastReset(e, id) /\ UNCHANGED unsaid
       \/ /\ Says(e, id) /\ Timeout(e) /\ UNCHANGED queue
          /\ unsaid' = [unsaid EXCEPT ![e] = @ \cup {id}]
    /\ task' = [task EXCEPT ![e][id] = [Gone EXCEPT !.st = "done"]]
    /\ UNCHANGED <<session, broken, cut, loop, table, app>>

KeepEntry(e, id) == streams
RemoveEntry(e, id) == [streams EXCEPT ![e] = @ \ {id}]

\* tasks.join_next()
Reap(e, id) ==
    /\ session[e] /\ loop[e] = Nothing /\ task[e][id].st = "done"
    /\ task' = [task EXCEPT ![e][id] = Gone]
    /\ streams' = RemoveEntry(e, id)
    /\ UNCHANGED <<network, queue, loop, app, udp, counter, flows, events>>

(* ---- incoming.recv() ---- *)

Reset(e, id) ==
    /\ streams' = [streams EXCEPT ![e] = @ \ {id}]
    /\ loop' = [loop EXCEPT ![e] = RESET(id)]
    /\ UNCHANGED task

\* A channel takes a frame unless it is full or its task has ended.
Accepts(e, id) == Live(e, id) /\ task[e][id].st # "ending" /\ Len(task[e][id].chan) < ChanCap

DropWhenFull(e, f) ==
    /\ IF Accepts(e, f.id)
         THEN task' = [task EXCEPT ![e][f.id].chan = Append(@, f)] ELSE UNCHANGED task
    /\ UNCHANGED <<streams, loop>>

Deliver(e, f) ==
    \/ /\ Accepts(e, f.id)
       /\ task' = [task EXCEPT ![e][f.id].chan = Append(@, f)]
       /\ UNCHANGED <<streams, loop>>
    \/ ~Accepts(e, f.id) /\ Reset(e, f.id)

\* An OPEN is refused at the limits (streams, the budget of all sessions, 64 a
\* second) and for a service that is not published any more.
OpenStream(e, id) ==
    \/ /\ Cardinality(streams[e]) < Limit
       /\ streams' = [streams EXCEPT ![e] = @ \cup {id}]
       /\ task' = [task EXCEPT ![e][id].st = IF udp[id] = Nothing THEN "dial" ELSE "run"]
       /\ UNCHANGED loop
    \/ /\ loop' = [loop EXCEPT ![e] = RESET(id)]
       /\ task' = [task EXCEPT ![e][id] = Gone]
       /\ UNCHANGED streams

Receive(e) ==
    /\ session[e] /\ loop[e] = Nothing /\ queue[Other(e)] # <<>>
    /\ queue' = [queue EXCEPT ![Other(e)] = Tail(@)]
    /\ LET f == Head(queue[Other(e)])
       IN  \/ /\ f.kind = "ping" /\ loop' = [loop EXCEPT ![e] = PONG]
              /\ UNCHANGED <<streams, task>>
           \/ f.kind = "pong" /\ UNCHANGED <<loop, streams, task>>
           \/ f.kind = "open" /\ OpenStream(e, f.id)
           \/ /\ f.kind = "reset" /\ streams' = [streams EXCEPT ![e] = @ \ {f.id}]
              /\ UNCHANGED <<loop, task>>
           \/ f.kind \in {"data", "fin"} /\ f.id \in streams[e] /\ Deliver(e, f)
           \/ /\ f.kind \in {"data", "fin"} /\ f.id \notin streams[e]
              /\ UNCHANGED <<loop, streams, task>>
    /\ UNCHANGED <<network, app, udp, counter, flows, events>>

(* ---- the guest's listeners and their events ---- *)

Listening == session["guest"] /\ counter <= MaxIds
Enqueue(evs) == Len(events) + Len(evs) <= EventCap /\ events' = events \o evs

Accept ==
    /\ Listening /\ Enqueue(<<[kind |-> "tcp", id |-> counter]>>)
    /\ counter' = counter + 1
    /\ UNCHANGED <<network, queue, loop, streams, task, app, udp, flows>>

\* A datagram of source s: of a known flow, or the first of a new one.  Only one is
\* on its way to the loop (a bound).
Datagram(s) ==
    /\ session["guest"]
    /\ \/ /\ flows[s] # Nothing /\ events = <<>>
          /\ Enqueue(<<[kind |-> "datagram", id |-> flows[s]]>>)
          /\ UNCHANGED <<udp, counter, flows>>
       \/ /\ flows[s] = Nothing /\ Listening
          /\ Enqueue(<<[kind |-> "udp", id |-> counter], [kind |-> "datagram", id |-> counter]>>)
          /\ udp' = [udp EXCEPT ![counter] = s] /\ counter' = counter + 1
          /\ flows' = [flows EXCEPT ![s] = counter]
    /\ UNCHANGED <<network, queue, loop, streams, task, app>>

\* A source has been silent for 25 s.
Sweep(s) ==
    /\ session["guest"] /\ flows[s] # Nothing
    /\ Enqueue(<<[kind |-> "close", id |-> flows[s]]>>)
    /\ flows' = [flows EXCEPT ![s] = Nothing]
    /\ UNCHANGED <<network, queue, loop, streams, task, app, udp, counter>>

\* A new stream is entered before its OPEN is sent and its task is spawned; at the
\* limits the connection is dropped and a flow is left without a stream.
NewStream(id) ==
    \/ /\ Cardinality(streams["guest"]) < Limit
       /\ streams' = [streams EXCEPT !["guest"] = @ \cup {id}]
       /\ loop' = [loop EXCEPT !["guest"] = OPEN(id)]
       /\ UNCHANGED task
    \/ /\ task' = [e \in Ends |-> [task[e] EXCEPT ![id] = Gone]]
       /\ UNCHANGED <<streams, loop>>

Local ==
    /\ session["guest"] /\ loop["guest"] = Nothing /\ events # <<>>
    /\ events' = Tail(events)
    /\ LET v == Head(events)
       IN  \/ v.kind \in {"tcp", "udp"} /\ NewStream(v.id)
           \/ /\ v.kind = "datagram" /\ v.id \in streams["guest"]
              /\ loop' = [loop EXCEPT !["guest"] = DATA(v.id, 0)] /\ UNCHANGED <<streams, task>>
           \/ /\ v.kind = "datagram" /\ v.id \notin streams["guest"]
              /\ UNCHANGED <<loop, streams, task>>
           \/ v.kind = "close" /\ Reset("guest", v.id)
    /\ UNCHANGED <<network, queue, app, udp, counter, flows>>

(* ---- the heartbeat and the end of a session ---- *)

\* Every 3 s; at most one PING is under way (a bound).
Beat(e) ==
    /\ e \in Beaters /\ session[e] /\ loop[e] = Nothing /\ PING \notin ToSet(queue[e])
    /\ loop' = [loop EXCEPT ![e] = PING]
    /\ UNCHANGED <<network, queue, table, task, app>>

\* 12 s without a frame.
Expires(e) == session[e] /\ broken /\ Ends_(e)

\* The other end has closed the transport: the reader or the writer fails, whether
\* or not the frames before it were all handled.
TransportEnds(e) == session[e] /\ ~session[Other(e)] /\ ~broken /\ Ends_(e)

\* The session is dropped: Ctrl-C, a changed catalogue, a revoked invitation.
Stops(e) == session[e] /\ Ends_(e)

Breaks ==
    /\ session["guest"] /\ session["host"] /\ ~broken
    /\ broken' = TRUE /\ queue' = [e \in Ends |-> <<>>]
    /\ UNCHANGED <<session, cut, unsaid, loop, table, task, app>>

TaskStep(e, id) ==
    \/ PumpReads(e, id) \/ PumpWrites(e, id) \/ PumpEnds(e, id)
    \/ UdpDelivers(e, id) \/ UdpEnds(e, id)
    \/ TaskSends(e, id) \/ TaskFinishes(e, id) \/ Reap(e, id)

LoopStep(e) ==
    \/ LoopSends(e) \/ LoopGivesUp(e) \/ Receive(e) \/ Beat(e)
    \/ Expires(e) \/ TransportEnds(e) \/ Stops(e)

MuxNext ==
    \/ \E e \in Ends, id \in Ids : TaskStep(e, id)
    \/ \E id \in Ids : UdpAnswers(id) \/ Dialled(id)
    \/ \E e \in Ends : LoopStep(e)
    \/ \E s \in Sources : Datagram(s) \/ Sweep(s)
    \/ Accept \/ Local \/ Breaks

\* What a task does of its own accord.
TaskRuns(e, id) ==
    \/ TaskSends(e, id) \/ PumpWrites(e, id) \/ UdpDelivers(e, id)
    \/ PumpMustEnd(e, id) \/ UdpMustEnd(e, id) \/ (e = "host" /\ Dialled(id))
    \/ TaskFinishes(e, id) \/ Reap(e, id)

\* Every task and both loops run, and timers expire: what waits for room gets it or
\* is given up.  Nothing makes an application write or close, a source
\* fall silent or an idle stream end.
MuxFairness ==
    \A e \in Ends :
        /\ WF_muxVars(LoopSends(e) \/ LoopGivesUp(e))
        /\ WF_muxVars(Receive(e) \/ Expires(e) \/ TransportEnds(e))
        /\ \A id \in Ids : WF_muxVars(TaskRuns(e, id))

MuxSpec == MuxInit /\ [][MuxNext]_muxVars /\ MuxFairness
-----------------------------------------------------------------------------

MuxTypeOK ==
    /\ session \in [Ends -> BOOLEAN] /\ broken \in BOOLEAN
    /\ \A e \in Ends : /\ Len(queue[e]) <= QueueCap /\ streams[e] \subseteq Ids
                       /\ Cardinality(streams[e]) <= Limit
                       /\ \A id \in Ids : Len(task[e][id].chan) <= ChanCap
    /\ flows \in [Sources -> Ids \cup {Nothing}] /\ Len(events) <= EventCap

\* What an application receives over a TCP stream is what the other one wrote, from
\* the first byte and without a gap, however full the channels were and whatever
\* was reset.  When it sees the end of its connection it has all of it, unless the
\* connection was cut, which to the application looks the same.
SeesEnd(e, id) == app[e][id].eof \/ id \in cut[e]
StreamsAreWhole ==
    \A e \in Ends, id \in Ids : udp[id] = Nothing =>
        LET mine == app[e][id]  yours == app[Other(e)][id]
        IN  /\ mine.got = [n \in 1..Len(mine.got) |-> n]
            /\ Len(mine.got) <= yours.sent
            /\ SeesEnd(e, id) => Len(mine.got) = yours.sent \/ id \in cut[e]

\* An entry of the stream table belongs to a stream whose task is still to be
\* spawned, runs, or waits to be reaped: no entry outlives its task and uses up one
\* of the 64 places for the rest of the session.
EntriesHaveTasks ==
    \A e \in Ends, id \in Ids : id \in streams[e] =>
        \/ task[e][id].st \in {"dial", "run", "ending", "done"}
        \/ loop[e] = OPEN(id)

\* Tables, tasks and data agree.
MuxIsSound == MuxTypeOK /\ EntriesHaveTasks /\ StreamsAreWhole

\* A TCP stream that has ended or was refused at one end ends at the other, though
\* only a RESET tells it so and both loops may be waiting for room that only the other
\* one makes: no connection stays open on one side alone, unless the RESET of its task
\* found no room in time.
StreamsEndTogether == \A id \in Ids :
    (udp[id] = Nothing /\ \E e \in Ends : task[e][id].st \in {"ending", "done", "gone"})
        ~> \/ \A e \in Ends : task[e][id].st \notin {"dial", "run"}
           \/ \E e \in Ends : id \in unsaid[e]
=============================================================================
