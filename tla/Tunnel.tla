------------------------------- MODULE Tunnel -------------------------------
(***************************************************************************)
(* The TCP bridge of tunnel.rs: guest_forward and host_forward, which carry *)
(* one local TCP connection after another over one transport.              *)
(*                                                                         *)
(* For each connection spawn_pump starts two tasks on either side.  The    *)
(* remote task holds the transport: it reads frames for the local task and *)
(* writes the local task's data as frames.  The local task holds the TCP   *)
(* connection.  Two bounded channels join them.  An end frame closes a     *)
(* connection, and the other side answers it with its own.                 *)
(*                                                                         *)
(* The transport is a reliable stream of bytes.  A read returns any number *)
(* of the frames that are on the way and perhaps the beginning of another, *)
(* which is kept with the task that read it: when the host's task ends,    *)
(* the rest of that frame is read as something else (`torn`).              *)
(* The connections of a side are numbered in its order.                    *)
(***************************************************************************)
EXTENDS Naturals, Sequences

CONSTANTS
    MaxConns,       \* --max-conns, the same on both sides
    Chunks,         \* bound: Chunks[s][c] is what a program sends on connection c
    Cap,            \* 32, the capacity of the channels
    WireCap         \* what the transport buffers in one direction

ASSUME BridgeAssumption == MaxConns \in Nat \ {0} /\ Cap \in Nat /\ WireCap \in Nat
ASSUME ChunksAssumption ==
    \A s \in {"guest", "host"} : \A c \in 1..MaxConns : Chunks[s][c] \in Nat

Side == {"guest", "host"}
Peer(s) == CHOOSE t \in Side : t # s
Conn == 1..MaxConns

Cnew == [kind |-> "cnew", conn |-> 0, n |-> 0]
EndFrame == [kind |-> "end", conn |-> 0, n |-> 0]
Data(c, n) == [kind |-> "data", conn |-> c, n |-> n]

VARIABLES
    main,           \* where guest_forward and host_forward are
    opened,         \* how many connections they have opened
    wire,           \* wire[s]: the frames on their way to s
    begun,          \* the host's task has read a part of the first of them
    torn,           \* that part was dropped: the host reads from within a frame
    lost,           \* the transport broke
    rtask,          \* the remote task of the present pump
    acc,            \* the frames it has read and not yet taken
    out,            \* the data it is writing
    ltask,          \* ltask[s][c]: the local task of connection c
    toRemote, toLocal,  \* the channels of connection c
    app,            \* the other end of the local TCP connection
    sent, got       \* what it has sent, and what it was given

mainVars == <<main, opened>>
partVars == <<begun, torn>>
remoteVars == <<rtask, acc, out, partVars>>
localVars == <<ltask, app, sent, got>>
bridgeVars == <<mainVars, wire, lost, remoteVars, localVars, toRemote, toLocal>>

PerConn(v) == [s \in Side |-> [c \in Conn |-> v]]
Between == [guest |-> "accept", host |-> "wait"]

BridgeInit ==
    /\ main = Between /\ opened = [s \in Side |-> 0]
    /\ wire = [s \in Side |-> <<>>] /\ lost = FALSE
    /\ begun = FALSE /\ torn = FALSE
    /\ rtask = [s \in Side |-> "none"]
    /\ acc = [s \in Side |-> <<>>] /\ out = [s \in Side |-> <<>>]
    /\ ltask = PerConn("none") /\ app = PerConn("none")
    /\ toRemote = PerConn(<<>>) /\ toLocal = PerConn(<<>>)
    /\ sent = PerConn(0) /\ got = PerConn(<<>>)

\* A channel takes no more than its capacity.  Mutant: it is unbounded.
Unbounded(q) == TRUE
HasRoom(q) == Len(q) < Cap

\* The pump of connection c still has its remote task.
Live(s, c) == main[s] = "pump" /\ opened[s] = c

-----------------------------------------------------------------------------
(* The transport *)

Write(s, f) ==
    /\ Len(wire[Peer(s)]) < WireCap
    /\ wire' = [wire EXCEPT ![Peer(s)] = Append(@, f)]

WriteFails(s) == lost \/ main[Peer(s)] = "ended"

\* From within a frame the host's task takes for frames what the programs sent:
\* anything, here no more frames than there were.
Scrap == Data(0, 0)
Framed(s, k) ==
    IF s = "host" /\ torn THEN UNION {[1..n -> {Scrap, EndFrame, Cnew}] : n \in 0..k}
                          ELSE {SubSeq(wire[s], 1, k)}

\* k whole frames come, and with b a part of the next one.  A part that the guest's
\* task keeps makes no difference, since nothing can be dropped there (GuestIsClear).
Read(s) == \E k \in 0..Len(wire[s]), b \in BOOLEAN :
    /\ k > 0 \/ (b /\ ~begun)
    /\ b => s = "host" /\ k < Len(wire[s])
    /\ \E frames \in Framed(s, k) : acc' = [acc EXCEPT ![s] = @ \o frames]
    /\ wire' = [wire EXCEPT ![s] = SubSeq(@, k + 1, Len(@))]
    /\ begun' = IF s = "host" THEN b ELSE begun

\* Whoever ends drops the transport: what it had written still arrives.
ReadFails(s) == lost \/ (main[Peer(s)] = "ended" /\ wire[s] = <<>>)

TransportLost ==
    /\ ~lost
    /\ lost' = TRUE
    /\ UNCHANGED <<mainVars, wire, remoteVars, localVars, toRemote, toLocal>>

-----------------------------------------------------------------------------
(* The main loops *)

\* A pump is started on connection opened + 1.
SpawnPump(s) == LET c == opened[s] + 1 IN
    /\ opened' = [opened EXCEPT ![s] = c]
    /\ main' = [main EXCEPT ![s] = "pump"]
    /\ rtask' = [rtask EXCEPT ![s] = "select"]
    /\ ltask' = [ltask EXCEPT ![s][c] = "select"]
    /\ app' = [app EXCEPT ![s][c] = "open"]

Stop(s) == main' = [main EXCEPT ![s] = "ended"]

\* guest_forward accepts a local connection and announces it.
GuestAccepts ==
    /\ main["guest"] = "accept"
    /\ Write("guest", Cnew)
    /\ SpawnPump("guest")
    /\ UNCHANGED <<lost, partVars, acc, out, toRemote, toLocal, sent, got>>

GuestFails ==
    /\ main["guest"] = "accept"
    /\ WriteFails("guest")
    /\ Stop("guest")
    /\ UNCHANGED <<opened, wire, lost, remoteVars, localVars, toRemote, toLocal>>

\* host_forward reads one frame: a CNEW, a stray data frame or an end frame,
\* whose four zero bytes are no frame header it knows.
HostReads ==
    /\ main["host"] = "wait" /\ wire["host"] # <<>> /\ ~torn
    /\ wire' = [wire EXCEPT !["host"] = Tail(@)]
    /\ LET f == Head(wire["host"]) IN
         \/ f = Cnew /\ main' = [main EXCEPT !["host"] = "dial"]
         \/ f.kind = "data" /\ UNCHANGED main
         \/ f = EndFrame /\ Stop("host")
    /\ UNCHANGED <<opened, lost, remoteVars, localVars, toRemote, toLocal>>

\* From within a frame it finds what the bytes happen to spell: no header, frames
\* to skip, or even a CNEW.
HostMisreads ==
    /\ main["host"] = "wait" /\ torn
    /\ \E k \in 0..Len(wire["host"]), m \in {"wait", "dial", "ended"} :
          /\ wire' = [wire EXCEPT !["host"] = SubSeq(@, k + 1, Len(@))]
          /\ main' = [main EXCEPT !["host"] = m]
    /\ UNCHANGED <<opened, lost, remoteVars, localVars, toRemote, toLocal>>

HostReadFails ==
    /\ main["host"] = "wait"
    /\ ReadFails("host")
    /\ Stop("host")
    /\ UNCHANGED <<opened, wire, lost, remoteVars, localVars, toRemote, toLocal>>

HostDials ==
    /\ main["host"] = "dial"
    /\ SpawnPump("host")
    /\ UNCHANGED <<wire, lost, partVars, acc, out, toRemote, toLocal, sent, got>>

\* dial_service gives up: the session ends with an error.
DialFails ==
    /\ main["host"] = "dial"
    /\ Stop("host")
    /\ UNCHANGED <<opened, wire, lost, remoteVars, localVars, toRemote, toLocal>>

\* The remote task returns the transport and says whether the session goes on.
\* The frames left in acc, and the part of one, are lost with the task.
GoesOn(s, done) == done = "conn" /\ opened[s] < MaxConns
Finish(s, done) ==
    /\ acc' = [acc EXCEPT ![s] = <<>>]
    /\ begun' = (begun /\ s # "host")
    /\ torn' = (torn \/ (s = "host" /\ begun /\ GoesOn(s, done)))
    /\ rtask' = [rtask EXCEPT ![s] = "none"]
    /\ main' = [main EXCEPT ![s] = IF GoesOn(s, done) THEN Between[s] ELSE "ended"]

-----------------------------------------------------------------------------
(* The remote task *)

In(s, state) == main[s] = "pump" /\ rtask[s] = state
LocalOver(s) == ltask[s][opened[s]] = "over"

RemoteReads(s) ==
    /\ In(s, "select")
    /\ Read(s)
    /\ rtask' = [rtask EXCEPT ![s] = "take"]
    /\ UNCHANGED <<mainVars, lost, torn, out, localVars, toRemote, toLocal>>

\* The transport ends or fails, in whatever the task reads or writes; or what comes is
\* no frame.
RemoteFails(s) ==
    /\ \/ In(s, "select") /\ ReadFails(s)
       \/ In(s, "write") /\ WriteFails(s)
       \/ In(s, "take") /\ acc[s] # <<>> /\ WriteFails(s)
            /\ (acc[s][1] = EndFrame \/ (acc[s][1].kind = "data" /\ LocalOver(s)))
       \/ In(s, "end") /\ WriteFails(s)
       \/ In(s, "wait_end") /\ acc[s] = <<>> /\ ReadFails(s)
       \/ (In(s, "take") \/ In(s, "wait_end")) /\ acc[s] # <<>> /\ acc[s][1] = Cnew
    /\ out' = [out EXCEPT ![s] = <<>>]
    /\ Finish(s, "session")
    /\ UNCHANGED <<opened, wire, lost, localVars, toRemote, toLocal>>

\* A data frame goes to the local task; with the channel full, the task waits here.
TakeData(s) == LET c == opened[s] IN
    /\ In(s, "take") /\ acc[s] # <<>> /\ acc[s][1].kind = "data"
    /\ ~LocalOver(s)
    /\ HasRoom(toLocal[s][c])
    /\ toLocal' = [toLocal EXCEPT ![s][c] = Append(@, acc[s][1])]
    /\ acc' = [acc EXCEPT ![s] = Tail(@)]
    /\ UNCHANGED <<mainVars, wire, lost, partVars, rtask, out, localVars, toRemote>>

\* The local task is gone: answer with an end frame and wait for the other.
TakeUnwanted(s) ==
    /\ In(s, "take") /\ acc[s] # <<>> /\ acc[s][1].kind = "data"
    /\ LocalOver(s)
    /\ Write(s, EndFrame)
    /\ acc' = [acc EXCEPT ![s] = Tail(@)]
    /\ rtask' = [rtask EXCEPT ![s] = "wait_end"]
    /\ UNCHANGED <<mainVars, lost, partVars, out, localVars, toRemote, toLocal>>

\* The end frame of the other side is answered.
\* Mutant: it is not.
TakeEndSilently(s) ==
    /\ In(s, "take") /\ acc[s] # <<>> /\ acc[s][1] = EndFrame
    /\ Finish(s, "conn")
    /\ UNCHANGED <<opened, wire, lost, out, localVars, toRemote, toLocal>>
TakeEnd(s) ==
    /\ In(s, "take") /\ acc[s] # <<>> /\ acc[s][1] = EndFrame
    /\ Write(s, EndFrame)
    /\ Finish(s, "conn")
    /\ UNCHANGED <<opened, lost, out, localVars, toRemote, toLocal>>

TakeDone(s) ==
    /\ In(s, "take") /\ acc[s] = <<>>
    /\ rtask' = [rtask EXCEPT ![s] = "select"]
    /\ UNCHANGED <<mainVars, wire, lost, partVars, acc, out, localVars, toRemote, toLocal>>

\* The local task's data: taken out of the channel, then written as a frame.
RemoteTakesLocal(s) == LET c == opened[s] IN
    /\ In(s, "select") /\ toRemote[s][c] # <<>>
    /\ out' = [out EXCEPT ![s] = <<Head(toRemote[s][c])>>]
    /\ toRemote' = [toRemote EXCEPT ![s][c] = Tail(@)]
    /\ rtask' = [rtask EXCEPT ![s] = "write"]
    /\ UNCHANGED <<mainVars, wire, lost, partVars, acc, localVars, toLocal>>

RemoteWrites(s) ==
    /\ In(s, "write")
    /\ Write(s, out[s][1])
    /\ out' = [out EXCEPT ![s] = <<>>]
    /\ rtask' = [rtask EXCEPT ![s] = "select"]
    /\ UNCHANGED <<mainVars, lost, partVars, acc, localVars, toRemote, toLocal>>

\* The local task is gone and everything it sent is written: the end frame.
\* Mutant: what the channel still holds is forgotten.
EndAtOnce(s) == LocalOver(s)
NothingToSend(s) == LocalOver(s) /\ toRemote[s][opened[s]] = <<>>

RemoteEnds(s) ==
    /\ In(s, "select") /\ NothingToSend(s)
    /\ rtask' = [rtask EXCEPT ![s] = "end"]
    /\ UNCHANGED <<mainVars, wire, lost, partVars, acc, out, localVars, toRemote, toLocal>>

\* The end frame is written; then the other side's has to come.
\* Mutant: it is not waited for.
EndsUnheard(s) ==
    /\ In(s, "end")
    /\ Write(s, EndFrame)
    /\ Finish(s, "conn")
    /\ UNCHANGED <<opened, lost, out, localVars, toRemote, toLocal>>
RemoteWritesEnd(s) ==
    /\ In(s, "end")
    /\ Write(s, EndFrame)
    /\ rtask' = [rtask EXCEPT ![s] = "wait_end"]
    /\ UNCHANGED <<mainVars, lost, partVars, acc, out, localVars, toRemote, toLocal>>

\* wait_end: data is dropped until the end frame of the other side comes.
\* Mutant: any frame will do.
AnyFrame(f) == TRUE
IsEnd(f) == f = EndFrame

WaitReads(s) ==
    /\ In(s, "wait_end") /\ acc[s] = <<>>
    /\ Read(s)
    /\ UNCHANGED <<mainVars, lost, torn, rtask, out, localVars, toRemote, toLocal>>

WaitDrops(s) ==
    /\ In(s, "wait_end") /\ acc[s] # <<>> /\ acc[s][1].kind = "data"
    /\ ~IsEnd(acc[s][1])
    /\ acc' = [acc EXCEPT ![s] = Tail(@)]
    /\ UNCHANGED <<mainVars, wire, lost, partVars, rtask, out, localVars, toRemote, toLocal>>

WaitEnds(s) ==
    /\ In(s, "wait_end") /\ acc[s] # <<>> /\ IsEnd(acc[s][1])
    /\ Finish(s, "conn")
    /\ UNCHANGED <<opened, wire, lost, out, localVars, toRemote, toLocal>>

-----------------------------------------------------------------------------
(* The local task of connection c, and the program at its other end *)

\* It reads what the program sent, and then waits for room in the channel.
LocalReads(s, c) ==
    /\ ltask[s][c] = "select" /\ app[s][c] = "open"
    /\ sent[s][c] < Chunks[s][c]
    /\ sent' = [sent EXCEPT ![s][c] = @ + 1]
    /\ ltask' = [ltask EXCEPT ![s][c] = "send"]
    /\ UNCHANGED <<mainVars, wire, lost, remoteVars, app, got, toRemote, toLocal>>

LocalSends(s, c) ==
    /\ ltask[s][c] = "send" /\ Live(s, c)
    /\ HasRoom(toRemote[s][c])
    /\ toRemote' = [toRemote EXCEPT ![s][c] = Append(@, Data(c, sent[s][c]))]
    /\ ltask' = [ltask EXCEPT ![s][c] = "select"]
    /\ UNCHANGED <<mainVars, wire, lost, remoteVars, app, sent, got, toLocal>>

\* A reading end comes before what the remote task has to say (biased select).  What
\* that says is handed to the connection, and the task waits until it is taken.
LocalWrites(s, c) ==
    /\ ltask[s][c] = "select" /\ app[s][c] = "open"
    /\ toLocal[s][c] # <<>>
    /\ got' = [got EXCEPT ![s][c] = Append(@, Head(toLocal[s][c]))]
    /\ toLocal' = [toLocal EXCEPT ![s][c] = Tail(@)]
    /\ ltask' = [ltask EXCEPT ![s][c] = "write"]
    /\ UNCHANGED <<mainVars, wire, lost, remoteVars, app, sent, toRemote>>

\* The program reads; nothing makes it.
AppReads(s, c) ==
    /\ ltask[s][c] = "write" /\ app[s][c] = "open"
    /\ ltask' = [ltask EXCEPT ![s][c] = "select"]
    /\ UNCHANGED <<mainVars, wire, lost, remoteVars, app, sent, got, toRemote, toLocal>>

\* The task ends with its program or with the remote task.
LocalEnds(s, c) ==
    /\ \/ ltask[s][c] \in {"select", "write"} /\ app[s][c] = "closed"
       \/ ltask[s][c] = "select" /\ ~Live(s, c) /\ toLocal[s][c] = <<>>
       \/ ltask[s][c] = "send" /\ ~Live(s, c)
    /\ ltask' = [ltask EXCEPT ![s][c] = "over"]
    /\ app' = [app EXCEPT ![s][c] = "closed"]
    /\ toLocal' = [toLocal EXCEPT ![s][c] = <<>>]
    /\ UNCHANGED <<mainVars, wire, lost, remoteVars, sent, got, toRemote>>

AppCloses(s, c) ==
    /\ app[s][c] = "open"
    /\ app' = [app EXCEPT ![s][c] = "closed"]
    /\ UNCHANGED <<mainVars, wire, lost, remoteVars, ltask, sent, got, toRemote, toLocal>>

-----------------------------------------------------------------------------
Loops == GuestFails \/ HostReads \/ HostReadFails \/ HostDials \/ DialFails
Remote(s) ==
    \/ RemoteReads(s) \/ RemoteFails(s)
    \/ TakeData(s) \/ TakeUnwanted(s) \/ TakeEnd(s) \/ TakeDone(s)
    \/ RemoteTakesLocal(s) \/ RemoteWrites(s) \/ RemoteEnds(s) \/ RemoteWritesEnd(s)
    \/ WaitReads(s) \/ WaitDrops(s) \/ WaitEnds(s)
Local(s, c) == LocalSends(s, c) \/ LocalWrites(s, c) \/ LocalEnds(s, c)

Tasks == Loops \/ \E s \in Side : Remote(s) \/ \E c \in Conn : Local(s, c)

BridgeNext ==
    \/ Tasks \/ GuestAccepts \/ TransportLost \/ HostMisreads
    \/ \E s \in Side, c \in Conn : LocalReads(s, c) \/ AppReads(s, c) \/ AppCloses(s, c)

BridgeSpec == BridgeInit /\ [][BridgeNext]_bridgeVars

\* As long as some task can go on, one does; programs connect, send, read and close as
\* they like.  All that the tasks do is finite, so no more has to be assumed.
BridgeFairness == WF_bridgeVars(Tasks)
BridgeFairSpec == BridgeSpec /\ BridgeFairness

-----------------------------------------------------------------------------
(* Properties *)

Frames == [kind : {"cnew", "end", "data"}, conn : 0..MaxConns, n : Nat]

\* Every variable keeps its type and the channels their capacity.
BridgeTypeOK ==
    /\ main \in [Side -> {"accept", "wait", "dial", "pump", "ended"}]
    /\ opened \in [Side -> 0..MaxConns] /\ lost \in BOOLEAN
    /\ begun \in BOOLEAN /\ torn \in BOOLEAN
    /\ rtask \in [Side -> {"none", "select", "take", "write", "end", "wait_end"}]
    /\ \A s \in Side :
          /\ wire[s] \in Seq(Frames) /\ Len(wire[s]) <= WireCap
          /\ acc[s] \in Seq(Frames)
          /\ out[s] \in Seq(Frames) /\ (out[s] # <<>> <=> rtask[s] = "write")
    /\ ltask \in [Side -> [Conn -> {"none", "select", "send", "write", "over"}]]
    /\ app \in [Side -> [Conn -> {"none", "open", "closed"}]]
    /\ \A s \in Side, c \in Conn : sent[s][c] \in 0..Chunks[s][c]
    /\ \A s \in Side, c \in Conn :
          /\ toRemote[s][c] \in Seq(Frames) /\ Len(toRemote[s][c]) <= Cap
          /\ toLocal[s][c] \in Seq(Frames) /\ Len(toLocal[s][c]) <= Cap
          /\ got[s][c] \in Seq(Frames)

\* A program is given what the program at the other end of its own connection
\* sent, in order and from the start: never a chunk of an earlier connection.
DeliveredInOrder == \A s \in Side, c \in Conn :
    /\ Len(got[s][c]) <= sent[Peer(s)][c]
    /\ \A i \in DOMAIN got[s][c] : got[s][c][i] = Data(c, i)

\* Before the guest is ready for another connection the host has said all it
\* had to say about the one before: it only still waits for the end frame.
HostIsDone ==
    main["guest"] = "accept" \/ opened["guest"] > opened["host"]
      => main["host"] # "pump" \/ rtask["host"] = "wait_end"

\* Nothing is under way to a guest that is ready for another connection: its task never
\* leaves a part of a frame behind.
GuestIsClear == main["guest"] = "accept" => wire["guest"] = <<>>

\* A remote task never meets a CNEW: as the length of a frame it is too large,
\* and the task would end the session.
CnewInPlace == \A s \in Side : main[s] = "pump" /\ acc[s] # <<>> => acc[s][1] # Cnew

\* While the session lasts, a connection that ends at a side whose own program
\* has not closed has handed over all that the other program sent, if that one
\* was given all that was sent to it: TakeUnwanted does not look at toRemote, so
\* a program that closes while more is coming may lose its last words.
EndFollowsData == \A s \in Side, c \in Conn :
    /\ ltask[s][c] \in {"select", "send", "write"} /\ ~Live(s, c)
    /\ ~lost /\ main[s] # "ended"
    /\ Len(got[Peer(s)][c]) = sent[s][c]
    => Len(got[s][c]) + Len(toLocal[s][c]) = sent[Peer(s)][c]

\* Both tasks of a side, or the remote tasks of both sides, wait for each other.
Jammed(s) ==
    /\ ltask[s][opened[s]] = "send" /\ Len(toRemote[s][opened[s]]) = Cap
    /\ rtask[s] = "take" /\ Len(toLocal[s][opened[s]]) = Cap
Choked == \A s \in Side : Len(wire[s]) = WireCap /\ rtask[s] \in {"take", "write", "end"}

\* When a program closes its connection, its side comes to the end of it, unless
\* the channels between the tasks have filled up against each other, the host reads
\* from within a frame, or some program does not take what its task has for it.
Closed(s) == main[s] = "pump" /\ app[s][opened[s]] = "closed"
CloseEnds ==
    (\E s \in Side : Closed(s))
      ~> \/ \A s \in Side : ~Closed(s)
         \/ Choked \/ \E s \in Side : main[s] = "pump" /\ Jammed(s)
         \/ torn \/ [](\E s \in Side, c \in Conn : ltask[s][c] = "write")

\* tunnel.rs:6: an end frame is sent when the local connection closes.
CloseIsAnnounced ==
    (\E s \in Side : Closed(s)) ~> \A s \in Side : Closed(s) => rtask[s] = "wait_end"

\* The session waits for the next CNEW after a connection: a connection the
\* guest opens is opened at the host, unless the session ends.
OpenIsDialled == \A c \in Conn :
    opened["guest"] = c ~> \/ main["host"] = "dial" \/ opened["host"] >= c
                          \/ lost \/ \E s \in Side : main[s] = "ended"

\* No frame is out of place or told too early, for connections one after another, as
\* long as no part of a frame was dropped; and that happens to the host alone.
TunnelIsSound == ~torn =>
    /\ BridgeTypeOK /\ CnewInPlace /\ DeliveredInOrder
    /\ HostIsDone /\ GuestIsClear /\ EndFollowsData
=============================================================================
