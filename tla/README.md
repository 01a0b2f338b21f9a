# Formal models of frp-sh

TLA+ modules for the protocols and the shared state of frp-sh, TLC
configurations that check them on small instances, and TLAPS proofs that hold
for every value of the constants.  Source paths are relative to the repository
root (`src/` is its Rust source).

    tlc -config MCRelays.cfg MCRelays     # one run; PROJECT.json lists them all
    tlapm FrsStream_proofs.tla            # one module of proofs

`PROJECT.json` maps every definition to the lines it models, lists the hazards
of the code with the properties aimed at them, and gives for every property a
mutant of the model, a plausible bug of the code, which breaks it.

## 1. The system

frp-sh connects machines behind NATs.  A *signalling server* keeps rooms and
pairs relay connections; *clients* reach each other directly over UDP (hole
punching), through TURN or through the relay, and carry TCP connections, a set
of named services, or IP packets of a virtual network.  *Permanent spaces* are
the same for devices with keys, with their membership in a database; *custom
domains* publish a service over HTTP.  An *agent* supervises sessions, and a
privileged *helper* owns the network devices.

| component | state | operations | hard behaviour | what makes it correct |
|---|---|---|---|---|
| UDP stream, `p2p/stream.rs` | two mutex-guarded `Shared` records, datagrams on the way, timers | write, read, shutdown, drop; flush, timer, incoming frame | loss, repetition, reordering; timeouts that race late ACKs; wakers | the reader gets a prefix; EOF and shutdown mean completeness; nobody stays parked |
| Encrypted stream, `p2p/enc.rs` | user buffers, progress counters, a task that seals and opens | handshake, write, flush, shutdown, read, drop | one half fails while the other works; error and buffer are read separately | the two ends are a pair of reliable pipes; nobody parks for ever |
| Datagram security, `p2p/security.rs` | nonces, binding, replay window | hello, reply, seal, open | repeated and late datagrams, replaced streams | nothing passes twice or for another stream |
| Relay pairing, `signaling/server.rs` | slots of waiting connections per room, cancellation tokens | hello, wait, pair, time out, cancel, copy | lock released to write WAIT; room replaced meanwhile; timeout against take-over | two that look for each other meet; one stream, one taker; one room |
| Room registry, `signaling/server.rs` | rooms, guests, address pool, limits, tokens | create, join, get, refresh, secure, delete | lazy expiry; authorization and handler lock separately; pool exhaustion | addresses distinct and stable; limits; nobody enters a room that is over |
| TCP tunnel, `tunnel.rs` | two tasks per connection and side, two bounded channels, read buffer, transport | accept/CNEW, dial, data, end frame, wait for the end | ends that cross; full channels; reuse of the transport | a chunk only reaches its own connection; closing ends |
| Service multiplexer, `services.rs` | stream table, bounded queues, UDP flows | OPEN, DATA, FIN, RESET, PING | full channels turn into RESET; ids survive their stream; two loops that wait for each other | an entry has its task; bytes arrive whole and in order unless the stream was cut; it ends at both ends |
| Service room, `services.rs` | control file, catalogue, credential, session jobs | add, remove, revoke, fetch, join, pair | file rewritten without a lock; sessions of a former catalogue | only what is published is served; changes that nobody overwrites reach everybody |
| Space storage, `storage/` | SQLite tables behind one worker thread | create, invite, redeem, remove, leave, delete, revoke | retries of redeem and create; expiry; a queue of requests with old clocks | invitations are spent once; addresses unique; quotas |
| Space sessions and relay hub, `spaces/{leases,server,relay}.rs` | leases, the hub, re-authentication tick | open, refresh, close, upgrade, forward, revoke | revocation while connected; a reconnect against the old guard | only members exchange frames; one voice at an address |
| Signed calls, `device.rs`, `spaces/{client,server}.rs`, `storage/worker.rs` | challenges, handler slots, the database queue | challenge, sign, execute, give up, retry | late, repeated and changed requests; dropped handlers; receipts that go with their space | a signature is good for one run; a request id makes one thing at a time; a slot comes back |
| Space members, `spaces/{network,mesh}.rs` | links by peer, sessions, nonces | open, ask, update, hello, quit | one side relinks, the other does not; old hellos in the queue | members end up linked; no link to a session that is over |
| Host mesh, `commands.rs`, `p2p/{tun,stream}.rs` | pending and established guests, plane, peer and alias tables | poll, punch, TURN, relay, death of a link | three paths race for one guest; late reports of death | one link per guest and the tables follow |
| Room sessions, `commands.rs`, `p2p/hole_punch.rs` | two reconnect loops with timers and flags | punch, TURN, relay, break | timers of two loops that miss each other | they meet again; who must relay is relayed |
| TURN, `p2p/{turn,turn_server}.rs` | allocations, permissions, relay tasks | allocate, permit, send, refresh, expire | lost datagrams; cleaner against refresh | data flows by consent only; an allocation lives as long as it is refreshed |
| Packet pumps, `p2p/tun.rs` | queues and tasks per link, dispatcher, announced networks | read, route, write, heartbeat, unregister | full queues in both directions | packets reach whom they are for; no pump sticks |
| Custom domains, `domains/` | bindings, session tokens, publishers, requests | bind, verify, unbind, publish, request | several locks and transactions per operation | a request meets a device that proved the domain |
| Agent and runtime, `agent/`, `runtime/` | job file, worker process, session state | start, stop, restart, back off | a loop that awaits with an old job in hand; crash | one worker, of the present job |
| Helper, `helper/`, `p2p/tun.rs` | sessions, devices, routes, forwarding | open, route, forward, drop | late requests of clients that are gone; crash | nothing in the system without an owner |

Interactions.  The stream, the encrypted stream and the relay each carry a
*transport* (a reliable byte stream); the tunnel, the multiplexer and the packet
pumps run on one.  The registry and the relay share the room map and its mutex:
deleting or securing a room cancels the relay's connections through a token.
The host mesh replaces the streams and secured links of a guest under way.  The
agent starts a worker, which asks the helper for devices and routes.  The space
server owns a lease table that the hub consults at every frame; its operations
come in as signed calls, and run on the store behind one queue.

PROJECT.json, "hazards", lists what a test would hardly reach, at its line.

## 2. Modules

| module | models | checked by | proved in |
|---|---|---|---|
| `ReliablePipe` | what a pair of streams promises: the abstract specification | `stream_safe`, `secured` (as `PipeSpec`) | |
| `FrsStream` | both ends of `p2p/stream.rs` and the network | `stream_safe`, `stream_live` | `FrsStream_proofs` |
| `RoomRegistry` | the handlers of the room map | `server_state` | `RoomRegistry_proofs` |
| `SpaceStore` | the tables of permanent spaces and their transactions | `server_state`, `relays` | `SpaceService_proofs` |
| `RelayPairing` | `handle_relay_conn` with the room operations that touch it | `server_tasks` | `ServerTasks_proofs` |
| `DomainIngress` | one domain, its devices, publishers and requests | `server_tasks` | `ServerTasks_proofs` |
| `SpaceService` | the space server: leases, relay hub and relay connections; extends `SpaceStore` | `relays` | `SpaceService_proofs` |
| `Tunnel` | `guest_forward`, `host_forward` and their pumps | `relays` | `SpaceService_proofs` |
| `DatagramSecurity` | the handshake by nonces and the replay window, as operators | `peers`, `space_mesh` | `Peers_proofs` |
| `SecureLink` | two keyed streams that come and go; extends `DatagramSecurity` | `peers` | `Peers_proofs` |
| `HostMesh` | `mesh_host_loop`, `MeshPlane`, the tables of `UdpMesh` | `peers` | `Peers_proofs` |
| `SpaceMesh` | the members of a space; extends `DatagramSecurity` | `space_mesh` | `Peers_proofs` |
| `TurnRelay` | TURN server and TURN clients | `room_paths` | `TurnRelay_proofs` |
| `RoomSession` | the reconnect loops of host and guest | `room_paths` | |
| `PacketPlane` | the packet pumps of guests and host | `machines` | `PacketPlane_proofs` |
| `Supervisor`, `NetHelper`, `Node` | agent with worker and session manager; helper with the kernel; a machine with both | `machines` | `PacketPlane_proofs` |
| `ServiceMux` | both ends of `session` with their tasks | `services` | `RoomRegistry_proofs` |
| `ServiceRoom` | host process, commands, members and server of a service room | `services` | `RoomRegistry_proofs` |
| `EncStream` | both ends of `p2p/enc.rs` and the connection | `secured`, `enc_eof` | `Secured_proofs` |
| `SignedCall` | challenges, handlers and database queue | `secured` | `Secured_proofs` |

`MC*` modules give the constants their values.  Most of them put two components
that do not interact side by side, by extending both: `part` says which of the
two moves in a behaviour, the other keeps its initial state, and the fairness of
each is conditioned on its being the one that moves.  This checks exactly what two
runs would (every behaviour of either is one of the composition, and the other way
round), with one start of the checker.  Since both are extended, the names they
would share are different: the second of a pair calls its specification, its
types and its variables `LinkSpec`, `LinkTypeOK`, `linkVars` and so on.  The
modules of proofs join the components in the same way.

### FrsStream

The variables are the fields of `Shared`, one function over the two ends each,
with `net[e]` the datagrams on their way from `e`, and `sent`, `got`, `wr`, `rd`
what the user of an end did and saw.  `look` is where a `poll_shutdown` stands that has to wait:
it looks at `Shared` under two locks, and the stream may fail between the two.
`gaveUp` is the one history variable.

- `Write`/`WriteParks`, `Shutdown`/`ShutdownPoll`/`ShutdownWaits`/`WriteFails`,
  `Read`/`ReadEnds`, `DropHandle` are the branches of `poll_write`,
  `poll_shutdown` (its first look, and `ShutdownWaits` its second), `poll_read`
  and `Drop`.
- `Flush`, `Timer` (`TimerGivesUp`, `TimerFails`, `TimerRetransmits`,
  `TimerIdles`), `Recv` (`RecvNext`, `RecvFull`, `RecvOther`, `RecvAck`) and
  `Exit` are the arms of the loop in `run`, each with the `flush_out` it starts
  with.
- A chunk of data is one element of `Data`, at most MAX_PAYLOAD bytes; buffers
  are counted in chunks.  `poll_write` may put a part of a large write into the
  queue; that is a write of fewer chunks.
- `flush_out` releases the mutex while it sends a frame.  It is one action all
  the same: while it sends, only the user can run, who appends to the queue,
  sets `write_closed` or parks.  What is appended is flushed by the same loop or
  by the next, as if it came a moment earlier or later; the receiving side
  belongs to the task itself.
- Time is counted in rounds of the 150 ms timer; `MaxLate` lets the timer be
  late.  `quiet` is the number of rounds since `last_rx`, capped above all limits
  (`MaxQuiet`).
- The network keeps a set of frames.  A delivery may leave the frame in place
  (repetition), take any other first (reordering), and each sending may drop the
  old and the new ones (loss).

### RelayPairing

One room number; each room created under it is an *instance*, and each instance
and each `secure_room` brings a fresh token.  A task takes the lock twice
(`HelloPairs`/`HelloWaits`, then `RelockPairs`/`RelockInserts`/`RelockFails`),
and a third time when it timed out (`TimesOut`, `TimeoutCleans`); anything may
happen in between.  `Create`, `Purge`, `Delete`, `Secure`, `Expire` are what the
HTTP handlers and the clock do to the room.  Slots are the set `pending`: key and
role say which slot a connection lies in.  Bytes, line formats and hash
comparison are left out; `Refuse` stands for every way to be turned away.

### RoomRegistry

Every handler holds the map's lock for all of its work, so each is one action.
`Retain` is the sweep at the start of create and join, which happens also when
the request is then refused (`Refused`).  `auth_middleware` locks separately;
what it found out need not hold when `join_room` runs, so `Join` is not
restricted by the state of the room's credentials.  Time is the step `Expire`.
Guests without a `visitor_id` are keyed by their address (`Anons`).  Names,
endpoint lists, the service catalogue and relay slots are left out, the last
being RelayPairing's.

### Tunnel

Per side: the main loop (`main`), the remote task with its read buffer `acc` and
the frame it is writing (`out`), and one local task per connection with its two
channels.  A local task can outlive its pump, as in the code, where the handle is
not awaited; it waits in `write` for as long as its program does not read
(`AppReads` is the program's).  `Finish` drops `acc`, as the end of the remote task
does, and with it the beginning of a frame that the last read returned (`begun`).
The rest of that frame is then taken for a header (`HostMisreads`): from there on
(`torn`) nothing is claimed of the frames, and the properties say so.  Elsewhere a
frame cut by a read counts as not yet read.  `WireCap` bounds what the transport
holds, which is what makes a write wait.

### SpaceStore

The variables are the tables of storage/mod.rs as sets of rows, the creation
record lying in the row of its space, which it dies with.  Each action is one
transaction that changes something; one that is refused or answered from a record
rolls back.  The worker runs them one at a time, so they are atomic.  The clock
of a request (`at`) was read before the request waited in the queue: any of
`Stamps`, at most `MaxLag` behind.  The clock does not go back.

### SpaceService

`leases` is `Leases::members`; tokens are the session numbers, drawn once.  A
request that ends a membership commits (`EndsMembership`) and then takes the lock
of the leases (`Revoke`): the worker does nothing else between, but the relay
connections go on.  A connection copies the lease (`Upgrade`), gets its socket
and registers (`Register`), and then serves: `Notice`, `Ask`/`Answer` (the tick
and the worker's reply, during which it does nothing else), `Deliver`,
`TakeFrame`/`RouteFrame` (the look at the own token, and the work under the
hub's lock) and `Hangup` are the arms of its loop.  `Restart` leaves only the
tables.

Cancelling the connection that was replaced comes after the hub is unlocked, and
is one step with the replacement all the same: between the two, that connection
is no longer in the hub, so that it reaches nobody and is reached by nobody.  The
channel of eight frames holds one; when it is full a frame is dropped, as in the
code.  Device proofs, the limit of concurrent requests, and the listings are left
out; a full queue looks to a connection like a failed socket (`Hangup`).

### DomainIngress

One domain.  The row of the database (`bind`), what the DNS zone shows (`zone`),
the operation each device has under way (`op`: verify and unbind are two steps
each), publisher sessions from token to the end of their socket (`sock`), the
publisher registered for the domain, and public requests.  A request looks up
the owner, then takes the publisher, then sends: three steps.  Expiry may happen
at any time.

### DatagramSecurity, SecureLink, SpaceMesh

`DatagramSecurity` has one operator for each step of `security.rs`: `New`,
`Hello`, `Heeds`, `Replies`/`Reply`, `Binds`/`Bound`, `FromBound`, `Unseen`,
`Shifted`, `Taken`.  The window is a set of distances instead of a bit mask.  In
`SecureLink` all datagrams ever sent stay in the network; `Restart` is
`add_peer` replacing a stream.  In `SpaceMesh` the watcher (`Ask`) and the pump
(`Update`, `Tick`, `Receive`) are tasks of their own, the answer of the server
waits between them, and `wire` is the queue of the relay, which keeps the order
and may drop.

### HostMesh

The variables are those of `mesh_host_loop` and the tables it keeps in step:
`pending`, `established`, the plane, the peers and aliases of `UdpMesh`.  `Poll`
is one round of the room's guest list; `Signal` a datagram from an address;
`TurnLink`, `SpawnRelay`, `RelayLink`, `RelayFailed` and `RelayResultIgnored` the
other ways to a guest; `Death` and `StaleDeath` the reports of a link's two
tasks, in time or late.  The loop ends in order when the room is gone, and on
`SocketClosed` without unregistering anything (`left`).

### RoomSession, TurnRelay

`RoomSession` counts ticks of about 2.5 s for the timers of the two loops, and
`apart` since when they have not been on one path.  Time passes only when no step is
due.  The host's session ends with its room, with any error of `refresh_room` and
with a local one (`SessionEnds`); who came by the direct path of the last check is
not told that this path broke (`late`).  In `TurnRelay` a tick is half the lifetime
of an allocation; a socket is one `TurnClient`, datagrams may be lost (`Lose`) and
wait arbitrarily; `tasks` are the relay tasks of the server with the port they read,
and `failed` those that ended on an error of their socket while the allocation
lived.

### ServiceMux, ServiceRoom

`ServiceMux`: the loop and the tasks of either end share one bounded queue to
send.  The queue of an end stands for its outgoing channel, the transport and
the incoming channel of the other end.  A stream's channel is never waited for:
`Deliver` resets when it is full.  `Timeout` and `LoopGivesUp` are the time limit
of `send`, which may pass whenever the queue is full; a RESET that the limit drops
is noted in `unsaid`.  A task that ends early or is aborted drops its half of the
program's connection, which the program sees as an ordinary end (`CutOff`, `cut`).
`ServiceRoom`: `HostTick` is split at every place where a command
may intervene (`TickBegins`, `HostSaves`, `HostReads`, `HostPublishes`,
`HostRenews`, `HostSpawns`); a command reads the file, changes its copy and
writes it back.  Each save replaces the whole file: what somebody else wrote since
the saver's last look is lost, as in the code.

### EncStream

A user and a task at each end with bounded buffers between them.  `Challenge`,
`Hear`, `Confirm`, `Agree` are the handshake; `Seal`, `Emit`, `Count` the sealing
half and `Open` the opening half; `ReadBegins` and `Read` are the two halves of
`poll_read`, with the lock let go between them.

### PacketPlane

A guest is one task that waits with every write (`pump`); the host has a reader
and a writer per link and a dispatcher.  Queues drop what does not fit.  A guest has an
address and the networks it announced, which are sets of addresses: a source is
allowed that is the address or in one of them (`SourceAllowed`), and a packet is for
the guest whose nearest route has its destination (`Routes`, `Nearer`, `Targets`);
of equal routes, whichever the table has first.  The histories are the packets
written to a device (`arrived`).

### SignedCall

A call asks for a challenge, signs and sends it with the operation; handlers hold
a slot while their task waits in the queue of the database; clients give up, and
what they sent goes on without them, late, twice or with another operation than was
signed (`Alter`).  A task may fail, before or after it made something.  `receipts`
are the rows of `creation_requests` and `redemptions`; they go with their space or
membership (`Forget`), after which a late retry is carried out again.

### Supervisor, NetHelper, Node

`Supervisor` is the loop of the agent with what it remembers across the await of
`stop` (`JobChanged`, `WorkerLost`, `Rest`, `Launches`).  After a crash the service
manager starts it again (`Restart`, `Restart=on-failure`); one that was shut down
stays down until somebody starts it (`StartAgain`).  A start with a job that cannot be
read fails (`StartFails`).  `NetHelper` has the sessions
of the helper and what the kernel has of them, `Node` a machine that runs
both: workers that connect to the helper, or sessions in the foreground.

## 3. Runs

| run | bounds | states | shows |
|---|---|---|---|
| `stream_safe` | 2 different chunks and a FIN from A, one stream fails at most, window 2, buffers of 1 chunk, 2 frames under way from A and 1 from B, sequence numbers up to 3 | 216 000 | prefix delivery and window coverage when frames overtake each other; the inductive invariant; EOF, shutdown, exhaustion, parking; the refinement of `ReliablePipe` |
| `stream_live` | one chunk, or a close, or a dropped handle; fair-lossy network | 18 000 | parked writers and closers are heard, but for a shutdown that finding 11 parks; data arrives or a stream breaks |
| `server_state` | rooms: 2 numbers, 3 devices, 1 anonymous guest, 2 addresses, 3 kinds of room (one whose pool holds the owner's address), 3 rooms created; store: 2 spaces, 3 devices, 2 invitations of 2 uses, 3 instants, a lag of 1 | 297 000 | addresses, pool, limits, late guests; invitations, addresses and quotas of spaces |
| `server_tasks` | relay: 1 host, 2 guests, same key, 2 tokens; domain: 2 devices, 2 publishers, 1 request, 1 cut | 261 000 | pairing across lock releases; requests meet who proved the domain; places kept; withdrawal ends |
| `relays` | space: 1 space, 2 devices, 1 invitation, 2 sessions, 2 connections, 2 instants; tunnel: 2 connections, a chunk from the host on the first and one from the guest on the second, channels of 1, transport of 2 | 116 000 | leases follow memberships, one voice; a chunk reaches its connection; frames between members; strangers are dropped; closing ends |
| `space_mesh` | 2 members, 3 sessions or losses | 126 000 | links are bound to the named sessions; members meet and ghosts vanish |
| `peers` | mesh: 1 guest, 2 sockets, 2 attempts; link: 3 messages, 1 restart | 87 000 | tables of the host agree unless the loop left them; replay window; deaths; links in the end |
| `room_paths` | TURN: 2 sessions, 2 sockets, 1 datagram lost or 1 relay task failed; loops: all NATs, 1 break, 1 fault, 32 ticks | 976 000 | consent, refresh, service; the loops meet |
| `machines` | packets: 2 guests that expose one network, one of them also a wider one around the other, queues of 1; node: 2 workers or 2 foreground sessions, 2 faults | 151 000 | who a packet reaches; no pump sticks; what the system is left with; jobs are followed |
| `services` | mux: 1 stream or flow, 2 chunks, queues and channels of 1, 2 events; room: 1 member, 1 command, 2 credentials | 122 000 | bytes in order, and whole unless cut; only what is published; streams end at both ends; changes reach all |
| `secured` | stream: 2 blocks one way, buffers of 1; calls: 2 calls of a device, 1 repetition or change, 2 slots | 206 000 | a pair of pipes; the truth about progress; one run per signature; one thing per request id; nobody parks; slots come back |
| `enc_eof` | as `secured`, the stream alone | violation | finding 1 |

Why the bounds are enough.  *Stream*: with a window of 2, two chunks and a FIN the
window fills, moves and is full again; a queue and a receive buffer of one chunk are
full and empty; two frames from A are what reordering needs, and one late answer is
enough to meet every later state; the stream never looks at the data, so that two
chunks that differ show a loss, a repetition or an exchange.  3 as the last sequence
number makes the FIN the one that may not fit.  *Relay*: two guests after one host
are the smallest case with a replaced slot and with two takers; two tokens give a
deleted, a secured and a recreated room.  *Registry*: the pool has two addresses for
three devices; `MaxMembers` and `MaxTotal` are both reached; a number is reused.
*Store*: two spaces compete for the total quota and three devices for the places of
one, so that an address is given back and given out again; a lag of one instant is a
request older than what the tables show.  *Service*: a second session replaces a
first one while its connection is upgrading or open; a third connection, which a
replacement beside a receiver would need, is left to the proof, which has any
number.  *Tunnel*: two connections are what reuse needs; a channel of one chunk is
full with the second.  *Domain*: two devices are an old and a new owner, two sockets
a displaced publisher and its successor.  *Mesh*: a second attempt with another
socket is what stale results and aliases need; the guests of a host share no entry
of its tables, so that one is enough but for the TURN allocation, which is then
taken by the environment.  *Space mesh*: three sessions of two members are one
replacement.  *Link*: a window of two numbers is full with the third.  *Loops*:
after one break or failure the two are anywhere in their cycles; 32 ticks are the
longest relay wait and the longest cycle of the other side.  *Packets*: queues of
one are full with a packet and a heartbeat; a guest that fails and one that does
not.  *Node*: two workers are one that ends and the one that follows it; two faults
are a crash and what happens during the recovery; a network that two guests expose
and one within another are what overlaps.  *Mux*: a queue of one is full in both
directions at once, which is the jam; of two chunks the second finds the channel
full, and a flow is two events; half-close, refusal and reset need no second stream.
The heartbeat beats beside the first chunk of a TCP stream only.  *Room*: the second
credential is the revoked one's successor.  *Calls*: two calls are a request and its
retry; a call begins while no other asks for its challenge.

The states each variable takes at a limit (queues full, quotas reached, windows
wrapped) are reached in these runs: each property has a mutant that needs them.

Deadlock checking is off (`CHECK_DEADLOCK FALSE`) in all runs: streams end,
connections end, and creation is bounded, so the systems do stop.

## 4. Fairness

- *FrsStream* (`stream_live`).  WF on the timer and on the exit of the task: tokio
  polls a spawned task, and the interval fires.  WF on reading and on polling
  shutdown again after a wake-up.  SF on deliveries that matter: the network
  loses frames but not all repetitions of one.  Without the last no protocol over
  UDP makes progress; everything else the protocol has to do itself, and every
  liveness property allows the failure of the stream.  The run has one thing
  happen (a chunk, a close, a dropped handle) and assumes fairness only of what
  that needs, which is less than `FairSpec`; safety with all of it at once is
  `stream_safe` and the proofs.
- *DomainIngress*.  WF on the loops of publishers and on the steps of a request that
  only wait for a lock, a channel or a time limit.  None on sending, which waits for
  the client's body (server.rs:476) and the device's socket (401) without a limit.
- *SpaceService*.  WF on the revocation that follows a commit, SF on the tick and
  on its answer, which other events keep disabling: `select!` is biased and polls
  the tick before the frames, and the worker serves its queue in order.
- *Tunnel*.  WF on the tasks together: if some task can go on, some task does.
  Programs need not read: `local.write_all` has no limit, and `CloseEnds` excepts a
  task that waits in it.
- *SpaceMesh*.  WF on watcher and pump.  Nothing is assumed of the heartbeat's tick.
- *HostMesh*.  WF on the polls, the timers and the end of connection attempts; SF
  on a relay connection being paired, of the many that are tried.
- *SecureLink*.  WF on the timers, SF on hellos and echoes that get through.
  `BoundInTheEnd` is asked of a prompt network only.
- *PacketPlane*, *Node*.  WF on tasks and processes, and on the service manager's
  restart of an agent that crashed and has a job to read; nobody has to send, to
  fail, to lose patience or to start what was shut down.
- *ServiceMux*.  WF on the loops and on each task.
- *ServiceRoom*.  WF on the host's ticks, on the save of a command that revoked and
  on attempts with a dead credential; SF on the host's look at a task that ended,
  which its own ticks keep disabling.
- *EncStream*.  WF on the task, on a poll after a wake-up and on a reader.
  *SignedCall*.  WF on the database thread.

Nothing is assumed of clients, operators or the other side of a broken
connection.

## 5. Findings

1. `enc_eof` (code).  `poll_read` of the encrypted stream tests the error under the
   lock and polls the buffer after it; a task that fails in between stores the
   error and closes the buffer, and a cut stream ends like one that was shut down.

The following are disagreements of code and documentation found while modelling;
PROJECT.json quotes the documents.  2 to 9 name a definition that says what the
document promises, which no run checks.  For 10 to 16 the models do what the code
does, and the properties say what is left of the promise.

2. `FrsStream!CloseIsBestEffort`.  An unconfirmed FIN is promised to close the
   stream silently after 5 s.  A peer silent for 3 s has by then failed the
   stream, so shutdown returns an error.
3. `Tunnel!OpenIsDialled`.  `wait_end` drops the bytes behind an end frame that
   the same read returned; a guest that connects again at once can lose its CNEW.
   If they are the beginning of a frame, the host reads the rest of it as a header
   (`torn`), and from there on nothing is promised of its connections.
4. `Tunnel!CloseIsAnnounced`.  The two tasks of a pump can wait for room in each
   other's channel, and the end frame is never sent.
5. `HostMesh!EitherPathReaches`.  An alias outlives the link it was made for: frames
   by the path under which the stream is registered are sent to the old address.
6. `ServiceRoom!InvitationsWork`.  A `dev add` that read the file before a revocation
   puts the revoked credential back, which the host adopts.  Two `dev add` in
   parallel lose one of the entries or share an id.  The host's own save after R
   overwrites what a command has changed since the last tick; `ChangesAreAdopted`
   excepts this one case.
7. `DomainIngress!OnlineIsFound`.  The second half of an old owner's unbind, or a
   session token given before, displaces the publisher of the new owner.
8. `TurnRelay!AllocatedOnce`.  A dropped TURN client keeps its allocation alive for
   as long as the process lives.
9. `SpaceMesh!PhaseTellsConnected`.  The phase of a session in a space never becomes
   "connected": the heartbeat of the same tick has marked every link as waiting.
10. `p2p/turn.rs:261`.  `create_permission` and the receive loop read one socket;
    each drops what the other waits for.
11. `p2p/stream.rs:911`.  The second look of `poll_shutdown` does not ask whether the
    stream has failed since the first one; the waker it leaves is never used and
    the shutdown waits for ever (`look = "missed"`).  `NobodyParkedAfterExit` and
    `WaitersAreHeard` except this shutdown and nothing else.
12. `signaling/server.rs:385`.  In a room with a pool a device that asks for an
    address gets the one it has, while the comment at 375 and docs/src/cli.md:929
    put the request first.  `AddressesAreStable` is what the code keeps.
13. `signaling/server.rs:399`.  The pool may hold the owner's own address, and the
    first guest is given it.  `AddressesDistinct` excepts such rooms.
14. `commands.rs:2743`.  The mesh session of a host ends when its socket is closed,
    with the links still registered, while the comments at 2744 and 3270 promise an
    outer reconnect.  `MeshIsConsistent` excepts what that exit leaves behind.
15. `commands.rs:1576`.  Any error of `refresh_room` ends the host's session, although
    the comment speaks of a room that has expired or was deleted.
16. `p2p/turn_server.rs:235`.  A relay task ends on any error of its socket, also the
    one hole_punch.rs:69 calls normal, and its allocation is refreshed and handed
    out again without anybody reading its port.  `AllocationsServed` excepts it.

Observations, by component:

- *Stream*.  `poll_read` reports an error before the data still buffered, which the
  peer takes as delivered; `PipeError` allows it.
- *Encrypted stream*.  An error of one half hides data the other half already
  opened; a shutdown that succeeded means written, not delivered.
- *Tunnel*.  A data frame that arrives after the local program closed makes the
  remote task answer with its end frame at once, ahead of what `to_remote` still
  holds.  `EndFollowsData` excludes this case.
- *Registry*.  A guest without a visitor id that joins again is refused the address
  it holds.
- *Relay*.  The expiry of a room does not cancel its token; `PairedInOneRoom`
  excepts connections whose room had expired.  The limit of 128 pending
  connections is tested before WAIT is written and not again.
- *Spaces*.  The upgrade of a relay connection copies the lease before the socket
  is there: if the session is replaced in between, the connection still registers,
  evicts the one of the new session and is then found cancelled itself.  An
  expired space or lease is noticed by a relay connection at its next tick, up to
  five seconds later, while docs/src/cli.md:45 says at once.  One failed control
  request ends a member's session.
- *Signed calls*.  A dropped handler frees its slot while its task stays queued.  The
  record of a request dies with its space or membership, so a retry that is later
  than that is carried out again and makes the space, or the member, anew.  The
  command line draws a new request id per invocation, so that a plain retry of
  `space create` after a lost answer makes a second space, while
  docs/plans/2026-09-13-background-spaces.md:122 asks for retries bound to device
  and request id.
- *Host mesh*.  The initial TURN allocation (2720)
  and the later retry are not gated by `--relay`, though the comment at 3082 says
  "Explicit --relay never allocates TURN".  `run_mesh_host` (2655) spawns the data
  plane and does not notice that the helper closed it.
- *TURN*.  One lost refresh can expire an allocation; permission requests are not
  repeated; permissions on external servers expire and are never refreshed.
- *Multiplexer*.  A UDP source that never pauses for 25 s is cut off for the rest of
  the session once its stream has ended (services.rs:350).  A stream that was reset
  or cut looks to the local program like a clean close.  A RESET that finds no room
  in the queue for 5 s is dropped, and the stream stays open at the other end for
  as long as the session lives (`unsaid`).
- *Service room*.  A member that fetched the
  catalogue before a change keeps the old items until it reconnects.  The result
  of a job that ended may remove the entry of the job after it.
- *Domains*.  The loops of server and device do not read while they send, without a
  time limit: with large bodies both ways each waits for the other.  What a device
  never answers stays in `pending`.
- *Packets*.  Of two guests that announce the same network the first one in the table
  gets its packets.  The select is biased: while the device always has a packet the transport
  is never read, and after 12 s the guest ends with "peer heartbeat timeout"
  (tun.rs:324).  There is no time limit inside `write_frame`.
- *Agent and helper*.  A crash of the helper with forwarding on leaves `ip_forward`
  on; the result of the sysctl at release is ignored; two sessions cannot route
  the same network on Linux, and nothing adds the route again; `failures` is
  never reset after a long run; a transient error in reading the job file stops
  the worker.
- *Datagram security*.  Streams without a key have no session id, so that a late
  frame of the stream that was replaced is taken for one of the new.

## 6. Proofs

### FrsStream_proofs

Assumed: only the named ASSUMEs of `FrsStream` (two different ends, positive
sizes and timeouts).  All sizes, windows, timeouts and bounds are arbitrary.

`TypeOK /\ Bounded /\ StreamInv` is inductive.  Delivery of a prefix alone is not: a
step that appends to `got` takes from `rxBuf`, which was filled from a frame, which
may be a retransmission made long ago.  So the invariant says of every frame, on its
way or in `unacked`, that its number determines its content (`Truthful`); of the
queue that it continues what has become frames (`SendInv`); of the window that it is
numbered consecutively and covers what the peer lacks (`WindowInv`); of the receiver
that what it holds is what the first `nextExpected - 1` frames carried (`RecvInv`);
and of the FIN that a confirmed one was received (`AckInv`).  From it follow
`PrefixDelivered`, `EofIsComplete`, `ShutdownIsDelivered`, `WindowIsComplete`,
`SequenceIsBounded`, and with it the action property `ClosedIsFinal`.
`OnlyTheLateAreParked` has an invariant of its own (`ParkInv`): a user that waits on
a stream whose task is gone is a shutdown whose second look came after the failure,
the case of finding 11.  `ClosedIsFinal` is proved only: no run spends time on it.
`ImplementsPipe` is the refinement: `taken` is `nextExpected - 1`, `closed` is
`writeClosed`, `gone` is failed or given up; a reception is `PipeTake`, a failing
timer `PipeGone`, the rest stutters or is the user's own step.

### ServerTasks_proofs: RelayPairing and DomainIngress

Assumed: hosts are connections, keys are given, `None` is no connection,
positive bounds.  `TypeOK /\ RelayInv` is inductive.  `RelayInv` adds three facts
to the properties of the run:

- `Outside`: before its second lock a connection is in no slot and has no signal.
- `Captured`: the token and the instance a task remembers are the room's present
  ones, or the token was cancelled, or the instance is over.  This is what makes
  the second look sufficient: a room is only ever replaced after a cancellation
  or an expiry.
- `Mated`: who was taken out of a slot never comes back to one.

`OneRoomAdmittedBoth` rests on `Captured` for both partners: the one that looks
passes `StillValid`, the one in the slot has no cancelled token (`PendingIsAwaited`,
a part of `SlotsAndTasksAgree`), so unless an instance is over both hold the room's
present token.  `PlacesKept` is an action property from the same invariant.

*DomainIngress.*  Assumed: bounds are numbers; any number of devices, publishers and
requests.  `VerifiedWasProved` is the easy half of `IngressIsSound`.  The other, that
a request meets only a device that held the verified domain while it was under way,
speaks of the end of a request that looked up the owner, found a publisher and was
sent in three steps with everything else in between.  So `RequestInv` follows the
history variable `seen`: whoever holds the domain while a request is under way has
been seen by it, hence the owner it looked up, hence the owner of the publisher it
was brought to, who need not be the owner any more.  `SocketInv` is what makes a
loss the device's own: without having been cut off a publisher leaves only when it
is not registered and nobody is on the way to it, and what is queued at a publisher
was sent to it by a request that has passed both look-ups.

### RoomRegistry_proofs: RoomRegistry, ServiceRoom and ServiceMux

Assumed: `None` is no address, devices and anonymous guests differ, positive limits.
Nothing is assumed of the pool: a room whose pool holds its owner's address is
excepted in `AddressesDistinct` by name.  `NextFact` reduces every step to
what it does to one entry of the map (`Changes`): keep it, drop it, let it lapse,
secure it, let it grow by a join, or begin anew.  `Sound` is inductive for one
room: it joins `Distinct` and `Followed` with `Plain` (in a room with a pool a
guest without visitor id has no address), without which a device could be given
by the pool what such a guest holds.  `FirstFreeFact` shows that the first free
address is free; `JoinSound` that a join keeps `Sound`.  The limits need finite
sets, so `Limited` is proved beside them.  `StableAddresses` and `NoLateGuest` are
action properties; `born` tells a room from its successor under the same number.

*ServiceRoom.*  Assumed: there is a credential and the number of attempts is a
number; any number of members, commands and credentials.  `RoomIsConsistent` speaks
of the tasks of the host; that no task serves a former catalogue is kept by a tick of
six steps with commands in between.  `NextServed` says what the tick carries from one
step to the next: what a new task would serve is the catalogue published, unless the
host stands between reading the file and publishing it.  At that one step every task
of the former catalogue is ended together with the publication, which is `Served`.

*ServiceMux.*  Assumed: numbers, an event queue and a channel with room for one, and
`Nothing` is no number, name or frame.  Any number of streams and chunks.  `MuxIsSound`
says of every stream that what an application got is a prefix of what the other one
wrote, and complete when it is told of the end, unless its connection was cut, which
it cannot tell apart.  The invariant has two parts.  The
first is about opening (`ComingInv`, `OpeningInv`, `OpenedInv`): an id that was drawn
and not opened yet has left no trace at either end, so an OPEN always finds its place
untouched, and no frame of the stream is ahead of it in the queue.  The second
(`StreamsInv`) is about a stream that runs: with `Base` what the application has and
its channel holds, the queue continues from there without a gap up to what the sending
task has put in (`Gapless`, `Reached`), a FIN is behind all of it (`FinLast`), and
nothing is behind the FIN.  It is asked only while somebody takes the frames
(`Tracked`): a stream that was reset leaves frames in the queue, which an entry with
its id must not meet again; that it does not is the first part.  Datagram flows are in
the model and in the first part, but promise no order.

### SpaceService_proofs: SpaceStore, SpaceService and Tunnel

Assumed: quotas and lease are numbers, an invitation has at least one use, a space
has at least one place and no more places than addresses, and `None` is no
connection, lease or relay record.  Any number of devices, spaces, sessions and
connections; the clock and the lag of a request are bounded by constants only.

`TablesAreSound` alone is not inductive, in the store (`StoreInv`) or in the service.
`RowsAgree` adds that identifiers are
drawn once and that a row names only rows that are there: without it a new
invitation could share the id of an old one and with it its receipts.  `Finite` is
needed for the quotas and for `FreeAddress`: that a space below its limit has an
address to give is a pigeonhole argument over its members (`FreeAddressFact`).
`InviteLedger` counts receipts, so `redeem` has one lemma for each of its answers
(new, repeated, used up).

`ServiceInv` joins the tables with `RelayIsSound` and `SessionsAgree`: a session
number belongs to one lease, and a connection has the address of the lease that
admitted it.  This is what a replaced session rests on: the connection of the old
one still looks for its lease by number, and must not find that of the new one.
`ServedTablesHold` shows that the service only touches the tables by transactions
of the store.  `OnlyMembersHear` is an action property: at the step in which a
frame is delivered, sender and receiver are open at their own places in the hub,
so `OneVoice` makes the sender the only voice at its address.

*Tunnel*.  Assumed: at least one connection, and numbers for the chunks of each and for
the capacities, which may be zero.  `TunnelIsSound` speaks of connections of the same
number at the two ends, while the transport carries no numbers: which connection a frame
belongs to is a matter of what came before it.  So the invariant says of all that is on
its way to a side, read or not (`Coming`), what it is.  All of it holds as long as no
part of a frame was dropped (`torn`, which only the host can be and which is for
ever, `BridgeAll`); until then the host stands at the beginning of a frame.  As a rule it is the rest of the
peer's connection (`Flow`): the chunks from the last one taken to the last one written,
and then the end frame if it was written.  The exceptions are the moments of a change
(`Toward`): the host still drops data while the end of one connection and the CNEW of the
next are under way (`Late`), it finds the CNEW first (`Fresh`) or has lost it
(`Missed`, finding 3), or there is nothing to come (`Nothing`).  `TaskInv` says that
the tasks of a pump hold what goes on where the transport stops, `ChainInv` that what a
program was given and what waits for it are the first chunks of the other, and
`SettledInv` what is true of a connection from its end on, when neither side speaks of it
any more.  `Means` is the meaning of an end frame, and names the exception of section 5:
it comes after all the data unless the program that closed had not had all of its own.

### Peers_proofs: HostMesh, SecureLink and SpaceMesh

Assumed: bounds are numbers, sockets are finite, `None` is no kind of link, address,
endpoint or attempt.  `MeshInv` says of a running loop that the plane, the stream
table and the established links of each guest fit together (`Fits`) and that the
peer table has an entry for who is linked only (`PeersFit`); of one that has ended
that nothing is left in the plane unless it ended by its closed socket (`left`).  A
guest is on an attempt or linked and never both, a link is of the kind of the plane
it is in, and a peer entry belongs to a direct link of that very guest.  Reports of
deaths are under way while a link is replaced, so the case that matters is `Death`
against `StaleDeath`: only the first may take the link out, and then all three
tables change together.  `LinksStand` follows from one look at every action.

The proof found an error of the model that no run showed.  In `PollUpdates` the
arms of a CASE overlapped; the value of such an expression is any arm that holds,
while the code takes the first.  TLC takes the first too, so that the runs were
right by its choice alone.  The definition is now a chain of IF.

*SecureLink.*  Assumed: two different ends, a window of at least one number, at least two
nonces and one message.  Any window, number of streams and network.  `Exact` is the
invariant of the replay window: `high` is the highest number the stream let pass, and
for every distance within the window, it is marked exactly when that number passed.
That nothing passes twice needs one direction of it, that nothing recent is taken for a
repetition the other; `TakenFact` proves both for a number ahead of the window, within
it, and too old for it.  `DrawnInv` says that no nonce is known anywhere before it is
drawn, from which `NewStreamIsFresh` follows: when a stream takes the place of another,
nothing under way was made by it or for it.

*SpaceMesh.*  Assumed: a bound on events that is a number.  Any number of members who
leave, come again and are late.  `MembersAreSound` says that a link is bound to the session the
server named.  A hello carries the sessions of its time and may wait in the relay's
queue for as long as it likes, while either member begins another session; `WireFits`
says what it may never do, which is to name as its sender the session of its receiver,
and `UpdateFits` the same of the answer of the server that the watcher holds.

### PacketPlane_proofs: PacketPlane and Node

Assumed: the host is no guest, places are addresses, capacities are numbers; any
networks, overlapping or not.  `PlaneInv` gives for each
queue what may be in it: on the way from a guest anything its own device sent, and
from the dispatcher on only packets that passed the check of the source address and
are for that guest (`Sent`, `Meant`, `Handed`): for its address or a network it
announced, with no linked guest that announced a nearer one.  `NobodyElse` speaks of the ends
only, which is why each queue between needs its own conjunct; the unregistering of a
link leaves packets in the queue of its successor, which the invariant covers, as it
is about the guest, not the link.

*Node.*  Assumed: workers are clients, clients are finite, `Nobody` is neither a worker nor
a lease, the administrator's setting is a Boolean.  `SupInv` relates the supervisor, the
manager of its session and the processes: a loop that runs without a lease has already published its
end, so that a status never speaks of a session that is over.  `NetInv` relates the tasks
of the helper with its tables and with the kernel: which task owns which session and device at
each of the steps of opening and closing, that two devices never have one name, that a
route in the kernel is one of a session with that name and the other way round, and
that forwarding counts the sessions that asked for it and remembers the administrator's
setting unless a crash lost it (`ForwardOwned`, by cardinalities).

### Secured_proofs: EncStream and SignedCall

Assumed: two different ends, capacities that are numbers.  `EncInv` has four parts
for each end.  `TasksInv`: what a task does and what its user can see go together.
`SenderInv`: what was written and is not on the connection is at hand, in order,
and the counters are the blocks that are out.  `ReceiverInv`: what was opened is a
beginning of what the peer wrote, and a last block means all of it.  `WireInv`: the
blocks on the way to an end are the next ones it expects.  The first three are not
inductive without the last, and the last has two halves: while both ends run,
handshake and blocks under way are exactly the difference of what was put in and
taken out; when the sender is gone only the order is left, which is what a reader
that is still draining needs.  `Follows(q, s, k)`, "q is what comes in s after its
first k", is the one idea about sequences, with a lemma for each way it is used.

`PipeHolds` is the refinement.  Writing a block out is `PipeTake` of the other end,
a failing task `PipeGone`, and a read that finds the end either `PipeEof` or, with a
task that failed in between, the `PipeError` it stands for (finding 1 is that the
user cannot tell which).  A shutdown that succeeds is `PipeShutdownOk`, by
`ProgressIsTrue`.

*SignedCall.*  Assumed: limits and bounds are numbers.  Any number of devices, calls and
repetitions.  `CallsAreSound` says that a signature is good for one run of what was
signed and that a slot is held for a task that waits.  The invariant follows a nonce:
it belongs to one challenge that is kept, or to one task in the queue, or to one run
(`QueueInv`, `RunsInv`, `PendingInv`), and never to two of them, however late the
requests come; and a call that has been signed for never changes what it was signed for
(`MessageInv`), which is what a task in the queue is compared with.  A request that was
changed on its way never passes, as its challenge names what it was made for
(`AlterKeeps`).  `ReceiptInv` is the retry: for a request and a device there is one
record, and while it is there the request is not carried out again; `Forget` deletes
records with their space or membership, after which nothing is claimed.

### TurnRelay_proofs

Assumed: bounds are numbers and `None` is no allocation.  Any number of sessions,
clients, ports and losses.  `TurnIsSound` is about the two ends; what makes it
inductive is what the datagrams between them say.  `Truthful`: a grant under way
belongs to an allocation that is still the client's, a request for a permission
names the peer its client has named, data under way has passed the checks.  Each is
true when it is sent and has to stay so until it is read, however late: this holds
because a client never names a second relay or peer (`Steady`) and a live
allocation keeps its port until it is purged.  A live allocation is served unless an
error ended its task (`failed`).  `RefreshInv` is about time: between
two ticks an allocation is fresh or its refresh is under way, so the tick, which
waits for both, takes it from 2 to 1 and never to 0; the case that is excluded is
exactly a lost refresh.  `Keeps` and `OneClient` say once which changes leave the
invariant alone, and most actions are instances of them.

### What is only model-checked

Liveness (fairness and ENABLED are beyond the proof system): `WaitersAreHeard`,
`DataArrives`, `WithdrawnEnd`, `StrangerIsDropped`, `CloseEnds`,
`MembershipIsFollowed`, `GuestsGetLinked`, `BoundInTheEnd`, `LinksGoOn`,
`JobsAreFollowed`, `StreamsEndTogether`, `ChangesReachAll`, `NobodyParksForEver`,
`SlotsComeBack`.

One invariant.  `SessionIsSound` (`RoomSession`) is a statement about particular
timers: that the two loops meet in time (`MeetsSoon`) is true of the waits and
intervals of commands.rs and false of others, so it is a computation on these
numbers, which TLC makes, and not a theorem for every value of the constants.

## 7. Not modelled

STUN, message codecs, tickets and presets, key files, signatures and ciphers,
terminal output, logs, statistics, localisation, installers, command-line
parsing, the local status socket: they have no state that several steps share.

Within the modelled components: device names, the service catalogue and
endpoint addresses of a room; the UDP echo; bytes, as opposed to frames and
chunks; the limits of custom domains (20 domains, 1024 sessions, 256 requests)
and of TURN, which are possible refusals; rates of the multiplexer, likewise;
Windows and macOS steps of the helper; the server role of an agent's job.
