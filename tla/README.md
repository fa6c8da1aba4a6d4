# yunlink v2: TLA+ specifications

This directory specifies yunlink v2 in TLA+: the runtime under
`src/src/runtime/v2` (connections, queues, sessions, leases, lanes, framing), the
wire and message codecs under `src/src/core`, discovery, and the way of an event
through the C ABI into the Python and Rust bindings. TLC checks small instances,
and TLAPS proves, for instances of any size, every safety invariant and action
property that the passing runs check, except those of the codecs.
`PROJECT.json` lists the runs, the source lines behind every definition, the
mutants (deliberate bugs that each property must catch), the findings and the
hazards.

## The system

A `Runtime` listens on a TCP port, connects to other runtimes, opens sessions on
its connections, and carries typed envelopes between applications.

| Component | State | Operations | Interacts through |
| --- | --- | --- | --- |
| Connection lifecycle (`runtime.cpp`, `io/runtime_receive.cpp`) | `connections`, per connection: `running`, socket, send and receive thread | `start`, accept thread with its reaper, `connect_peer`, `close_peer`, `close_connection`, `stop` | `Impl::mutex`, atomics, joins, link events |
| Send queues (`runtime_network.cpp`) | four queues by QoS class, `queued_bytes` | `runtime_enqueue` (evict, replace, reserve), `take_next_frame`, chunked write with retries | `send_mutex`, `send_condition`, TCP stream |
| Receive side (`io/runtime_receive.cpp`) | `receive_buffer` | `pop_frame`, overflow recovery, `runtime_handle_envelope` | TCP stream, calls into sessions and authority |
| Sessions (`session.cpp`) | `sessions`: state, negotiated profiles, lossy lane | `open_session`, Hello, Authenticate, Profiles, Ready, drop on disconnect | session envelopes, session events |
| Profile negotiation (`session.cpp`, `runtime_common.cpp`) | none | `negotiate_profile`, `supports_profile` | called by sessions, `send` and admission |
| Authority leases (`authority.cpp`, `runtime_api.cpp`) | `authority_leases` by (entity, scope) | claim, renew, release, action check, revoke, `set_entities`, drop, clear | envelopes, application threads, steady clock |
| Lossy lane (`runtime.cpp`, `session.cpp`) | `lane_owner`, `lossy_peer_id` | `bind_lossy_lane`, LaneBind, LaneReady, routing | a second connection of the session |
| Event handlers (`runtime_common.cpp`) | `handlers` | `subscribe`, `unsubscribe`, `runtime_emit` | callbacks on runtime threads |
| Discovery (`discovery/`) | advertisement, sequence, memberships | advertiser thread, membership refresh, `stop`, `discover` | UDP multicast |
| Wire codec (`core/wire_v2_codec.cpp`) | none | `WireCodec::encode`, `decode` | frames of the TCP stream |
| Message codecs (`core/`) | none | `encode`, `decode` of every payload | payloads of envelopes |
| C ABI and bindings (`c/v2`, `bindings/`) | handles, event queues | translation, configuration client | runtime events |

What is hard here: every table is guarded by one mutex that is released between
the steps of one operation. A receive thread checks a session, reads the clock
and changes a lease in three separate steps; `open_session` looks up and inserts
in two; `stop()` clears the tables before it joins the threads that write to
them. Threads are ended by a flag, a notification and a socket close that are
not atomic together. Connections break at any point of a handshake, and a
reconnection reuses the peer id. Queues are bounded, a frame may be half written
when the socket blocks, and the reads of the other end cut the stream anywhere.
Discovery runs over a network that loses, duplicates and reorders, on interfaces
that come and go. A binding frees a callback that the runtime's threads may be
about to call.

What makes each part correct:

* leases: none without a live holder and a session, none longer than the limit,
  none taken away without a reason, all given back when the holder's connection
  ends;
* send queues: exact byte count, one value per latest key, order, only whole frames
  on the wire, no reliable frame evicted, control frames sent;
* lifecycle: `stop()` returns, with empty tables and every thread joined but the one
  described under Findings, no connection is joined twice, no two connections of a
  peer run, every end is reported, a live session is not dropped;
* sessions: both ends agree on what an Active session may carry, a wrong secret
  never leads to one, the handshake finishes;
* lossy lanes: both ends keep `lane_owner` and the session's lane consistent, the
  client routes to a lane the server has mapped, losing a lane does not lose the
  session, losing the session ends its lanes;
* framing: the receiver is an ordered channel that loses only what is damaged or
  may be dropped, and it gets through every well-framed stream;
* codecs: what one end encodes the other decodes to the same object, and the decoders
  ignore nothing but the reserved header bytes and the order of map entries;
* discovery: the events agree with the memberships, devices are joined again,
  `discover` returns fresh and complete replies, `stop` returns;
* event delivery: no callback after it is freed, a request gets its own answer or
  none, no event is discarded.

## The modules

**Authority** - the leases of one runtime. One receive thread per peer with the
program counter `pc[p]`: `idle` -> `checked` (`Dispatch`, the session and target
check) -> `apply` or `authorize` (`ReadClock`, validation and the clock, without
the mutex) -> `HandleAuthority` or `AuthorizeAction` (one critical section each)
-> `emit`. `ReceiveLoopExit` and `DropPeerState` end it. The application's steps
are `SetEntities`, `RevokeAuthority`, and `StopBegin`, `StopClear`,
`StopReturn`. How a session becomes Active is abstracted to `SessionEnvelope`,
which sets it Active or not; every envelope whose fields the code tells apart is
enumerated (`Envelope`). An envelope that fails the check changes nothing and is
not a step. Requests come on control connections. An authority envelope whose
operation is none of the four of the enumeration is left out: it only erases an
expired entry.

**LeaseService** - what the lease table promises, without threads, entries that have
run out, sessions and `stop()`: the leases in force (`held`), the requests that have
come in, each with its time, and the actions that were authorised. A claim, a renewal
or a release is served in one step (`Serve`), an action is permitted or denied, a peer
that leaves takes its leases along, the owner of the runtime revokes. `Authority`
implements it with the mapping in `Service`: `held` is the part of `authority_leases`
that `has_authority` would accept now, a request is under way from the clock read
(`ReadClock`) to the second critical section, and a peer is connected until
`runtime_drop_peer_state`. A request that is served late, after the clock has moved, is
allowed three things of a key that nobody holds any more: to have a claim refused, a
renewal or an action accepted (`MayHaveLapsed`); each of them happens in the code.

**SendQueue** - one connection's outbound side. Producers take `Enqueue`, one
critical section of `send_mutex`; the send thread takes `Wake`, `TakeNextFrame`,
`WriteSome`, `WouldBlock`, `SocketError`, `CloseAfterFailure`, `LeaveLoop`.
`MakeRoom` computes what the loop of `make_room` leaves behind. A frame is a
length, a class, a latest key and a serial number; `wire` records the frames
begun on the stream with the bytes written of each. The condition variable is
abstract here (waking when the predicate holds); it is detailed in
ConnectionLifecycle.

**OutboundChannel** - what a connection's outbound side promises those who publish on
it, without queues, byte counts, chunks and retries: one set of waiting frames, the
frame being sent, whether it is begun, and the frames sent. A frame is accepted, and
then takes the place of the older value of its key if its class keeps the latest value
only, or refused; either may cost lossy frames, of the least urgent class and the
oldest first (`Evictable`). The next frame is of the most urgent class that waits and
the oldest of its class and key; a frame that is begun is completed or stays the last
one. `SendQueue` implements it with the mapping in `Outbound`: the frames of the four
queues wait, `accepted` numbers them, and the last frame of the stream is begun while
its bytes are not all there.

**ConnectionLifecycle** - the successive connection objects of one peer id. The
send thread's wait is split into the evaluation of the predicate (with
`send_mutex` held), the block, and the wake-up by `Notify`, which reaches only a
thread that already waits. `connect_peer` puts the object into the table
(`Connected`), starts the send thread (`StartSend`), assigns it and starts the receive
thread (`StartReceive`), and assigns that (`AssignReceive`); meanwhile both threads run
and the reaper may find the connection stopped. (The assignment of the one and the start
of the other are one step: until the receive thread runs, only a send thread that has
ended can have stopped the connection, and whether that one is joined makes no
difference.) `joinable` has the threads that an object has been assigned and that nobody has
joined; `close_connection` is four steps of either the application thread or the
reaper, and its joins skip a thread that is not joinable. `early` records the objects
that were reaped while `connect_peer` was starting them. `~RuntimeConnection` runs when
the last reference goes: in the receive thread itself, which it then detaches, or after
that thread has ended; it never waits and is no step of its own. `Reply` is the answer
of a receive thread to a message, on the connection that the table holds for the peer
id. `Init` chooses whether the application is
`patient`: it reconnects only after the link event of the old connection, as
`tests/runtime/test_runtime_v2.cpp` does. `LiveSessionKept` is stated for patient
applications, the other properties for both kinds.

**ProfileNegotiation**, **SessionHandshake** - two runtimes and the ordered
stream in each direction. The client's `open_session` looks up, inserts and sends
four envelopes without waiting; the receive threads take `HandleSession` (one
critical section), then `SendReply`; `HandleData` admits or refuses messages;
`LinkLost` cuts both streams at any point and `DropPeerState` ends a receive
thread. `Init` ranges over all pairs of secrets and profile lists. Lists name a
profile once, as every configuration in the repository does
(`HandshakeAssumption`); the value for "no session" is not an entry of the table
(`SentinelAssumption`). Each connection carries one endpoint's envelopes, so the
source-mismatch branch is not taken.

**Lanes** - the lossy lane of one session that is Active at both ends. One client
thread is in `bind_lossy_lane` (`BindCheck`, `BindConnect`, `BindSend`,
`BindPoll`, and `BindClose`, `BindReturn` after the timeout), one may call
`close_peer` (`ClosePeer`, `ClosePeerJoin`, `ClosePeerLane`, `ClosePeerReturn`);
each lane object has a receive thread at each end (`HandleLaneBind` and
`SendLaneReady`, `HandleLaneReady`, `LaneLeave`, `ClientLaneDrop`,
`ServerLaneDrop`), and so has the control connection (`ControlDrop`,
`ControlCloseLane`). All lanes of a peer have the same id on the client, so its
tables hold one entry (`table`, `owner.client`), which a late thread of an older
lane finds and removes; the server tells lanes apart. `LaneLost` and
`ControlLost` break a connection at any point. The control connection's own entry
in the client's table is taken to be there until `close_peer`; an earlier removal
by the reaper would only make `bind_lossy_lane` and `close_peer` return at once.

**FrameBuffer**, **OrderedChannel** - the receive loop of one connection. The
receive buffer is always a piece of the peer's byte stream, so it is kept as the
two positions `start` and `end`; `stream.head` says where the magic occurs and
what the header there would say, for frames the sender wrote and for bytes that
only look like one. `Read` is a `read_some` of any size; `WithinLimit`,
`LimitExceeded`, `DropLossy`, `SkipToMagic` are the iterations of
`recover_receive_overflow`; the `Pop...` actions are the ways through
`pop_frame`. `OrderedChannel` is what the sessions rely on: in step with the
sender, the receiver delivers, or skips a damaged or droppable frame, or closes.
FrameBuffer implements it under the mapping `sent` <- the frames the sender wrote,
`upto` <- `start`, `got` <- `delivered`, `open` <- the thread is in its loop.

**PayloadTypes**, **PayloadCodec**, **ConfigurationCodec**, **WireCodec**,
**Codecs** - the codecs over real bytes, with the real FNV-1a checksum.
`PayloadTypes` lists the members of every payload; the writer and the reader of
each have a table of their own in the order of the code, so that a field that one
of them has elsewhere shows. Maps are written in the order of their keys and read in any.
`Codecs` takes one message from the sender's object
through `encode`, `yunlink_v2_publish`, `WireCodec::encode`, the link and the two
decoders. `PeerPayload` (a payload of another implementation: a byte more, less
or different, or the entries of its maps in another order), `LinkDamage` (a changed
byte of the frame) and `PeerFrame` (a changed byte anywhere in the frame, the reserved
bytes included, with the right checksum) stand for what comes from outside.
64-bit numbers are two 32-bit halves.

**DiscoveryCodec**, **Discovery** - the datagrams by their fields and formats; the
advertiser thread (`RefreshDue`, the leave and join loops of `refresh_multicast`
address by address, then receiving, copying the advertisement under the mutex and
sending); the application with `start`, `set_advertisement` and `stop` (flag, socket
close, join); a client in `discover`. A datagram sent stays in a set and may be
received any number of times, in any order, or never. The kernel (external) lets a
socket join a group once per device. `decode_discovery_reply` has the checks that tell
genuine replies apart (kind, authentication tag, nonce, schema, fields of the format);
those of the protocol version, of sizes and of the advertisement (`valid_advertisement`)
are left out, since every datagram of the model was encoded by an advertiser.

**EventDelivery** - the receive threads of several connections, `runtime_emit`
(copies the handlers under the mutex, calls them after it), the callback, and the
queue of either binding: Python's single queue, from which a configuration request
puts other events aside, or the receiver that a Rust request makes for itself on a
bounded broadcast channel. The binding's object goes through start, subscribe,
unsubscribe, stop, destroy. Services answer late or never.

**AuthorityProofs**, **SendQueueProofs**, **ConnectionLifecycleProofs**,
**SessionHandshakeProofs**, **LanesProofs**, **FrameBufferProofs**,
**DiscoveryProofs**, **EventDeliveryProofs** - the TLAPS proofs about the modules of
those names. **MC...** modules and `.cfg` files give the constants. Operators commented
`mutant:` are the deliberate bugs named in `PROJECT.json`; nothing else uses them.
Types are proved rather than run: `TypeOK`, and in Discovery and EventDelivery the
first conjuncts of the inductive invariant.

## The runs

| Run | Instance | What it shows |
| --- | --- | --- |
| `authority` | 2 peers, 1 entity and scope, TTLs 0, 2 and 3 with limit 2, clock 0..2, fairness | `ImplementsLeaseService` (refinement), `LeaseHolderAlive`, `LeaseHasSession`, `StoppedClean`, `LeaseLossCauses`, `DisconnectFreesLeases` over all interleavings |
| `send_queue` | 8 bytes with a quarter reserved, quantum 3, 1 retry, sizes 3 and 7, one latest key, 4 frames, fairness | `ImplementsOutbound` (refinement), `ByteAccounting`, `OneLatestPerKey`, `WholeFrames`, `InOrder`, `ControlSent` |
| `send_queue_teardown` | quantum 2, sizes 1 and 3, 3 frames | violated: see Findings |
| `lifecycle` | 2 connection objects, 1 session, both kinds of application, fairness | `StoppedClean`, `OneRunning`, `ExclusiveClose`, `LiveSessionKept`, `StoppedIsReported` |
| `lifecycle_stop` | 1 object, fairness | violated: see Findings |
| `handshake` | 2 sessions, 1 message, 2 secrets, all pairs of profile lists, fairness | `ClientActiveAgrees`, `WrongSecretStaysOut`, `ActiveStays`, `HandshakeCompletes`, `LossForgetsSessions` |
| `handshake_required` | 1 session, one required profile | violated: see Findings |
| `lanes` | 2 lane connections, fairness | `LaneTables`, `ClientLaneAgrees`, `LaneLossKeepsSession`, `StaleRouteCleared`, `LanesCollected` |
| `frame_buffer` | buffer 8, reads of up to 3, streams of up to 3 pieces of 10 kinds, fairness | `ImplementsChannel` (refinement), `RoomyLossless`, `StreamConsumed` |
| `discovery` | 2 addresses of one device, formats 3 and 4, 3 advertisements of which the first is too large for format 4, 2 calls, 2 changes, fairness | `MembershipReported`, `LaterReplyNewer`, `FoundFresh`, `DevicesJoined`, `StopReturns` |
| `event_delivery` | 2 connections, 2 requests, 1 other event, Rust capacity 2, both bindings | `NoCallAfterFree`, `RequestGetsItsAnswer`, `NothingDiscarded` |
| `codecs` | 36 payload types, each with every member at and one past its limit; every tampered byte of a typical one, which has a map of two entries | `RoundTrip`, `NothingElseIgnored` |

Bounds. Two peers are enough for preemption, conflict and interference between
two handlers; the clock reaches the end of a lease granted at its start, so expiry,
renewal at the boundary and a stale clock all happen, and a TTL of 2 leaves something
of a lease that is granted one tick late (without any one of the three uses of
`MayHaveLapsed` the refinement fails); the TTLs include 0, the limit and one above it.
In SendQueue a frame of 7 needs several chunks and is too large for a class with the
reserve kept (7 against 6), two frames of 3 and a third force evictions, and four frames allow a replacement behind another frame. Two
connection objects are a connection and its successor, and one more would only
repeat the pair; the same holds for two lanes. One session, opened on either of the two,
is enough for an old receive thread to drop it. The profile lists differ in minor
version, major version, digest and order, and one lacks everything. In FrameBuffer
the magic has 2 bytes and the lengths follow at once, so that a read can end inside
the magic, inside the lengths and before the QoS byte; the pieces are intact frames
of each class, damaged ones, ones too long for the buffer or for a read behind
them, one with a magic in its payload, and garbage with and without a magic. In
Discovery two addresses of one device meet the kernel's rule, and an advertiser can
stop and start again within two changes. In EventDelivery a capacity of 2 is
exceeded by the four events of a connection, and the second request meets the late
answer to the first. The codecs have the code's structure with smaller limits:
texts of 3 and strings of 2 characters, lists of 2, uids and type names of 2,
headers of 112 and payloads of 250 bytes, so that a value one past each of them is
tried.

`MaxClock`, `MaxFrames`, `MaxConn`, `MaxSid`, `MaxQueued` of ConnectionLifecycle,
`MaxData`, `MaxLane`, `MaxPieces`, `MaxVersion`, `MaxAnswers`, `MaxCalls`,
`MaxChanges`, `MaxRequests` and `MaxOther` are bounds of the model; the other
constants are the code's.

Deadlock is checked for Authority. The other modules stop when their bounds are
used up, the connection is gone or the message has arrived, so their cfgs say
`CHECK_DEADLOCK FALSE`.

Fairness. A thread that can take a step takes it (weak fairness per thread): the
operating system schedules threads, mutexes are held for short critical sections
only, and a blocked write ends after `kCongestionRetryLimit` tries. In Authority
the exit of a receive loop is strongly fair once the runtime is stopping: the
loop condition is evaluated after every batch of buffered frames and nothing new
is read. In Discovery the refresh is strongly fair: its timer comes due again and
again, while the thread is busy with a query in between. TCP delivers while the
link is up. Nothing is assumed of applications, peers, interfaces or UDP: they may
never call, send, answer, come back or deliver.

## Findings

1. `send_queue_teardown`: `docs/wire-v2.md` says that only `ReliableOrdered`
   frames and hard socket errors may tear a connection down. `runtime_send_loop`
   closes it when a `ReliableLatest` frame stays congested, and when a lossy
   frame does after some of its bytes are written. (The latter protects the
   framing: `WholeFrames` fails if such a frame is dropped.) The receive side deviates
   from the same sentence: `recover_receive_overflow` drops lossy frames only, so an
   overflow behind a `ReliableLatest` frame closes the connection too (`OrderedChannel`
   allows a close at any time, so no run is about it).
2. `handshake_required`: `docs/wire-v2.md` says a missing required profile keeps a
   session from becoming usable. `required_profiles` is never read; Ready makes
   the session Active.
3. `lifecycle_stop`: `close_connection` sets `running` and notifies without
   `send_mutex`. If both fall between the predicate and the block of the send
   thread's wait, the thread never wakes, and `stop()`, `close_peer` or the
   reaper never return from the join. Taking `send_mutex` around the store
   removes the behaviour.

A fourth disagreement has no run, since it shows in the text of the code: `docs/wire-v2.md`
says that Core checks session, target, TTL and authority scope, and `WireCodec::decode`
does not look at the TTL (its `now_ms` is unused; a comment in `wire_v2_codec.cpp` gives
the reason), nor does anything after it.

Behaviours that no document contradicts, seen while modelling:

* Leases: the clock is read before the mutex is taken. A claim can be refused because of
  an entry that has run out meanwhile, also one that a slower handler stored when it had
  already run out; a renewal can revive a lease, and an action can be accepted under one,
  that ran out after the request came in; a late renewal with a shorter TTL can end a
  lease that was still in force.
* Lifecycle: without waiting for the link event, `LiveSessionKept` fails (the reaper
  removes the old connection's entry, the application reconnects and opens a
  session, and the old receive thread's `runtime_drop_peer_state` erases it, since
  sessions are found by peer id). A session that `open_session` inserts after the
  drop stays in the table (hence the wording of `LossForgetsSessions`).
* Stopping: a thread can outlive `stop()`. The receive thread of a new connection meets
  the end of its stream, or its send thread a failed write, before `connect_peer` has
  assigned `receive_thread`; the reaper takes the connection out of the table and
  `close_connection` finds nothing to join; nobody else knows the connection, and the
  thread ends by itself, after dropping the peer's state and reporting the link. Without
  the exception for `early` TLC finds this as a violation of `StoppedClean`. The window is
  a few instructions long. `NoCallAfterFree` of EventDelivery takes it that `stop()` joins
  every receive thread, and so does not speak of a thread left this way.
* Lanes: the receive thread of an old lane that is late erases the `lane_owner`
  entry of the lane bound after it, so that the client refuses the LaneReady or the
  frames that come on the new lane (`ClientLaneAgrees` is therefore stated for the
  client's frames only).
* Framing: the limit is exceeded only behind a frame at the head that is longer than
  the limit less one read; such a frame of a reliable class closes the connection
  even when it is complete. Out of step with the sender, `pop_frame` clears a buffer
  that ends inside a magic, and so can lose the frame that begins there; a chance
  magic with a large length holds delivery up until so many bytes have come.
* Message codecs: readers refuse what writers do not check (malformed uids, progress
  above 100, `max_bytes` of 0, empty or long type names, profile major 0, bounds
  that are not finite, an unset schema type), so that `publish` succeeds and the
  message is lost at the receiver; an `encode` that fails gives empty bytes, which
  `publish` accepts; readers have no limit on strings that writers have. An object has
  several encodings: the entries of a map may come in any order, and the empty locale
  may be spelled out or left out.
* Wire codec: the reserved header bytes 17, 73, 78 and 79 are neither checked nor read,
  and `WireCodec::encode` leaves the check of class, family and scope to the C ABI.
* Sessions: `Runtime::start` accepts a list that names a profile twice, for which the
  proofs and the run say nothing.
* Discovery: a second address of a joined device is reported as
  `kMulticastJoinFailed`; an advertisement that is too large for a format makes every
  such reply a send error; `stop` closing the socket in a refresh gives spurious
  join failures; `discover` keeps the reply received last, not the newest.
* Bindings: both start the runtime before they subscribe, so early events are lost; a
  Rust request that lags behind fails although its answer may be among the events
  left.

## The proofs

`AuthorityProofs` proves, for arbitrary sets of peers, session ids, entities,
scopes and TTLs and any limits, from the assumptions `BoundsAssumption`
(numbers are naturals) and `SentinelAssumption` (the two "nothing" values are
not leases or envelopes):

* `TypeCorrect`, `LeaseHolderAliveThm`, `LeaseHasSessionThm`,
  `StoppedCleanThm`: the invariants of run `authority`, and `LeaseBoundedThm`: no lease
  reaches further than `kMaximumAuthorityLeaseMs` from now;
* `LeaseLossCausesThm`: its action property;
* `ImplementsLeaseServiceThm`: the refinement `Spec => ImplementsLeaseService`.

The argument is one inductive invariant, `IInv`. The lease properties are not
inductive alone: a lease appears at the end of a handler that checked the session
and read the clock steps earlier. `HandlerOK` carries what the validation
established (TTL within the limit, a clock value that is past), which gives
`LeaseBounded`; `HandledSessionPresent` carries the session check, and holds
because the only thread that drops a peer's sessions is the one that handles its
envelopes; `SessionPeerAlive` and `StoppedJoined` carry the order of `stop()`:
a thread may refill the cleared tables, but drops what it put there before it can
be joined. `LeaseLossCauses` needs from `IInv` that the clock a handler read is
not in the future: an entry it erases as expired had expired.

The refinement has one lemma per visible step (`AcceptStep`, `ReadClockStep`,
`HandleAuthorityStep`, `AuthorizeActionStep`, `EmitEnvelopeStep`, `DropPeerStateStep`,
`EraseStep` for the three ways of revoking, `TickStep`); the other steps change nothing
the service sees (`InvisibleThreadStep`). Its core is `RequestAnswer`: a lease in force
is one the handler sees, since its clock is past; an entry it sees that is not in force
has run out since, so the request is late; and what the request leaves of the entry, as
far as it is in force, is an answer `LeaseService` allows.

`LanesProofs` proves, for any `MaxLane` in `Nat` (`LanesAssumption`),
`TypeCorrect`, `LaneTablesAgree` and `LaneLossHarmless` (the action property
`LaneLossKeepsSession`). The inductive invariant `LInv` adds to the types and to
`LaneTables` that a control receive thread leaves its loop by erasing the session
(`ControlSession`), without which closing the server's lane afterwards would seem
to make its tables disagree, and that `bind_lossy_lane` sends only on a lane it
has connected (`BinderLane`).

`ClientLaneThm` (`ClientLaneAgrees`) is proved with a second invariant, `AInv`. The
client sets its route when it reads a LaneReady, and knows lanes by an id that all of
them share, so the question is whether a LaneReady can take effect for another lane
than the one it was sent for. `AInv` says that a lane asks once and is answered at most
once (`OneAnswer`), that a lane whose LaneReady is on its way is the one the server has
mapped, if both are still there (`AnswerBound`), that the client's table holds the
latest lane or none (`TableLane`), and that a thread that may still read a LaneReady is
the latest lane's, while `bind_lossy_lane` waits for it or the answer has no effect any
more (`Unhooked`, `Awaited`).

`ConnectionLifecycleProofs` proves, for any number of connection objects, sessions and
queued frames (`LifecycleAssumption`), `TypeCorrect`, `ExclusiveCloseThm`,
`OneRunningThm`, `StoppedCleanThm` and the action property `LiveSessionKeptThm`. In the
inductive invariant `CInv`, an object is taken out of the table before it is closed, so
that no second thread finds it (`OutOfTable`); where the application thread is says what
the tables hold, and that the accept thread has ended before `stop()` clears them
(`AppPhase`); an object runs only in the table or until the application clears its flag
(`RunningKnown`); a thread that has not ended belongs to an object in the table or to
one that somebody will join, or is a receive thread of an object reaped early
(`ThreadsKnown`). That joins are skipped for no other thread needs two more parts: a
thread that is not joinable has ended, or is the one being started (`Handles`), and an
object whose threads are being started is in the table, or was reaped early, in which
case its send thread is either assigned or has ended (`StartPhase`). `LiveSessionKept` needs `Reported`: the
link event is the last act of a receive thread, so that a patient application reconnects
only when the old thread can no longer drop sessions.

`SessionHandshakeProofs` proves, for any secrets, profile lists and number of sessions
and messages (`HandshakeAssumption`, `SentinelAssumption`), `TypeCorrect`,
`WrongSecretThm`, `ClientActiveThm` and the action property `ActiveStaysThm`.
`NegotiatedSymmetric` comes first: both ends compute the same profiles from the two
lists, each starting from its own. `HInv` then follows the four messages of a session
through `to_send`, the stream and the server's entry. With equal secrets, what is to
come continues the server's stage without a gap, replies come in order, and a session
that is Active at the client has reached the last stage at a server that is alive
(`RightSecret`). With different secrets, no Profiles or Ready message reaches the server
before the Authenticate that it rejects, so its entry is handshaking or invalid and it
never answers Ready (`WrongSecret`). `UnusedFresh` says that an id not yet given out
occurs nowhere, `NegotiatedFromLists` that the profiles of a negotiated session come
from the two configured lists. A lost connection leaves a prefix of each stream, for
which all of this still holds.

`SendQueueProofs` proves, for any limits, sizes, keys and number of frames
(`SendQueueAssumption`), `TypeCorrect`, `ByteAccountingThm`, `OneLatestPerKeyThm`,
`WholeFramesThm`, `InOrderThm`, the action property `ReliableKeptThm` (no step removes a
queued reliable frame except to send it or for a newer value of its key) and the
refinement `ImplementsOutboundThm` (`Spec => ImplementsOutbound`). In `SInv` the
order of acceptance is kept from the stream over the frame in the thread's hands into
the queues (`WireOrder`, `FrameOrder`, `QueueOrder`), and only the last frame of the
stream may be cut short, and is then the one in hand (`WireWhole`). A replacement puts a
newer serial into an older place, so order is claimed per class and key, where
`LatestOnce` leaves only one place. `MakeRoomFacts` shows that eviction takes frames
from the front of droppable queues only. The byte count needs a sum over a sequence:
`Bytes` is a recursive function, and `Upwards` (what holds for 0 and carries from n to
n + 1 holds up to m, since there is no least counterexample) gives the facts about it
(`BytesConcat`, `BytesCut`, `BytesReplace`). The count (`Counted`) is kept because
`MakeRoom` takes off exactly the bytes of what it drops (`MakeRoomBytes`), after the
bytes of a value to be replaced were taken off, which a rejection puts back.

The refinement has one lemma per visible step (`EnqueueImplements`, `TakeImplements`,
`WriteImplements`, `BlockImplements`); the other steps change nothing the publishers
see, or close the channel (`ControlImplements`). The channel has a set where the code
has four sequences, so the proof needs that a frame is in one place only (`OnePlace`,
from the order of serial numbers): then taking the head takes one frame off the set.
That a replaced value is gone follows from `LatestOnce`. `EnqueuedSet` says what an enqueue
adds and takes away, `EnqueuedEvicts` that the lossy frames it takes away are those
that come first: they are a prefix of each queue, and BestEffort loses a frame only
when all of Bulk is gone. `PartialMeans` ties the cut frame at the end of the stream to
`offset`, which is what `may_drop_congested_frame` looks at.

`DiscoveryProofs` proves, for any addresses, devices, attribute sizes, formats, calls
and changes (`DiscoveryAssumption`), `MembershipReportedThm`, `LaterReplyNewerThm` and
`FoundFreshThm`. In `DInv`, `Reported` keeps the events equal to the table also in the
middle of a refresh. `RepliesMade` speaks of the replies sent and of the one in the
thread's hands together: none is ahead of the advertisement in sequence or contents
(`Covered`), so that the next one is later and not older. `QueriesMade` and `Answers`
tie a reply to the one call with its nonce, which has asked no later than the contents
were advertised: late or repeated replies to other calls, or in other formats, are not
taken.

`EventDeliveryProofs` proves, for any number of connections, requests and events and any
capacity (`DeliveryAssumption`), `NoCallAfterFreeThm`, `RequestGetsItsAnswerThm` and
`NothingDiscardedThm`. `DInv` has the joining of the threads (`Joined`), that every
answer anywhere is to a request that was made, on its connection (`AnswersIssued`), and
that the answer to the request in progress stays in the queue once the callback got it
(`AnswerKept`). `NothingDiscarded` needs `EInv`: no event is met twice (`Fresh`: what is
in a stream, in the thread's hands and delivered are different events, and an answer
that is still owed is nowhere), so that the event a callback gets has no place yet, and
afterwards moves from one place to another (`Placed`).

`FrameBufferProofs` proves, for any set of streams that `StreamAssumption` admits,
any limit, size of reads and header layout (`FrameAssumption`), `TypeCorrect`,
`ChannelImplemented` (the refinement `Spec => ImplementsChannel`) and
`RoomyLosslessThm`. The refinement needs only that the buffer is a piece of the
stream (`FInv`). Its core is `FirstIsStart`: in step with the sender, the first magic
that `pop_frame` finds is the one of the frame at the start of the buffer. Each action
is then a delivery (`EnvelopeStep`), a silent step forward (`SilentStep`: a loss that
is allowed, or leaving the step at a frame that cannot be used), or none
(`IdleStep`). An incomplete droppable frame that `recover_receive_overflow` clears is
one that is longer than the limit, which `pop_frame` could not have used.
`RoomyLossless` needs `RInv`: in a roomy stream the buffer begins at a frame, and holds
less than that frame between two reads, so that one read cannot exceed the limit.

Only model-checked: the liveness properties `DisconnectFreesLeases`, `ControlSent`,
`StoppedIsReported`, `HandshakeCompletes`, `LossForgetsSessions`, `StaleRouteCleared`,
`LanesCollected`, `StreamConsumed`, `DevicesJoined` and `StopReturns`, since fairness and
ENABLED are outside the prover's reach; and `RoundTrip` and `NothingElseIgnored`, since the
codecs are operators that recurse over the tables of the payload types and use bitwise
operators, neither of which the prover handles. The three findings are counterexamples
of TLC.

## Not modelled, and the plan

Not modelled: the profile validators (range predicates over generated messages, with
no state); the bindings' own codecs, which repeat the C++ ones; handlers that call
back into the runtime; several application threads in `connect_peer` and `stop` at
once, `close_peer` in one while another is still in `connect_peer` included; the time
between the start and the assignment of the threads of a lane, or of a connection that
the accept thread makes (the reaper is that thread, so it cannot come in between);
`start` after `stop`; of the lanes, leases claimed through a lane and several
sessions of one peer; sessions that both ends open with equal ids.

Order of the work to come:

1. `Lanes`: leases claimed through a lane (composed with the lease table), two
   sessions of one peer sharing the lane id.
2. `SessionHandshake`: sessions opened by both ends with equal ids.
