# Verification of bevy_disturbulence

TLA+ models of the networking plugin in `src/`, TLC runs on small instances, and
TLAPS proofs for every instance. `PROJECT.json` lists the runs, what each
definition stands for in the source, the hazards and the findings.

## The system

A Bevy plugin. An application, server or client, holds one `NetworkResource` and
reads `NetworkEvent`s; below it are naia sockets (UDP or WebRTC) and, if the
application registers message types, turbulence's message channels.

| part | state | operations | shares |
|---|---|---|---|
| connection registry (`src/lib.rs`) | `connections`, `pending_connections`, `server_channels`, `connection_sequence`, `channels_builder_fn` | `listen` and its tasks, `connect`, `disconnect`, `set_channels_builder`, `receive_packets` | `server_channels` (RwLock), `pending_connections` (Mutex) and the channels, with the listener tasks |
| idle timeouts (`src/lib.rs`, `src/transport.rs`) | `PacketStats` of each connection, the timestep | `heartbeats_and_timeouts`, `add_rx`, `add_tx`, `last_packet_timings` | the stats (RwLock) with the channel task |
| connections and message channels (`src/transport.rs`, `src/lib.rs`) | `sender`, `channels`, `channels_rx`, `channels_task` | `send`, `broadcast`, `receive`, `build_channels`, `send_message`, `broadcast_message`, `recv_message` | queues with turbulence's tasks and the channel task |
| runtime (`src/channels.rs`) | the list of tasks | `spawn`, `sleep`, `acquire` | the task pool |
| plugin (`src/lib.rs`) | settings | `build`: `receive_packets` every frame, `heartbeats_and_timeouts` in a stage of its own on a fixed timestep | |
| `examples/channels.rs` | server: balls, `frame`; client: entities, `server_ids` | broadcast of the game state, `handle_messages_client`, `handle_messages_server`, `handle_packets` | |
| `examples/message_coalescing.rs`, `idle_timeout.rs`, `simple.rs` | counters | pings and pongs | |

A datagram for a server goes: socket, listener task, channel of its address
(found in `server_channels`, or made together with a connection that is pushed
on `pending_connections`), connection, `receive_packets`, event or message
channel. Nothing is sent to the peer when a connection ends; it finds out
through its own idle timeout.

What is hard here: listener tasks run on the IO task pool while the systems of
the game loop run, and the two meet in two lock-protected maps that together
must say the same thing; datagrams are lost, late and out of order; ends of
connections are only ever guessed from silence; handles wrap around.

What makes each part correct:

- registry: a client has one connection at a time; a stored Sender and the
  Receiver of its channel come and go together; a datagram is told once, in
  order, under the right handle, or is lost with its connection; the game loop
  and the tasks never hang;
- idle timeouts: peers that live are kept whatever the network may do within its
  limits; peers that have gone are cleaned up;
- channels: a message accepted and flushed gets to the other application or is
  lost on a way that is known; nothing is sent twice; no call panics on a
  connection the application legally has;
- channels example: the client shows every ball once, in its newest state.

## Modules

| module | models | against |
|---|---|---|
| `NetworkResource` | the registry | `src/lib.rs` 189-364, 387-392, 446-543; `src/transport.rs` 112-145, 179-198, 303-314 |
| `ConnectionService` | what the registry promises: no tasks, locks, systems or table | `NetworkResource` implements it |
| `IdleTimeout` | two peers, their timers and the network between them | `src/lib.rs` 293-309, 348-379, 446-478, 74-106; `src/transport.rs` 50-85, 157-177 |
| `MessageChannels` | messages between two applications: the message API, connections with channels, the systems of `message_coalescing` | `src/lib.rs` 351-364, 394-428, 466-470, 484-536; `src/transport.rs` 111-124, 218-230, 242-272, 292-301, 316-357; `examples/message_coalescing.rs` 34-126, 164-221 |
| `PingPong` | what the message channels promise of each ping | `MessageChannels` implements it |
| `BallsExample` | the game state of the channels example | `examples/channels.rs` 81-96, 177-248, 304-382 |
| `MC*` | instances for TLC | |
| `*_proofs` | theorems | |

### NetworkResource

A listener task is a program counter, `at`: it receives a datagram
(`ServerReceive`), looks its address up and sends under the read lock
(`Forward`, or `NeedsNewChannel`), and otherwise takes the write lock, makes a
channel and pushes its connection (`PushConnection`), and stores the Sender and
unlocks (`StoreChannel`). The read lock is held for one statement, so it is not a
variable; `writer` is the write lock. `pending_connections` is locked for one
statement at a time. The lock is between `PushConnection` and `StoreChannel`
because another thread can see the connection there and not its Sender.

The systems take `ResMut<NetworkResource>`, so one runs at a time (`system`), in
steps that tasks interleave with: `receive_packets` drains (`DrainPending`),
registers one connection after the other (`Register`) and reads each in turn
until it has nothing (`ReceivePacket`, `ReceiveDisconnected`, `ReceiveNothing`),
in any order, as a HashMap iterates. `disconnect` is two steps, the removal from the table
(`TakeFromTable`) and the removal of the Sender under the write lock
(`DropRemoved`): a task may act in between. Which connections are silent is left
open here (`FindSilent`): `IdleTimeout` says when.

`conns` holds every connection object there has been. Rust's ownership is the
operators `Live`, `ReceiverAlive` and `SenderAlive`: an object is dropped when no
Vec, map or local owns it, and crossbeam's `send` and `try_recv` fail exactly
when the other end is dropped. `fetch_add` wraps (`NextHandle`), and `insert` of a
handle in use drops the connection that had it. `arrived` and `events` are there
for properties: `events` is what the last step told, the application by a
NetworkEvent or the message channels by `try_send` (`Passed`), so that the service
sees each datagram told to one of them or reported, and only heartbeats silent.
Which of the two it is follows from `build_channels`, and the service leaves it open.

### IdleTimeout

Time is discrete. `rx` and `tx` are what `last_packet_timings` returns, saturated
at bounds (`RxBound`, `TxBound`) above every limit they are compared with.
`heartbeats_and_timeouts` runs at each peer at intervals from `MinStep` to
`MaxStep`, right after the receive stage of its frame; `receive_packets` at most
`Frame` apart. The network keeps a datagram up to `Delay` and loses at most
`MaxLost` in a row of one peer's. A datagram that finds no connection at the
server makes one (`Accept`); a client does not come back. Each peer has at most
one connection: `NoOrphanedReceiver` and `ImplementsService` are why it may be so.

### MessageChannels

A client sends pings, a server answers; `conn[p]` is the connection each has to the
other. A message passes through six queues: `outbox` (the channel's), packed by
turbulence's task into one packet of `mux` when `flush` has been called (`Pack`);
from there the channel task of `build_channels` sends it on the network
(`ChannelTask`), which delivers in any order or loses (`Arrive`); `rx` is the
socket's, `receive_packets` passes a packet on to `incoming` or drops it when there
is no room (`ReceivePacket`), and turbulence's task unpacks it into `inbox`
(`Unpack`), where `handle_messages` finds it (`RecvMessage`). turbulence and the
network are not in the repository: `Pack`, `Unpack` and `Arrive` are what the code
relies on (an unreliable channel of bounded queues, a `flush` that may stand for many).

`sched[p]` is where a peer is in its frame. The systems of a stage run once each,
in any order, and one at a time since all take `ResMut<NetworkResource>`
(`running`), a step for each message or packet. The two strategies are one bit
chosen at the start, `manual_flush`, which also adds the stage of `flush_channels`.
A failed `unwrap` in a system ends the application (`Panic`), one in a task only the
task. The channel task unwraps what the socket's `send` returns, and the next packet
(server): after an error of the socket (`SendFails`, for peers in `Refusing`) the
connection stays open without a task, and `mux` is no more emptied. How turbulence's
tasks take that is not in the repository: here they go on, until `mux` and `outbox` are full.
When naia's sockets return an error is not in it either; any packet may be the one.
`disconnect` is two steps, because the fields of a connection are dropped one after
the other: when the channels are gone (`Disconnect`) the channel task still runs
until its own field is dropped (`DropTask`), and may see the end of its stream
(`StreamEnds`). Datagrams that arrive between the two wait, which only delays them.
`auto_heartbeat_ms` and calls of `disconnect` are not in the example: they are the
constants `Heartbeating` and `Disconnecting`, and time is left out, so a heartbeat may
be due in any frame. `gone`, `packets_tx` (of the client's stats) and `panicked` are observations.

`PingPong` has a state for each ping: unsent, asked, answered, seen or lost.
`StateOf` maps the queues to it; a ping found nowhere has the state "vanished",
which `PingPong` does not know.

### BallsExample

The state of a ball is one value. The server broadcasts all balls with a frame
number; a message then arrives never, once or more often, in any order: `sent` keeps all.
`handle_messages_client` takes a step for each message (`Receive`), since
turbulence's tasks go on filling the queue, and then spawns (`Spawn`).

## Runs

| run | instance | shows |
|---|---|---|
| `two_listeners` | 1 address, 2 listeners, 3 handles, 3 datagrams; 12,241 states | `NoStaleSender` |
| `service` | 1 address, 1 outgoing connection, 1 listener, 2 handles, 2 datagrams of each peer, heartbeats; 208,682 states | types; `NoOrphanedReceiver`, `WriteLockOnlyWhenNeeded`, `ImplementsService`, `ReceivePacketsReturns`, `DatagramIsHandled`, `BacklogIsRead` |
| `idle_timeout` | Idle 5 = News, heartbeat 1, timestep 1, delay 1, 1 lost, the client may leave; 139,906 states | types; `NoFalseTimeout`, `ServerCleansUp` |
| `start` | the same with Idle 10 = 2 News; 215,330 states | `NoTimeoutAtStart` |
| `messages` | 2 pings in a tick, queues of 1, loss, sockets that fail, the server beats and disconnects; 111,642 states | types; `MessagesNeverPanic`, `ImplementsPingPong`, `EveryPingIsAnswered` |
| `coalescing` | 3 pings in 2 ticks, 2 messages and 1 packet in a queue, the client's socket may fail and the client disconnect; 1,699,820 states | `OnePacketPerTick` |
| `balls` | 2 balls, 2 states, 3 messages, a queue of 2; 209,118 states | `OneEntityPerBall`, `ShowsNewest` |
| `listener_race` | 1 address, 2 listeners | violation of `WriteLockOnlyWhenNeeded` |
| `server_leaves` | Idle 3, heartbeat 1, no loss, no delay | violation of `ClientCleansUp` |
| `second_chance` | Idle 5, heartbeat 2, timestep 1, 1 lost | violation of `NoFalseTimeout` |
| `heartbeat` | 1 ping, the server beats | violation of `HeartbeatsAreSilent` |
| `stream` | 1 ping, the server disconnects | violation of `StreamOutlivesTask` |

Bounds. Two datagrams of an address are enough for one to make a connection and
one to find it, its absence, or the moment between; a third lets a connection be
made after one that was replaced (`two_listeners`). Two handles with three
connections wrap around, while connections are open and while they are not.
More than one client is left to the theorems, which hold for any number. Two listeners are all
the race needs; a third is in no property's way. In `idle_timeout` and
`start` the limit is sharp: with `Idle` one smaller TLC finds a violation of
`NoFalseTimeout` and of `NoTimeoutAtStart`, so losses, delays and late timesteps
all happen in the worst combination.
Proved are `NoTimeoutAtStart` for any `Idle` from twice `News` up and `NoFalseTimeout`
for half of that. Two pings and queues of one fill
every queue, and leave a ping behind when the first has been packed, when the
connection goes, and when the next is made; two ticks, the second begun before the
first is packed, need three pings (`coalescing`). Two
messages in any order, one of them twice, are enough for an old update to meet a
new entity; the third meets a ball spawned by the second. Symmetry of addresses,
listeners, balls and states is used where no liveness is checked.

No deadlock check is switched off: applications may always go on, and time does.

Fairness. `NetworkResource`: a listener task that can step does, since tasks run on
threads of a pool; the schedule runs `receive_packets` every frame, so `DrainPending`
happens when no other system runs; a system that runs ends. No datagram has to
come and the application need do nothing. `MaxDatagrams` also makes what comes finite:
a peer that sends as fast as `receive_packets` reads could keep its loop going, and is
outside what `ReceivePacketsReturns` says; shown is that it cannot turn without datagrams. The read and write locks are fair enough for
weak fairness, because each is held for a bounded number of a task's steps. `IdleTimeout`: time
passes, datagrams on the network arrive or are lost, the systems run when due;
nobody has to send or disconnect. `MessageChannels`: frames go on and every
system runs in its frame, the tasks of turbulence and of the connections run on
the pool, the network delivers what it has not lost; no heartbeat has to be due, and
nobody has to disconnect. No socket has to fail, and none has to work: what waits behind a
channel task that has panicked (`Stuck`) is the one thing, apart from losses and dead
applications, that `EveryPingIsAnswered` excuses.

## Findings

- `listener_race` (`src/lib.rs:293`). Two listeners with datagrams of one address
  both find no channel; the second replaces the channel of the first, whose
  connection then reports `Disconnected` for ever inside `receive_packets`. The
  comment above the lock says it is taken only when a channel does not exist or
  has to be made again. It takes a peer that reaches two of the server's sockets
  from one address.
- `server_leaves` (`src/lib.rs:348`). "Peer will eventually do HeartbeatMissed and
  clean up" fails when a server disconnects a client with heartbeats: the next
  heartbeat makes a new connection, which keeps the client alive.
- `second_chance` (`examples/idle_timeout.readme.md:52`). A heartbeat timeout just
  below half of the idle timeout does not survive a lost heartbeat: the timestep
  counts too. What does is `News`, proved below.
- `heartbeat` (`src/lib.rs:469`). `build_channels` moves the sender into the channel
  task, and `Connection::send` unwraps it: with `auto_heartbeat_ms` set, the first
  heartbeat on a connection with message channels ends the application, and so do
  `NetworkResource::send` and `broadcast`.
- `stream` (`src/transport.rs:220`). The channel task of a server connection unwraps
  the next packet, and a connection drops its channels before its task: for a moment
  the task may find the stream ended, and panics. The client's task returns instead.

## Proofs

All are by `tlapm`, with the constants assumed only what the `ASSUME`s of each
module say.

| theorem | statement |
|---|---|
| `NetworkResource_proofs!TypeCorrect` | `Spec => []TypeOK` |
| `Senders_proofs!NoSenderIsStale` | `Spec => []NoStaleSender`, any number of listeners |
| `OneListener_proofs!NoReceiverIsOrphaned` | one listener: `Spec => []NoOrphanedReceiver` |
| `OneListener_proofs!WriteLockIsNeeded` | one listener: `Spec => WriteLockOnlyWhenNeeded` |
| `Service_proofs!RegistryImplementsService` | one listener: `Spec => ImplementsService` |
| `IdleTimeout_proofs!TypeCorrect` | `Spec => []TypeOK` |
| `IdleTimeout_proofs!HeartbeatsKeepConnections` | all beat and `News <= Idle`: `Spec => NoFalseTimeout` |
| `IdleTimeout_proofs!ClientsLiveThroughStart` | all beat and `2 * News <= Idle`: `Spec => NoTimeoutAtStart` |
| `BallsExample_proofs!TypeCorrect`, `BallsAreSpawnedOnce`, `NewestStateIsShown` | `Spec => []TypeOK`, `[]OneEntityPerBall`, `[]ShowsNewest` |
| `MessageChannels_proofs!TypeCorrect`, `MessagesNeverPanicAlways` | `Spec => []TypeOK`, `[]MessagesNeverPanic` |
| `MessageChannels_proofs!OnePacketPerTickAlways` | `Spec => []OnePacketPerTick` |

"One listener" is a hypothesis of three theorems, not an `ASSUME`: the code lets an
application call `listen` again, all examples call it once, and `listener_race` shows
what two do. "All beat" is the same for `auto_heartbeat_ms`, which is optional.

Arguments.

- `NoSenderIsStale`. A Sender is stale when its Receiver has been dropped, which
  happens at `DropRemoved` (the same step removes the Sender of the address) and at
  `Register` when handles wrap (excluded by `NoWrap`). What has to be excluded is
  that the step removes another Sender or that one is stored afterwards. `StaleInv`
  adds: what a task has pushed is `fresh` until it stores it and it holds the write
  lock then (`ListenerInv`), so `DropRemoved` cannot come in between; the Sender
  stored for an address is of a connection of that address (`AddressInv`); handles
  from `connection_sequence` up are not in use (`HandleInv`).
- `NoReceiverIsOrphaned`. With one task nothing stores a Sender between its lookup
  and its write: `WindowInv` says that while it has decided to make a channel no
  living connection has the address. That needs `OwnerInv`: a connection has one
  owner, so one that is removed is not also somewhere else. It is where two
  listeners fail.
- `RegistryImplementsService`. The refinement mapping is that of `NetworkResource`:
  `ServiceConns` makes one entry of what the table, the Vecs and `disconnect` own, and
  the last datagram of an address is the last that has arrived, but for the one a task
  has in hand. `Entries` says what the entry of a connection is, by its owner; a
  step then changes only the entries of connections it touches (`UnchangedEntry`), and
  each action of `NetworkResource` is a step of one action of the service or none
  (`PushAccepts`, `ConnectDials`, `ForwardEnqueues`, `SocketEnqueues`, `RegisterOpens`,
  `ReceiveDelivers`, `TakingCloses`, `DropIsClosed`, `Stutters`). `OneInv` is needed for
  each: `WindowInv` makes a new connection the only one of its client, `OwnerInv`
  gives an entry one status, and `OrphanInv` excludes `ReceiveDisconnected`, which the
  service does not know. New are `OrderInv` (connections wait in the order they were
  made, so the batch before what is pending), `SeqInv` (what the task has in hand is
  the last datagram of its address) and `SilentInv` (a connection found silent is
  still in the table when `heartbeats_and_timeouts` gets to it).
- `HeartbeatsKeepConnections`. `TxInv`: who has a connection has sent within
  heartbeat timeout and the time since the last check. A span of time is covered
  (`Covers`) when it is at most one `Gap` for each datagram lost in a row plus the time
  since the last was sent, or when a datagram is on its way whose age accounts for
  the rest. `NewsInv`: the time since a peer last received is covered by what the
  other sends, or a datagram waits in its channel; a client that has not heard of the
  server may have waited `News` longer (`Late`). Before the server knows of the client
  nothing comes from it and what the client has sent covers the time since it began
  (`StartInv`).
- `ClientsLiveThroughStart`. The same invariant: before it is heard of, a client has
  waited at most `News`, and at most `News` more until the first answer is there, so
  twice `News` is enough; `NoFalseTimeout` is what holds from then on.
- `NewestStateIsShown`. `ShowsNewest` is inductive together with types and
  `OneEntityPerBall`; without the latter a ball could be updated in one entity and
  stay old in another.
- `MessagesNeverPanicAlways`. The channels a call unwraps are those of an open
  connection, so `NeverPanicInv` says that such a one has them (`Answerable`): a
  connection is registered in the update stage, and whoever has not set the builder
  is still in its startup stage (`BuilderFirst`). The second loop of
  `handle_messages` does not look at the connection again: `AnswersOwed` says that
  as long as there are answers to send that system is running, and with it in
  possession of the `NetworkResource` nothing can drop the connection.
- `OnePacketPerTickAlways`. Packets are made by turbulence's task, which may run long
  after `flush` was called, and one flush may stand for many. `PacketsInv` counts
  ticks instead: there is a number `k` of ticks, each with its `PerTick` pings sent,
  such that the packets made and the one asked for are at most `k`; and what waits in
  the channel without having been asked for belongs to a later tick. Once all pings are
  sent the last tick may have been a short one, and the count is of pings. It needs that
  the pings of one tick are sent within one run and that `flush_channels` runs in a
  stage of its own (`TurnsInv`), and that the client never answers, so its packets
  hold pings only (`KindsInv`).

Model-checked only: `ImplementsPingPong` (planned), and everything with fairness:
`ReceivePacketsReturns`, `DatagramIsHandled`, `BacklogIsRead`, `ServerCleansUp`,
`EveryPingIsAnswered` (out of the prover's reach).

## Not modelled

- `ttl_system` of `message_coalescing` and the clocks of `simple` and
  `idle_timeout`: they end or pace a program by the wall clock. Their protocol, a
  PING answered by a PONG, is in `MessageChannels` over messages; over raw packets it
  is one `Send` of `IdleTimeout`.
- A network that duplicates, in `MessageChannels`: an unreliable channel does not
  look at what it has seen, so a ping may be answered twice then; the example does
  not say otherwise. `BallsExample` has duplicates.
- What else a panic in a task does: it may take a thread of the IO task pool with it.
  The pool is assumed to have threads left.
- Reliable channels: their order and their retries are turbulence's alone.
- The list of tasks of `TaskPoolRuntime`: it grows, and nothing reads it.
- In `BallsExample`, the commands of clients (`MoveBall` stands for what they do),
  a restarted server and the wrap of `frame` after 2^32 frames: in the last two the
  client ignores updates until the new counter has overtaken the old, as `Updated`
  says; no comment or test of the repository says what should happen.

Left out for good: command line arguments, window, camera and keyboard of the
examples (no protocol in them); logging; the wasm variant of `disconnect` (the same
without `server_channels`); the choice of addresses in `listen` and the link conditioner,
which is a network that loses and delays; poisoned locks, since no holder can panic
between lock and unlock; errors of the server's `receive`, which the task logs and forgets.

## Plan

Proofs: `MessageChannels` implements `PingPong`, from `KindsInv` and an invariant that
a message is in one queue at most.
