# Verification of morton

TLA+ models of morton, a distributed game backend in C++: authoritative shards
with a fixed tick serve clients over UDP, coordinate through Redis, and hand
players to one another as they cross region boundaries. TLC checks the models on
small instances; TLAPS proves most of the safety properties for every value of the
constants.

`tlc -config X.cfg MCX` repeats a run, `tlapm XProofs.tla` the proofs about X. `PROJECT.json` lists components, runs, the code lines behind every
definition, hazards and theorems. Paths below are relative to the repository's
`src/`.

## The system

A client asks the **matchmaker** for a session. The matchmaker keeps a *presence
record* per player in **Redis** and places the player on a live **shard**. The
client connects to the shard with a salted three-way **handshake** over UDP and
from then on sends redundant **input** packets and receives **delta snapshots**;
events travel in the same packets through the **reliability layer**. Shards
register themselves in Redis with a time to live, and each derives the owner of
every region from the list of live shards. A player that enters a region of
another shard is handed over: the source publishes a *ticket* and moves the
presence record in one script, then redirects the client, which redeems the
ticket at the destination. A player that is lost leaves a *ghost* for a while.
Browsers watch a shard through a **WebSocket** feed served by a second thread; a
third answers **HTTP** requests, among them for the **metrics** the tick thread
records.

| part | source | module | status |
|---|---|---|---|
| reliability layer | `net/reliability`, `net/sequence_buffer.h` | `SequenceBuffer`, `ReliableEndpoint`, `ReliableChannel`, `ReliableEndpointProofs` | all but the statistics of `update()` |
| handshake and connections | `net/connection` | `Connection`, `ConnectionProofs` | all but pacing, statistics and payload bodies |
| UDP socket | `net/udp_socket` | `UdpSocket` | Linux branch |
| tick loop, timeouts | `app/world_server`, `net/connection` | `TickLoop` | all |
| metrics | `metrics/` | `Histogram` | histograms |
| HTTP server | `net/http`, `net/http_client` | `HttpServer` | all but parsing |
| shard process | `app/world_server`, `apps/world` | `ShardProcess` | its threads and stop |
| Redis client | `cluster/redis` | `RedisClient`, `RedisClientProofs` | all but RESP encoding |
| presence, tickets, matchmaker, handoff, ghosts | `cluster/presence`, `migration`, `matchmaker`, `shard`, `app/world_server`, `app/game_client` | `PresenceStore`, `Handoff`, `HandoffTicketProofs`, `HandoffHomeProofs` | all but displays and load-based choice |
| membership and regions | `cluster/presence`, `cluster/shard` | `PresenceStore`, `Membership`, `MembershipProofs` | all but rosters |
| snapshot replication, render clock | `proto/snapshot`, `sim/client_view` | `Snapshot`, `SnapshotProofs` | all but floating-point positions |
| snapshot encoding | `proto/bitstream.h`, `proto/snapshot` | `BitStream`, `SnapshotCodec` | partly: not quantization, strings, byte runs, alignment |
| input, prediction, reconciliation | `sim/world`, `sim/client_view`, `app/world_server` | `Prediction`, `PredictionProofs` | all but floating-point movement |
| viewer feed | `net/websocket` | `WebSocketServer` | all but the protocol text |
| world entities, grid, Z-order codes | `sim/world`, `spatial/` | `Morton`, `SpatialGrid`, `EntityStore` | integer positions |
| utilities, load test, other programs | | | not modelled, see below |

Modules named `MC...` give the constants values for TLC and hold nothing else.
Definitions commented "Mutant" are plausible mistakes in the definition that
follows; no specification uses them. They are there to show that a property
notices the mistake.

## Modules and code

**ReliableEndpoint.** Two endpoints with `sequence_`, `unacked_`, the sent and
received sequence buffers, `reorder_buffer_` and `expected_message_id_`; actions
`queue_reliable`, `send_payload` (`write_packet`) and `read_packet`. Datagrams
stay in `net`, so they may be lost, repeated and reordered. Numbers are modulo
`SeqMod` (65536 in the code). A message's payload is its place in its stream.
`ReliableChannel` is the promise: a FIFO stream each way. Three assumptions
are not enforced by the code and are guards of the model: fewer than half of the
ids are outstanding (`queue_reliable`); a datagram is overtaken by at most
`MaxAge` others; at most `MaxSilence` packets in a row go unheard, since the
connection would time out. In the code the last two amount to seconds against
the half hour that 2^16 numbers last.

**Connection.** One `ConnectionServer`, its clients and every datagram between
them. A salt is drawn fresh, so the xor of two is the pair. `others` counts the
players at other addresses, which matter for capacity only. A payload carries its
writer, the client's attempt or the server's `Connection`, each of which has a
`ReliableEndpoint` of its own; what the endpoints make of it is the module above.

**Handoff** (over `PresenceStore`, the record and the two Lua scripts). One
player, two shards. Every Redis round trip of `assign`, `admit`, `on_connect`,
`check_migrations` and `refresh_presence` is a step. `deployment`, chosen at the
start, says whether client processes overlap, whether replies of Redis get lost,
and how many matchmakers, tokens and crashes there are. Assumed: the handshake
datagrams of a dead process do not outlive it; a record only expires when no
shard has been touching it (TTL 15 s, touched every 2 s, clients time out after
5 s). `draining` is never set by the code, and the `pending_by_player` branch of
`admit` is never taken; neither is modelled. `RedisClient` justifies
the one repetition that `Handoff` gives to a lost reply.

**Membership** (over `PresenceStore`). Heartbeat, listing and pruning against
crashes, stops, starts and flushes that fail. The commands of one pipeline are
separate steps, but for the HSET and PEXPIRE of a heartbeat, which are one. Commands
whose sender does not learn whether they were executed are in `late`: the SREMs of a
prune, the DEL and SREM of a stopping shard, and a heartbeat that failed. They may be
executed at any later time, once, several times or never. Time passes in intervals,
whatever anybody is in the middle of; a shard begins a refresh at most once in each.
`steady` counts for how many intervals a shard has been refreshing undisturbed, or
has been down.

**Snapshot.** `ReplicationState` with its ring, acknowledged tick and priorities,
the client's ring, and the packets both ways. A delta carries the difference to
its baseline, so decoding against a wrong one shows. The byte budget counts
entries. The client's render clock counts in tenths of a tick; `advance` moves it
and picks the frames before and after it. `scenario`, chosen at the start, fixes
the world's size, whether the client comes from another shard (`previous_ticks`)
and whether it renders.

**SnapshotCodec** (over `BitStream`). One snapshot, bit by bit: any baseline and
any view are encoded into a packet of a given size and decoded again. Which
entities are deferred is any choice of the right number, since `Snapshot` has the
priorities. Widths are constants; the run has 4-bit bytes, two-byte varints and
small deltas of 3 bits.

**Prediction.** Commands are their sequence numbers; a position is the list of
commands that led to it, since both sides run the same `step_movement`. A client that
starts again is a new process: `GameClient::start` on the same object, which only the
load test does, leaves the old commands in `input_window_`.

**RedisClient.** The pipeline and its single retry. `executed` is what Redis ran,
in order; `abandoned` what an attempt that was given up may still have running.

**ShardProcess** composes the threads of `apps/world` and states how they end:

- `TickLoop`: `run`, `drain_until` and `tick`. Time passes in units at any step;
  `due`, `age` and `since` are distances from now. One client is followed. It
  extends `UdpSocket`: the send and receive batches with the kernel's wrapping
  drop counter (assumed to go round less than once between two reports).
- `Histogram`: every atomic operation of `record` and of `expose` is a step.
  `relaxed` says whether the hardware reorders relaxed operations on different
  atomics. `MetricsRegistry` hands the shards of one process the same histogram,
  hence several recorders.
- `HttpServer`: accept, receive with a timeout, handler, blocking send, stop.
- `WebSocketServer`: the frame queue, the serving thread and each viewer's buffer.

After a signal `run` returns and `stop` joins the viewer's thread, then the HTTP
thread, says goodbye to the client and closes the socket. `scenario`, chosen at
the start, says which of these are busy; TLC could not explore all at once.
In the scenario with viewers a tick is its publication alone (`Brief`).

**EntityStore, SpatialGrid, Morton.** The entity arrays with removal by
swapping, the counting sort by Z-order code, the radius query and the pair walk,
in the order of a tick: integrate, build, collide, replicate. The collision pass is
any displacement of at most `Drift`; the code has no such bound.

## Runs

| run | states | shows |
|---|---|---|
| `reliable_delivery` | 1.0 M | delivery is in order and exactly once (`InOrderExactlyOnce`) and implements the FIFO streams (`ImplementsChannel`); a message is lost only when a lost packet 0 is taken for acknowledged (`LostOnlyWithPacketZero`) |
| `reliable_liveness` | | every message is eventually delivered, apart from that loss |
| `reliable_loss` | | expected violation: `NeverLost`, see Divergences |
| `connection` | 0.24 M | both sides hold the same connection (`SameConnection`), their reliability endpoints are paired one to one (`EndpointsPaired`), a handshake is decided once (`DecidedOnce`) |
| `handoff` | 0.46 M | `SequentialSingleResident`, `TicketSpawnsOnce`, `PresenceConverges`, `RedirectedLeave` |
| `membership` | 2.5 M | a shard that refreshes undisturbed stays known to all (`SteadyKnown`), and when all have settled they derive the same running owners (`OwnersAgree`) |
| `snapshot` | 1.9 M | both sides keep the same frames (`FramesAgree`), the client catches up after losses and migrations (`Converges`), nobody starves (`NoStarvation`), a missing snapshot leaves a frame to render toward (`RidesOutOneLoss`) |
| `snapshot_codec` | 0.13 M | the client decodes what the shard recorded (`DecodesAsRecorded`); no record overflows the packet (`NeverMidway`) |
| `prediction` | 3.9 M | commands are applied once and in order, replayed once, and missed only with every packet that carried them; the last one is not repeated for ever (`RepeatsEnd`) |
| `redis_client` | 0.57 M | replies belong to their commands, commands run in order but for those given up (`OrderKept`), one fault is survived, `flush` returns |
| `shard_process` | 1.1 M | batches keep their order (`SentInOrder`) and every datagram is counted as sent or failed (`SendsAccounted`), drops are counted over wraps (`DropsSinceFirst`), clients that were heard are kept through stalls (`HeardIsKept`), catching up is bounded (`BoundedBurst`), concurrent recording loses nothing (`NoSampleLost`), quantiles fall on samples (`QuantileIsSampled`), HTTP clients are answered (`Answered`), viewers' losses are counted (`NoSilentLoss`) and their queue never stalls (`NeverStalls`) |
| `entity_grid` | 22 k | the index is right, each close pair is visited once, queries miss nobody but those the collision pass moved at the rim; the Z-order codes interleave bits (`CodesInterleave`, an ASSUME) |

Some properties say less than their names; their premises matter:

- `SequentialSingleResident` is about processes that follow one another, one
  matchmaker and replies that arrive. Without that, two shards can be
  authoritative.
- `ReplayedOnce`, `LossTolerated` and `ConfirmedWasSent` are about a client that
  was not restarted.
- `HeardIsKept` is about shards none of whose calls of `receive` took time.
- `QuantileIsSampled` is about hardware that keeps relaxed operations in order.
- `OrderKept` exempts the commands of attempts that were given up.
- `NoStarvation` needs room for one entry beside the viewer's own.
- `SteadyKnown` and `OwnersAgree` are about shards that refresh in every interval and
  whose removal nobody has decided on. A shard whose refreshes fail is not steady, and
  a late SREM starts its count again.
- `SurvivesRestart` is about a Redis that is back for the retry; a longer outage is a
  second fault.
- `PairsOnce` is about positions that stand still; `resolve_collisions` moves entities
  while it walks the pairs.
- `QueryComplete` is about pushes of at most `Drift`.

Divergences has what happens without the first four premises. `OrderKept` cannot
do without its own: the code promises no order across connections.

The runs leave out some invariants that hold in the same instances: the type
invariants (`TypeOK`, `SocketTypeOK`, `ViewerTypeOK`), `StreamInv` of
`ReliableEndpoint`, which is proved, `ConfirmedWasSent` and `SortedByCell`. Naming
them in the `.cfg` checks them.

### Bounds

- `reliable_delivery`: 9 packets over 6 numbers, so that packet numbers and the
  window of 2 start over; one overtaking and two losses in a row. Two messages do
  not bring message ids round; the proofs cover that.
- `connection`: two attempts from one address give every confusion of an old
  datagram with a new attempt; a third server salt lets a request be answered
  twice. One place lets other players have the server deny a handshake it challenged.
- `handoff`: two shards, two processes, three tokens: a session, a handoff, and a
  reconnect or a handoff back. A crash only in the sequential deployment, lost
  replies and two matchmakers only in the concurrent one.
- `membership`: two shards and the matchmaker, a TTL of 2 intervals, one fault: a
  crash, stop, start, failed heartbeat, or interval that passes in the middle of
  something. Redis holds anything a former fleet left. `SteadyTime` 3 is the least that
  holds: with 2, and two faults, a late DEL of an earlier life is executed in the
  first interval, and the hash is missing when a reader looks. More faults, and a
  restart (a crash and a start), are left to the proofs.
- `snapshot`: rings of 2, gone round twice or more. `CalmBound` 4 is twice the
  ring (3 fails); `WaitBound` 6 is least as well (5 fails) and also passed over 20
  ticks. The former shard's tick 2 is ahead of the new shard's first two. The
  rendering client updates one to three times a tick, up to a fifth of a tick early
  or late.
- `snapshot_codec`: three ids with gaps of one and two varint bytes; positions whose
  differences are the ends of the small range, one above it, and the whole axis;
  packets from a bare header to all three entities.
- `prediction`: redundancy 2, queue 2, four commands, two handoffs or drops.
- `redis_client`: four commands, three faults, four sockets.
- `shard_process`: a tick of 2 units, a timeout of 3; the thread is late by up to
  13, more than the 4 ticks it makes up for, in a run of 8 ticks; six arrivals and
  a one-bit drop counter, so that it wraps; two recorders
  and three buckets, with samples in two of them; three HTTP
  clients (prompt, half way, deaf); a keen and a slow viewer, four frames, two of
  them big, a queue of two.
- `entity_grid`: three entities on 4 x 4 cells, at
  the corners of four cells and in the last column; one moves in a tick, any number
  are pushed.

Most cfgs say `CHECK_DEADLOCK FALSE`: a bounded history ends when its bounds are
used up, and clients, viewers and callers may stop.

### Fairness

- `reliable_liveness`: one message; that a second one waits for it is not exercised,
  since with a ring this small fairness does not promise that an acknowledgement
  arrives before its packet is forgotten. Both sides flush every tick. The link is lossy but fair:
  of infinitely many packets (and of those with messages) some arrive. The
  run covers connections whose payloads leave room for the messages.
- `handoff`: a running shard keeps ticking, so it finishes `on_connect`, touches
  presence on its timer and drops redirected entries at their deadline. Nothing is
  assumed of clients, the matchmaker or expiry.
- `redis_client`: the calling thread runs, and its receive timeout ends a wait.
  Redis owes nothing.
- `shard_process`: the HTTP thread runs, and a client of it that does not read goes
  away in the end: `send` blocks without a timeout until then. The viewer's thread
  and `stop` run. Only `Keen` viewers read. Nothing is assumed of the tick thread.

## Proofs

Each theorem is `Spec => []P` for a property P of the run, with the constants free.

| module | theorem | property |
|---|---|---|
| `ReliableEndpointProofs` | `InOrderDelivery`, `Refinement`; `TypeCorrect`, `StreamInvariant` | `InOrderExactlyOnce`, `ImplementsChannel`; `TypeOK`, `StreamInv` |
| `ConnectionProofs` | `ConnectionsMatch`, `PeersMatch`, `HandshakesDecidedOnce`; `TypeCorrect` | `SameConnection`, `EndpointsPaired`, `DecidedOnce`; `TypeOK` |
| `RedisClientProofs` | `RepliesBelong`, `CommandsInOrder`, `OneFaultSurvived` | `RepliesMatch`, `OrderKept`, `SurvivesRestart` |
| `HandoffTicketProofs` | `TicketsRedeemedOnce` | `TicketSpawnsOnce` |
| `HandoffHomeProofs` | `OneResident` | `SequentialSingleResident` |
| `MembershipProofs` | `SteadyShardsKnown`, `RegionsAgree`; `TypeCorrect` | `SteadyKnown`, `OwnersAgree`; `TypeOK` |
| `PredictionProofs` | `CommandsAppliedOnce`, `CommandsReplayedOnce`, `RedundancyHelps`, `RepeatsAreBounded`; `TypeCorrect` | `AppliedOnce`, `ReplayedOnce`, `LossTolerated`, `RepeatsEnd`; `TypeOK` |
| `SnapshotProofs` | `FramesInAgreement`; `TypeCorrect` | `FramesAgree`; `TypeOK` |

None of these properties is inductive. Each proof has an invariant that is
(`IInv`, in the Handoff modules `TicketIInv` and `HomeInv`), one lemma per action,
and a last step that combines them. TLC has checked every one of these invariants on
the instance of the run. The
guards a model takes from its environment (Modules and code) are part of its `Spec`,
and so of the theorems.

**ReliableEndpoint.** Assumed are an even modulus (`SeqModAssumption`), a nonempty
window (`CapacityAssumption`), and `ReliableAssumption`: the messages of a window fit
half the ids (8 * 1024 of 2^16 in the code) and the network's bounds fit the modulus.
`InOrderExactlyOnce` says nothing of the copies of messages on their way, so the
invariant is `TypeOK /\ StreamInv`. `StreamInv` says that every copy of a message, in
`unacked`, in a packet or in the reorder buffer, carries its stream position modulo
`SeqMod`; that the reorder buffer holds undelivered positions only; and that
undelivered positions span at most half of the numbers. Over such a span the wrapping
comparison of ids is the comparison of positions (`WrapCompare`, `WrapInjective`), so
a message held back or released is the one its id says. `BufferedInv` and `RunInv`
show it for the two halves of `read_packet`. The refinement maps `queue_reliable` to
a `Queue` step, a `read_packet` that releases messages to a `Deliver` step, and all
else to stuttering.

**Connection.** Any finite set of clients, any number of places, attempts and salts.
That both ends hold the same pair of salts depends on what a late datagram can still
do. The invariant orders salts: nothing is from the future (`Past`); a client
answers only a challenge it was sent (`Answered`), one per attempt, and what the
server draws for a later attempt is newer than any response to an earlier one
(`OneResponse`); so the server decides handshakes in the order it drew their salts,
and a connection is the newest it decided (`NewestDecided`). An old response therefore
matches neither the pending handshake nor the connection. For `EndpointsPaired`,
`Linked` says which endpoints have exchanged a payload or still may, because the
connection stands or a payload is on its way, and that this relation is one to one. A new `Connection` keeps it so because its handshake was not
decided before: nothing on its way bears its salts.

**RedisClient.** Any number of commands and sockets, and two faults or more to be
counted, since one and more than one are told apart. Commands are numbered as they
are issued. `Newest`: the pipeline, or the batch being flushed, are the last numbers
issued. `Aligned`: the replies read, those in the socket and the commands Redis has
yet to run are, one after the other, the batch. `OldFirst`: what ran or waits on a
closed socket was issued before what waits, and was given up if it may run late.
`FaultsCounted`: every failed attempt has a fault of its own.

**Handoff.** Any number of shards, regions, processes, tokens, crashes and
matchmakers. For tickets: a token names one ticket and is drawn once, and a redeemed
ticket is no longer stored (`TicketInv`). For residence, in the deployments of
`OneByOne`: a *home* is a shard that simulates the player or is admitting it. A home
is where the presence record says (`HomeIsPresence`), so there is one. To keep it,
`OneAtATime`: one process plays, and none while the matchmaker is busy; `ReadsHold`:
what the matchmaker has read may be stale but no home came up since; `Stays`: whom a
shard holds has not gone elsewhere; `Expected`: a player handed over has no home, and
the record and the ticket name the same shard. The first version of the property did
not ask for one matchmaker; `ReadsHold` then fails, and TLC finds the history of
Divergence 2.

**Membership.** Any number of shards, regions and faults; a TTL of two intervals or
more (4 in the code), `SteadyTime` of three or more, and `SettleTime` no less than
either. The argument counts a shard's steady intervals. After one, no DEL of an
earlier life is left, so that after two its hash never expires (`Beating`) and no
listing finds it dead (`Spared`). A prune decided on before may still have removed it;
its next heartbeat makes it a member for good (`Member`), and every listing that
begins from then on finds it (`Found`). The hash of a shard that is steadily down
runs out within a TTL (`Down`), after which nobody finds it (`Buried`). So, once all
have settled, all lists are the running shards. That every region then has an owner
among them needs that ranks take every value below their number (`EveryRankTaken`).

**Prediction.** Any redundancy, queue, history and repeat count. Everything applied is
older than everything queued (`Slot`); a ticket, ghost or snapshot confirms every
command of the path it brings (`Confirming`); the replay is the newest commands
without a gap (`Consecutive`); repeats of the last command are the end of the path and
fewer than the ticks of the world (`LastRepeats`); and, for a client that was not
restarted, nobody has seen a command it has not given (`Sent`).

**Snapshot.** Any scenario, lengths of both histories and packet sizes. There is one
frame to a tick, whoever holds it (`OneFrame`): in the shard's ring, the client's ring
or a packet. The client may get the baseline of a snapshot after the shard has dropped
it, so `Deltas` says that a snapshot decodes against any frame of its baseline's tick,
left or still to come.

### Only model-checked

- Liveness: `EventuallyDelivered`, `PresenceConverges`, `RedirectedLeave`,
  `FlushReturns`, `Answered`, `NeverStalls`. Fairness and ENABLED are out of the
  prover's reach.
- `Converges`, `NoStarvation` and `RidesOutOneLoss` of `Snapshot`: their bounds
  (`CalmBound`, `WaitBound`) were found by TLC for the rings and crowds of the run; as
  functions of the constants they are not known.
- `LostOnlyWithPacketZero`: its inductive invariant has to say which packets an ack
  that wraps can mean, and so relates the send window of one endpoint to the receive
  window of the other through every packet in flight. That proof is more than twice as
  long as the one of `InOrderExactlyOnce`, past what the prover handles in one module.
- `SnapshotCodec`, `BitStream`: they fold over bits and records, and what that yields
  for every input is an induction over data. `EntityStore`, `SpatialGrid`, `Morton`:
  bit operations, and folds again.
- The threads of `ShardProcess`: `SentInOrder`, `SendsAccounted`, `DropsSinceFirst`, `BoundedBurst`,
  `HeardIsKept`, `NoSampleLost`, `QuantileIsSampled`, `NoSilentLoss`. The scenarios
  bound which threads are busy, and a proof would have to do without.

## Divergences

Where the code does not do what the repository says. The first has a run; for
the others, put the named property in place of the properties of the `.cfg`
named, with the change given.

1. **A message can be lost** (`reliable_loss`). An endpoint that has received
   nothing writes `ack = 0` (`net/reliability.cpp:67`). Its peer takes it for an
   acknowledgement of packet 0; if that was lost, its messages are dropped
   and those after them wait for ever. `reliability.h:53`: "guaranteed, in-order
   delivery".
2. **Two authoritative shards, by a race** (`Handoff.cfg`, `SingleResident`, with
   `Concurrent == Deployment(TRUE, FALSE, 2, 3, 0)`).
   `assign` writes back the record it read (`cluster/matchmaker.cpp:139`), undoing
   a handoff in between. With two matchmakers this also happens to processes that
   follow one another, when the `assign` of one that gave up ends late (24 steps,
   found while proving `OneResident`). `presence.h:65-66`: "A migration that races a reconnect
   or a second handoff loses instead of duplicating the player."
3. **The same, by a lost reply** (the same, with
   `Concurrent == Deployment(FALSE, TRUE, 1, 3, 0)`). `flush` sends the batch again
   (`cluster/redis.cpp:214`), the script refuses its own ticket, and the source
   keeps a player the record has moved. `tests/test_load.cpp:148-149`: "must never
   be authoritative on two shards at once".
4. **A stale acknowledgement after a handoff** (`Snapshot.cfg`,
   `AckedIsBaseline`). `adopt_migrated_state` keeps
   `latest_tick_` (`sim/client_view.cpp:62`); if it is ahead of the new shard,
   real acknowledgements are refused until the shard catches up, and then, as
   `Converges` shows, taken again.
   `snapshot.h:120-121`: "making it the new delta baseline".
5. **Confirmed before applied** (`Prediction.cfg`, `ConfirmedIsApplied`). The
   sequence confirmed is the newest received, queued commands included
   (`app/world_server.cpp:409`). `PROTOCOL.md:202`: "discard inputs the server has
   already applied".
6. **A returning client is not heard** (`Prediction.cfg`, `ConfirmedWasSent`
   without its premise). The ghost resumes the old numbering
   (`app/world_server.cpp:272`), the new process numbers from 1. `ReplayedOnce` and `LossTolerated` need their premise for the same
   reason: commands up to the ghost's number are taken for old ones.
   `ARCHITECTURE.md:172`: "reconnect resumes the same avatar in place".
7. **No repetition of the last command** (`Prediction.cfg`,
   `RepeatsBeforeCoasting` as a PROPERTY, `InputRepeatTicks = 2`). It is measured
   by `MoveInput::tick`, which is not sent (`sim/world.cpp:164`). `world.cpp:9-10`:
   "gets its last command repeated for this long".
8. **The newest frames are dropped** (`ShardProcess.cfg`, `OldestDropped`). A
   full send buffer keeps the old ones (`net/websocket.cpp:350`). `websocket.h:24`:
   "has its oldest queued frames dropped".
9. **The first drops go unreported** (`ShardProcess.cfg`, `DropsReported`). The first
   counter read is only remembered (`net/udp_socket.cpp:275`). `udp_socket.h:57`:
   "Datagrams the kernel discarded".
10. **State before the response** (`Connection.cfg`, `NothingBeforeResponse`). A
    request leaves a `PendingHandshake` (`net/connection.cpp:161`).
    `PROTOCOL.md:62`: "The shard allocates nothing until the response".
11. **Live clients timed out behind a slow Redis** (`ShardProcess.cfg`,
    `HeardIsKept` without `~stuck`). `ConnectionServer::receive` stamps every
    datagram with the time the call began (`net/connection.cpp:78`), and `admit`
    waits for Redis within it: after a wait longer than the timeout a client whose
    datagrams were just read is dropped by the next tick.
    `tests/test_resilience.cpp:78`: "The shards must keep simulating the players
    they already hold while the coordination store is unreachable".
12. **`+Inf` below the last bucket** (`ShardProcess.cfg`, `InfIsLast`). `expose`
    reads the buckets before the count, `record` counts after (`metrics/registry.cpp:133`).
    `tests/test_metrics.cpp:144` expects no line below the one before.
13. **A quantile at the last bound** (`ShardProcess.cfg`, `QuantileIsSampled`
    without `~relaxed`, `Scraped` with `{TRUE}`). With relaxed operations reordered
    a count may be seen before its bucket, and `quantile` falls through to the
    largest bound (`metrics/registry.cpp:27`).
14. **Simulation state read by the HTTP thread** (no property). The handlers of
    `/health` and `/state` read `players_` and the entities without
    synchronisation (`app/world_server.cpp:84-90`). `ARCHITECTURE.md:23`:
    "Simulation | tick thread, exclusively". The model's handler is that of
    `/metrics`, which reads atomics only.

## Not modelled

Floating-point data: movement, collision response, quantizers, interpolated
positions. Encodings that no property tells apart: RESP, SHA-1, message and ticket
layouts, JSON, HTTP text. Strings and byte runs of the bit streams. Counters and
gauges, which are single atomics. Logging, build information, the load test and the
benchmarks, which only drive or measure. Statistics (round-trip time, loss) feed
displays only. Roster sets and load-based choice among shards. The handlers of
`/health` and `/state`: their unsynchronised reads have no defined outcome to model,
and nothing depends on what they return.

SIGPIPE: nothing ignores it, and `send` on a stream the peer has closed
(`cluster/redis.cpp:91`, `net/http.cpp:269`, `net/websocket.cpp:308`) may end the
process. The models have such a send fail; the death of a shard's process is `crash`
of `Handoff` and `Membership`.

## Plan

1. Model: a ghost (20 s) that outlives the presence record (15 s); overflow in
   `write_packet`; the matchmaker's process.
2. Prove: `LostOnlyWithPacketZero` of `ReliableEndpoint`; `RidesOutOneLoss` of
   `Snapshot`; `SentInOrder`, `DropsSinceFirst` and `BoundedBurst` of `UdpSocket` and
   `TickLoop`.
