# Verification of snapcast-client

TLA+ models of the snapcast client (`src/`) and of the Spotify-fed server that
shares its protocol code (`server/src/`), TLC runs that check them on small
instances, and TLAPS proofs that hold for every value of the constants.

## 1. The system

```
 librespot ──packets──▶ PipelineSink ─▶ Pipeline ──chunks──▶ Registry ──queue──▶ writer ─┐
     │                 (server/sink)  (server/pipeline)   (server/net)  per client       │
     └──volume────▶ event task ──broadcast_settings──▶ Registry                          │ TCP
                                                                                         ▼
                    reader ◀──Hello, Time──────────────────────────────────────── ConnectedClient
                 (server/net, server.rs)                                  (client.rs: tick, ClientMachine)
                                                                                         │ chunks in sync
                                                                        player thread ◀──┘ (main.rs)
```

| Component | State | Operations | Interacts by | Hard part | What makes it correct |
|---|---|---|---|---|---|
| Stream server `server/src/net.rs` | registry (clients, volume, next id) behind a mutex; a bounded channel, a reader and a writer per client | accept, Hello, Time, fan-out of a chunk, broadcast of a volume, eviction, unregistration | threads, one mutex, channels, sockets | blocking sends, a peer that stops reading, leaving in the middle of a handshake, acting on ids after an unlock | no lost volume, the one in force comes last, handshake order, no zombie, only wedged clients evicted, everything reclaimed, nobody blocked for ever |
| Server session `src/server.rs` | `greeted` | Hello, Time | called by the reader | Time before Hello, repeated Hello | agrees with the reader's own idea of the client |
| Client core `src/client.rs` | newest offsets, sorted buffer, offset, time of the last request, settings | emit a request, take a reply, settings, schedule a chunk | called by `tick` | several requests on their way, leftovers of the sorted buffer | offset is a median of samples, bounded error, synchronization in bounded time |
| Driver `src/client.rs`, `src/main.rs` | position in the loop, `in_sync` | poll, read or time out, forward a chunk | socket; queue to the player | stale `in_sync`, the read timeout against the cadence of requests | nothing reaches the player on a bogus offset |
| TimeVal `src/proto.rs` | a pair of fields | conversion, normalisation, sums, order | used by all | carry, sign, truncation | sums keep the time, `sec < 0` means late |
| Pipeline, sink `server/src/pipeline.rs`, `sink.rs` | input and output buffers, anchor, count | start, write, stop; emit and pace a frame | runs on librespot's thread, calls the registry | stalls, restarts, sleeps that last too long | the source is throttled, no burst, timestamps in order |
| Framing `src/framing.rs` | header or payload | header, payload | by both machines | a read that times out halfway | stream stays in step |
| Player thread `src/main.rs`, `decoder.rs` | queue, decoder, player | wait, decode, write | queue and two mutexes | codec change with chunks queued, a panic with both mutexes held | no chunk through the decoder of an earlier codec header, the client ends rather than go on in silence |
| Spotify loop `server/src/spotify.rs` | cached credentials, session, player, event task | connect, retry, relay a volume | tokio tasks, librespot's player thread, `broadcast_settings` | an event task that outlives its session, a sink call that is going on when the player is dropped | no volume change missed, timestamps in order from session to session, a session follows, what is left behind ends |
| Discovery `src/mdns.rs` | a deadline | query, parse | UDP | a busy network and the deadline, answers that are half there | returns in time, address and port of one answer |
| Wire protocol `src/proto.rs` | - | write and read every message | both ends | offsets and lengths given twice, a client that lies about them, several requests under way | read as it was meant, nothing untrusted panics, a reply is about its request and brings the right times |
| Backends, configuration, sine source | - | - | - | - | not modelled, see section 8 |

The hazards of the code, each at its line with the properties that cover it, are
listed in `PROJECT.json`.

## 2. Modules

| Module | Models | Extends |
|---|---|---|
| `StreamServer` | `net.rs`, `server.rs`, the event tasks of `spotify.rs` | |
| `StreamServerProofs` | theorems | `StreamServer` |
| `ClientDelivery` | abstract: what the server promises one client | |
| `ServerDelivery` | that `StreamServer` implements it for every registration | `StreamServer`, instance of `ClientDelivery` |
| `ServerDeliveryProofs` | theorems, among them the refinement | `ServerDelivery`, `StreamServerProofs` |
| `StreamServerMC` | symmetry, views and constraints for the runs of both | `ServerDelivery` |
| `TimeVal` | `TimeVal` of `proto.rs` | |
| `TimeValMC` | running sums, and the loops of `normalize` | `TimeVal` |
| `Wire` | the messages of `proto.rs` as bytes | `TimeVal` |
| `Exchange` | a client and a server that exchange them | `Wire` |
| `ProtoMC` | both in one run | `TimeValMC`, `Exchange` |
| `ProtoProofs` | theorems about both | `ProtoMC`, `TimeValProofs` |
| `TimeValProofs` | theorems about the operators, induction over natural numbers | `TimeVal` |
| `ClientMachine` | `ClientMachine` of `client.rs` | `TimeVal` |
| `TimeSync` | the client core, its driver, `main`'s gate, the network and the server's stamps, composed | `ClientMachine` |
| `TimeSyncMC` | values for its runs | `TimeSync` |
| `TimeSyncProofs` | theorems about the schedule of a chunk, the median and the exchange of samples | `TimeSync`, `TimeValProofs` |
| `FrameReader` | `framing.rs` and the `read_exact` calls of `tick` | |
| `PlayerClient` | the two threads of `main.rs`, over `FrameReader` | `FrameReader` |
| `Discovery` | `mdns.rs` | |
| `ClientProcess` | `main.rs` from its start: discovery, connection, the two threads | `PlayerClient`, instance of `Discovery` |
| `ClientProcessMC` | scripts and answers for its run | `ClientProcess` |
| `ClientProcessProofs` | theorems about the threads, the discovery, and the two together | `ClientProcess` |
| `Pipeline` | `pipeline.rs` and `sink.rs` | |
| `PipelineProofs` | theorems | `Pipeline` |
| `SpotifySession` | `spotify.rs`, with the sink of each session | `Pipeline` |
| `SpotifySessionProofs` | theorems | `SpotifySession`, `PipelineProofs` |

Definitions in a module whose comment calls them a *mutant* are plausible bugs: put
in place of the definition they name, they make a property of a run fail. Nothing
else uses them.

### StreamServer

`clients`, `connOf`, `fullFor`, `volume`, `nextId` are `Inner` and its handles;
`queue`, `writer`, `inHand` are the channel and the writer thread of a registration;
`reader`, `greeted`, `myId`, `helloId`, `snap` are a reader's position and locals;
`pipe`, `todo`, `wedged` are `broadcast_chunk` and `sending`, `rest`, `vol` are
`broadcast_settings`, both caught in the middle; `sock`, `unread` are a socket and the
kernel's buffer for a peer that does not read. `told`, `last`, `given` are the history of
a channel; `overtaken` is history, too: the clients that settings of an older volume were
still on their way to when the volume changed last (`UnderWay`).

The grain is that of the shared accesses: a critical section that touches the registry
only is one step, the fan-out, which also touches channels that others use without the
mutex, is one step per client and holds the mutex (`LockFree`) meanwhile; a blocking
send is an action enabled when the channel has room; its failure, an action of its own
that is enabled once the receiver is gone. The order in which a `HashMap` is walked is
any order. What a channel holds is counted: no step depends on the messages, a channel
is first-in first-out, and the histories keep what the properties tell apart.

| Action | Code |
|---|---|
| `Accept` | `accept_loop` |
| `Hello`, `HelloFails`, `ReadSettings`, `SendSettings`, `SendCodec` | the Hello arm of `reader_loop` |
| `RecvTime`, `SendReply`, `SendRefused`, `ReadFails` | the Time arm, and every `?` of `reader_loop`; bytes that were buffered are read even of a socket that was shut |
| `Unregister`, `CloseSocket` | the end of `run_reader` |
| `WriterRecv`, `WriterWrite`, `WriterFails`, `WriterIdleExit` | `run_writer` |
| `BeginFanout`, `TrySend`, `EndFanout`, `Disconnect` | `broadcast_chunk`, `disconnect` |
| `BeginSettings`, `SettingsSent`, `SettingsRefused` | `broadcast_settings`, called by an event task |
| `PeerReads`, `PeerResets`, `Tick` | the peer and the clock (external) |

### ClientDelivery, ServerDelivery

`ClientDelivery` is what one client may count on, without threads, queues or other
clients: it joins once and leaves once, hears settings before the codec header and the
codec header before any reply, and is *current* from the settings that carry the volume
in force until that volume changes. `ServerDelivery` maps a registration to it:

| `ClientDelivery` | `StreamServer` |
|---|---|
| `standing` | `served` while the id is in `clients` and its writer receives, `new` before it has a writer, then `gone` |
| `heard` | the kinds of message its channel was given while served |
| `current` | served, and the last settings its channel was given carry `volume` |

A message counts as sent when it is queued: what a channel holds is written in order or
not at all. `Implements` says that every step of the server is, for each registration at
once, a step of `ClientDelivery` or a stutter; it is an action formula, as a property of
TLC cannot range over instances. The abstraction has
no liveness half: that who stays gets the volume in force at last is not a property of
its own but follows from `NoLostVolume` (it has it, or a broadcast or its handshake owes
it), `SettingsComplete` and `ReadersProceed` (whoever owes it gets on).

### TimeVal, ClientMachine, TimeSync

`TimeVal` is the record of the code with its two loops in closed form, `TimeValMC` has
the loops themselves. `ClientMachine` has one operator per handler of the client core,
on its six variables; its offsets are integers, and `Sorted` says what `sort` does: the
same elements, in ascending order. `TimeSync` runs
it: `BeginTick` is the top of `main`'s loop and the polling half of `tick`; `ReadTime`,
`ReadSettings`, `ReadChunk`, `ReadTimesOut` are the ways a `tick` returns, with what
`main` does about it. `AnswerTime` stamps a request when the server's reader gets it
and the reply when its writer sends it; `PushMessage` sends a chunk or settings. Both
directions keep order. Time is in microseconds and jumps from event to event
(`Advance`), so the constants of the code (1 ms, 1 s, 999 999 us) stand as they are. A
delay of the client's own thread is counted in the delay of its message.

### Pipeline

Audio is a length. `Start`, `Push`, `Stop` are the calls of the sink; in `PushFails` the
resampler fails on one of the batches of a packet, which loses that batch and leaves the
frames of those before it to the next call. `Pace` is `emit_frame` up to the sleep,
`EncodeFails` its other end, and `HandOut` what follows the sleep; between the two, and
anywhere else, the clock may move (`Tick`), so a sleep that lasts too long, a fan-out
that waits for the mutex and a source that stalls are all behaviours. Audio and time
share a unit that divides a batch and a frame.

### SpotifySession

`loop` is where `run` and `run_session` are. `Begin` builds a player with a new
`Pipeline` (whose variables it resets) and spawns an event task; `Connected` and
`ConnectFails` are `Spirc::new` and `activate`, and what their `?` does; `SessionEnds`
is the end of `spirc_task` and the `abort`. `Closed` is the end of `run_session`'s
scope: dropping librespot's player joins its thread, hence waits for the sink's call,
and closes the event channel.

An event task is one of `TASKS`. Tokio runs it in polls, and an abort is noticed between
two of them: a task that awaits an event (`"await"`) when it is aborted ends, one that is
in a poll goes on, through `broadcast_settings` (`"call"`) and to the next event of its
channel (`"poll"`, `TaskRecv`), until `recv` is pending (`TaskAwaits`). Its `owner` says
what happened to its session: running, over and the task `aborted`, with its channel
closed as well (`cut`), or only that (`drain`, after a `?`). So any number of earlier
sessions' tasks may broadcast beside the session's. The call itself is `StreamServer`'s
`BeginSettings` to `SettingsSent`, whose tasks may be any number at the same time, too.
Volume changes are numbered; `sent` and `aborted` are history.

### Wire, Exchange

A byte knows the value of its field, the field's width and its place in it; reading at
an offset that is not a field's beginning yields a wrong value, a slice past the end
panics. So the model has every offset, width and length of the code and leaves out only
endianness, UTF-8 and JSON's own syntax: a document of `JSON` bytes parses if it is
whole. A FLAC header is 32 bits packed into a number, which `FlacFrom` masks as the code
does. The writers and readers are operators of `Wire`.

`Exchange` has a stream of bytes each way, the server's channel between its reader and
its writer, and one action per message either end sends. The client sends requests
whatever is unanswered (`SendRequest`, as `poll_transmit` does), the server reads them
(`ServerReads`, `handle_event`, which stamps `TimeReply`), and its writer takes them from
the channel later (`AnswerRequest`, which stamps `Reply`); settings, codec headers and
chunks come between. What was asked and not yet answered is history: `requests`, the
`heardAt` and `writtenAt` of their first ones, and in `closed` those that the reply read
last is due to. `Falsify` puts another type or length into what the client wrote last;
what would follow it is read out of step, which is `FrameReader`'s subject, so that it is
the last message of the client.

### FrameReader, PlayerClient, Discovery, ClientProcess

The stream of `FrameReader` is the messages of a script, `HEADER` units of header and
then the payload; a unit is named by its place, so a read that does not begin where a
header or a payload does yields garbage and never a message. Garbage may pass for the
header of a chunk, of settings or of a Time reply, of any of `GARBAGE_SIZES`; it does
not pass for a codec header, whose name and lengths would have to match, and bytes that
pass for nothing are `Fails`. A timeout may fall before any unit: `read_exact` then
fails and what it had read is gone, which `torn` remembers. `framing` is kept across a
timeout, as in the code.

| Action | Code |
|---|---|
| `ReadUnit`, `ReadTimesOut` | `read_exact` in `tick`, with the socket's read timeout |
| `OnHeader`, `OnPacket` | `handle_event` of the client, `on_header` and `take_base` of the framing |
| `HandleNothing`, `HandleChunk`, `HandleCodec` | the arms of `main`'s loop |
| `InsertDecoder`, `MakePlayer`, `MakePlayerFails`, `InsertPlayer` | the codec arm: each lock and insert a step, and `make_player` between them, with neither mutex |
| `Fails` | every `?` of `main` that is left |
| `Take`, `LockDecoder`, `LockPlayer` | `recv`, the sleep and the two locks of `handle_samples` |
| `StartWrite`, `FinishWrite`, `Panic` | `latency_ms` to the call of `write`, its return, an `unwrap` that panics |

`Discovery` is the loop of `discover` and `parse_response` on datagrams of entries, some
of them cut short; a read waits for at most `TIMEOUT`, and `Again` looks at the deadline
between two reads. `ClientProcess` puts it in front of the two threads: `Discover`,
`Connect`, `GivesUp`, then `Run`, every action of `PlayerClient`. With the server given
on the command line a behaviour begins behind the discovery.

Both guards of `handle_samples` live to the end of the iteration: the patterns bind by
reference, which extends the temporaries. `main`'s are dropped after the insert, so an
insert is one step that waits for the mutex to be free. A panic drops the receiver and
poisons both mutexes, of which the player thread holds both whenever it can panic. The
process ends with `main`, after which no action is enabled: `SendFails` is the `?` behind
`sample_tx.send`, `Usable` the `unwrap` behind a lock. A decoder and a player are the
number of the codec header they were made for, which is what the properties ask. History:
`played`, with the latency that was read for it; `unheard`, how often `main` had work for
a player thread that was dead; `read`, the datagram read last.

## 3. Runs

All bounds are constants set in the configuration files. A run that ends at a bound of
time or is reduced by a view says so below.

| Run | Question | Instance |
|---|---|---|
| `server_safety` | is a volume lost between handshake, second Hello and broadcast; does the one in force come last; is who is registered served, and registered who is served; do session and channel agree; who is evicted deserved it; does every registration get what `ClientDelivery` promises | 2 connections, symmetric, 2 registrations, 2 event tasks, 1 slot, 2 volume changes; `OneOrTheOther` |
| `server_playing` | does every broadcast and every reader go on while chunks flow; is a wedged client dropped, a dead connection reclaimed | 1 connection, 2 tasks, 1 slot, 2 changes, fairness, source playing |
| `spotify_sessions` | is a volume change missed; timestamps from session to session; does a session follow; do tasks left behind end | 2 event tasks, 2 changes, packets of 2.5 frames, 4 ticks |
| `player_client` | discovery in time, from one answer; is the stream in step after timeouts; early chunks, order, chunks with the wrong decoder; does the client end when its player thread is dead; is a codec header installed | 5 datagrams, timeout 3; 4 scripts of 3 messages, headers of 2 units, latencies of 0 and 2 ms, 3 ms |
| `sync` | is the client synchronized in time and on the median; how wrong can a schedule be; do replies match requests once in sync | 3 samples, delays of 0.5 or 9 ms, 3 pushed messages that are 0.4, 970 or 1200 ms apart, two settings, 2.1 s |
| `proto` | do sums keep the time, are the closed forms the loops; is every message read as it was meant; is a reply about its request, with the server's times of it; is a falsified message harmless; is the volume rounded right | chains of 6 sums of 5 terms around zero and whole seconds; 2 messages under way or in the channel, one of them at most not a reply on the way down; 2 ids, 2 times, 2 chunks, 4 stream formats, 7 volumes, 24 lies, JSON of 6 bytes |
| `pipeline_paced` | does the source run ahead; bursts; order of timestamps | batch 4, frame 3, packets of 1, 5 or 9, 16 ticks, 1 failure of resampler or encoder |

Why the bounds are enough: a handshake, a fan-out and a broadcast interact through one
channel and one registration; two connections give a wedged client and a healthy one, a
second registration of a connection every overlap of two ids, two tasks two volumes in
flight. `server_safety` keeps `OneOrTheOther`: one registration sees two volume changes,
the second of which only the second task broadcasts beside the first's, and Time
requests; two registrations of one connection see one volume change or Time requests;
those of two connections see neither. A chunk, a lock and a slot are the same for all of
them, and their safety for any number of everything is proved (section 5). A full channel
happens with one slot, as with a kernel buffer of one message.
In the synchronization run two delays give every order of early and late requests and
replies, a gap of 0.4 ms a push that ends the client's read just before its first request
is due, so that it waits for a whole read timeout from there; three samples have a
middle that is neither extreme. The scripts of `player_client` have a chunk on each side
of a codec header, a chunk without one and two codec headers in a row; headers and
chunks of two units can be cut in the middle, and garbage of two sizes can skip to or
past what follows. Its datagrams have each record alone, both, two of a kind, one of the
wrong length and one cut off, so that two of them have a half each of a pair that none
has. Two messages of `proto` are enough for a request behind another one that waits, in
either stream or in the channel, and for a reply behind something else; that its length
does not matter is `EchoedCorrect`. Its lies name every type and one that does not exist,
and lengths on each side of what there is and of what is allowed. `pipeline_paced` lets
several frames be late at once and the sink restart several times.

The two halves of `proto` have no variable in common, and a behaviour is of one of them.
`server_playing` uses a VIEW without the histories, which no guard and no property of the
run reads. `TimeSync` and `Pipeline` stop at `MAX_TIME`, the client
process, the Spotify loop and an exchange may end, so their configurations do not check
for deadlock; those of `StreamServer` do. The type invariants of `StreamServer`,
`PlayerClient` and `Pipeline` are proved and not repeated in a run.

Runs that are expected to find a violation check what a comment of the code says
against what it does; section 6 lists them.

## 4. Fairness

`PlayingSpec` assumes weak fairness of every thread, that is, that it is scheduled;
of the source (`BeginFanout`), that it goes on playing; and strong fairness of the two
things a thread competes for, the mutex and a slot of a channel that is full. The
standard library promises neither, but the mutex is free for the rest of every chunk's
20 ms and a channel is either drained by its writer or its client evicted. Of a socket
that was shut the reader still gets what was buffered, which may be a request and its
reply; that it comes to the end of it is strong fairness of `ReadFails` there. Nothing is
assumed of a peer: it may stop reading for ever. `PausedSpec` leaves out the source.

`ProcessSpec` assumes that both threads of the client are scheduled, that a write and
`make_player` end or fail, each step on its own, and that time goes on; nothing of the
socket, so `Tick` has no fairness. Of the
discovery it assumes that a read times out and a connection is made or refused, not that
anybody answers or ever falls silent: `StartsOrGivesUp` is about the deadline. Its
mutexes need only weak fairness although the player thread takes them again for every
chunk: `main`, which waits, is the only one that queues chunks, so the queue runs dry
and the mutex stays free. That is the point of `CodecInstalled`, which breaks if either
guard is never dropped.

`SpotifyFairness` assumes that threads and runtime are scheduled, that a login succeeds
or fails and that a sink's call goes on. It does not assume that `broadcast_settings`
returns: with the source paused, as it is between two sessions, `server_paused` refutes
that. So `LeftoversEnd` is conditional: a task whose session is over ends unless it stays
in its call for ever. A session need not end and no phone need pick the speaker.
`SessionsFollow` leaves out two states of the bounded model (`AtBound`): a sink that
sleeps until after `MAX_TIME`, and no task left to give to a session, as blocked ones
hold all.

## 5. Proofs

`tlapm` proves, for every value of the constants that meets the modules' assumptions:

- `StreamServerProofs`: `TypeCorrect`, `ServedCorrect`, `NoZombieCorrect`,
  `VolumeCorrect`, `LastInForceCorrect`. The inductive invariant `ServerInv` adds to the types what ties a
  registration to its connection: a channel that still has a sender or a registration
  has an id that was given out, a registration whose writer ended has a shut socket
  (`ChannelInv`), and the ids a reader holds are of its own connection and registered
  unless its socket is shut (`HandleInv`). `NoZombie` is not inductive alone: eviction
  removes a registration and shuts a socket, and only `HandleInv` says that it is the
  socket of the reader that held that registration. `NoLostVolume` needs, besides, that
  whatever volume a broadcast carries is at most the stored one; its proof follows each
  registered client from the handshake that owes it a volume, through the broadcast
  that does, to the channel that has it. `LastInForce` adds in `ForceInv` that a client not
  in `overtaken` has nothing but the stored volume on its way, so that whatever comes last
  is that; a broadcast begins with the newest volume, which makes it so for everyone that
  nothing older is on its way to.
- `ServerDeliveryProofs`: `SessionCorrect`, `HandshakeCorrect`, `EvictionCorrect` and the
  refinement, `ServerImplements`. `PromiseInv` adds to `ServerInv` when a session counts
  as greeted (`SessionInv`) and what a channel was given at each place of its reader
  (`OrderInv`): settings before the reader sends the codec header, both once it holds the
  channel. That is what makes the header and a reply steps `ClientDelivery` allows; the
  proof takes every action to one abstract step for each registration, or to none.
  `WedgedInv` follows whom the fan-out is about to disconnect until it does.
- `SpotifySessionProofs`: `NoneMissedCorrect`, `SessionsInOrder`. `SpotifyInv` adds to
  `NoneMissed` that all an aborted task can still leave in its channel is known to have
  been there, also what came after the abort. `SessionsPaced` carries `PipelineInv` from
  one session's pipeline to the next one's: a new pipeline keeps the time of the last frame
  any pipeline handed out, but has no anchor of its own and has not been started, which
  `Unstarted` adds to the pipeline's own invariant.
- `ProtoProofs`: `RoundTripCorrect`, `EchoedCorrect`, `UntrustedCorrect`,
  `VolumeNearestCorrect`, for every id, time, chunk, volume and lie and any number of
  messages under way; for every Opus and PCM format and those of FLAC that its masks are
  right for, 16 bit stereo below 65536 Hz. The code has no writer of FLAC and WAV headers
  (another server's encoder makes them): theirs are the model's own, and the theorem is
  about the code's readers of them. The lemmas say where a field is in a concatenation
  (`At`) and follow each payload from its writer to its reader, up to `MessageBack`: what
  is read of a message is the message. `ExchangeInv` carries that through the streams: what
  is under way is the bytes of what was meant (`FlowInv`), and the requests not answered
  are, oldest first, the replies on their way down, the channel, and the requests on their
  way up (`TurnsInv`). A rank names the Time messages among all that are in a stream
  (`Ranks`), so that whatever else is read, written or skipped moves no request from its
  turn. That is why `Echoed` is about the *oldest* request; it holds of the wire, while the
  client subtracts the time of its *last* one, which is `sync_misattributed`.
  `UntrustedCorrect` needs no invariant but itself: it holds of what the server makes of
  *any* bytes. Of the sums,
  `LoopsComputeNormalize` is an induction on how often a loop runs, and `SumExactCorrect`,
  `LateCorrect` and `LoopsCorrect` hold for chains of any terms and any length.
  `ProtoImplementsBoth` is why a run of the two halves checks each.
- `TimeValProofs`: normalisation, sums and conversions keep the time
  (`NormalizeKeepsTime`, `SumsKeepTime`, `MicrosRoundTrip`), the sign of the seconds is
  right except at zero (`SignOfSeconds`), and the derived order is the order of times
  for the offsets the client sorts (`OrderOfTimes`, `OffsetsCanonical`), which lets
  `ClientMachine` keep them as integers. `InductionOnNat` is induction as a fact about
  sets of numbers (a set that is not all of them misses a least one), as the library's
  takes a predicate, which the provers cannot instantiate.
- `TimeSyncProofs`: the schedule of a chunk is exact (`ScheduleExact`) and the verdict on
  it right (`VerdictRight`), whatever the offset and settings; then all that the run
  `sync` checks, for any number of samples, any offset, delays and holds, and however many
  messages are pushed:
  - `NetworkInv` (`SyncTypeCorrect`): both streams keep order, nothing on its way arrives
    before now, before its shortest way or after its longest; a reply carries the
    time at which its request got to the server, no later than the last request may. The types alone are not
    inductive, as a sorted buffer is chosen: that there is a sorting of any buffer is
    `SortedSorts`.
  - `SampleInv` (`MedianCorrect`, `PlayoutWithinCorrect`): every sample is `Near` the true
    offset, although it may subtract the time of another request than its own, because
    `ReplyInv` bounds how much later that one was sent. `MiddleIsMedian` then says that a
    middle of a full sorted buffer is a median and lies between its samples: at least half
    of them are on each side of it. Before the buffer is full neither
    need hold, and nothing is played.
  - `OneRequestCorrect`: a second passes between the requests of a synchronized client and
    none is under way for so long; it needs `NetworkInv` only.
  - `ProgressInv` (`SynchronizesCorrect`): until the client is synchronized its next sample
    is under way, or about to be asked for, with a deadline that grows by one round trip
    with every sample. `LastTripInv` is what rules out that a reply ends the wait for
    another: once answered, the last request is at least the shortest trip old.
- `PipelineProofs`: `PipelineTypeCorrect`, `ThrottledCorrect`, `NoBurstCorrect`,
  `InOrderCorrect`. `PipelineInv` adds that the frame in hand was timed by the anchor
  (`PhaseInv`), that what is due next lies a frame after what was handed out, or is
  unanchored after a start (`OrderInv`), and how far behind a frame can be once one or
  two were handed out late at the same instant (`BurstInv`). `AheadInv` says for
  `Throttled` that the frames handed out since the start lie a frame apart, up to the last,
  which is not in the future (`NeverEarly`).
- `ClientProcessProofs`: `PlayerTypeCorrect`, `InStepCorrect`, `NeverEarlyCorrect`,
  `NeverBehindCorrect`, `PlayedInOrderCorrect`, for every script,
  any latencies and any number of timeouts. `StepInv` says exactly where the reader is
  while nothing was torn, `StreamInv` what holds of it even then. `GenInv` makes
  `NeverBehind` inductive: the decoder and the player are those of the codec headers
  before the message being read, or about to be, and no chunk in the queue or in the
  player thread's hands is ahead of the player, which is never ahead of the decoder.
  `LeadInv` follows the lead from the chunk whose latency it is through the next one's
  sleep. `OrderInv`
  lines up what was played, what is in hand and what is queued, all of it behind the
  message being read. `ProcessImplementsPlayer` is the refinement that brings all of it
  to the process: from its start to its end it is a behaviour of `PlayerClient`, whose
  variables stand still until the client is connected (`ProcessKeepsPlayer`). Of the
  discovery, `ReturnsInTimeCorrect` and `FromOneAnswerCorrect` hold for any answers,
  whenever they arrive. `DiscoverInv` says when the read under way began (before the
  deadline, hence it ends before twice the timeout) and that a server that was found is
  what the last datagram says. `DeadPlayerReadsNothing` is the safety half of
  `DeadPlayerEnds`.

One property was wrong and its proof showed it: `SynchronizesInTime` used to count the
read timeout from the start. But a push that arrives within the first millisecond ends
the client's first read before the first request is due, and the client then waits for a
whole timeout from there; `BeforeFirst` was not inductive until the bound had that
millisecond. No gap of the run was short enough to show it; one is now.

The assumptions are those the modules state of their constants: `JsonAssumption` (a
document is longer than a number and fits), `FormatsAssumption` (what the FLAC masks are
right for), `SyncAssumption` (there is a longest delay and a longest hold), counts and
bounds that are natural numbers.

Every safety invariant and action property that a passing run checks is stated by a
theorem. Only model-checked: liveness, as fairness and ENABLED are beyond the prover
(`SettingsComplete`, `WedgedDropped`, `ReadersProceed`, `Reclaimed`, `SessionsFollow`,
`LeftoversEnd`, `StartsOrGivesUp`, `CodecInstalled`, `DeadPlayerEnds`).

## 6. Findings

| Run | What it shows |
|---|---|
| `server_stale_volume` | a volume change that falls between reading and sending the handshake's settings is overtaken by the older volume, which the client keeps |
| `server_leak` | a reader that fails in the handshake leaves a registration behind |
| `server_paused` | with the source paused one client that stopped reading holds up the volume of the others for ever |
| `sync_misattributed` | while synchronizing, a chunk between request and reply makes the sample wrong on a perfectly even network |
| `pipeline_tail` | up to a resampler batch of audio is neither emitted by `stop` nor kept |

Smaller things that the models show and no run states: the first of two registrations of
a connection is left behind like that of `server_leak`, which has one; a chunk may be
queued ahead
of the settings and the codec header (`net.rs:280`; the client skips what it cannot
decode yet); until the buffer is full `clock_offset()` is not the median of the
measurements, as the sorted buffer keeps some of its earlier contents (`client.rs:137`);
and a read timeout inside a header or a payload leaves the client out of step with the
stream (`client.rs:257`), which is what the premise `~torn` of `InStep` is for. The masks
of a FLAC header (`proto.rs:492-494`) drop the highest bits of the rate and take channels
and depth from places that are right for 16 bit stereo only: 96 kHz or 24 bit FLAC is
misread; this server sends opus. Once credentials are cached, discovery is polled no more
(`spotify.rs:64`), so a phone of another account that picks the speaker is not heard, and
cached credentials that are refused are tried again at once and for ever. `discover` may
take almost twice its timeout, as the last read can begin just before the deadline. An
event task inside `broadcast_settings` is not stopped by `abort` (`spotify.rs:157`), nor
is one in a poll with more events to receive: it may send beside the next session's, and
store an older volume after a newer one. The lead of a chunk is the latency of the player
that wrote the one before, also when a codec header has replaced it (`main.rs:124`). After
a failed resampler batch the audio continues without it (`pipeline.rs:121`).

What bounds the damage of `sync_misattributed` is `PlayoutWithin`: a schedule is never
wrong by more than one downlink and half a hold one way, half an uplink the other.

## 7. Plan

Done: the modules of section 2, and a theorem for every safety property of a passing run.
Left, in this order:

1. Proofs: that each session of `SpotifySession` is a behaviour of `Pipeline` from a start
   of its own, which `SessionsPaced` stops short of.
2. `SpotifySession` and `StreamServer` in one specification: the volume that the last
   session's task and the next one's leave behind.

## 8. Not modelled

Audio: codecs, resampler, playback backends, the sine source. Argument parsing and
start-up. Logging and the drop counter. `TimeVal`'s `abs`, `div` and `millis`, which
nothing modelled calls. The mDNS query, a constant, and the compression of its names.
What a client makes of a server that lies: the client trusts its server, and slices and
unwraps what it sends. The endianness of numbers and the syntax of JSON. The packet ids
of pushed messages, which no reader uses. The client's write timeout, whose only effect
is that the client ends. Integer widths: ids of registrations are 64 bits wide, and the
i32 fields of a `TimeVal` overflow after 68 years, or for a server buffer of more than 35
minutes.
