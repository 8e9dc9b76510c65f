# Verification of lan-audio in TLA+

lan-audio sends the sound of a Windows PC to Android phones, over Wi-Fi (UDP)
or over USB (a TCP connection forwarded by adb). This directory holds TLA+
models of its concurrent parts and of its wire formats, the TLC configurations
that check them on small instances, and TLAPS proofs of the properties that
matter most.

    tlc -workers 2 -config MCRegistryWifi.cfg MCRegistry    # a model-checking run
    tlapm ClientRegistryProofs.tla                          # a proof module

`PROJECT.json` maps every definition to the lines it models and lists the runs,
the mutants, the findings, the hazards and the theorems.

## 1. Inventory of the system

| Component | Source | State | Operations | Hard behaviour | Module |
|---|---|---|---|---|---|
| Session server, client registry | `lan_audio_server/src/session.rs`, `metrics.rs` | map of clients, two USB queues, session counter, server-wide mode | websocket hello, registration with replacement, `set_audio_mode`, removal, stream attachment and loss, client events | one task per websocket; work left over after the lock; expiry; sessions removed by four different parties | `ClientRegistry` |
| Connection contract | `lan_audio_domain/src/lib.rs` | state, rollback state, failure code of a connection | `transition`, `fail`, `force_rollback` | driven by handlers with many early returns | `ConnectionContract`, `SessionContract` |
| Broadcast transport, encode worker | `transport.rs` | job and result channels, encoder pool, sequence counter, batch | capture, snapshot, encode per (codec, mode), fragment, fan out, settle failures | snapshots that outlive the client they describe; flags consumed before the packet exists; write timeouts | `BroadcastPipeline` |
| Data planes and router | `data_plane.rs`, `config.rs` | active format and codec | send on UDP or TCP, packets per frame, rollback | partial writes | `BroadcastPipeline`, `WireCodec`, `DesktopApp` |
| Protocol codec | `lan_audio_protocol`, `LasPacketParser.kt` | none | encode and decode LAS1, V2, V3; fragment PCM24; the phone's parser | truncation, boundaries, two implementations of one format | `WireCodec` |
| Audio capture | `audio_capture/`, capture task in `transport.rs` | device, accumulator, debug wav, bounded channel | build, start, read, stop, abort | device failure, deadline, abort during a read, full channel | `LoopbackCapture` |
| Adaptive runtime, watchdog | `adaptive_runtime.rs`, `watchdog.rs` | tier, streak, published slot, encoder settings | tick, stamp a job, re-baseline the encoders | flapping, stale profiles, recovery | `AdaptiveRuntime` |
| Clock sync engine | `sync_engine.rs` | Kalman and PID state | tick | floating point | the frozen flag, in `AdaptiveRuntime` |
| Reverse channel | `reverse_channel.rs`, `MicCaptureService.kt`, `ControlChannelService.kt` | microphone flag, pending volume | audio and control connections, stop | flags shared by connections, lost commands, framing | `ReverseChannel` |
| Service and desktop application | `service.rs`, `desktop/src-tauri/src/lib.rs` | status, run, configuration, workers | start, stop, restart, reconfigure, snapshot | stop during start, failure of one worker, a signal nobody hears | `DesktopApp` |
| USB and adb | `usb_transport.rs` | forwards set up by each run | reverse, remove | a run that removes what another set up | `DesktopApp` |
| Discovery | `discovery.rs` | none | reply, beacon | I/O only | a worker of `DesktopApp` |
| Android jitter buffer | `PlaybackJitterBuffer.kt` | ordered map, expected sequence, profile | push, pop, batch, drop, trim, reconfigure, clear | loss, duplication, reordering, wrap of 32-bit numbers | `JitterBuffer`, `OrderedPlayout` |
| Android session manager, playback runtime | `StreamSessionManager.kt`, `PlaybackSessionRuntime.kt` | sockets, device count, generation, reconnect attempts | hello, receive loops, start, stop, reconnect | framing after a timeout, callbacks of old sessions | only the device count and the use of the jitter buffer |
| Audio output, decoders | other Kotlin files, `cpp/` | ring buffer, codec state | write, decode | JNI and device I/O | – |
| Flutter UI, scripts, CI | `lib/`, `scripts/` | – | – | not part of the audio path | – |

How they interact. A phone opens a websocket; its handler task registers the
session in the registry and drives the connection's state machine. The capture
task reads the device and hands frames to the transport task over a bounded
channel. The transport task takes a snapshot of the registry for every frame
and sends it with the frame and the current tier to the encode worker, a thread;
the worker groups the clients by encoder, numbers the packets with one shared
counter and sends wire frames back; the transport task sends them and reports
failures to the registry. Over USB an accept task hands forwarded TCP streams
to the registry. The watchdog task publishes a tier every 500 ms. On the phone
the receiving thread parses and decodes into the jitter buffer, the playout
thread empties it, and the control thread reconfigures it. In the other
direction the phone's microphone and volume travel over two TCP connections of
their own. The desktop application owns all of it: it starts a run of the
service, signals its end and starts the next.

What makes them correct: the registry is bounded, has one session per device
and counts its sessions; a handler keeps the connection contract; a USB stream
has one owner; a packet reaches a session with increasing numbers and the
boundaries of a switch are marked, as far as the code can; a broken stream is given up; what is encoded
is decoded, by the phone too; no captured sample is lost and the device is
released; degradation is immediate and recovery certain; playback is in order
and never gets stuck; there is one run of the service at a time, and what the
page shows is that run.

## 2. Modules

| Module | Models | Notes |
|---|---|---|
| `ClientRegistry` | `SessionServer::handle_client`, `ClientRegistry`, `Metrics.active_sessions`, the device count of the phone | the core |
| `ConnectionContract` | `ConnectionStateMachine` | abstract specification: what a connection may do |
| `SessionContract` | the `conn_state` of every handler | extends `ClientRegistry`; implements `ConnectionContract` once per session |
| `BroadcastPipeline` | capture, encode worker, fan-out | extends `ClientRegistry`; replaces its abstract send failures by the transport task |
| `WireCodec` | packet formats, fragmentation, the phone's parser | bytes |
| `LoopbackCapture` | capture source, accumulator, debug wav, capture task | |
| `AdaptiveRuntime` | watchdog tick, published tier, encoder pool and settings | |
| `ReverseChannel` | both reverse listeners and their peers on the phone | |
| `DesktopApp` | commands of the desktop, runs of the service, adb forwards | |
| `JitterBuffer` | `PlaybackJitterBuffer` and its three threads | implements `OrderedPlayout` |
| `OrderedPlayout` | – | abstract specification: what a listener is promised |
| `*Proofs` | – | TLAPS, one each for `ClientRegistry` (with `SessionContract` and the contract itself), `BroadcastPipeline`, `WireCodec`, `LoopbackCapture`, `AdaptiveRuntime`, `ReverseChannel`, `DesktopApp`, `JitterBuffer` |
| `MCRegistry`, `MCPipeline`, `MCAdaptive`, `MCJitter`, `MCWire` | – | instances for TLC |

### ClientRegistry

`clients` is the key set of the map and `handle` the record a hello prepares
(`ClientHandle`); the two queues, the counter and the mode have the names of the
code. `pc` is the place of a handler task, `victim` the removed client a task
must still account for (`dec_sessions` and `client_left` run after the unlock)
and `bcast` the events it collected under the lock. Everything under one lock
is one action; what follows the unlock is another, so that any task may run in
between:

| Action | Code |
|---|---|
| `HandshakeFails`, `ReceiveHello` | hello timeout; parse, read the mode, negotiate |
| `RegisterClient`, `Depart`, `SendCollected` | `register_client` under the lock; the rest of a removal; the collected events |
| `SetAudioMode`, `SetClientMode` | the handler's write of the server-wide mode, then `set_client_mode` |
| `SessionEnds`, `SessionReadError` | the loop breaks and calls `remove_client`; the early return that does not |
| `AttachUsbStream`, `MarkUsbTransportLost`, `TakeBroadcastClients` | the methods of the same name |
| `WifiSendFails`, `UsbSendFails` | what the transport does after a failed send |

A device stands for its name and address. Sample rates, ping/pong, the
watermark slot and message texts are left out. Time is free: a client in the USB
queue may have waited for more than 60 s at any time, in queue order.

### ConnectionContract and SessionContract

`ConnectionContract` is the machine of the domain crate on its own: its owner
may call `transition`, `fail` and `force_rollback` in any order, and what is not
allowed changes nothing. `SessionContract` adds one such machine, `conn[s]`, to
every handler of the registry and makes the calls where `handle_client` makes
them; a handler that returns through `?` leaves its machine where it is.
`ConnectionFollowsHandler` relates the machine to the handler's place and to the
map. That every handler keeps the contract is proved (section 4).

### BroadcastPipeline

`jobs` and `results` are the channels, `work` the job being encoded, `batch` the
wire frames still to send, `failed` the failures noted in the batch. A job
carries snapshots, as in the code. The worker encodes group by group
(`WorkerEncodes` takes one number for a packet) and hands a packet to the
recipients of its group one by one (`WorkerFansOut` takes the numbers of further
fragments). A frame is a number; an Opus packet needs two frames, a PCM24 frame
takes `FRAGS` packets. The 32-bit sequence counter is modelled without its wrap,
which takes 2^32 packets; what the receiver makes of the wrap is in `JitterBuffer`. `stream` says what has
happened on a forwarded TCP stream: a write of 250 ms may be cut inside a frame
("torn"), and a frame written behind the stump makes it unreadable ("garbled").
HashMap order is a nondeterministic choice. Sends are `UdpSend` and `UsbSend`.
`swallowed` is a history variable: what the snapshots said (`Mark`) whose frame the Opus
encoder only buffered or failed to encode.

### WireCodec

The encoders append field after field; the decoders have a table of offsets and
widths of their own (`LAS1At`, `V2At`, `V3At`), because the code has both: a slip in
either breaks `RoundTrip`. `Decoders` are the three of the protocol crate,
`PhoneParse` is the phone's. `SendPacket` encodes what an encoder of each kind
produces, with the rates and frame counts of `EncodedFrames`; `Deliver` and
`Truncate` are the network. Numbers stay below 2^31, so a 64-bit field has zero
upper bytes.

### LoopbackCapture

`acc` is the accumulator, `endpoint` what the device holds, `task` the place of
the capture task; a read is `BeginRead`, then fills until a frame is complete or
the deadline has passed (`late`). `Abort` is tokio's abort at the end of a run,
which takes effect at an await point; `DoStop` is what `stop` and the drop of
the client do. A fill can fail at every call it makes, and each failure is an action
of its own, because each leaves something else behind: `FillFails` (nothing taken),
`NullBuffer` (the packet is given back unread), `ReleaseFails` (its samples are in the
accumulator and the device still holds it). All three end in `SetFailed`.
`into_audio_frame`, the last call that returns an error, cannot fail there: it
refuses a frame of another size, and `pop_frame` only makes frames of the right one
(lemma `PoppedWhole`). `SendFails` is the channel whose receiver is gone. `wav` is the
debug file with the length its header promises. A
sample is only the flag that its packet was silent, which the kind of a frame is
computed from.

### AdaptiveRuntime

The load is reduced to zones against the thresholds; any zone may follow any
other, because the predictor is not modelled. An encoder holds its settings
(bitrate, complexity, frame length ...) for its mode; `EncoderPool` is what the
worker does to its encoders for one job. `demand` and `settled` are history
variables, and `clock` flips with every tick, so that weak fairness also covers
ticks that decide nothing new.

### ReverseChannel

Volume commands are numbered in the order of queueing, and the number is also
the volume, so the phone's volume tells which command it applied last. A byte
stream is a sequence of lengths and payloads; the phone writes them one after the other
(`PhoneSendsLength`, `PhoneSendsPayload`) and may stall, leave or break in between, so
that a handler can wait for a payload that never comes (`InsideFrame`). `said_active` and the places of
the handlers make explicit who wrote the shared microphone flag last.

### DesktopApp

Tauri runs commands one at a time on the main thread (`pc`); every start spawns
a task (`stage`) that spawns the workers of the service. The state lock is only
held for short blocks, each of them one action, so that a run may fail between
any two blocks of a command. `told` is who has received the stop signal: a
broadcast reaches only those that have subscribed. `served` is the configuration
a run was built with, `adb` the forwards on the phone, `tracked` what each run
believes to own, and `refused` the forwards that a manager gave up without getting rid
of them, because adb refused (`RemoveForward`). `Holds` is what a run keeps of the ports:
the TCP listener of a USB run is shared with its accept task, which subscribes to the
signal on its own, is joined by nobody and may outlive the run.

### JitterBuffer

`frames` maps sequences to frame numbers, as the TreeMap does, so that the
properties can speak about the order of production while the buffer only sees
numbers modulo `MOD`. `receiving` is the packet between the clear that a flag
causes and the push. `Produce` has the assumption serial arithmetic needs:
everything in play spans less than half of the sequence space. All frames have one
duration; the code takes the duration over from every packet, also from one it then
drops as late.

## 3. What is checked

Passing runs. The bounds are the smallest at which the cases of interest occur;
all of them are named in the modules or in the cfg.

| Run | Instance | Shows |
|---|---|---|
| `registry_wifi` | `ContractSpec`; 3 sessions, 3 keys, 3 devices, `MAX_CLIENTS` 2, v2 and legacy clients | `TypeOK`, `Capacity`, `UniqueKeys`, `SessionCountExactOnWifi`, `RejectionIsClean`, `ConnectionFollowsHandler`: three sessions are needed to have a replacement, a full map and a removal at once |
| `registry_usb` | 3 sessions of a v2 and a legacy device, 2 streams, mode requests | `UsbQueueExact`, `StreamOwnership`, `SessionCountNeverShort` with loss, expiry and replacement |
| `pipeline_usb` | 2 sessions, 2 streams, PCM24 in 2 fragments, 2 modes, 2 frames, a switch of mode and codec | `BrokenStreamsReleased`, `SequenceIncreases`: two groups and a second frame are needed for a reused number, a stream lost and another attached for a stale failure |
| `pipeline_wifi` | an Opus session or a legacy one, 4 frames, switches of the mode with and without the codec | `FlagsLostOnlyByBuffering`: a packet of two frames before the switch, and two frames after it, of which the first takes the flag and is only buffered |
| `wire` | fragments of at most 2 bytes, at most 3 of them, payloads up to 7, 2 packets, sequence from 255 | `RoundTrip`, `TruncatedRejected`, `PhoneAgrees`, `FragmentsReassemble`: a payload of 0, of whole and of broken fragments and one too long; a number that needs its second byte |
| `capture` | frames of 2 samples, packets of at most 3, 2 packets in the device, a channel of 1, a wav of 3, 6 samples | `NoSampleLost`, `BacklogGrowth`, `WavHeaderTrue`, `ReadReturns`, `DeviceReleased`: a frame from two packets, a packet larger than a frame, a device that fails at any call, a wav that ends inside a frame, a full channel at the end of a run |
| `adaptive` | hold window 6 as in the code, 2 modes with different settings, 2 jobs | `NeverBelowDemand`, `PoolAtAppliedTier`, `PromotionSpaced`, and `Recovers` (liveness) |
| `reverse` | 2 microphone and 2 control connections, 2 commands, a frame of the buffer's size per connection | `FramingKept`, `MicFlagCleared`, `CommandsInOrder`, `StopHeard`: two connections so that an old handler and a new one overlap |
| `desktop` | 2 starts of the service, every configuration | `OneRunAtATime`, `PortsFreeOnStart`, `NewestRunShown`, `SnapshotConsistent`, `ForwardsOwned`, `StopEndsRun`, `PortsComeFree`: an old run that ends while the next starts |
| `jitter` | 12 sequence numbers, 6 frames around the wrap, 2 profiles | `TypeOK`, `PlaysInOrder` (refinement of `OrderedPlayout`), `PlayoutNeverStuck`, `LatencyBounded` |

Every property of a passing run has a mutant in `PROJECT.json`: a plausible
fault of the code under which TLC finds the property violated.

Symmetry is used for sessions and streams, in runs that check no liveness.

Runs that end in a violation. They state what a document or a comment says,
and the code does otherwise.

| Run | Says | What happens |
|---|---|---|
| `torn_stream` | `docs/protocol.md:65`: length and payload alternate | after a write cut at 250 ms the frame of the next queued job is written to the same stream, behind the stump |
| `stopping_passes` | `README.md:62`: one-click start/stop; `orchestrator.rs:21`: "service is stopping; try again shortly" | the stop signal is broadcast before the run has subscribed, or to a run that has ended before it was published; nobody hears it, and the status stays Stopping |

**Fairness.** `adaptive`: weak fairness of the tick (an interval timer), of
capture (driven by the audio device, or by the synthetic source) and of the
worker (a thread blocked on its channel); nothing about which load is seen,
`Recovers` has the premise that the load stays low. `desktop`: weak fairness of
the main thread, of every run's task, of workers that were told to end and of an accept
task that has its signal or whose channel is closed; nothing about the user, about adb or
about failures. `reverse`: the handler tasks are
scheduled, and a `select!` that waits for frame and signal does not overlook the signal for ever (tokio polls its branches
in random order, hence strong fairness); nothing about the phone, not even that a payload
it has announced arrives. `capture`: weak fairness of every step
of the capture task, of the passing of a deadline, of a send into a channel that
is read and of the end of the broadcast loop after shutdown; strong fairness of
the abort, because it takes effect at the next await point, and the task comes
by one in every round.

**Deadlock** is checked except where the modelled system really stops: a
stopped reverse server (`reverse`), a run whose capture has ended (`capture`),
all packets sent (`wire`), and the desktop, where a command that waits for a run
that missed its signal blocks for ever (`desktop`, `stopping_passes`).

### Observed while modelling

Not made into runs; the models contain the behaviour. Where a property has an exception,
the exception is one of these.

Registry and sessions:
- a websocket read error returns before `remove_client`, the client stays
  registered and counted (`session.rs:525`; `docs/desktop_ui.md:76` equates the
  counter with the connected devices);
- the 60 s expiry of a waiting USB client removes it without `dec_sessions` and
  `client_left` (`session.rs:793`, `:803`);
- a USB client that waits is not replaced, so two USB sessions coexist
  (`session.rs:603`); a stream may be queued while a client waits
  (`session.rs:833`, against the text of `:829`);
- the handler of a replaced session still changes the server-wide mode
  (`session.rs:466`); `set_client_mode` grants PCM24 without the capability
  (`session.rs:748`); the phone counts a joining device twice
  (`StreamSessionManager.kt:387`);
- a handler that returns through `?` leaves its `ConnectionStateMachine` in
  Handshaking or Streaming; nothing calls `force_rollback` of the machine or
  brings it to Reconfiguring or Recovering.

Transport and encoders:
- with Opus, the default codec, flags get lost: they are consumed with the snapshot
  (`session.rs:876`), and when the encoder only buffers that frame (`transport.rs:1558`)
  the first packet of a session or of a new mode does not carry them, although
  `docs/protocol.md:49` and `:358` say that the receiver is told.
  `FlagsLostOnlyByBuffering` shows that this is the only way;
- a stale failure drops a healthy new stream
  (`transport.rs:802`); the job and result channels are unbounded
  (`transport.rs:597`); other groups see gaps in the shared sequence numbers;
- a service started in `ultra_low_latency` captures 5 ms frames, but the PCM16 and
  Opus encoders always emit 10 ms per frame, repeating the last sample
  (`transport.rs:1694`);
- ticks in steady yellow count towards a promotion (`watchdog.rs:179`); the red
  tier raises the Opus settings of `ultra_low_latency`, masked by the fallback to
  PCM16.

Capture and wire:
- every read takes at most one frame per packet (`windows_loopback_windows.rs:605`): with
  5 ms frames and device packets of about 10 ms the backlog grows without bound, and a
  read that finds no packet sends silence while a complete frame waits.
  `BacklogGrowth` says by how much a step can add to it; with packets of at most a
  frame that is nothing;
- a read error leaves the source Failed for good and nothing rebuilds it; the mix
  format is leaked when `Initialize` fails;
- V3 shares the magic `LAV2` and nothing on the phone reassembles V3: a client
  that is given PCM24 is silent; a V3 header of 220 frames at 44.1 kHz says 4 ms;
- a garbled USB stream whose lengths happen to match is not detected, there is no
  checksum.

Reverse channel: the phone's first `volume_changed` overwrites the volume after a
delivered command; `mic_active` is one flag for all connections; a command is
lost when its write fails (`reverse_channel.rs:369`); the payload read is outside the
`select!` that hears the shutdown (`reverse_channel.rs:256`) and `stop` aborts the
listeners only, so a handler that the phone leaves inside a frame outlives `stop`, whose
comment says "Signal all tasks to stop and abort them" (`:134`): the exception of
`StopHeard`.

Desktop: a run is published after its task was spawned (`lib.rs:692`); the
teardown of an old run may remove the forwards of a new one; the accept task and
aborted reverse listeners are not awaited, so a restart on USB can fail at "bind tcp
transport" while the old accept task still has the listener (`transport.rs:489`); a forward
that adb refuses to remove stays with no owner, because the list is emptied first
(`usb_transport.rs:97`); a worker's failure is only logged;
`switch_to_rollback` restarts a stopping service; `restart` blocks the main thread
on a task that missed its signal (`lib.rs:725`); the page and `config.rs` disagree
on the effective codec when PCM24 is asked for (`lib.rs:769`, `config.rs:212`).

## 4. What is proved

42 theorems; all 34 safety properties of the passing runs are stated by one. The runs show these
on small instances, the theorems for every value of the constants that satisfies
the named ASSUMEs of the modules. The ASSUMEs are evaluated by TLC in the runs;
they give the constants their types, keep markers such as `None` apart from real
values, and state the facts of the code that are named below. Each inductive
invariant was first checked by TLC on the instance of the component's run.

### ClientRegistryProofs

For every finite set of sessions, every set of streams and every positive capacity.

| Theorem | States |
|---|---|
| `TypeCorrect` | `TypeOK` |
| `RegistrySafe` | `Capacity`, `UniqueKeys`, both session counts, PCM16 on the legacy data plane |
| `OneSessionPerKey`, `SessionCountCovers`, `SessionCountExact` | `UniqueKeys`, `SessionCountNeverShort`, `SessionCountExactOnWifi` |
| `CleanRejection` | `RejectionIsClean`: a refused registration evicted nobody |
| `UsbQueueAlwaysExact`, `StreamsOwnedOnce` | `UsbQueueExact`, `StreamOwnership` |

The first invariant is `RegistryInv`. Besides the properties it needs
`HandlerPhases`: a session that has not registered is not in the map (otherwise the
insertion might not raise the cardinality), and only a task that announces or leaves
owes a `dec_sessions` (otherwise a new debt could overwrite an old one). The counter
is proved in the form "clients plus debts", because it is not exact between a
removal and its `dec_sessions`. The cardinality arguments rest on
`FiniteSetTheorems`.

The second is `UsbInv`, in which the two USB properties need each other: the client
queue is exact only if an attached stream was free, and a stream is free only if the
queue from which it came is disjoint from the streams in use. It adds that every
stream in the queue or in use was accepted (a newly accepted one is therefore owned by
nobody) and that a session outside the map has no transport. The operations on the
queues are lemmas over arbitrary maps and queues (`UsbLeave`, `UsbJoinWifi`, ...), so
that registration, which may expire, replace, evict and attach in one step, is their
composition.

The connection contract is proved in the same module. `ContractSafe` (which combinations of state, rollback and failure code occur,
whatever the owner calls) and `ContractFinal` (what a step may never do: leave Closed,
undo a rollback) are about `ConnectionContract`, through the instance
`Contract(s)` of each session. `HandlersFollowed` is `ConnectionFollowsHandler`.
`HandlersKeepContract` is the refinement: for every session the machine its handler
drives implements `ConnectionContract`. The invariant `ContractRegistryInv` adds the
machine's state per place of the handler to `RegistryInv`; every step of the registry
maps to a call of that session's machine or to a stutter, because a handler touches
only its own machine.

### BroadcastPipelineProofs

For every number of frames and of PCM24 fragments, over any registry.

- `NumbersIncrease`: `SequenceIncreases`.
- `BrokenStreamsGivenUp`: `BrokenStreamsReleased`.
- `PipelineKeepsRegistry`: `PipeSpec => Spec`. The transport task, with its snapshots,
  batches and failures, does to the registry only what the abstract send failures of
  `ClientRegistry` allow, so the theorems of the registry hold of the composed system.
- `SwitchesAnnounced`: `FlagsLostOnlyByBuffering`, for every codec.

`PipeInv` adds to `RegistryInv` and `UsbInv`:

- `JobsWellFormed`: a job names a session once. Otherwise two snapshots of one session
  in one group would be given the same number.
- `Numbering`: put in one row per job, the rest of the batch, the results that wait and
  the packets the worker has made are numbered upwards for each session, beginning
  above the packet handed out last and ending below `NextNumber`. That is the counter,
  except for a session that still has to be given the packet in the worker's hands:
  then it is the number of that packet, which other recipients may already have
  exceeded.
- `StreamsKeepOwner`: a stream named by anything in flight belongs to the session it is
  meant for, or to nobody. A stream is never handed to a second session, although
  the session it was captured for may have lost it long ago.
- `FailuresNoted`: a stream on which a write failed belongs to nobody, or to a session
  in `failed`. With `StreamsKeepOwner` the failure of an old snapshot can only be noted
  for the session that owns the stream, if anyone does.

`BoundaryInv` is the invariant of `SwitchesAnnounced`. It looks only at the marks
(session, frame, mode, flags) of the packets and of what was `swallowed`, and sees what is in flight as one line of stages:
the rest of the batch, each waiting result, the worker's hands, each queued job.

- `NothingWithheld`: an encoded packet reaches every recipient of its group; a legacy
  client has a codec its data plane can carry.
- `InOrder`: along the line the frames increase, one mark per session and frame, and none
  precedes the packet its session was handed last.
- `SwitchesMarked`: between two packets of a session in different modes there is a mark with
  `config_changed`, in flight, handed out or swallowed; a mark in another mode than the session's present one is followed by
  such a mark, or the flag is still pending.
- `StartsMarked`: the same for `discontinuity` and a session without a packet.

Encoding turns the marks of a group into packets or into swallowed ones. Moving a job to the worker and its result to the batch removes or inserts an empty stage
(`StageGone`, `StageAdded`) and changes no mark; only capturing a frame adds marks, and
only sending one takes the first away.

### WireCodecProofs

For every fragment size, payload length, set of source formats and preferred rates,
first sequence number and number of packets, under `WireSizes` and `FieldsFit`: a payload
or fragment has a length of 16 bits, the counters stay below 2^31 and a frame has at most
255 fragments.

| Theorem | States |
|---|---|
| `WireInvariant` | `WireInv` |
| `RoundTrips` | `RoundTrip` |
| `TruncationsRejected` | `TruncatedRejected` |
| `PhoneReadsWhatIsSent` | `PhoneAgrees` |
| `FragmentsGiveThePayload` | `FragmentsReassemble` |

The argument has three layers. Fields: a number that is appended is held at the offset
where the bytes ended, and later fields do not move it; so each header holds every field
at the offset of the decoder's table, and a number that fits its width is read back.
Packets: the magic separates LAS1 from the others, version and header size separate V2
from V3, and a cut datagram is shorter than header and payload size say. `PhoneAgrees`
also needs that a whole number of milliseconds gives back the number of frames, which is
arithmetic on the rates `NormalizeEncoderSampleRate` leaves. Fragments: the chunk of an
index begins where the one before it ended, and the last ends the payload.

`WireInv` supplies what these need of a state: a sequence number belongs to one packet
(otherwise `logical_seq` would mix the fragments of two frames), every datagram is an
encoding of a packet that was made, and what was cut off is a beginning of one.

### LoopbackCaptureProofs

For every size of frame, packet, channel, device and file.

- `BacklogSafe` (`BacklogGrowth`), with no hypothesis on the sizes: `AccInv` is only the
  types, and the lemma `AccStep` goes through what each step adds and takes.
- `SamplesKept` (`NoSampleLost`): what was delivered and what is being sent is always a
  prefix of the captured samples; while the source runs it continues with what the
  accumulator holds, and the packets in the device continue that without gap or overlap.
  `SampleInv` adds that a frame is held only between its read and its send, that nothing
  is read or sent unless the source runs, and that the accumulator is empty until the
  device runs. The second is what makes the error paths harmless: a failure that drops a
  packet or leaves one both pushed and held ends the reads of that source for good.
- `WavSafe` (`WavHeaderTrue`), from `WavInv`, that the file never has fewer samples
  than were counted.

### AdaptiveRuntimeProofs

For every hold window, set of modes and queue bound: `WatchdogSafe` and `DemandMet`
(`PoolAtAppliedTier`, `NeverBelowDemand`), `PromotionsSpaced` (`PromotionSpaced`). The
lemma `GreenIsBaseline` shows that the two tables of settings, one for new encoders
and one for tiers, agree in every mode; without it an encoder that was created and one
that recovered would differ. The invariant adds `healthy_streak <= settled`: the streak
can only have grown since the last change.

### ReverseChannelProofs

For every number of connections, frames and commands. `ReverseInvariant` is
`Spec => []ReverseInv`; from it follow `FramingNeverLost` (`FramingKept`),
`MicFlagFollowsHandlers` (`MicFlagCleared`) and `VolumeNeverReverts`
(`CommandsInOrder`).

- Framing needs that lengths and payloads alternate in the whole stream, not only at
  its head, and the assumption `FrameFits`: the phone's frames fit into the server's
  buffer, as the constants of both sides say. Without it a refused length leaves its
  payload in the stream.
- The order of commands needs `Between`: a command in a handler's hands or on its way
  to the phone that is connected is newer than what the phone applied and older than
  what is pending. Commands of a connection that the phone has left are not ordered,
  and need not be.

### DesktopAppProofs

For every number of starts and every set of codecs. `DesktopInvariant` is
`Spec => []DesktopInv`; from it follow `RunsExclusive` (`OneRunAtATime`),
`PortsReleased` (`PortsFreeOnStart`), `NewestShown` (`NewestRunShown`),
`SnapshotAgrees` (`SnapshotConsistent`) and `ForwardsTracked` (`ForwardsOwned`).

None of these is inductive, because each depends on what the main thread did some
blocks earlier. `CommandPlace` says what a command has established at each place (while a
service is built no run is alive and nothing is published; a join waits for the newest
run), `NewestAlive` that no run but the newest is alive, only a live one has workers, and only
one that was spawned has an accept task, and `StateShown` what the shared state then says about it. A run that ends
between its spawn and its publication is why `running` may name a dead run, but never
an old one.

### JitterBufferProofs

For every even size of the sequence space above 2, every set of coerced profiles and
any number of frames. `JitterInvariant` is `Spec => []JitterInv`; from it follow
`JitterTypes` (`TypeOK`), `PlayoutAlwaysGoesOn` (`PlayoutNeverStuck`),
`LatencyAlwaysBounded` (`LatencyBounded`) and `PlaybackOrdered` (`PlaysInOrder`): the
buffer implements `OrderedPlayout`.

Everything in play (the network, the packet being received, the buffer, the last frame
played) lies in a window of less than half of the sequence space below the newest
frame. Lemmas on remainders show that in such a window the comparison of wire numbers
is that of frame numbers. `Anchored` is the rest: the expected sequence stands for a
frame that follows the last one played and that no buffered frame precedes. It is what
trims, drops and reconfigurations could break. The window is an assumption on the
sender and the network (`Produce`), as in section 2.

### Only model-checked

- Liveness (`Recovers`, `StopEndsRun`, `PortsComeFree`, `StopHeard`, `ReadReturns`,
  `DeviceReleased`): fairness and ENABLED are out of the prover's reach.

Every safety property the passing runs check is the statement of a theorem. The two runs
that expect a violation have no theorem.

## 5. What is not modelled, and why

- The Kalman filter, the PID controller, the CPU predictor, resampling, loudness:
  floating point.
- Texts, statistics, levels, the JSON of control messages (serde derives): data no
  property is about.
- Device and process I/O (WASAPI calls beyond their outcome, AudioTrack, Oboe, adb's
  output, mDNS, the tray, the QR code, the update check).
- `UdpTransport::spawn_stream` and the probes of the data planes, which nothing
  calls; `commands.rs`, `orchestrator.rs` and `state.rs` of the desktop, which are not
  compiled into the application; the mock client; parsing of arguments and the
  headless tool (its rollback capture returns through `?` without `stop`).
- The table of mode contracts and the release gate: constants and a conjunction.
- The receive loops, the reconnection and the ping loop of the Android session.
  Read, not modelled: the generation counter is checked at the start of a callback
  and neither it nor the attempt counter is protected by a lock, so a callback that
  has passed the check runs against whatever another thread has done since. An
  `onWsConnected` that is overtaken by an `onError` of another thread cancels the
  reconnection that was just scheduled (`PlaybackSessionRuntime.kt:264`, `:1064`),
  and because `stopPlayback` keeps `currentTarget`, a disconnect that is overtaken by
  a stop schedules a reconnection of a stopped session (`:397`, `:1065`). So
  the properties one would state first (a stop is final, a lost connection is
  retried or given up) are not expected to hold of these threads as they stand.
- Flutter, scripts, CI.

## 6. Plan

Done: registry, connection contract, pipeline, wire formats, capture, adaptive
runtime, reverse channel, desktop and service, jitter buffer; proofs of every safety
property of these.

Left: the Android session, that is start, stop and reconnect of `PlaybackSessionRuntime`
(generation counter, attempts, callbacks of old sessions), composed with `JitterBuffer`,
once the callbacks are serialised on the control executor.
