# Verification of omnimodem

TLA+ models of omnimodem, checked with TLC and proved with TLAPS. The daemon
(`crates/omnimodem`) turns radios into channels that clients use over gRPC and
KISS; `clients/omnimodem-tui` is one of these clients, and the `dsp` crate is
the signal processing. This project is about the part that tests reach badly:
threads that key a transmitter, mute a receiver, follow settings and answer
clients in an order nobody chose, and codes whose decoders keep state over
damaged input. Paths below are relative to `crates/omnimodem/src` unless they
begin with `dsp` or `tui` (`clients/omnimodem-tui`).

## 1. The system

### Components

| component | source | state it keeps | operations |
|---|---|---|---|
| core thread | `core/mod.rs` | `LiveBindings`: sinks, captures, drivers, audio bindings, RX and TX workers per channel; the next transmit id; the lease registry | one command at a time from a bounded queue; hotplug poll when idle for 500 ms; start-up restore |
| TX worker | `core/tx_worker.rs` | bounded job queue (32), cancel flag, its own sink and PTT driver | receive, modulate, lease check, slot wait, lease recheck, keying cycle |
| keying sequence | `ptt/sequence.rs` | outcome of the cycle | key, lead-in, submit, drain, tail, unkey |
| interlock | `ptt/interlock.rs` | count of keys per device | `begin_tx`, `end_tx`, `is_muted` |
| TX lease | `ptt/lease.rs` | holder per device | `acquire`, `release`, `may_transmit`, `release_all` |
| PTT drivers, registry | `ptt/*.rs` | a control line each | key, unkey, unkey on open and on drop |
| RX worker | `core/rx_worker.rs` | running flag, window buffer, muted-window flag | capture, mute, decode, stop, flush |
| audio backends | `audio/*.rs` | submitted and drained counts, DAC queue, stop flags | open, submit, flush, feeder and callback threads, rebuild with backoff |
| SDR front-end | `audio/sdr/*` | control cell with a generation, backlog | tune, gain, demodulate, drop-oldest delivery, reconnect |
| supervisor, store | `supervisor/`, `persist/` | channel configurations in memory and in SQLite | configure, load |
| devices | `device/*` | device cache, last seen set | enumerate, diff, resolve |
| mode registry | `mode/*` | none | modes, modulators, picture audio |
| gRPC edge | `grpc/*` | two broadcast subscriptions per client | unary commands, event stream |
| KISS bridge | `kiss/*` | listener per channel, decoder state | start, stop, bridge a connection |
| metrics, authz, start-up | `metrics/`, `authz/`, `main.rs`, `config.rs` | counters; transports | serve, exit |
| ADS-B | `dsp/src/modes/adsb/*`, `core/adsb.rs` | retained samples, roster of addresses, track per aircraft | feed, flush, ingest, report, prune |
| DSP crate | `dsp/src` | per-modem filter and decoder state | framing, FEC, modulation, synchronisation |
| terminal client | `tui/internal/app` | transmit state machine, stack of screens, table of aircraft | lease, transmit, watch, release; fold reports, age contacts |
| tools | `adsb_bench`, `wavtool` | none | offline |

### How they interact

Clients reach the core through one bounded command queue and a one-shot reply.
The core owns all tables; it hands a channel's sink and PTT driver to the TX
worker it spawns, and its capture to the RX worker, and keeps only a handle.
Dropping a handle sets a flag and returns at once: the old thread runs on for
as long as its current wait lasts, beside the one that supersedes it. The
threads share the interlock, the lease registry (a mutex each), atomics (the
SDR's control cell, the watermarks of the playback) and two broadcast rings
that carry events back to the clients. A channel whose mode has no modulator
transmits raw PCM on a *legacy* path, inline on the core thread.

### What is hard, and what correctness means

* TX: workers of two channels on one rig, a superseded worker in its last
  cycle, the legacy path and manual keying all use the same line and the same
  interlock entry. *The count must equal the cycles in flight; a keyed line
  must have somebody who will release it; each job is announced once, in order;
  the lease must hold over a slot wait that can last minutes.*
* Playback: the watermark is shared by a feeder, a DAC callback, `flush` and
  the waiting cycle. *A cycle does not unkey before its audio is out.*
* RX: mute is judged per received chunk, a window is decoded as a whole.
  *Nothing of our own transmission is decoded but a bounded spill; a stopped
  worker ends.*
* Binding: opening, stealing and re-opening a capture, persisting, hotplug and
  restart meet in two calls. *A repeated request keeps a running receiver; a
  refused one leaves the receiver and the binding; a restart brings back what
  was acknowledged.*
* SDR: runtime settings are several atomics behind a generation counter.
  *The capture never blocks on its consumer and ends up with the last setting.*
* Subscriptions: a snapshot, a lossless and a lossy class. *No frame is missed
  silently; the client's view converges.*
* KISS: start, stop and replace are several awaits; the decoder sees the stream
  in pieces. *The map is true; a host's frames arrive whole, once, in order.*
* Packet and ADS-B decoders: state over damaged input that comes in chunks.
  *What was received was sent; what arrived intact is received.*
* ADS-B: a tracker whose clock is that of decoding, and a client's table, fed by
  changes over a ring that forgets. *No false position from halves decoded in
  time; the table shows what the tracker knows.*
* The client's send is three calls and three answers in any order. *No transmit
  call is made for a message that was given up, or twice for one; the rig is
  given back.*

`PROJECT.json` lists the hazards one by one with their lines.

## 2. Modules

| module | models |
|---|---|
| `RxTxInterlock`, `TxLease` | operators of `ptt/interlock.rs`, `ptt/lease.rs` |
| `TxPath` | core thread (transmit side), TX workers, keying sequence, PTT lines, hotplug, exit |
| `TxJobs` | abstract: what a client of Transmit is promised, per id |
| `TxService` | the refinement mapping from `TxPath` to `TxJobs` |
| `Playback` | playback handle, feeder, DAC callback, flush, and the wait of the cycle |
| `SdrCapture` | control cell, capture thread, tune plan, delivery, the rtl_tcp link |
| `RxWorker` | one RX worker, streaming or windowed |
| `Subscribe` | one `SubscribeEvents` stream and the two rings |
| `FramePath` | `RxWorker` and `Subscribe` together |
| `RxBinding` | supervisor, store, receive side of the core, hotplug, death and restart |
| `Hdlc` | HDLC, check sequence, NRZI as operators |
| `PacketRx` | modulator, receiving lanes, deduplication; uses `Hdlc` |
| `KissCodec` | KISS framing as operators |
| `KissRegistry` | the listener of a channel, its handlers |
| `KissBridge` | listeners and connections; uses both |
| `OperatorTx` | the operate screen of the terminal client, and the daemon it calls |
| `AdsbDemod` | the Mode S demodulator fed in chunks, and its roster |
| `AircraftTracker` | a track per aircraft, as operators |
| `Flights` | an ADS-B channel's RX worker with both, the telemetry ring and the client's contacts |
| `MC*` | instances for TLC |
| `*_proof` | theorems about the module they name; `TxPath_proof` also holds the refinement of `TxJobs`, `Flights_proof` what is proved of `AdsbDemod`, `PacketRx_proof` what is proved of `Hdlc`; `Audio_proof` is about `Playback` and `RxBinding` |

Operator modules hold no state: they are functional updates, one per method.

### `TxPath`: state and actions

* `mode`, `audio`, `sinks`, `drivers`, `pttDev`, `txWorkers`, `nextTx` are the
  fields of the supervisor and of `LiveBindings` that the transmit side uses.
  A driver is represented by the line it controls; `NoDevice` is an absent
  entry. `manual` remembers which idle drivers a client has keyed, which the
  code keeps only as the level of the line.
* `pc`, `cfg`, `queue`, `job`, `cancelled`, `outcome` are the worker threads.
  `Worker` is a set of slots; a slot is free when no thread runs in it and no
  entry of `txWorkers` names it, so that a worker which has ended and is still
  in the table, as in the code, refuses jobs.
* `keyed`, `holder` are the shared maps; `asserted` and `jammed` are the PTT
  lines of the hardware and those whose release failed; `log` and `accepted`
  record what clients were told, per transmit id.

The core is single threaded: each command is one action (`ConfigureChannel`,
`ConfigureAudio`, `ConfigurePtt`, `KeyPttOn`, `KeyPttOff`, their failures,
`AcquireTxLease`, `ReleaseTxLease`, `TransmitQueued`, `TransmitImageRefused`,
`TransmitSimulated`), with the spawn of workers that ends it part of it. Only
the legacy transmission is cut in two (`TransmitLegacy`, `LegacyEnds`): it
occupies the core for an on-air cycle, during which workers move and no
command is served. Worker actions follow `run` and `drive_tx_cycle`; each ends
where it touches something another thread can see: a check of the lease, a
read of the cancel flag, a change of the interlock or of the line, an event.

The start-up restore replays `configure_audio`, `configure_ptt` and the spawn
per channel before the first command; it reaches no state those commands do
not, so `Init` is the empty table and the commands stand for it.

Audio samples, gains, RSID bursts and the spectrum helper are left out: nothing
the transmit side decides depends on them. A mode is `"tx"` (it has a
modulator) or `"none"`. Time is left out: a wait may end at any moment, which
covers every slot boundary, delay and deadline. Opening a device either
succeeds or returns before it changes a transmit table, so only success is an
action, with or without a playback side. A driver's failure is a choice of the
environment enabled by `Fault`; `"gone"` is `DeviceGone`, which evicts the
driver.

`TxJobs` is what the interface promises of a transmission: new, then refused,
waiting, on air, over or dropped, ids in order. `TxService` reads this status
off `log`, `accepted`, the queues and the jobs of the workers, and states that
`TxPath` implements `TxJobs`.

### `Playback`

`TxPath` has one step for the wait of a cycle; `Playback` is what happens in
it, for one playback handle and its worker. `pc` follows `drive_tx_cycle`,
`submit` and `flush`, cut where another thread can see the difference: the
count of `submit` and its send are two steps, and so are the two halves of
`flush`. One turn of the drain loop is one step: a cancel that comes between
its reads could as well come after them. The feeder receives and extends in two
steps. A callback takes any part of the queue under its lock, and the stream
fails and comes back at any time or never.

Samples are numbered in the order of submission, so a buffer in the channel is
the number of its last sample and the DAC queue is what lies between `position`
and `fed`. That keeps all counts exact, and it rests on the channel and the
queue being first-in first-out. `played` records what was put out. The send
cannot fail while the feeder lives, and the feeder lives as long as the handle.
An abort is the worker's last cycle, as in `run`.

### `SdrCapture`

The core's setters write the fields of the cell one store at a time
(`SetterStep`); the bump of the generation is a store of its own. The capture
thread (`BuildChain` to `Deliver`) reads the generation only after it has built
its chain, and each read of the cell is a step. The rate is read several times:
`ReadRate` and `SendHardware` are the two reads of `apply_hardware`, to see
whether it is new and to send it; after a drop of the link `Handshake` programs
the cell as it is then, and `Publish` reads the rate again to note it as sent.
`slipped` records that a rate was stored between the two reads by which the
dongle's was last programmed and noted. A command on a dead link goes nowhere,
and its error is ignored. Blocks of audio are numbered; `backlog` and `chan`
are the two queues of the delivery, `dropped` the counter. Dropping a handle
drops its stop hook without a call, so what the thread notices is only that its
receiver is gone. Frequencies are small integers and a rate is the width of the
band.

### `RxWorker`, `Subscribe`, `FramePath`

A sample is known by whether it was received muted, a window is its samples.
`CheckRunning`, `StreamChunk`, `WindowChunk`, `ReceiveTimesOut`,
`ReceiveDisconnected`, `EmitMetrics` and `Flush` are the steps of the two
loops; the rig keys and unkeys around them at any time. A worker publishes in
the step that decodes, and `FramePath` puts what it publishes (`sent`) into the
rings the client reads. `Subscribe` attaches to the two rings one after the
other, asks the core, and then merges: a lag of the frames ends the stream, a
lag of the telemetry is skipped. Frames are numbered modulo `FrameIds`, more
than the ring holds.

### `RxBinding`

One channel. `ConfigureChannel` writes the store, then the configuration.
`ConfigureAudio` changes the configuration, writes it, and binds (`BindOutcomes`:
every way through `configure_audio` of the core, with what is opened, reused and
dropped); each of the three may fail and leaves what went before. Opening a
device that is present and free may fail, too (it is busy elsewhere, has no
usable format): nothing in the model makes a call succeed. A device that is not
there is refused before the control cell is looked at, one that is there after
(`Refuse`). A thread told to stop lets go of its exclusive device later
(`ThreadReleases`). `Die` and `Start` are a crash at any time and the restore
from the row, which writes the row again before it binds and gives the channel
up if that fails, or the open (`faulty`); only `store` survives. `acked` is what
clients were told.

`cell` is the channel's SDR control cell, reduced to what the mode decides:
audio, raw magnitude at 1090 MHz, or raw magnitude from where an operator has
tuned it since (`SetSdr`). Every way to an open goes through `Attach`: the cell
is coupled to the mode, or forgotten when the device has none, whether or not
the open then succeeds. A capture follows the cell it was opened with; one whose
cell is forgotten keeps what it was last told (`left`), and `Front` is what a
receiver is told. The devices are local ones: an rtl_tcp server is not
enumerated, and neither its departure nor its return reaches these tables.

### `Hdlc`, `PacketRx`

`Hdlc` is a payload's way to line levels and back, bit by bit, with the check
sequence as the polynomial division of `crc.rs`. `DeframeBit` is one turn of
the deframer's loop, with the ones counted in eight bits. In `PacketRx` every lane gets
a level per bit, which may be wrong, and assembles octets from where its own
clock began; its buffer is deframed at each octet, and `Admit` merges what the
lanes find. Slicers, filters and confidences are left out: the flipped level
is a choice.

### `KissCodec`, `KissRegistry`, `KissBridge`

`KissRegistry` cuts `start` and `stop` at every await, where a handler may be
cancelled by its client. `KissBridge` adds the tasks: a listener that accepts,
once more when it is aborted in the middle of a poll; connections whose first
poll subscribes them to the ring (`Subscribe`), so that frames published between
`Accept` and it are not theirs, and that read the host's bytes in pieces of any length in `ReadSizes`,
offer each data frame to the core's bounded queue and wait for the answer,
while the other half forwards frames from the ring.

### `OperatorTx`

Calls under way and answers on their way are bags: the Bubble Tea program runs
each command on a goroutine of its own. `Enter`, `Answer`, `Complete`,
`Watchdog`, `Halt`, `Leave` and `Reopen` are the screen; `CallServed`,
`CallFailed`, `JobDone`, `JobsDropped`, `EventsLost` the daemon, as far as the
client can tell; `OtherLease` and `OtherCompletes` other channels. `disturbed`
records that something cut across a send.

### `AdsbDemod`, `AircraftTracker`, `Flights`

In `AdsbDemod` a sample is what slicing gives when it is taken for a preamble:
a slice per phase, each a format, an address, its damage and what a squitter
says. `Feed` scans what is not held back, `Flush` the rest, and both go through
`At`, which scores the slices against the roster, takes the best and skips over
it. Overlaid formats come in both lengths. `Lose` takes samples out of the
signal that the demodulator never sees; what it scans then joins both sides.

`AircraftTracker` has the operators on a track. The place in a position is the
moment it was sent, so that a CPR solution is right when the halves were sent
within `Reach` of each other and elsewhere when not.

`Flights` has two times. `air` is how much of what is sent has come or is lost;
`clock`, by which tracks age and halves are paired, is read when a frame is
decoded, as in the code, and is `air` or later. A chunk comes (`WorkerFeeds`),
or does not, since the link is down, the station transmits or the queue has
dropped it (`WorkerMisses`), or waits while time passes (`WorkerLags`). After a
chunk the worker folds its frames (`WorkerFolds`, `on_packet`) and prunes.
`late` collects the aircraft a half of which was decoded longer than
`Margin == Reach - PairWindow` after it was sent.

`Rebind` is another worker, with a demodulator and tracks of its own. The one
told to stop folds and reports the rest of its chunk beside it (`DetachedFolds`).
Simplified: the new one starts with what follows that chunk, although its own
capture may begin later, which `WorkerMisses` stands for, or before, so that
both hear some samples. `Receive` is `applyAircraft`, `Tick` `pruneAircraft`.

## 3. Runs

| run | instance | checks |
|---|---|---|
| `tx_workers` | 2 channels, 2 workers, one rig, one line, modes with a modulator, 2 ids | `InterlockExact`, `LeaseKeepsRigClear` |
| `tx_faults` | 1 channel, 2 workers, queue of 2, every failure of a cycle, fairness | `NoStuckTransmitter`, `FirstAcceptedFirstServed`, `ServicePromise`, `CancelledEnds`, `StartedCompletes`, `QueuedIsServed` |
| `tx_manual` | 2 channels of a mode without modulator (legacy and simulated ids, no worker), split rig, manual keying, device loss, exit; one PTT line is the rig's device | `NoStuckTransmitter`, `JobLedger` |
| `playback` | 4 cycles, bursts of 0 to 2 samples, a channel of one buffer | `UnkeyAfterLastSample`, `CycleEnds` |
| `sdr_capture` | 3 frequencies, 2 rates, 2 changes, 3 blocks, queues of 1, 1 drop of the link | `ChangesReachCapture`, `OldestDroppedAndCounted`, `DroppedCaptureEnds` |
| `frame_path` | both kinds of worker, windows of 3, chunks of 1 and 2, rings of 1 | `OnlyLeadingSpill`, `FramesLossless`, `ChangesAnnounced`, `StoppedWorkerEnds` |
| `rx_binding` | an exclusive SDR and a sound card, a mode of audio and ADS-B, the rate "any" | `ReconnectKeepsFeed`, `AckedIsDurable`, `RefusalKeepsFeed`, `AckedFeedRuns`, `RestartReopens`, `GoneDeviceUnbound` |
| `packet_rx` | 2 lanes with buffers out of step, 2 bursts of payloads that need stuffing, noise and a flipped level | `ReceivedWasSent`, `IntactReceived`, `CloseCopiesMerged` |
| `kiss_bridge` | 2 handlers, 2 starts, a host whose stream has every kind of frame, pieces of 5 and 10, queue and ring of 1 | `EntryIsRunning`, `HostFramesInOrder`, `AirFramesGapless`, `StoppedConnectionsClose` |
| `operator_tx` | 3 messages, 1 foreign event, 1 loss, one other channel | `IssuedOnceInOrder`, `QuietMeansReleased`, `NothingStale`, `SendEnds` |
| `flights` | signals of 3 to 5 transmissions and silence, damaged or not, chunks of 2 and 5, roster of 2, ring of 1, one fault: 3 or 10 samples missed, a delay of 14, or a new worker | `HeardInTurn`, `NothingInvented`, `NoGhostPosition`, `ViewAgrees` |
| `claim_unkeyed` | 1 channel, manual keying and a mode with a modulator | violated: `NoStuckTransmitter` |

What they say, where the name does not:

* `InterlockExact`: the interlock counts exactly the cycles in flight on a
  device, however they overlap and whatever is rebound meanwhile.
  `NoStuckTransmitter`: an asserted line has an owner that will release it.
  `JobLedger`: an id is in one place, and its events are a start, perhaps a
  failure, one completion. `tx_manual` checks this of legacy and simulated ids;
  for the ids of workers it is the theorem `LedgerKept`, and `ServicePromise` in
  `tx_faults`.
* `LeaseKeepsRigClear`: once the rig is clear of others' workers it stays
  clear while the lease is held. The first clause is needed: a worker that has
  passed its second check when the lease is granted goes on the air under it.
* `ServicePromise`: `TxPath` implements `TxJobs`. `CancelledEnds`,
  `StartedCompletes`, `QueuedIsServed`: a dropped worker ends, a start is
  followed by a completion, a job is served unless its worker is cancelled or
  fails an earlier cycle.
* `UnkeyAfterLastSample`: a cycle that ends on the watermark has put out every
  sample submitted so far. A cycle that ends at its deadline promises nothing.
* `ChangesReachCapture`: a running capture that sees a change makes the whole of
  it, whatever setters, reconnects and blocks came between. One thing is
  excepted (`slipped`): a rate stored between two reads of the transport stays
  unsent (below).
  `OldestDroppedAndCounted`: under overrun the worker gets blocks in order;
  just those counted are missing, and the newest never are.
* `OnlyLeadingSpill`: of the rig's own transmission, a decoded window holds at
  most the end of one chunk at its front. `FramesLossless`: every frame in order, or the stream ends.
  `ChangesAnnounced`: a change that is not in the snapshot is announced.
* `ReconnectKeepsFeed`, `AckedFeedRuns`: a repeated request keeps the receiver,
  a granted one has a receiver on its device, which is told what the mode takes
  if it was not kept as it ran, unless a capture has strayed (below). `RefusalKeepsFeed`: a refused one leaves
  the binding and the receiver, on its device; what the receiver is told changes
  only if it did not fit the channel's mode. `AckedIsDurable`: what was
  acknowledged is in the store. A failed call withdraws the acknowledgement, so
  memory and store disagreeing after a failed write (H24) is not excluded.
  `RestartReopens`: a restart in which nothing fails brings back the binding
  and, in a mode that decodes, a worker on its device; one in which something
  fails leaves both out. `GoneDeviceUnbound`: a binding whose device has gone
  is let go at the next idle turn; a core that is never idle, and a device back
  before the poll (H25), are not covered.
* `ReceivedWasSent`: no damage makes up a frame. `IntactReceived`: one undamaged
  lane is enough, for frames that fit what a cut leaves of a buffer.
  `CloseCopiesMerged`: two deliveries of one content are further apart than the
  window; lanes further apart than it may still deliver one burst twice (below).
* `EntryIsRunning`: the listener the map names accepts. In the run all starts
  ask for one address, so at most one listener is bound at a time; overlapping
  starts on two addresses are covered by the theorem `MapTellsTruth`.
  `HostFramesInOrder`: what a connection has offered and still has to offer is
  the data frames whose last byte has arrived, however TCP cuts.
  `AirFramesGapless`: what a client was forwarded is its channel's frames from
  its subscription to where its writer is, none left out and each once; a lag
  closes the connection.
* `NothingStale`: no Transmit call is issued for a message that was given up or
  is complete. A call that was under way when the operator gave up, or its job
  in the daemon's queue, is not called back. `IssuedOnceInOrder`,
  `QuietMeansReleased`: while nothing cuts across a send, each message is issued
  at most once and in order, and the rig is given back.
* `HeardInTurn`: the frames that come out are those of one scan over what was
  received with a memory of the last `RosterCap` addresses proved, wherever the
  chunks are cut. `NothingInvented`: an overlaid address is believed only if an
  undamaged frame proved it before, with fewer than `RosterCap` other addresses
  proved since.
* `NoGhostPosition`: two halves of a position that were not sent close to each
  other never place an aircraft no half of which was decoded late.
  `ViewAgrees`: although only changes are reported, what the client shows is
  what the tracker has, unless the ring overwrote the newest report or a
  detached worker reported after it.

### Bounds

Every bound is a constant of its module. What they must be to let the
interesting case happen:

* `tx_*`: two workers are what a rig shared by two channels needs, and what a
  superseded worker and its successor need; two ids are what order, loss and
  duplication need; a queue of one is full after one job, a queue of two can
  hold jobs in the wrong order. The spawn inside a configure waits when no slot
  is free; the code spawns always, so executions with more threads than slots
  are not explored by TLC. The proofs cover every number of slots.
* `playback`: with four cycles one burst can be in the DAC's queue, one in the
  feeder's hand, one in the channel, and one has to wait.
* `sdr_capture`: the frequencies lie so that one change is within the band and
  one outside; three blocks overrun queues of one each.
* `frame_path`: chunks that fill a window, miss it and cross it; a frame more
  than the ring holds. The proofs cover every size.
* `rx_binding`: no counters; the state space is finite as it is. `MaxRate`, which
  "any" stands for, is 48. Only the exclusive device has a control cell, so that
  moving between the two forgets it and makes it anew.
* `packet_rx`: initial buffer lengths that differ by less and by more than an
  octet; buffers that are cut within a frame, to a frame and little more; the flipped level in the opening flag, in the frame and in its end.
* `kiss_bridge`: pieces that cut within an escape and that hold several frames.
* `operator_tx`: three sends are what a stale answer needs to meet a later one.
* `flights`: a frame reaches 2 or 3 samples and 3 are held back; one chunk is
  shorter than that and one longer than a frame; three addresses for a roster of
  two. Two halves may be sent further apart than the window of 2 and further
  than CPR resolves (10), and what they wait for, 3 samples held back and a
  chunk of 5, is within the margin of 8. `MaxFaults` is 1, of one kind or
  another: missing 3 samples moves a frame within the margin, missing 10 and a
  delay of 14 outlast it and, the latter, the age limit of 12. That `Reach` is
  more than the window is what the code's 10 s rely on: they are short of the
  time in which an aircraft leaves the few kilometres within which a pair of
  halves is resolved. Aircraft share nothing but the
  ring, and `missed` says of which one it lost the newest report.

Symmetry over channels and workers is used only in runs without liveness.

### Fairness

* `tx_faults`: weak fairness of each worker thread and of the end of the legacy
  cycle. Every wait in `run` and `drive_tx_cycle` is bounded (sleeps have a
  length, the drain loop a deadline), and the operating system schedules a
  thread that can run. Clients, hotplug, exit and failures have none.
* `playback`: the worker inside a cycle and the feeder, not the stream, nor
  jobs or cancels.
* `sdr_capture`: the thread, the setters, the server's handshake and its
  samples; strong fairness of the delivery, since IQ fills the decimator again
  and again, but any one read may not. The consumer has none.
* `frame_path`: the worker's thread; its receive times out after 200 ms
  (`STOP_POLL`).
* `rx_binding`: the hotplug poll, which the core does when it has been idle.
  The daemon need not be started again.
* `kiss_bridge`: the runtime polls aborted tasks. Hosts have none.
* `operator_tx`: ticks, messages and calls with a deadline. The operator, the
  TX worker and other channels have none.

`CHECK_DEADLOCK FALSE` is said where the system really stops: after the exit of
the process (`tx_manual`), with the capture ended and nothing left to change
(`sdr_capture`), with the worker ended and the client gone (`frame_path`), at
the end of the signal (`packet_rx`, `flights`).

### Where the code and its documentation disagree

`claim_unkeyed` states that a line does not stay keyed
(`docs/wiki/invariants.md` 7): `ConfigurePtt`, `KeyPtt(on)`, `ConfigureAudio`
move the keyed driver into a worker, and `KeyPtt(off)` is refused from then on.
`NoStuckTransmitter` appears in the passing runs as well on purpose: it holds as
long as manual keying and modes with a modulator are not mixed.

Further ones were met while modelling, each visible in the models as an
execution or as a precondition of a property:

* The legacy path never asks for the lease (`ptt/lease.rs` says only the holder
  transmits), and two workers of one rig are on the air together
  (`core/tx_worker.rs`, `docs/wiki/invariants.md` 9 say they serialize).
* `KeyPtt(off)` of a channel that never keyed takes another's count from the
  interlock, so `InterlockExact` is about clients that do not key by hand.
* A job accepted may vanish without an event when its worker is superseded
  (`docs/grpc-api.md`: it is started and completed): `Drop` in `TxJobs`.
* A lease taken before its channel was bound elsewhere survives the departure of
  the rig (`docs/wiki/grpc-edge.md`).
* A cancel right after `submit` flushes the queue before the feeder has filled
  it (`audio/cpal_backend.rs:225`).
* The stop hook of a capture is never called (`audio/backend.rs:18` says
  dropping the handle stops the stream). `DroppedCaptureEnds` holds because the
  delivery notices.
* A tune between the build of the chain and the first read of the generation
  (`audio/sdr/pipeline.rs:142`) is missed by the chain: hence
  `generation # startGen`.
* A rate stored between the handshake's send (`audio/sdr/rtl_tcp.rs:183`) and its
  note of what it sent (329) is noted as sent and never is, until another is
  asked for (131 says the link always matches the control cell); one stored
  between the two reads of `apply_hardware` (384 and 146) is sent and not noted,
  so a change back is taken for made: hence `slipped`.
* A mode switch whose audio request is refused has already coupled the control
  cell the running receiver follows to the new mode (`core/mod.rs:828`, before
  the open in 849). Back in the old mode the receiver is granted as it is, by
  reuse, which does not couple the cell again: it stays on the wrong front end
  (`audio/sdr/pipeline.rs:196` expects the core to re-open the capture on such a
  switch). Hence the last condition of `RefusalKeepsFeed`, and `worker' # worker`
  in `AckedFeedRuns`.
* What an operator has tuned an SDR to is kept nowhere and lost at a restart.
* A request that fails after its capture is open leaves the capture behind, and
  on split devices it may hold the rig's own: `Stray`.
* The deduplication window is 3 bits, while lanes deframe at octets of their own
  (`dsp/src/modes/afsk1200.rs:186`): one burst may be delivered twice.
* A burst of more than 2048 levels may be lost although every lane hears it: the
  buffer is cut to that once it is over 4096
  (`dsp/src/modes/afsk1200.rs:196` has the cut for a stream without a valid
  frame), and what is cut away may hold the frame's opening flag. Hence `Fits`.
* The deframer counts ones in a `u8` (`dsp/src/framing/hdlc.rs:73`): more than
  255 after a flag, which is a mark held after a burst, panic in a debug build
  and wrap in a release build. The model wraps, and the proofs cover it.
* Two overlapping starts of one channel's KISS listener overwrite each other's
  handle (`kiss/listener.rs:62`), and a cancelled one leaves its socket: a
  listener may run that the map does not name. `EntryIsRunning` is the converse.
* The client: after a halt and a new send, the late answer of the first acquire
  transmits for the second before its own is granted, or with an empty payload
  (`tui/internal/app/tx.go:18`), and a second answer sends the payload again;
  leaving during an acquire leaks the lease; `TransmitComplete` is matched
  neither by channel nor by id; a failed acquire call is not told to the screen,
  which stays in *acquiring*. Hence `disturbed` and `lost`.
* A new aircraft whose first squitter is a lone half without an altitude, or a
  velocity without values, is tracked and not reported (`proto/omnimodem.proto:670`
  says it is reported as soon as it is heard).
* A re-bound channel counts an aircraft's messages from one again
  (`tui/internal/app/aircraft.go:43` calls the count monotonic on the wire), and
  the number on the screen stands still until it is caught up.
* What the demodulator flushes when its worker ends goes to the frame ring and
  not to the reporter (`core/rx_worker.rs:150`): an aircraft may miss it.
* Halves are paired by the time of decoding, not of reception
  (`dsp/src/modes/adsb/tracker.rs:177`, stamped at `core/rx_worker.rs:93` and
  132): one that is held back or queued for long may be solved with another sent
  more than the window later, which the window is there to prevent
  (`tracker.rs:22`). Without `\ late` TLC finds an aircraft out of place. Of
  halves decoded in one millisecond the odd one counts as the newer, in
  whichever order they came.

## 4. Proofs

Each theorem holds for every value of the constants of its module, under the
named assumptions there: model values are distinct, bounds are numbers, slots
for workers are finitely many, a rate or a chunk has a length, a script is made
of frames (`ScriptOfItems`). Those of `AdsbDemod` and `Flights` say what a
signal is: samples and slices of the shape the demodulator gives, with the
moment it is sent as the place of a squitter (`SignalsOfAircraft`), a guard as
long as a frame (`GuardCoversFrame`), a CPR reach of at least the pairing window
(`ReachCoversWindow`; what is more is `Margin`), and one age limit on both sides
(`SameTtl`). TLC evaluates all of them on every run of
the module.

| theorem | module | states |
|---|---|---|
| `TypeCorrect` | `TxPath_proof` | `Spec => []TypeOK` |
| `LeaseKeepsOthersOff` | | `Spec => LeaseKeepsRigClear` |
| `InterlockCountsCycles` | | `ManualKey = {} => (Spec => []InterlockExact)` |
| `NoLineIsStuck` | | `ManualKey = {} \/ "tx" \notin Mode => (Spec => []NoStuckTransmitter)` |
| `FirstComeFirstServed` | | `Spec => []FirstAcceptedFirstServed` |
| `LedgerKept` | | `Spec => []JobLedger` |
| `TxPathKeepsPromise` | | `Spec => ServicePromise`: `TxPath` implements `TxJobs` |
| `PlaybackTypes` | `Audio_proof` | `PlaybackSpec => []PlaybackTypeOK` |
| `PttOutlastsAudio` | | `PlaybackSpec => []UnkeyAfterLastSample` |
| `SdrTypes` | `SdrCapture_proof` | `Spec => []TypeOK` |
| `OverrunIsCounted` | | `Spec => []OldestDroppedAndCounted` |
| `ChangesReach` | | `Spec => []ChangesReachCapture` |
| `FramePathTypes` | `FramePath_proof` | `Spec => []TypeOK` |
| `NoFrameMissing` | | `Spec => []FramesLossless` |
| `MutingKeepsGrid` | | `Spec => []WindowsKeepGrid` |
| `SpillIsOneChunk` | | `Spec => []OnlyLeadingSpill` |
| `NoChangeMissed` | | `Spec => []ChangesAnnounced` |
| `BindingTypes` | `Audio_proof` | `Spec => []TypeOK`, of `RxBinding` |
| `ToldIsStored` | | `Spec => []AckedIsDurable` |
| `RestartBringsBack` | | `Spec => RestartReopens` |
| `RepeatKeepsFeed` | | `Spec => []ReconnectKeepsFeed` |
| `RefusalKeepsReceiver` | | `Spec => RefusalKeepsFeed` |
| `GrantFeeds` | | `Spec => AckedFeedRuns` |
| `MapTellsTruth` | `KissBridge_proof` | `Spec => []EntryIsRunning` |
| `NoGapOnTheAir` | | `Spec => []AirFramesGapless` |
| `HostHeardInOrder` | | `Spec => []HostFramesInOrder` |
| `ClientTypes` | `OperatorTx_proof` | `Spec => []TypeOK` |
| `ClientNothingStale` | | `Spec => NothingStale` |
| `ClientIssuesOnceInOrder` | | `Spec => []IssuedOnceInOrder` |
| `ClientQuietMeansReleased` | | `Spec => []QuietMeansReleased` |
| `FramesInTurn` | `Flights_proof` | `Spec => []HeardInTurn` |
| `AddressesProved` | | `Spec => []NothingInvented` |
| `NoGhosts` | | `Spec => []NoGhostPosition` |
| `ScreenAgrees` | | `Spec => []ViewAgrees` |
| `FrameFound` | `PacketRx_proof` | `HdlcDeframe` finds a payload in any bits that its `HdlcFrame` lies in |
| `BurstFound` | | and in any levels that its burst lies in |
| `CopiesMerged` | | `Spec => []CloseCopiesMerged` |
| `OneLaneIsEnough` | | `Quiet =>` (`Spec => []` between bursts, if one lane heard all levels right, every frame was delivered as often as it was sent) |
| `QuietIntact` | | `Quiet /\ MaxFlips = 0 => (Spec => []IntactReceived)` |
| `QuietSent` | | `Quiet /\ MaxFlips = 0 => (Spec => []ReceivedWasSent)` |

`Quiet` says that nothing but bursts is on the air (`Noise = {}`), that payloads
are whole octets whose bursts fit into what a cut leaves of a buffer
(`MaxLevels \div 2`, 2048 levels in the code), and that the deduplication
window is no longer than a preamble (3 bits against 24 flags).

Where a `TypeOK` is proved it is in no run.

Several of these speak of what a recursive function computes: the octets a
payload frames to, what a push of bytes gives, a scan over a chunk. The
library's induction theorems are not available for that, since they take an
operator as a parameter. The proofs use sets instead: a set of numbers that
contains 0 and the successor of each of its members contains every number
(`Induct`, from `Least`: a set of numbers that is not empty has a least one).
The set is then that of the lengths for which the claim holds.

### `TxPath`

*Types.* `TypeOK` is not inductive: the interlock is indexed with the rig of a
worker, so one has to know that a running worker has one. `Wired` says that,
and that a legacy cycle has a bound channel and an id. `TypeInv` is `TypeOK`
and `Wired`; there is a lemma per action.

*Shape.* Two lemmas carry the rest: the core only starts workers and otherwise
leaves `pc` and `cfg` alone (`CoreShape`), and a worker moves only itself
(`WorkerShape`).

*Lease.* The way past the checks is the recheck after the slot wait
(`OnlyByLease`), so whoever newly passes on a rig under an unchanged lease is
the holder.

*Interlock.* Every action but four leaves the cycles in flight as they are
(`Quiet`); the four change the set by one worker, or `legacy`, together with
the count. The set has to be finite, hence the assumption on `Worker`. With
manual keying the equation is false: see `KeyPtt(off)` above.

*Stuck lines.* The inductive invariant (`StuckInv`) adds that every channel's
mode is one of `Mode` and that only channels of `ManualKey` are ever keyed by
hand. Under `Separate` no worker is then handed the driver that a hand keys, so
the two kinds of owner of a line exclude each other; the proof that a step keeps
an owner goes through who may release or hand over a line.

*Order.* `FifoInv` adds that the id of a worker's current job and of every job
queued behind it is below the next id to be drawn.

*Ledger and refinement.* `JobLedger` speaks of counts and of the log and does
not say enough to survive a step: that a worker has a job exactly from taking
it to the end of its cycle (`JobWhileBusy`), that an id which is at a worker has
been accepted and is silent until the cycle begins (`Carrying`), that nothing
is said of an id before it is handed out (`Unspoken`), and that the core's
inline cycle carries an id no worker has (`Inline`) do. `Ledger` is their
conjunction. It needs `FifoInv`: a job that is done cannot still be queued,
because what is queued behind it has a larger id. Every step is one of these
moves of the ledger (`StillMove`, `RecvMove`, `StartMove`, `DoneMove`,
`ExitMove`, `InlineMove`, `QueueMove`, `LegacyMove`),
and each lemma shows both that `Ledger` is kept and which move of `TxJobs` it
is, or that the interface sees nothing. `ServicePromise` follows by putting the
invariant under the step.

### `Playback`

`PlaybackInv` adds three facts. The watermarks on their way are in order and
not behind `fed` (`Ordered`), or the feeder could step back. Until a flush,
`drained` is exactly the number of the last sample put out (`Counted`). And a
wait is for the latest burst, with the abort as last cycle (`Phases`), so that
`Counted` holds whenever a wait ends on the watermark. This is where the code
depends on an aborted worker not being used again: after a flush that misses a
buffer, `drained` runs ahead of `submitted`.

### `SdrCapture`

*Types.* A setter is never in any odd place: what is left of a command is the
end of a tune plan or of a change of rate (`Program`), and the parts of a plan
already stored and still to be stored add up to the frequency asked for.
`Fields` is the rest of the types, with the capture's generation never ahead of
the cell's.

*Changes.* Between the two stores of a plan the cell is on no frequency anybody
asked for, and the thread may read it just then. What saves it is that a bump
comes after the last store. `Followed` says that the thread has seen the last
bump and none is pending; then the chain has been built from the cell as it is
now (`ChainFollows`), and the dongle's frequency programmed from it, or the link
is down and the handshake will do it (`DongleFollows`). The rate goes by way of
what the transport believes it has sent: `RateFollows` is that this is the
cell's, `RateNoted` that it is the dongle's, both but for `slipped`.

*Overrun.* `Audio` numbers the blocks through the pipeline: the backlog is the
newest without a hole (`Staged`), the channel ascends and lies behind what the
worker has heard (`Delivered`), and what is in none of the three is as many
blocks as were counted, all older than the newest `Depth` (`Counted`). `Room`
bounds the counter.

### `FramePath`

`FramesLossless` follows from `InOrder`: as long as the stream hears frames and
has not lagged, the ring holds, without a hole, what lies between the frame the
client expects and the next one to be published (`Chained`). A send either
extends the chain at its end or, on a full ring, sets the lag; a lag ends the
stream. `WindowsKeepGrid` follows from `OnGrid`, that the buffer is as long as
the window's phase: `ChunkCases` splits a chunk into one that fits the window
and one that completes it and begins the next, and muting does the same to
both. `OnlyLeadingSpill` follows from `Spilled`: an unmarked buffer has muted
samples at its front only, and fewer than a chunk; what marks a window is
judged per chunk received, so only a chunk that straddles two windows spills.

`ChangesAnnounced` follows from `Announces`: the versions since the snapshot are
no more than the changes announced and those still in the telemetry ring,
unless the stream lost one to a lag. It holds because the stream attaches to the
ring before it asks the core.

### `RxBinding`

`AckedIsDurable` follows from `Kept`: while the daemon runs, its configuration
agrees with what a client was told, and each call writes the row before it
answers. A restart applies the row, and with the device there the first open
has nothing to steal from (`RestartStep`). What a call did is an outcome of one
of few kinds (`Outcome`), and a granted or refused `ConfigureAudio` is compared
with the state it began in through it (`AudioStep`). What can go wrong in a call
leaves one of three states: nothing touched, the cell attached, or the capture
opened as well (`Failed`); none of them drops or moves the worker, and
`Attached` says what each does to what it is told. A restart begins with nothing
live, so a binding that comes back has opened its own capture, coupled to the
mode, and spawned its worker; a fault leaves nothing. `GrantFeeds` needs `Fed`:
a binding of a mode that decodes has a worker on its own device.

### `KissBridge`

`RegistryInv` adds who owns a listener between `bind` and `insert`: the handler
that has spawned it, alone (`Owned`). Taking the map's listener out therefore
never aborts one that another handler is about to enter.

*To the host.* `Sent` places each connection in the ring of published frames:
from where it subscribed to its `next`, its channel's frames are what it was
forwarded, in ascending order. `next` only moves with a frame taken, and the
ring drops a frame before `next` reaches it only by setting the lag, on which
the connection closes.

*From the host.* `HostFramesInOrder` speaks of a decoder that has seen part of
a stream. `Reads` gives its place: between two items of the script (`Clear`), in
the noise before the first delimiter (`Quiet`), within a frame (`Inside`) or
after the escape of one (`Escaping`), with the buffer the beginning of what the
frame holds; and what has been offered and waits is the payloads of the items
wholly behind that place (`Within`). The steps are: framing gives each octet of
a payload a place on the wire, one byte or two, that is no delimiter
(`PayloadFramed`, `DataFramed`); one byte moves the decoder to its next place
and yields a frame exactly at the last byte of one (`OneByte`); so does a chunk
of any length (`OneChunk`, by induction on it); and what a chunk yields is
gathered as payloads in order (`PayloadsFirst`). A parameter frame and an empty
one give nothing. That noise stands only before the first frame is an
assumption on the script: between two frames it would be the body of one.

### `OperatorTx`

`NothingStale` follows from `Fresh`: the payload that an answer may set off is
the last message entered, on an open screen. The other two are about a client
that nothing cut across: `Undisturbed` says, phase by phase, which calls and
answers are on their way (`Stage`), that the messages issued ascend
and end before the one being acquired for (`Ledger`), and who owes a release (`LeaseOwed`). Calls
and answers are bags, for which `BagAdd`, `BagRemove` and `BagCopies` are the
lemmas.

### `AdsbDemod`, `Flights`

*Demodulator.* `Demod` is the inductive invariant, and `Flights` keeps it too.
`Turn` says that the frames so far are those of one scan up to `base`, each the
first acceptable behind the one before; `Roster`, that the roster is the last
`RosterCap` addresses proved by the frames, in order of the latest proof
(`KnownIn`). A frame with an overlaid address was found on the roster of its
moment, and that is what `NothingInvented` says. A chunk goes on with the scan
from `base`. Its positions are `Guard` samples from the end of what was fed, so
the slices there are whole and are what they would be with all of the signal
there (`SlicesAt`): this is where the cut does not matter, and it needs
`GuardCoversFrame`. The end of the signal is where slices are cut. Samples that
are lost (`Lose`) join what was fed to what comes next, and the scan to which
`Turn` compares is that of the joined signal.

*Ghosts.* `Ghostless` follows a half of a position from the signal to the
screen. What has come, or was lost, was sent by now, and what is still to come
when it will be its turn (`SignalOK`); so a frame is decoded at the moment it was
sent or later. Of an aircraft that is not in `late`, every half the current
worker's tracks hold, or a detached one's, was decoded within the margin
(`InTime`). Two halves decoded within the pairing window were then sent within
the window and the margin, which is `Reach`, and CPR resolves them (`PairedNear`).
No track, no report in the ring (`RingOK`) and no contact (`ContactsOK`) then has
a wrong place. Nothing is assumed of how long chunks wait, what is lost of the
signal, or how often the channel is bound again.

*View.* `Agrees`: of an aircraft of which no newest report was overwritten, nor
followed by a detached worker's, the newest report in the ring, or the contact if
there is none, has everything the track has. That only changes are reported is
enough because a fold that changes nothing leaves the last report true, and the
two age limits agree. A new worker knows no aircraft, so nothing is claimed of
what the client shows until it reports.

### `PacketRx`

*Copies.* `CloseCopiesMerged` follows from `Merged`: every delivery has a record
in the window (`Recorded`), or is too old to be near anything still to come.
Pruning forgets only such records, `latest` never runs ahead of the samples
heard, and a frame is admitted at the newest of them, so it is near no delivery
of its content. That this holds whatever the lanes find needs of the deframer
only that it gives a sequence (`Deframed`). Every recursion (stuffing, the scan
of a buffer, the frames of a lane, the lanes of a feed) is shown to have a
solution before anything is said of it (`Recursion`).

*Frames.* `FrameFound` has no hypothesis about what surrounds the frame. A flag
opens a frame whatever the scan was in (`FlagOpens`). Within the stuffed data no
eight bits are a flag and the scan has collected what was stuffed
(`OneBitMore`), the closing flag trims its own seven bits (`FlagScanned`), and
what was collected has its check sequence (`DataFinished`). In levels the first
bit depends on what was there before, but it is one of the preamble's
(`BurstFound`).

*Lanes.* `QuietInv` relates each lane that hears right to the bursts. Between
bursts its buffer is `Harmless`: silence, the end of a burst, or nothing, none
of which can be part of a frame, however it is cut. Within a burst it is
`Filling`, with the levels so far behind something harmless, until the frame is
whole at a full octet; then it is found (`FillingFound`) and the lane is
`Drained`. The rest of the burst has at most flags (`DrainedFound`). A cut
leaves the burst, by `Fits`, or drops only harmless levels (`FillingBounded`).
A frame that one lane finds is merged with at most a delivery of this burst,
since the window does not reach back behind the preamble (`AdmittedIsOut`); so
the frames sent have each a delivery of their own (`Answered`), and counting
them is an injection. Lanes that hear wrong are not restricted at all in
`OneLaneIsEnough`: `AnyStepped` lets them find anything.

The hypotheses are needed. Noise that runs up to a frame can, with the frame,
fill the buffer to where it is cut within the frame, or close a frame of its own
whose check sequence is right by accident; a wrong level can do the latter, too,
so with `MaxFlips` above zero only deliveries that are owed are proved, not that
there are no others.

### Only model-checked

* The liveness properties (`CancelledEnds`, `StartedCompletes`, `QueuedIsServed`,
  `CycleEnds`, `DroppedCaptureEnds`, `StoppedWorkerEnds`, `GoneDeviceUnbound`,
  `StoppedConnectionsClose`, `SendEnds`): temporal reasoning under fairness is
  outside the prover's reach.
* `ReceivedWasSent` and `IntactReceived` where there is noise or a wrong level.
  Neither is then true for all constants, nor of the code: enough wrong levels
  turn one frame with a good check sequence into another, and how many that
  takes is a matter of the polynomial and the length, which TLC evaluates.
* The counterexample of `claim_unkeyed` is a run.

## 5. Not modelled

* *Signal processing.* Filters, transforms, correlators, symbol and carrier
  tracking, soft decoders and the tables of codes (`dsp/src/modes`, `frontend`,
  `sync`, most of `framing` and `fec`) are floating-point or table-driven
  functions without state shared by anybody. They are out of a model checker's
  reach and are compared with reference vectors by the crate's own tests. They
  are most of the repository's lines, which is why the models cover a small
  part of it.
* *Input and output.* USB register programming (`audio/sdr/usb.rs`), the wire
  format of rtl_tcp, enumeration of devices, resampling and sample conversion,
  transports, certificates, scrape endpoint, the views of the terminal client.
* *Panics.* The core catches one per command (`core/mod.rs:207`); what state a
  half-executed command leaves would need a step at each statement.
* *Telemetry commands.* Gain, squelch, spectrum and counters change nothing that
  a property here is about. The offline tools and the offline
  ADS-B demodulator (`modes/adsb/ppm.rs`) are single threaded and call nothing
  that is kept.
* *A second screen.* The operate screen reopened for another channel while calls
  of the first are under way.
* *Two playback handles.* After a re-bind the old feeder and the new one may both
  live; `Playback` has one.

## 6. What could come next

1. Two playback handles on one device, and `Playback` shown to implement the
   cycle of `TxPath`: the wait that ends at any time there is the one that ends
   on the watermark, on a cancel or at the deadline here.
2. `IntactReceived` with noise between bursts, for noise that cannot close a
   frame, with what a cut then leaves.
3. The rest of the terminal client: screens for other channels under way.
