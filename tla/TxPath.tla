------------------------------- MODULE TxPath -------------------------------
(***************************************************************************)
(* The transmit side of the daemon: the core thread (core/mod.rs), the TX  *)
(* worker threads it spawns (core/tx_worker.rs), the keying sequence they  *)
(* run (ptt/sequence.rs), and what they share: the RX/TX interlock, the TX *)
(* lease and the PTT control lines of the radios.                          *)
(*                                                                         *)
(* The core handles one command at a time, so a command is one action,     *)
(* except the legacy transmit, which keeps the core busy for a whole       *)
(* on-air cycle while the workers run on.  A worker step ends where it     *)
(* touches something another thread can see.  Of the receive side this     *)
(* module keeps the capture device of a binding, whose departure tears the *)
(* transmit side down too.                                                 *)
(***************************************************************************)
EXTENDS Integers, Sequences, FiniteSets, RxTxInterlock, TxLease

CONSTANTS
    Channel,     \* configured channels (ids.rs ChannelId)
    AudioDev,    \* DeviceIds of sound devices; the TX one names the rig
    PttDev,      \* DeviceIds of PTT control lines; may overlap AudioDev
    Binding,     \* the [rx, tx] device pairs that clients configure
    Worker,      \* slots for TX worker threads: bounds how many run at once
    NoDevice, NoBinding, NoWorker,
    QueueDepth,  \* TX_QUEUE_DEPTH, 32 in the code
    MaxTx,       \* bounds the transmit ids handed out
    MaxKeyed,    \* bounds the nesting of manual keys on one device
    Mode,        \* subset of {"none", "tx"} clients select; see ConfigureChannel
    ManualKey,   \* channels whose clients call KeyPtt
    Fault,       \* subset of {"encode", "key", "submit", "unkey", "gone"}
    MayExit      \* whether the process may exit (main.rs)

Device == AudioDev \cup PttDev
TxId == 1 .. MaxTx
NoJob == 0

ASSUME ModelValues ==
    /\ NoDevice \notin Device
    /\ NoChannel \notin Channel
    /\ NoWorker \notin Worker
    /\ Binding \subseteq [rx : AudioDev, tx : AudioDev]
    /\ NoBinding \notin Binding
ASSUME Sizes ==
    /\ QueueDepth \in Nat \ {0}
    /\ MaxTx \in Nat
    /\ MaxKeyed \in Nat
    /\ IsFiniteSet(Worker)
ASSUME Switches ==
    /\ Mode \subseteq {"none", "tx"}
    /\ ManualKey \subseteq Channel
    /\ MayExit \in BOOLEAN

VARIABLES
    \* The core thread: supervisor and LiveBindings.
    mode,       \* a mode with a modulator ("tx") or without one ("none")
    audio,      \* live.audio
    sinks,      \* channels with an idle PlaybackHandle in live.sinks
    drivers,    \* live.drivers: the line of the idle PTT driver
    pttDev,     \* live.ptt_dev
    txWorkers,  \* live.tx_workers; holds a worker that has died, too
    nextTx,     \* next_tx_id
    legacy,     \* channel whose legacy cycle occupies the core thread
    manual,     \* channels whose idle driver was keyed by KeyPtt
    \* The worker threads, by slot; a slot whose thread has ended is "dead".
    pc, cfg, queue, job,
    cancelled,  \* workers whose handle the core has dropped
    outcome,    \* TxCycleOutcome of the running cycle
    \* Shared by all threads.
    keyed,      \* interlock counts
    holder,     \* lease holders
    \* The hardware, and what has been observed of the process.
    asserted,   \* PTT lines that are asserted
    jammed,     \* lines left asserted by an unkey that failed
    log,        \* Transmit* telemetry sent for each id, in order
    accepted,   \* ids returned to a client by a successful Transmit
    up          \* the process is running

coreVars == <<mode, audio, sinks, drivers, pttDev, txWorkers, manual>>
workerVars == <<pc, cfg, queue, job, cancelled, outcome>>
lineVars == <<asserted, jammed>>
telemetryVars == <<log, accepted>>
vars == <<coreVars, nextTx, legacy, workerVars, keyed, holder, lineVars,
          telemetryVars, up>>

-----------------------------------------------------------------------------
(* Where a worker thread can be. *)

\* From begin_tx to end_tx (run in tx_worker.rs).
Cycle == {"key", "delay", "submit", "drain", "tail", "unkey", "end"}
\* From key() returning Ok to unkey() (drive_tx_cycle).
Keyed == {"delay", "submit", "drain", "tail", "unkey"}
\* Holding a job that has not been announced yet.
Waiting == {"modulate", "slot", "start"}
Phase == {"dead", "recv", "exit"} \cup Waiting \cup Cycle

NoCfg == [channel |-> NoChannel, rig |-> NoDevice, driver |-> NoDevice]
Outcome == {"Done", "Aborted", "KeyFailed", "SubmitFailed", "UnkeyFailed"}

Init ==
    /\ mode \in [Channel -> Mode]
    /\ audio = [c \in Channel |-> NoBinding]
    /\ sinks = {}
    /\ drivers = [c \in Channel |-> NoDevice]
    /\ pttDev = [c \in Channel |-> NoDevice]
    /\ txWorkers = [c \in Channel |-> NoWorker]
    /\ nextTx = 1
    /\ legacy = NoChannel
    /\ manual = {}
    /\ pc = [w \in Worker |-> "dead"]
    /\ cfg = [w \in Worker |-> NoCfg]
    /\ queue = [w \in Worker |-> <<>>]
    /\ job = [w \in Worker |-> NoJob]
    /\ cancelled = {}
    /\ outcome = [w \in Worker |-> "Done"]
    /\ keyed = [d \in Device |-> 0]
    /\ holder = [d \in Device |-> NoChannel]
    /\ asserted = {}
    /\ jammed = {}
    /\ log = [i \in TxId |-> <<>>]
    /\ accepted = {}
    /\ up = TRUE

-----------------------------------------------------------------------------
(* Pieces shared by several actions. *)

\* unkey() on every line of lines; on those of failing it returns an error
\* and leaves the line as it is.
Unkey(lines, failing) ==
    /\ asserted' = asserted \ (lines \ failing)
    /\ jammed' = (jammed \ (lines \ failing)) \cup (failing \cap asserted)

Failing(lines) == IF "unkey" \in Fault THEN SUBSET lines ELSE {{}}

\* Mutant: a driver whose Drop does nothing.
DropDriversKeyed(lines) == UNCHANGED lineVars

\* Dropping a driver unkeys it and ignores the result (serial.rs, cm108.rs,
\* gpio.rs, Drop).
DropDrivers(lines) == \E failing \in Failing(lines) : Unkey(lines, failing)

Emit(id, events) == log' = [log EXCEPT ![id] = @ \o events]

CoreIsFree == up /\ legacy = NoChannel

\* The slots a new thread can take.
FreeSlots == {w \in Worker : pc[w] = "dead" /\ \A c \in Channel : txWorkers[c] # w}

\* TxWorker::drop for the workers of chs: cancel, close the queue, detach.
Evicted(chs) == {w \in Worker : pc[w] # "dead" /\ \E c \in chs : txWorkers[c] = w}

\* The TX half of try_spawn_workers, on the tables as the command has left
\* them: the worker takes the channel's sink and driver.
TrySpawnWorkers(c, au, si, dr, tw, man) ==
    IF /\ tw[c] = NoWorker
       /\ mode[c] = "tx"
       /\ c \in si
       /\ dr[c] # NoDevice
       /\ au[c] # NoBinding
    THEN \E w \in FreeSlots :
            /\ sinks' = si \ {c}
            /\ drivers' = [dr EXCEPT ![c] = NoDevice]
            /\ txWorkers' = [tw EXCEPT ![c] = w]
            /\ manual' = man \ {c}
            /\ cfg' = [cfg EXCEPT ![w] =
                          [channel |-> c, rig |-> au[c].tx, driver |-> dr[c]]]
            /\ pc' = [pc EXCEPT ![w] = "recv"]
    ELSE /\ sinks' = si
         /\ drivers' = dr
         /\ txWorkers' = tw
         /\ manual' = man
         /\ UNCHANGED <<cfg, pc>>

\* evict_on_gone, when the driver of c reported DeviceGone.  No worker of c
\* exists in the places that call it.
EvictOnGone(c) ==
    /\ drivers' = [drivers EXCEPT ![c] = NoDevice]
    /\ pttDev' = [pttDev EXCEPT ![c] = NoDevice]
    /\ manual' = manual \ {c}

-----------------------------------------------------------------------------
(* Commands handled by the core thread. *)

\* Changes the persisted mode only; live workers keep running.  Of a mode
\* only whether it has a modulator matters here ("tx") or not ("none").
ConfigureChannel(c, m) ==
    /\ CoreIsFree
    /\ mode' = [mode EXCEPT ![c] = m]
    /\ UNCHANGED <<audio, sinks, drivers, pttDev, txWorkers, manual, nextTx,
                   legacy, workerVars, keyed, holder, lineVars,
                   telemetryVars, up>>

\* A configure_audio that succeeds: playback opens, or the device is
\* receive-only.  One that fails returns before it touches the TX tables.
ConfigureAudio(c, b) ==
    /\ CoreIsFree
    /\ audio' = [audio EXCEPT ![c] = b]
    /\ cancelled' = cancelled \cup Evicted({c})
    /\ \E si \in {sinks \cup {c}, sinks \ {c}} :
          TrySpawnWorkers(c, audio', si, drivers,
                          [txWorkers EXCEPT ![c] = NoWorker], manual)
    /\ UNCHANGED <<mode, pttDev, nextTx, legacy, queue, job, outcome, keyed,
                   holder, lineVars, telemetryVars, up>>

\* A configure_ptt that succeeds.  Opening the driver unkeys its line; the
\* idle driver it replaces is dropped.  A running worker keeps its own.
ConfigurePtt(c, p) ==
    /\ CoreIsFree
    /\ pttDev' = [pttDev EXCEPT ![c] = p]
    /\ LET replaced == {drivers[c]} \ {NoDevice}
       IN  \E failing \in Failing(replaced \ {p}) :
              Unkey(replaced \cup {p}, failing)
    /\ TrySpawnWorkers(c, audio, sinks, [drivers EXCEPT ![c] = p], txWorkers,
                       manual \ {c})
    /\ UNCHANGED <<mode, audio, nextTx, legacy, queue, job, cancelled,
                   outcome, keyed, holder, telemetryVars, up>>

\* The device manual keying mutes: the TX rig, else the PTT device itself.
ManualRig(c) == IF audio[c] # NoBinding THEN audio[c].tx ELSE pttDev[c]

\* KeyPtt is refused while the channel has a worker or no idle driver.
CanKeyPtt(c) ==
    CoreIsFree /\ c \in ManualKey /\ txWorkers[c] = NoWorker /\ drivers[c] # NoDevice

KeyPttOn(c) ==
    /\ CanKeyPtt(c)
    /\ keyed[ManualRig(c)] < MaxKeyed
    /\ keyed' = BeginTx(keyed, ManualRig(c))
    /\ asserted' = asserted \cup {drivers[c]}
    /\ manual' = manual \cup {c}
    /\ UNCHANGED <<mode, audio, sinks, drivers, pttDev, txWorkers, nextTx,
                   legacy, workerVars, holder, jammed, telemetryVars, up>>

KeyPttOff(c) ==
    /\ CanKeyPtt(c)
    /\ Unkey({drivers[c]}, {})
    /\ keyed' = EndTx(keyed, ManualRig(c))
    /\ manual' = manual \ {c}
    /\ UNCHANGED <<mode, audio, sinks, drivers, pttDev, txWorkers, nextTx,
                   legacy, workerVars, holder, telemetryVars, up>>

\* unkey() fails: the count is released all the same.
KeyPttOffFails(c) ==
    /\ CanKeyPtt(c)
    /\ "unkey" \in Fault
    /\ keyed' = EndTx(keyed, ManualRig(c))
    /\ \/ /\ Unkey({drivers[c]}, {drivers[c]})
          /\ UNCHANGED <<drivers, pttDev, manual>>
       \/ /\ "gone" \in Fault
          /\ DropDrivers({drivers[c]})
          /\ EvictOnGone(c)
    /\ UNCHANGED <<mode, audio, sinks, txWorkers, nextTx, legacy, workerVars,
                   holder, telemetryVars, up>>

\* key() fails with DeviceGone: the count taken is undone, the driver evicted.
\* A failure of another kind changes nothing.
KeyPttOnFails(c) ==
    /\ CanKeyPtt(c)
    /\ {"key", "gone"} \subseteq Fault
    /\ DropDrivers({drivers[c]})
    /\ EvictOnGone(c)
    /\ UNCHANGED <<mode, audio, sinks, txWorkers, nextTx, legacy, workerVars,
                   keyed, holder, telemetryVars, up>>

AcquireTxLease(c) ==
    /\ CoreIsFree
    /\ audio[c] # NoBinding
    /\ holder' = Acquire(holder, audio[c].tx, c)
    /\ UNCHANGED <<coreVars, nextTx, legacy, workerVars, keyed, lineVars,
                   telemetryVars, up>>

\* Releases on the rig the channel is bound to now.
ReleaseTxLease(c) ==
    /\ CoreIsFree
    /\ audio[c] # NoBinding
    /\ holder' = Release(holder, audio[c].tx, c)
    /\ UNCHANGED <<coreVars, nextTx, legacy, workerVars, keyed, lineVars,
                   telemetryVars, up>>

-----------------------------------------------------------------------------
(* Transmit and TransmitImage. *)

\* Mutant: the counter is read and not advanced.
TakeTxIdAgain == CoreIsFree /\ nextTx <= MaxTx /\ nextTx' = nextTx

TakeTxId == CoreIsFree /\ nextTx <= MaxTx /\ nextTx' = nextTx + 1

\* Mutant: the queue is a stack.
EnqueueInFront(w, id) == queue' = [queue EXCEPT ![w] = <<id>> \o @]

Enqueue(w, id) == queue' = [queue EXCEPT ![w] = Append(@, id)]

\* Both commands on a channel with a worker.  A full queue, or one whose
\* worker has ended, refuses the job; the id is spent.
TransmitQueued(c) ==
    /\ TakeTxId
    /\ txWorkers[c] # NoWorker
    /\ LET w == txWorkers[c]
       IN  IF pc[w] # "dead" /\ Len(queue[w]) < QueueDepth
           THEN /\ Enqueue(w, nextTx)
                /\ accepted' = accepted \cup {nextTx}
           ELSE UNCHANGED <<queue, accepted>>
    /\ UNCHANGED <<coreVars, legacy, pc, cfg, job, cancelled, outcome, keyed,
                   holder, lineVars, log, up>>

\* TransmitImage without a worker, or of an image the mode cannot carry, is
\* refused; it, too, spends an id.
TransmitImageRefused(c) ==
    /\ TakeTxId
    /\ UNCHANGED <<coreVars, legacy, workerVars, keyed, holder, lineVars,
                   telemetryVars, up>>

HasLegacyPath(c) == c \in sinks /\ audio[c] # NoBinding /\ drivers[c] # NoDevice

\* Nothing to play on or to key: the transmission is only announced.
TransmitSimulated(c) ==
    /\ TakeTxId
    /\ txWorkers[c] = NoWorker
    /\ ~HasLegacyPath(c)
    /\ Emit(nextTx, <<"Started", "Complete">>)
    /\ accepted' = accepted \cup {nextTx}
    /\ UNCHANGED <<coreVars, legacy, workerVars, keyed, holder, lineVars, up>>

\* The legacy cycle, inline on the core thread, without a lease check.
TransmitLegacy(c) ==
    /\ TakeTxId
    /\ txWorkers[c] = NoWorker
    /\ HasLegacyPath(c)
    /\ Emit(nextTx, <<"Started">>)
    /\ keyed' = BeginTx(keyed, audio[c].tx)
    /\ asserted' = asserted \cup {drivers[c]}
    /\ legacy' = c
    /\ UNCHANGED <<coreVars, workerVars, holder, jammed, accepted, up>>

\* key() fails: the cycle is over at once.
LegacyKeyFails(c) ==
    /\ TakeTxId
    /\ txWorkers[c] = NoWorker
    /\ HasLegacyPath(c)
    /\ "key" \in Fault
    /\ Emit(nextTx, <<"Started", "Complete">>)
    /\ \/ UNCHANGED <<drivers, pttDev, manual, lineVars>>
       \/ /\ "gone" \in Fault
          /\ DropDrivers({drivers[c]})
          /\ EvictOnGone(c)
    /\ UNCHANGED <<mode, audio, sinks, txWorkers, legacy, workerVars, keyed,
                   holder, accepted, up>>

\* The end of the legacy cycle.  The reply is Ok only if every step was.
LegacyEnds ==
    /\ up
    /\ legacy # NoChannel
    /\ LET p == drivers[legacy]
           id == nextTx - 1
       IN  /\ \/ /\ Unkey({p}, {})
                 /\ manual' = manual \ {legacy}
                 /\ \/ accepted' = accepted \cup {id}
                    \/ "submit" \in Fault /\ UNCHANGED accepted
                 /\ UNCHANGED <<drivers, pttDev>>
              \/ /\ "unkey" \in Fault
                 /\ Unkey({p}, {p})
                 /\ UNCHANGED <<drivers, pttDev, manual, accepted>>
              \/ /\ {"unkey", "gone"} \subseteq Fault
                 /\ DropDrivers({p})
                 /\ EvictOnGone(legacy)
                 /\ UNCHANGED accepted
           /\ Emit(id, <<"Complete">>)
    /\ keyed' = EndTx(keyed, audio[legacy].tx)
    /\ legacy' = NoChannel
    /\ UNCHANGED <<mode, audio, sinks, txWorkers, nextTx, workerVars, holder, up>>

-----------------------------------------------------------------------------
(* Hotplug and process exit. *)

AudioChannels(d) ==
    {c \in Channel : audio[c] # NoBinding /\ d \in {audio[c].rx, audio[c].tx}}
PttChannels(d) == {c \in Channel : pttDev[c] = d}

\* poll_hotplug finds that d has left: first the channels bound to it on
\* either audio side, then those keyed through it.
HotplugDeparted(d) ==
    LET ac == AudioChannels(d)
        pch == PttChannels(d)
    IN  /\ CoreIsFree
        /\ ac \cup pch # {}
        /\ audio' = [c \in Channel |-> IF c \in ac THEN NoBinding ELSE audio[c]]
        /\ sinks' = sinks \ ac
        /\ holder' = ReleaseAll(holder, ac)
        /\ drivers' = [c \in Channel |-> IF c \in pch THEN NoDevice ELSE drivers[c]]
        /\ pttDev' = [c \in Channel |-> IF c \in pch THEN NoDevice ELSE pttDev[c]]
        /\ DropDrivers({drivers[c] : c \in pch} \ {NoDevice})
        /\ manual' = manual \ pch
        /\ txWorkers' = [c \in Channel |->
                            IF c \in ac \cup pch THEN NoWorker ELSE txWorkers[c]]
        /\ cancelled' = cancelled \cup Evicted(ac \cup pch)
        /\ UNCHANGED <<mode, nextTx, legacy, pc, cfg, queue, job, outcome,
                       keyed, telemetryVars, up>>

\* main returns on a signal: every thread ends where it is, no Drop runs.
ProcessExit ==
    /\ MayExit
    /\ up
    /\ up' = FALSE
    /\ UNCHANGED <<coreVars, nextTx, legacy, workerVars, keyed, holder,
                   lineVars, telemetryVars>>

-----------------------------------------------------------------------------
(* A worker thread (run in tx_worker.rs, drive_tx_cycle in sequence.rs). *)

At(w, phase) == up /\ pc[w] = phase

Goto(w, phase) == pc' = [pc EXCEPT ![w] = phase]

RecvJob(w) ==
    /\ At(w, "recv")
    /\ w \notin cancelled
    /\ queue[w] # <<>>
    /\ job' = [job EXCEPT ![w] = Head(queue[w])]
    /\ queue' = [queue EXCEPT ![w] = Tail(@)]
    /\ Goto(w, "modulate")
    /\ UNCHANGED <<coreVars, nextTx, legacy, cfg, cancelled, outcome, keyed,
                   holder, lineVars, telemetryVars, up>>

\* Mutant: dropping the handle leaves the queue open.
RecvCancelledOpenQueue(w) ==
    /\ At(w, "recv")
    /\ w \in cancelled
    /\ queue[w] # <<>>
    /\ Goto(w, "exit")
    /\ UNCHANGED <<coreVars, nextTx, legacy, cfg, queue, job, cancelled,
                   outcome, keyed, holder, lineVars, telemetryVars, up>>

\* A job that is received after the cancel is dropped, and so are the rest;
\* with none left, recv fails because the queue is closed.
RecvCancelled(w) ==
    /\ At(w, "recv")
    /\ w \in cancelled
    /\ Goto(w, "exit")
    /\ UNCHANGED <<coreVars, nextTx, legacy, cfg, queue, job, cancelled,
                   outcome, keyed, holder, lineVars, telemetryVars, up>>

\* Mutants: the completion is not announced; the thread ends.
RefuseSilently(w, events) ==
    /\ Emit(job[w], <<Head(events)>>)
    /\ job' = [job EXCEPT ![w] = NoJob]
    /\ Goto(w, "recv")
RefuseAndStop(w, events) ==
    /\ Emit(job[w], events)
    /\ job' = [job EXCEPT ![w] = NoJob]
    /\ Goto(w, "exit")

\* The job is announced and finished without keying.
Refuse(w, events) ==
    /\ Emit(job[w], events)
    /\ job' = [job EXCEPT ![w] = NoJob]
    /\ Goto(w, "recv")

\* The modulator cannot encode the payload.
EncodeFails(w) ==
    /\ At(w, "modulate")
    /\ "encode" \in Fault
    /\ Refuse(w, <<"Started", "Failed", "Complete">>)
    /\ UNCHANGED <<coreVars, nextTx, legacy, cfg, queue, cancelled, outcome,
                   keyed, holder, lineVars, accepted, up>>

MayKey(w) == MayTransmit(holder, cfg[w].rig, cfg[w].channel)

\* The two lease checks: before the slot wait, and when it is over.  Neither
\* the wait nor the second check looks at the cancel flag.
CheckLease(w, phase, next) ==
    /\ At(w, phase)
    /\ \/ /\ MayKey(w)
          /\ Goto(w, next)
          /\ UNCHANGED <<job, log>>
       \/ /\ ~MayKey(w)
          /\ Refuse(w, <<"Started", "Complete">>)
    /\ UNCHANGED <<coreVars, nextTx, legacy, cfg, queue, cancelled, outcome,
                   keyed, holder, lineVars, accepted, up>>

\* Mutant: no recheck after the slot wait.
SlotBoundaryUnchecked(w) ==
    /\ At(w, "slot")
    /\ Goto(w, "start")
    /\ UNCHANGED <<coreVars, nextTx, legacy, cfg, queue, job, cancelled,
                   outcome, keyed, holder, lineVars, telemetryVars, up>>

Modulate(w) == CheckLease(w, "modulate", "slot")
SlotBoundary(w) == CheckLease(w, "slot", "start")

\* TransmitStarted, begin_tx: one step, for no thread reads both.
StartTx(w) ==
    /\ At(w, "start")
    /\ Emit(job[w], <<"Started">>)
    /\ keyed' = BeginTx(keyed, cfg[w].rig)
    /\ Goto(w, "key")
    /\ UNCHANGED <<coreVars, nextTx, legacy, cfg, queue, job, cancelled,
                   outcome, holder, lineVars, accepted, up>>

Key(w) ==
    /\ At(w, "key")
    /\ asserted' = asserted \cup {cfg[w].driver}
    /\ Goto(w, "delay")
    /\ UNCHANGED <<coreVars, nextTx, legacy, cfg, queue, job, cancelled,
                   outcome, keyed, holder, jammed, telemetryVars, up>>

\* Mutant: a failed key returns from run at once.
KeyFailsBails(w) ==
    /\ At(w, "key")
    /\ "key" \in Fault
    /\ outcome' = [outcome EXCEPT ![w] = "KeyFailed"]
    /\ Goto(w, "exit")
    /\ UNCHANGED <<coreVars, nextTx, legacy, cfg, queue, job, cancelled,
                   keyed, holder, lineVars, telemetryVars, up>>

KeyFails(w) ==
    /\ At(w, "key")
    /\ "key" \in Fault
    /\ outcome' = [outcome EXCEPT ![w] = "KeyFailed"]
    /\ Goto(w, "end")
    /\ UNCHANGED <<coreVars, nextTx, legacy, cfg, queue, job, cancelled,
                   keyed, holder, lineVars, telemetryVars, up>>

\* Mutant: an abort returns without unkey.
AwaitOrAbortKeyed(w, phase, next) ==
    /\ At(w, phase)
    /\ IF w \in cancelled
       THEN /\ outcome' = [outcome EXCEPT ![w] = "Aborted"]
            /\ Goto(w, "end")
       ELSE /\ Goto(w, next)
            /\ UNCHANGED outcome
    /\ UNCHANGED <<coreVars, nextTx, legacy, cfg, queue, job, cancelled,
                   keyed, holder, lineVars, telemetryVars, up>>

\* A wait that polls the cancel flag: the tx_delay lead-in, or the drain loop,
\* which otherwise ends with the buffer drained or at its deadline.
AwaitOrAbort(w, phase, next) ==
    /\ At(w, phase)
    /\ IF w \in cancelled
       THEN /\ outcome' = [outcome EXCEPT ![w] = "Aborted"]
            /\ Goto(w, "unkey")
       ELSE /\ Goto(w, next)
            /\ UNCHANGED outcome
    /\ UNCHANGED <<coreVars, nextTx, legacy, cfg, queue, job, cancelled,
                   keyed, holder, lineVars, telemetryVars, up>>

LeadIn(w) == AwaitOrAbort(w, "delay", "submit")
Drain(w) == AwaitOrAbort(w, "drain", "tail")

\* Mutant: a failed submit bails out without unkey.
SubmitBails(w) ==
    /\ At(w, "submit")
    /\ \/ Goto(w, "drain") /\ UNCHANGED outcome
       \/ /\ "submit" \in Fault
          /\ outcome' = [outcome EXCEPT ![w] = "SubmitFailed"]
          /\ Goto(w, "end")
    /\ UNCHANGED <<coreVars, nextTx, legacy, cfg, queue, job, cancelled,
                   keyed, holder, lineVars, telemetryVars, up>>

Submit(w) ==
    /\ At(w, "submit")
    /\ \/ Goto(w, "drain") /\ UNCHANGED outcome
       \/ /\ "submit" \in Fault
          /\ outcome' = [outcome EXCEPT ![w] = "SubmitFailed"]
          /\ Goto(w, "unkey")
    /\ UNCHANGED <<coreVars, nextTx, legacy, cfg, queue, job, cancelled,
                   keyed, holder, lineVars, telemetryVars, up>>

\* tx_tail: a cancel shortens it but does not change the outcome.
HoldTail(w) ==
    /\ At(w, "tail")
    /\ Goto(w, "unkey")
    /\ UNCHANGED <<coreVars, nextTx, legacy, cfg, queue, job, cancelled,
                   outcome, keyed, holder, lineVars, telemetryVars, up>>

ReleasePtt(w) ==
    /\ At(w, "unkey")
    /\ Unkey({cfg[w].driver}, {})
    /\ Goto(w, "end")
    /\ UNCHANGED <<coreVars, nextTx, legacy, cfg, queue, job, cancelled,
                   outcome, keyed, holder, telemetryVars, up>>

\* After a failed submit the result of unkey is ignored.
ReleasePttFails(w) ==
    /\ At(w, "unkey")
    /\ "unkey" \in Fault
    /\ Unkey({cfg[w].driver}, {cfg[w].driver})
    /\ outcome' = [outcome EXCEPT ![w] =
                      IF @ = "SubmitFailed" THEN @ ELSE "UnkeyFailed"]
    /\ Goto(w, "end")
    /\ UNCHANGED <<coreVars, nextTx, legacy, cfg, queue, job, cancelled,
                   keyed, holder, telemetryVars, up>>

\* end_tx, TransmitComplete; only a clean cycle keeps the worker going.
EndCycle(w) ==
    /\ At(w, "end")
    /\ keyed' = EndTx(keyed, cfg[w].rig)
    /\ Emit(job[w], <<"Complete">>)
    /\ job' = [job EXCEPT ![w] = NoJob]
    /\ Goto(w, IF outcome[w] = "Done" THEN "recv" ELSE "exit")
    /\ UNCHANGED <<coreVars, nextTx, legacy, cfg, queue, cancelled, outcome,
                   holder, lineVars, accepted, up>>

\* run returns: the queue's receiver and the driver are dropped.  The core
\* keeps its handle until it drops the worker for a reason of its own.
Exit(w) ==
    /\ At(w, "exit")
    /\ DropDrivers({cfg[w].driver})
    /\ Goto(w, "dead")
    /\ cfg' = [cfg EXCEPT ![w] = NoCfg]
    /\ queue' = [queue EXCEPT ![w] = <<>>]
    /\ cancelled' = cancelled \ {w}
    /\ outcome' = [outcome EXCEPT ![w] = "Done"]
    /\ UNCHANGED <<coreVars, nextTx, legacy, job, keyed, holder,
                   telemetryVars, up>>

-----------------------------------------------------------------------------
WorkerStep(w) ==
    \/ RecvJob(w) \/ RecvCancelled(w)
    \/ EncodeFails(w) \/ Modulate(w) \/ SlotBoundary(w) \/ StartTx(w)
    \/ Key(w) \/ KeyFails(w) \/ LeadIn(w) \/ Submit(w) \/ Drain(w)
    \/ HoldTail(w) \/ ReleasePtt(w) \/ ReleasePttFails(w) \/ EndCycle(w)
    \/ Exit(w)

CoreStep ==
    \/ \E c \in Channel :
          \/ \E m \in Mode : ConfigureChannel(c, m)
          \/ \E b \in Binding : ConfigureAudio(c, b)
          \/ \E p \in PttDev : ConfigurePtt(c, p)
          \/ KeyPttOn(c) \/ KeyPttOff(c) \/ KeyPttOnFails(c) \/ KeyPttOffFails(c)
          \/ AcquireTxLease(c) \/ ReleaseTxLease(c)
          \/ TransmitQueued(c) \/ TransmitImageRefused(c)
          \/ TransmitSimulated(c) \/ TransmitLegacy(c) \/ LegacyKeyFails(c)
    \/ LegacyEnds
    \/ \E d \in Device : HotplugDeparted(d)

Next == CoreStep \/ (\E w \in Worker : WorkerStep(w)) \/ ProcessExit

Spec == Init /\ [][Next]_vars

\* A thread that can run is scheduled, and every wait inside a cycle is
\* bounded: sleeps have a length and the drain loop a deadline.  Clients,
\* hotplug, exit and the choice of a fault are not fair.
Fairness == (\A w \in Worker : WF_vars(WorkerStep(w))) /\ WF_vars(LegacyEnds)

FairSpec == Spec /\ Fairness

-----------------------------------------------------------------------------
(* Properties. *)

Jobs(w) == {queue[w][i] : i \in DOMAIN queue[w]} \cup ({job[w]} \ {NoJob})

CfgType == [channel : Channel \cup {NoChannel},
            rig : AudioDev \cup {NoDevice},
            driver : PttDev \cup {NoDevice}]

CoreTypeOK ==
    /\ mode \in [Channel -> {"none", "tx"}]
    /\ audio \in [Channel -> Binding \cup {NoBinding}]
    /\ sinks \subseteq Channel
    /\ drivers \in [Channel -> PttDev \cup {NoDevice}]
    /\ pttDev \in [Channel -> PttDev \cup {NoDevice}]
    /\ txWorkers \in [Channel -> Worker \cup {NoWorker}]
    /\ nextTx \in 1 .. MaxTx + 1
    /\ legacy \in Channel \cup {NoChannel}
    /\ manual \subseteq Channel

WorkerTypeOK ==
    /\ pc \in [Worker -> Phase]
    /\ cfg \in [Worker -> CfgType]
    /\ queue \in [Worker -> Seq(TxId)]
    /\ job \in [Worker -> TxId \cup {NoJob}]
    /\ cancelled \subseteq Worker
    /\ outcome \in [Worker -> Outcome]

SharedTypeOK ==
    /\ keyed \in [Device -> Nat]
    /\ holder \in [Device -> Channel \cup {NoChannel}]
    /\ asserted \subseteq PttDev
    /\ jammed \subseteq PttDev
    /\ log \in [TxId -> Seq({"Started", "Failed", "Complete"})]
    /\ accepted \subseteq TxId
    /\ up \in BOOLEAN

\* The type of every variable.
TypeOK == CoreTypeOK /\ WorkerTypeOK /\ SharedTypeOK

\* Cycles in flight on device d: those of workers, and the core's own.
OnRig(d) == {w \in Worker : cfg[w].rig = d /\ pc[w] \in Cycle}
LegacyOn(d) == legacy # NoChannel /\ audio[legacy].tx = d

\* The interlock counts exactly the cycles in flight on a device (without
\* manual keying): the receiver is muted through every one of them, however
\* they overlap and whatever is rebound meanwhile, and not a moment longer.
InterlockExact ==
    \A d \in Device :
        keyed[d] = Cardinality(OnRig(d)) + (IF LegacyOn(d) THEN 1 ELSE 0)

\* No PTT line stays asserted unless somebody is there who will release it: a
\* worker inside a cycle on it, the core's legacy cycle, or a client that
\* keyed it and can still unkey it.  A line whose release failed is excepted.
Owner(p) ==
    \/ \E w \in Worker : cfg[w].driver = p /\ pc[w] \in Keyed
    \/ legacy # NoChannel /\ drivers[legacy] = p
    \/ \E c \in manual : drivers[c] = p
NoStuckTransmitter == up => \A p \in asserted \ jammed : Owner(p)

\* Every transmit id is in one place.  Until it is announced it waits at one
\* worker at most; it is announced as started exactly while a cycle carries
\* it; and what is announced is a start, perhaps a failure, one completion.
JobLedger ==
    \A i \in TxId :
        LET carriers == {w \in Worker : i \in Jobs(w)}
            onAir == \/ \E w \in Worker : job[w] = i /\ pc[w] \in Cycle
                     \/ legacy # NoChannel /\ i = nextTx - 1
        IN  /\ Cardinality(carriers) <= 1
            /\ carriers # {} => i \in accepted /\ i < nextTx
            /\ log[i] = <<"Started">> <=> onAir
            /\ log[i] # <<>> /\ ~onAir => carriers = {}
            /\ log[i] \in {<<>>, <<"Started">>, <<"Started", "Complete">>,
                           <<"Started", "Failed", "Complete">>}

\* A worker serves its jobs in the order in which the core accepted them.
FirstAcceptedFirstServed ==
    \A w \in Worker :
        /\ \A i, j \in DOMAIN queue[w] : i < j => queue[w][i] < queue[w][j]
        /\ \A i \in DOMAIN queue[w] : job[w] < queue[w][i]

\* Once a leased rig is clear of other channels' workers, it stays clear as
\* long as the lease is held: the recheck after the slot wait lets no worker
\* through that queued its job, or was spawned, before or during the lease.
PastLease(d, c) ==
    {w \in Worker : /\ cfg[w].rig = d
                    /\ cfg[w].channel # c
                    /\ pc[w] \in {"start"} \cup Cycle}
LeaseKeepsRigClear ==
    [][\A d \in Device, c \in Channel :
          holder[d] = c /\ holder'[d] = c /\ PastLease(d, c) = {}
              => PastLease(d, c)' = {}]_vars

\* A worker whose handle the core has dropped ends and frees its line.
CancelledEnds ==
    \A w \in Worker : w \in cancelled ~> w \notin cancelled \/ ~up

\* Whatever is announced as started is announced as complete.
StartedCompletes ==
    \A i \in TxId : log[i] = <<"Started">> ~> Len(log[i]) > 1 \/ ~up

\* A job at a worker is served, unless the worker is cancelled, or fails the
\* cycle of a job before it.
Served(i) == log[i] # <<>> /\ log[i][Len(log[i])] = "Complete"
Carried(i) == \E w \in Worker : i \in Jobs(w)
Doomed(i) ==
    \E w \in Worker : i \in Jobs(w) /\ (w \in cancelled \/ outcome[w] # "Done")
QueuedIsServed ==
    \A i \in TxId : Carried(i) ~> Served(i) \/ Doomed(i) \/ ~up

=============================================================================
