------------------------------ MODULE RxBinding ------------------------------
(***************************************************************************)
(* How a channel gets its receiver: the supervisor's configuration and the *)
(* store it is kept in (supervisor/mod.rs, persist/mod.rs), the core's     *)
(* live bindings (core/mod.rs), the hotplug watcher, and the death and     *)
(* restart of the daemon.  One channel; the transmit side is TxPath, and   *)
(* here only what its device does to the binding of the receiver.          *)
(*                                                                         *)
(* An exclusive device, a local USB SDR, is refused to a second opener.  A *)
(* thread told to stop lets go of its device some time later.              *)
(*                                                                         *)
(* Of the control cell of an SDR (audio/sdr/mod.rs) there is what the mode *)
(* of the channel decides: demodulated audio, from where the operator has  *)
(* tuned it, or for ADS-B raw magnitude at 1090 MHz.  The channel has one  *)
(* cell and each of its captures a clone of the one it was opened with,    *)
(* which it goes on following; a capture whose cell the channel has        *)
(* forgotten keeps what it was last told.  How a thread follows its cell   *)
(* is SdrCapture.                                                          *)
(*                                                                         *)
(* Devices are local: an rtl_tcp server is not enumerated, so neither its  *)
(* absence nor its return is seen by the watcher.                          *)
(***************************************************************************)
EXTENDS Integers, FiniteSets

CONSTANTS
    Devices,
    Exclusive,    \* the devices opened by one at a time
    Sdrs,         \* the devices with a control cell
    TxDevices,
    Modes,        \* the modes that decode
    Adsb,         \* the one of them that takes raw magnitude
    Rates,        \* the rates asked for, 0 for "any"
    MaxRate,      \* MAX_SAMPLE_RATE
    None          \* nothing there; as a mode, ModeConfig::None

ASSUME RxBindingAssumption ==
    /\ IsFiniteSet(Devices)
    /\ Exclusive \subseteq Devices /\ TxDevices \subseteq Devices
    /\ Sdrs \subseteq Devices /\ Adsb \in Modes
    /\ Rates \subseteq Nat /\ MaxRate \in Nat \ {0}
    /\ None \notin Devices \cup Modes

VARIABLES
    up,         \* the daemon runs
    config,     \* the supervisor's ChannelConfig: mode, dev, tx, rate
    store,      \* the row of the channel
    present,    \* devices plugged in
    known,      \* those of the watcher's last poll
    cell,       \* live.sdr_controls
    capture,    \* live.captures: an idle capture, its device, whether the
                \* device still feeds it, and what it was left with by a
                \* cell that was forgotten
    audio,      \* live.audio: rx, tx, rate and mode of the binding
    worker,     \* live.rx_workers: rig, what it has of its capture, and
                \* whether it runs
    releasing,  \* exclusive devices of threads told to stop
    acked       \* the mode and the device of the latest calls that succeeded,
                \* None where a later one failed

live == <<cell, capture, audio, worker, releasing>>

vars == <<up, config, store, present, known, live, acked>>

\* A rate that is kept is never "any".
KeptRates == (Rates \ {0}) \cup {MaxRate}

Configs == [mode : Modes \cup {None}, dev : Devices \cup {None},
            tx : TxDevices \cup {None}, rate : KeptRates]

\* What is live: an open capture, a binding, a receiver's worker.
\* "off" is raw magnitude from another frequency.
Cells == {"audio", "1090", "off"}
Captures == [dev : Devices, fed : BOOLEAN, left : Cells \cup {None}]
Audios == [rx : Devices, tx : TxDevices, rate : KeptRates, mode : Modes \cup {None}]
Workers == [rig : Devices, dev : Devices, fed : BOOLEAN, left : Cells \cup {None},
            runs : BOOLEAN]

ASSUME NoneIsNothing ==
    None \notin Configs \cup Cells \cup Captures \cup Audios \cup Workers

Init ==
    /\ up = TRUE
    /\ config = None /\ store = None
    /\ present \in SUBSET Devices
    /\ known = {}
    /\ cell = None /\ capture = None /\ audio = None /\ worker = None
    /\ releasing = {}
    /\ acked = [mode |-> None, dev |-> None]

-----------------------------------------------------------------------------
(* The core's bookkeeping, on what is live: a record with the fields       *)
(* cell, capture, audio, worker and releasing.                             *)

Live == [cell |-> cell, capture |-> capture, audio |-> audio,
         worker |-> worker, releasing |-> releasing]

NothingLive == [cell |-> None, capture |-> None, audio |-> None,
                worker |-> None, releasing |-> {}]

SetLive(l) ==
    /\ cell' = l.cell
    /\ capture' = l.capture
    /\ audio' = l.audio
    /\ worker' = l.worker
    /\ releasing' = l.releasing

\* What a dropped capture or worker held, and holds until its thread ends.
HeldBy(x) == IF x # None /\ x.fed THEN {x.dev} \cap Exclusive ELSE {}

Held(l) == l.releasing \cup HeldBy(l.capture) \cup HeldBy(l.worker)

DropCapture(l) ==
    [l EXCEPT !.capture = None, !.releasing = @ \cup HeldBy(l.capture)]

DropWorker(l) ==
    [l EXCEPT !.worker = None, !.releasing = @ \cup HeldBy(l.worker)]

\* try_spawn_workers, of the RX worker: it takes the idle capture, which is
\* dropped on a channel that is not bound, and put back in a mode that does
\* not decode.
TrySpawn(l, mode) ==
    IF l.worker # None \/ l.capture = None THEN l
    ELSE IF l.audio = None THEN DropCapture(l)
    ELSE IF mode = None THEN l
    ELSE [l EXCEPT !.capture = None,
                   !.worker = [rig |-> l.audio.rx, dev |-> l.capture.dev,
                               fed |-> l.capture.fed, left |-> l.capture.left,
                               runs |-> TRUE]]

\* couple_sdr_mode_to_channel: what a mode takes.
Takes(mode) == IF mode = Adsb THEN "1090" ELSE "audio"

\* A capture of an SDR is left with what its cell says.
Leave(x, c) ==
    IF x # None /\ x.dev \in Sdrs /\ x.left = None THEN [x EXCEPT !.left = c]
                                                 ELSE x

\* The control cell on the way to opening the device: coupled to the mode, or
\* forgotten if the device has none.
Attach(l, mode, dev) ==
    IF dev \in Sdrs
    THEN [l EXCEPT !.cell = Takes(mode)]
    ELSE [l EXCEPT !.cell = None,
                   !.capture = Leave(@, l.cell),
                   !.worker = Leave(@, l.cell)]

\* What the supervisor keeps of a rate.
StoredRate(rate) == IF rate = 0 THEN MaxRate ELSE rate

\* Mutant: a rate of 0 is kept.
RateKept(rate) == rate

\* The core's own "Normalize it once, up front".
Rate(rate) == IF rate = 0 THEN MaxRate ELSE rate

\* Mutant: a worker that has ended counts as running.
ReusesHandle(l, mode, dev, rate) ==
    /\ l.worker # None \/ l.capture # None
    /\ l.audio # None
    /\ l.audio.rx = dev /\ l.audio.rate = rate /\ l.audio.mode = mode

\* The receiver is kept: it runs, and the request is the one it was bound for.
Reuses(l, mode, dev, rate) ==
    /\ \/ l.worker # None /\ l.worker.runs
       \/ l.capture # None
    /\ l.audio # None
    /\ l.audio.rx = dev /\ l.audio.rate = rate /\ l.audio.mode = mode

\* A device that is there and free may still fail to open.
CanOpen(l, dev) == dev \in present \ Held(l)

\* The capture opened, in place of an idle one.
Open(l, mode, dev) ==
    [DropCapture(Attach(l, mode, dev)) EXCEPT
        !.capture = [dev |-> dev, fed |-> TRUE, left |-> None]]

\* Mutant: the old worker is told to stop before the device is opened.
RefuseReleased(l, mode, dev) ==
    IF dev \in present THEN DropWorker(Attach(l, mode, dev)) ELSE l

\* It did not open: a device that is not there is refused before its control
\* cell is looked at, one that is there after.
Refuse(l, mode, dev) == IF dev \in present THEN Attach(l, mode, dev) ELSE l

\* The binding made, on the capture just opened or on the one that is kept.
Bind(l, reuse, mode, dev, tx, rate) ==
    LET bound == [l EXCEPT !.audio = [rx |-> dev, tx |-> tx,
                                      rate |-> rate, mode |-> mode]]
    IN  IF reuse THEN bound ELSE DropWorker(bound)

\* Nothing stands in the way of a request.
Bindable(l, mode, dev, tx, rate) ==
    /\ Reuses(l, mode, dev, rate) \/ CanOpen(l, dev)
    /\ tx \in present

\* What a call that fails leaves: the capture, or after it the playback, did
\* not open.  That a device has no playback is no failure.
FailedBinds(l, mode, dev, rate) ==
    IF Reuses(l, mode, dev, rate) THEN {l}
    ELSE {Refuse(l, mode, dev)}
         \cup (IF CanOpen(l, dev) THEN {Open(l, mode, dev)} ELSE {})

\* What configure_audio makes of what is live once the configuration is
\* written, with try_spawn_workers if it succeeds.
BindOutcomes(l, mode, dev, tx, rate) ==
    LET reuse  == Reuses(l, mode, dev, rate)
        opened == IF reuse THEN l ELSE Open(l, mode, dev)
        bound  == Bind(opened, reuse, mode, dev, tx, rate)
    IN  {[ok |-> FALSE, live |-> x] : x \in FailedBinds(l, mode, dev, rate)} \cup
        IF Bindable(l, mode, dev, tx, rate)
        THEN {[ok |-> TRUE, live |-> TrySpawn(bound, mode)]} ELSE {}

-----------------------------------------------------------------------------
(* Commands.  The store may refuse a row. *)

\* Mutant: the supervisor is changed whether or not the row was written.
ConfigureChannelUnwritten(mode) ==
    /\ up
    /\ config' = IF config = None
                 THEN [mode |-> mode, dev |-> None, tx |-> None,
                       rate |-> MaxRate]
                 ELSE [config EXCEPT !.mode = mode]
    /\ store' \in {store, config'}
    /\ acked' = [acked EXCEPT !.mode = mode]
    /\ UNCHANGED <<up, present, known>> /\ UNCHANGED live

\* Written first, then applied.  What is live stays as it is until the audio
\* is configured again.
ConfigureChannel(mode) ==
    /\ up
    /\ config' = IF config = None
                 THEN [mode |-> mode, dev |-> None, tx |-> None,
                       rate |-> MaxRate]
                 ELSE [config EXCEPT !.mode = mode]
    /\ store' = config'
    /\ acked' = [acked EXCEPT !.mode = mode]
    /\ UNCHANGED <<up, present, known>> /\ UNCHANGED live

\* Applied, then written; then bound.
ConfigureAudio(dev, tx, rate) ==
    /\ up
    /\ config # None
    /\ config' = [config EXCEPT !.dev = dev, !.tx = tx, !.rate = StoredRate(Rate(rate))]
    /\ \/ /\ UNCHANGED store
          /\ UNCHANGED live
          /\ acked' = [acked EXCEPT !.dev = None]
       \/ /\ store' = config'
          /\ \E o \in BindOutcomes(Live, config.mode, dev, tx, Rate(rate)) :
                /\ SetLive(o.live)
                /\ acked' = [acked EXCEPT !.dev = IF o.ok THEN dev ELSE None]
    /\ UNCHANGED <<up, present, known>>

\* The row is written, with what an earlier call failed to write, and a driver
\* built; then the workers can start.
ConfigurePtt ==
    /\ up
    /\ config # None
    /\ store' = config
    /\ \/ UNCHANGED live
       \/ SetLive(TrySpawn(Live, config.mode))
    /\ UNCHANGED <<up, config, present, known, acked>>

\* set_sdr_tune, and configure_sdr, which takes any demodulation but raw.
SetSdr ==
    /\ up
    /\ cell # None
    /\ \/ cell # "audio" /\ cell' \in {"1090", "off"}
       \/ cell' = "audio"
    /\ UNCHANGED <<up, config, store, present, known, capture, audio, worker,
                   releasing, acked>>

-----------------------------------------------------------------------------
(* Devices, threads and the daemon's life. *)

\* What the device fed is over; a claim on it is gone with it.
Unplug(dev) ==
    /\ present' = present \ {dev}
    /\ capture' = IF capture # None /\ capture.dev = dev
                  THEN [capture EXCEPT !.fed = FALSE] ELSE capture
    /\ worker' = IF worker # None /\ worker.dev = dev
                 THEN [worker EXCEPT !.fed = FALSE] ELSE worker
    /\ releasing' = releasing \ {dev}
    /\ UNCHANGED <<up, config, store, known, cell, audio, acked>>

Plug(dev) ==
    /\ present' = present \cup {dev}
    /\ UNCHANGED <<up, config, store, known, acked>> /\ UNCHANGED live

\* Mutant: only the transmit side of the bindings is looked at.
PollTransmitSide ==
    /\ up
    /\ known' = present
    /\ IF audio # None /\ audio.tx \in known \ present
       THEN SetLive([DropWorker(DropCapture(Live)) EXCEPT !.audio = None,
                                                          !.cell = None])
       ELSE UNCHANGED live
    /\ UNCHANGED <<up, config, store, present, acked>>

\* An idle turn of the core: a device of the binding that was there at the
\* last poll and is not now takes the binding with it.
PollHotplug ==
    /\ up
    /\ known' = present
    /\ IF audio # None /\ {audio.rx, audio.tx} \cap (known \ present) # {}
       THEN SetLive([DropWorker(DropCapture(Live)) EXCEPT !.audio = None,
                                                          !.cell = None])
       ELSE UNCHANGED live
    /\ UNCHANGED <<up, config, store, present, acked>>

\* A worker whose capture is over ends; its handle stays.
WorkerEnds ==
    /\ worker # None
    /\ worker.runs /\ ~worker.fed
    /\ worker' = [worker EXCEPT !.runs = FALSE]
    /\ UNCHANGED <<up, config, store, present, known, cell, capture, audio,
                   releasing, acked>>

ThreadReleases ==
    /\ \E d \in releasing : releasing' = releasing \ {d}
    /\ UNCHANGED <<up, config, store, present, known, cell, capture, audio,
                   worker, acked>>

Die ==
    /\ up
    /\ up' = FALSE
    /\ config' = None
    /\ known' = {}
    /\ SetLive(NothingLive)
    /\ UNCHANGED <<store, present, acked>>

\* Mutant: the binding is not restored.
StartUnbound(faulty) ==
    /\ ~up
    /\ up' = TRUE
    /\ config' = store
    /\ UNCHANGED live
    /\ UNCHANGED <<store, present, known, acked>>

\* Supervisor::new and restore_live_bindings.  The restore writes the row
\* again before it binds, and skips the channel if any of it fails: a fault is
\* a failure of the store or of a device that is there.
Start(faulty) ==
    /\ ~up
    /\ up' = TRUE
    /\ config' = store
    /\ IF store = None \/ store.dev = None
       THEN UNCHANGED live
       ELSE LET rate     == Rate(store.rate)
                outcomes == BindOutcomes(NothingLive, store.mode, store.dev,
                                         store.tx, rate)
            IN  \/ \E o \in outcomes :
                      /\ ~faulty /\ Bindable(NothingLive, store.mode, store.dev,
                                             store.tx, rate) => o.ok
                      /\ SetLive(o.live)
                \/ faulty /\ SetLive(NothingLive)
    /\ UNCHANGED <<store, present, known, acked>>

-----------------------------------------------------------------------------

Commands ==
    \/ \E m \in Modes \cup {None} : ConfigureChannel(m)
    \/ \E d \in Devices, t \in TxDevices, r \in Rates : ConfigureAudio(d, t, r)
    \/ ConfigurePtt \/ SetSdr

Next ==
    \/ Commands \/ PollHotplug \/ WorkerEnds \/ ThreadReleases
    \/ \E d \in Devices : Unplug(d) \/ Plug(d)
    \/ Die \/ \E faulty \in BOOLEAN : Start(faulty)

Spec == Init /\ [][Next]_vars

\* The core polls when it is idle, which it is again and again.
FairSpec == Spec /\ WF_vars(PollHotplug)

-----------------------------------------------------------------------------
(* Properties. *)

\* Every variable has its type.
TypeOK ==
    /\ up \in BOOLEAN
    /\ config \in Configs \cup {None} /\ store \in Configs \cup {None}
    /\ present \subseteq Devices /\ known \subseteq Devices
    /\ cell \in Cells \cup {None}
    /\ capture \in Captures \cup {None} /\ audio \in Audios \cup {None}
    /\ worker \in Workers \cup {None}
    /\ releasing \subseteq Exclusive
    /\ acked \in [mode : Modes \cup {None}, dev : Devices \cup {None}]

\* A client that lost its stream sends the request it is bound by again.  The
\* running receiver is then kept, whatever form the rate comes in, and after a
\* restart as well: an exclusive device would be refused (GRA-372).
ReconnectKeepsFeed ==
    worker # None /\ worker.runs /\ audio # None =>
        \A r \in Rates \cup KeptRates :
            /\ audio.mode = config.mode
            /\ audio.tx \in present
            /\ StoredRate(r) = StoredRate(audio.rate)
            => \E o \in BindOutcomes(Live, config.mode, audio.rx, audio.tx,
                                    Rate(r)) :
                  o.ok /\ o.live.worker = worker

\* What a capture is told: its channel's cell, or what it was left with.
Front(x, c) == IF x.left = None THEN c ELSE x.left

\* A request that is refused, at whatever point, leaves the binding and the
\* receiver as they were, on the device they had.  It can change what the
\* receiver is told if that does not fit the mode of the channel: the cell is
\* coupled to the mode before the device is opened.
RefusalKeepsFeed ==
    [][\A d \in Devices, t \in TxDevices, r \in Rates :
         acked'.dev = None /\ ConfigureAudio(d, t, r)
         => /\ audio' = audio
            /\ IF worker = None THEN worker' = None
               ELSE /\ worker' # None
                    /\ worker' = [worker EXCEPT !.left = worker'.left]
                    /\ worker.dev \in Sdrs /\ Front(worker, cell) = Takes(config.mode)
                       => Front(worker', cell') = Front(worker, cell)]_vars

\* A capture that nobody asked for: left by a call that opened it and failed
\* after that.
Stray ==
    /\ capture # None
    /\ worker # None \/ audio = None \/ audio.rx # capture.dev

\* A request that succeeds in a mode that decodes leaves a receiver running on
\* the device, unless a capture has strayed; and one that was not kept as it
\* ran is told what the mode takes.
AckedFeedRuns ==
    [][\A d \in Devices, t \in TxDevices, r \in Rates :
         /\ acked'.dev # None /\ ~Stray
         /\ ConfigureAudio(d, t, r)
         /\ config.mode # None
         => /\ worker' # None /\ worker'.runs /\ worker'.dev = d
            /\ d \in Sdrs /\ worker' # worker
               => Front(worker', cell') = Takes(config.mode)]_vars

\* What a client was told has been done is in the store, until a later call of
\* the kind fails.
AckedIsDurable ==
    /\ acked.mode # None => store # None /\ store.mode = acked.mode
    /\ acked.dev # None => store # None /\ store.dev = acked.dev

\* A restart in which nothing fails brings back, on the device the client was
\* last told of, if that and its transmit device are there, the binding, and in
\* a mode that decodes the receiver, told what the mode takes; one in which
\* something fails leaves neither.
RestartReopens ==
    [][\A faulty \in BOOLEAN :
         acked.dev # None /\ acked.mode # None /\ Start(faulty)
         => /\ ~faulty /\ {acked.dev, store.tx} \subseteq present
               => audio' # None /\ audio'.rx = acked.dev
            /\ IF audio' = None THEN worker' = None
               ELSE /\ worker' # None /\ worker'.runs /\ worker'.dev = acked.dev
                    /\ audio'.mode = acked.mode
                    /\ acked.dev \in Sdrs
                       => Front(worker', cell') = Takes(acked.mode)]_vars

\* A binding does not outlive its receive device, once the watcher has seen it.
GoneDeviceUnbound ==
    \A d \in Devices :
        (audio # None /\ audio.rx = d /\ d \in known \ present)
        ~> (audio = None \/ audio.rx # d \/ d \in present)
=============================================================================
