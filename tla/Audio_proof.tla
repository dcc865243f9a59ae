----------------------------- MODULE Audio_proof -----------------------------
(***************************************************************************)
(* Proofs about what holds the audio devices. RxBinding: its types, that   *)
(* what a client was told is in the store, that a restart in which nothing *)
(* fails brings the receiver back, that repeating a request keeps it and   *)
(* that a request which fails leaves it. Playback: its types, and that PTT *)
(* outlasts the audio.                                                     *)
(***************************************************************************)
EXTENDS RxBinding, Playback, SequenceTheorems, TLAPS

-----------------------------------------------------------------------------
(* Types. *)

LiveStates == [cell : Cells \cup {None}, capture : Captures \cup {None},
               audio : Audios \cup {None}, worker : Workers \cup {None},
               releasing : SUBSET Exclusive]

\* The variables of what is live have their types.
LiveTyped ==
    /\ cell \in Cells \cup {None}
    /\ capture \in Captures \cup {None} /\ audio \in Audios \cup {None}
    /\ worker \in Workers \cup {None} /\ releasing \subseteq Exclusive

\* The receiver a bind makes.
NewWorker(dev) == [rig |-> dev, dev |-> dev, fed |-> TRUE, left |-> None, runs |-> TRUE]

\* The capture it makes it of.
NewCapture(dev) == [dev |-> dev, fed |-> TRUE, left |-> None]

\* The type of what is live, of the record or of the five variables.
LEMMA LiveTypes ==
  /\ TypeOK => Live \in LiveStates
  /\ NothingLive \in LiveStates
BY DEF TypeOK, Live, NothingLive, LiveStates, Captures, Audios, Workers

LEMMA SetLiveTypes ==
  ASSUME NEW l \in LiveStates, SetLive(l)
  PROVE  LiveTyped'
BY DEF SetLive, LiveStates, LiveTyped, Captures, Audios, Workers, KeptRates, Cells

LEMMA SameLiveTypes ==
  ASSUME TypeOK, UNCHANGED live
  PROVE  LiveTyped'
BY DEF TypeOK, live, LiveTyped, Captures, Audios, Workers, KeptRates, Cells

\* What is there is no None.
LEMMA Something ==
  None \notin Devices /\ None \notin Modes /\ None \notin Cells
BY RxBindingAssumption, NoneIsNothing

LEMMA NewIsThere ==
  ASSUME NEW dev \in Devices
  PROVE  /\ NewWorker(dev) \in Workers /\ NewWorker(dev) # None
         /\ NewCapture(dev) \in Captures /\ NewCapture(dev) # None
<1>1. NewWorker(dev) \in Workers /\ NewCapture(dev) \in Captures
  BY DEF NewWorker, NewCapture, Workers, Captures
<1> QED BY <1>1, NoneIsNothing

\* A receiver is only left with what its cell says; one whose front end fits
\* the mode keeps it.
Spared(w, c, w1, c1, mode) ==
    IF w = None THEN w1 = None
    ELSE /\ w1 \in Workers /\ w1 = [w EXCEPT !.left = w1.left]
         /\ w.dev \in Sdrs /\ Front(w, c) = Takes(mode) => Front(w1, c1) = Front(w, c)

\* What a control cell coupled or forgotten does to a receiver.
LEMMA Attached ==
  ASSUME NEW l \in LiveStates, NEW mode, NEW dev \in Devices
  PROVE  LET a == Attach(l, mode, dev)
         IN  /\ a \in LiveStates
             /\ a.audio = l.audio
             /\ dev \in Sdrs => a.cell = Takes(mode)
             /\ Spared(l.worker, l.cell, a.worker, a.cell, mode)
<1> DEFINE a == Attach(l, mode, dev)
<1>1. /\ l.cell \in Cells \cup {None} /\ l.capture \in Captures \cup {None}
      /\ l.worker \in Workers \cup {None}
  BY DEF LiveStates
<1>2. CASE dev \in Sdrs
  <2>1. a = [l EXCEPT !.cell = Takes(mode)]
    BY <1>2 DEF Attach
  <2>2. Takes(mode) \in Cells
    BY DEF Takes, Cells
  <2>3. /\ a \in LiveStates /\ a.audio = l.audio /\ a.cell = Takes(mode)
        /\ a.worker = l.worker
    BY <2>1, <2>2 DEF LiveStates
  <2>4. l.worker # None => l.worker = [l.worker EXCEPT !.left = l.worker.left]
    BY <1>1 DEF Workers
  <2>5. Front(l.worker, l.cell) = Takes(mode)
          => Front(l.worker, Takes(mode)) = Front(l.worker, l.cell)
    BY DEF Front
  <2> HIDE DEF a
  <2>6. Spared(l.worker, l.cell, a.worker, a.cell, mode)
    BY <1>1, <2>3, <2>4, <2>5 DEF Spared
  <2> QED BY <2>3, <2>6 DEF a
<1>3. CASE dev \notin Sdrs
  <2>1. a = [l EXCEPT !.cell = None, !.capture = Leave(@, l.cell), !.worker = Leave(@, l.cell)]
    BY <1>3 DEF Attach
  <2>2. Leave(l.capture, l.cell) \in Captures \cup {None}
    BY <1>1 DEF Leave, Captures
  <2>3. Leave(l.worker, l.cell) \in Workers \cup {None}
    BY <1>1 DEF Leave, Workers
  <2>4. /\ a.audio = l.audio /\ a.cell = None /\ a.worker = Leave(l.worker, l.cell)
        /\ a.capture = Leave(l.capture, l.cell) /\ a.releasing = l.releasing
        /\ a = [cell |-> a.cell, capture |-> a.capture, audio |-> a.audio,
                worker |-> a.worker, releasing |-> a.releasing]
    BY <2>1 DEF LiveStates
  <2>5. a \in LiveStates
    <3> HIDE DEF a
    <3> QED BY <2>2, <2>3, <2>4 DEF LiveStates
  <2> HIDE DEF a
  <2>6. ASSUME l.worker # None
        PROVE  /\ Leave(l.worker, l.cell) \in Workers
               /\ Leave(l.worker, l.cell) = [l.worker EXCEPT !.left = Leave(l.worker, l.cell).left]
               /\ Front(Leave(l.worker, l.cell), None) = Front(l.worker, l.cell)
                    \/ l.worker.dev \notin Sdrs
    <3>1. l.worker \in Workers
      BY <1>1, <2>6
    <3>2. CASE l.worker.dev \in Sdrs /\ l.worker.left = None
      <4>1. Leave(l.worker, l.cell) = [l.worker EXCEPT !.left = l.cell]
        BY <2>6, <3>2 DEF Leave
      <4>2. Leave(l.worker, l.cell) \in Workers /\ Leave(l.worker, l.cell).left = l.cell
        BY <1>1, <3>1, <4>1 DEF Workers
      <4>3. Front(l.worker, l.cell) = l.cell
        BY <3>2 DEF Front
      <4>4. Front(Leave(l.worker, l.cell), None) = l.cell
        BY <4>2 DEF Front
      <4> QED BY <4>1, <4>2, <4>3, <4>4
    <3>3. CASE ~(l.worker.dev \in Sdrs /\ l.worker.left = None)
      <4>1. Leave(l.worker, l.cell) = l.worker
        BY <3>3 DEF Leave
      <4>2. l.worker = [l.worker EXCEPT !.left = l.worker.left]
        BY <3>1 DEF Workers
      <4>3. l.worker.dev \in Sdrs => Front(l.worker, None) = Front(l.worker, l.cell)
        BY <3>3 DEF Front
      <4> QED BY <3>1, <4>1, <4>2, <4>3
    <3> QED BY <3>2, <3>3
  <2>7. l.worker = None => Leave(l.worker, l.cell) = None
    BY DEF Leave
  <2>8. Spared(l.worker, l.cell, a.worker, a.cell, mode)
    BY <2>4, <2>6, <2>7 DEF Spared
  <2> QED BY <1>3, <2>4, <2>5, <2>8 DEF a
<1> QED BY <1>2, <1>3

\* The bookkeeping keeps the types.
LEMMA HelperTypes ==
  ASSUME NEW l \in LiveStates
  PROVE  /\ DropCapture(l) \in LiveStates
         /\ DropWorker(l) \in LiveStates
         /\ \A mode : TrySpawn(l, mode) \in LiveStates
         /\ \A mode : \A dev \in Devices : Open(l, mode, dev) \in LiveStates
<1>1. l.releasing \subseteq Exclusive /\ l.capture \in Captures \cup {None}
      /\ l.worker \in Workers \cup {None} /\ l.audio \in Audios \cup {None}
  BY DEF LiveStates
<1>2. HeldBy(l.capture) \subseteq Exclusive /\ HeldBy(l.worker) \subseteq Exclusive
  BY DEF HeldBy
<1>3. ASSUME NEW k \in LiveStates PROVE DropCapture(k) \in LiveStates
  <2>1. HeldBy(k.capture) \subseteq Exclusive
    BY DEF HeldBy
  <2> QED BY <2>1 DEF DropCapture, LiveStates
<1>4. DropWorker(l) \in LiveStates
  BY <1>1, <1>2 DEF DropWorker, LiveStates
<1>5. ASSUME NEW mode PROVE TrySpawn(l, mode) \in LiveStates
  <2>1. CASE l.worker # None \/ l.capture = None \/ (l.audio # None /\ mode = None)
    BY <2>1 DEF TrySpawn
  <2>2. CASE l.worker = None /\ l.capture # None /\ l.audio = None
    BY <1>3, <2>2 DEF TrySpawn
  <2>3. CASE l.worker = None /\ l.capture # None /\ l.audio # None /\ mode # None
    <3>1. [rig |-> l.audio.rx, dev |-> l.capture.dev, fed |-> l.capture.fed,
           left |-> l.capture.left, runs |-> TRUE] \in Workers
      BY <1>1, <2>3 DEF Workers, Audios, Captures
    <3> QED BY <2>3, <3>1 DEF TrySpawn, LiveStates
  <2> QED BY <2>1, <2>2, <2>3
<1>6. ASSUME NEW mode, NEW dev \in Devices PROVE Open(l, mode, dev) \in LiveStates
  <2>1. NewCapture(dev) \in Captures
    BY NewIsThere
  <2>2. Attach(l, mode, dev) \in LiveStates
    BY Attached
  <2>3. DropCapture(Attach(l, mode, dev)) \in LiveStates
    BY <1>3, <2>2
  <2> QED BY <2>1, <2>3 DEF Open, LiveStates, NewCapture
<1> QED BY <1>3, <1>4, <1>5, <1>6

\* A rate is kept as a number that means itself.
LEMMA RateTypes ==
  /\ \A r \in Rates \cup KeptRates : Rate(r) \in KeptRates /\ StoredRate(r) \in KeptRates
  /\ \A r \in KeptRates : r # 0 /\ Rate(r) = r /\ StoredRate(r) = r
  /\ \A r \in Rates \cup KeptRates : Rate(r) = StoredRate(r)
BY RxBindingAssumption DEF KeptRates, Rate, StoredRate

\* What a failed call leaves: the receiver and the binding as they were.
LEMMA Failed ==
  ASSUME NEW l \in LiveStates, NEW mode, NEW dev \in Devices, NEW rate,
         NEW x \in FailedBinds(l, mode, dev, rate)
  PROVE  /\ x \in LiveStates /\ x.audio = l.audio
         /\ Spared(l.worker, l.cell, x.worker, x.cell, mode)
<1> DEFINE a == Attach(l, mode, dev)
<1>0. /\ a \in LiveStates /\ a.audio = l.audio
      /\ Spared(l.worker, l.cell, a.worker, a.cell, mode)
  BY Attached
<1>1. x = l \/ x = a \/ x = Open(l, mode, dev)
  BY DEF FailedBinds, Refuse
<1>2. CASE x = l
  <2>1. l.worker # None => /\ l.worker \in Workers
                           /\ l.worker = [l.worker EXCEPT !.left = l.worker.left]
    BY DEF LiveStates, Workers
  <2> QED BY <1>2, <2>1 DEF Spared
<1>3. CASE x = Open(l, mode, dev)
  <2> HIDE DEF a
  <2>1. x = [DropCapture(a) EXCEPT !.capture = NewCapture(dev)]
    BY <1>3 DEF Open, NewCapture, a
  <2>2. x.worker = a.worker /\ x.audio = a.audio /\ x.cell = a.cell
    BY <1>0, <2>1 DEF DropCapture, LiveStates
  <2>3. x \in LiveStates
    BY <1>3, HelperTypes
  <2> QED BY <1>0, <2>2, <2>3
<1> QED BY <1>0, <1>1, <1>2, <1>3

\* What one that succeeds leaves: the new binding, with the receiver that was
\* kept or a new one.
LEMMA Granted ==
  ASSUME NEW l \in LiveStates, NEW mode \in Modes \cup {None}, NEW dev \in Devices,
         NEW tx \in TxDevices, NEW rate \in KeptRates
  PROVE  LET reuse  == Reuses(l, mode, dev, rate)
             opened == IF reuse THEN l ELSE Open(l, mode, dev)
             x == TrySpawn(Bind(opened, reuse, mode, dev, tx, rate), mode)
         IN  /\ x \in LiveStates
             /\ x.audio = [rx |-> dev, tx |-> tx, rate |-> rate, mode |-> mode]
             /\ reuse /\ l.worker # None => x.worker = l.worker
             /\ ~reuse /\ mode # None =>
                  x.worker = NewWorker(dev) /\ (dev \in Sdrs => x.cell = Takes(mode))
<1> DEFINE reuse  == Reuses(l, mode, dev, rate)
           opened == IF reuse THEN l ELSE Open(l, mode, dev)
           new    == [rx |-> dev, tx |-> tx, rate |-> rate, mode |-> mode]
           bound  == [opened EXCEPT !.audio = new]
           good   == IF reuse THEN bound ELSE DropWorker(bound)
<1>1. opened \in LiveStates
  BY HelperTypes
<1>2. new \in Audios /\ new # None
  <2>1. new \in Audios
    BY DEF Audios
  <2> QED BY <2>1, NoneIsNothing
<1>3. Bind(opened, reuse, mode, dev, tx, rate) = good
  BY DEF Bind
<1>4. new.rx = dev
  OBVIOUS
<1>5. ~reuse => opened = Open(l, mode, dev)
  OBVIOUS
<1>6. reuse => opened = l
  OBVIOUS
<1>7. Open(l, mode, dev).capture = NewCapture(dev)
      /\ (dev \in Sdrs => Open(l, mode, dev).cell = Takes(mode))
  <2>1. Attach(l, mode, dev) \in LiveStates
        /\ (dev \in Sdrs => Attach(l, mode, dev).cell = Takes(mode))
    BY Attached
  <2> QED BY <2>1 DEF Open, DropCapture, LiveStates, NewCapture
<1> HIDE DEF new, opened
<1>8. /\ bound \in LiveStates /\ bound.audio = new /\ bound.worker = opened.worker
      /\ bound.capture = opened.capture /\ bound.cell = opened.cell
  BY <1>1, <1>2 DEF LiveStates
<1> HIDE DEF bound
<1>9. /\ good \in LiveStates /\ good.audio = new
      /\ good.capture = bound.capture /\ good.cell = bound.cell
      /\ good.worker = IF reuse THEN bound.worker ELSE None
  <2>1. DropWorker(bound) \in LiveStates
    BY <1>8, HelperTypes
  <2>2. /\ DropWorker(bound).audio = bound.audio /\ DropWorker(bound).capture = bound.capture
        /\ DropWorker(bound).cell = bound.cell /\ DropWorker(bound).worker = None
    BY <1>8 DEF DropWorker, LiveStates
  <2> QED BY <1>8, <2>1, <2>2
<1> HIDE DEF good, reuse
<1>10. TrySpawn(good, mode) \in LiveStates
  BY <1>9, HelperTypes
<1>11. TrySpawn(good, mode).audio = new
  BY <1>2, <1>9 DEF TrySpawn, LiveStates
<1>12. reuse /\ l.worker # None => TrySpawn(good, mode).worker = l.worker
  BY <1>6, <1>8, <1>9 DEF TrySpawn
<1>13. ASSUME ~reuse, mode # None
       PROVE  /\ TrySpawn(good, mode).worker = NewWorker(dev)
              /\ dev \in Sdrs => TrySpawn(good, mode).cell = Takes(mode)
  <2>1. /\ good.capture = NewCapture(dev) /\ good.worker = None
        /\ dev \in Sdrs => good.cell = Takes(mode)
    BY <1>5, <1>7, <1>8, <1>9, <1>13
  <2>2. good.capture # None /\ good.audio # None
    BY <1>2, <1>9, <2>1, NewIsThere
  <2>3. TrySpawn(good, mode) =
          [good EXCEPT !.capture = None,
                       !.worker = [rig |-> good.audio.rx, dev |-> good.capture.dev,
                                   fed |-> good.capture.fed, left |-> good.capture.left,
                                   runs |-> TRUE]]
    BY <1>13, <2>1, <2>2 DEF TrySpawn
  <2>4. /\ TrySpawn(good, mode).worker =
              [rig |-> good.audio.rx, dev |-> good.capture.dev, fed |-> good.capture.fed,
               left |-> good.capture.left, runs |-> TRUE]
        /\ TrySpawn(good, mode).cell = good.cell
    BY <1>9, <2>3 DEF LiveStates
  <2>5. good.audio.rx = dev /\ good.capture.dev = dev /\ good.capture.fed = TRUE
        /\ good.capture.left = None
    BY <1>4, <1>9, <2>1 DEF NewCapture
  <2> QED BY <2>1, <2>4, <2>5 DEF NewWorker
<1> QED BY <1>3, <1>10, <1>11, <1>12, <1>13 DEF reuse, opened, new

\* The two together.
LEMMA Outcome ==
  ASSUME NEW l \in LiveStates, NEW mode \in Modes \cup {None}, NEW dev \in Devices,
         NEW tx \in TxDevices \cup {None}, NEW rate \in KeptRates,
         NEW o \in BindOutcomes(l, mode, dev, tx, rate), present \subseteq Devices
  PROVE  /\ o.ok \in BOOLEAN /\ o.live \in LiveStates
         /\ ~o.ok => /\ o.live.audio = l.audio
                     /\ Spared(l.worker, l.cell, o.live.worker, o.live.cell, mode)
         /\ o.ok => /\ tx \in TxDevices
                    /\ o.live.audio = [rx |-> dev, tx |-> tx, rate |-> rate, mode |-> mode]
                    /\ Reuses(l, mode, dev, rate) /\ l.worker # None => o.live.worker = l.worker
                    /\ ~Reuses(l, mode, dev, rate) /\ mode # None =>
                         /\ o.live.worker = NewWorker(dev)
                         /\ dev \in Sdrs => o.live.cell = Takes(mode)
<1> DEFINE reuse  == Reuses(l, mode, dev, rate)
           opened == IF reuse THEN l ELSE Open(l, mode, dev)
           good   == TrySpawn(Bind(opened, reuse, mode, dev, tx, rate), mode)
<1>1. \/ \E x \in FailedBinds(l, mode, dev, rate) : o = [ok |-> FALSE, live |-> x]
      \/ tx \in present /\ o = [ok |-> TRUE, live |-> good]
  BY DEF BindOutcomes, Bindable
<1>2. ASSUME NEW x \in FailedBinds(l, mode, dev, rate), o = [ok |-> FALSE, live |-> x]
      PROVE  /\ o.ok = FALSE /\ o.live \in LiveStates /\ o.live.audio = l.audio
             /\ Spared(l.worker, l.cell, o.live.worker, o.live.cell, mode)
  <2>1. o.ok = FALSE /\ o.live = x
    BY <1>2
  <2> QED BY <2>1, Failed
<1>3. CASE tx \in present /\ o = [ok |-> TRUE, live |-> good]
  <2>1. tx \in TxDevices
    BY <1>3, Something
  <2> HIDE DEF good
  <2>2. o.ok = TRUE /\ o.live = good
    BY <1>3
  <2>3. /\ good \in LiveStates
        /\ good.audio = [rx |-> dev, tx |-> tx, rate |-> rate, mode |-> mode]
        /\ reuse /\ l.worker # None => good.worker = l.worker
        /\ ~reuse /\ mode # None =>
             good.worker = NewWorker(dev) /\ (dev \in Sdrs => good.cell = Takes(mode))
    BY <2>1, Granted DEF good
  <2> QED BY <2>1, <2>2, <2>3
<1> QED BY <1>1, <1>2, <1>3

LEMMA TypeInit == Init => TypeOK
BY RxBindingAssumption DEF Init, TypeOK

LEMMA CommandTypes == TypeOK /\ Commands => TypeOK'
<1> SUFFICES ASSUME TypeOK, Commands PROVE TypeOK'
  OBVIOUS
<1>0. MaxRate \in KeptRates /\ Live \in LiveStates /\ present \subseteq Devices
  BY LiveTypes DEF KeptRates, TypeOK
<1>1. ASSUME NEW mode \in Modes \cup {None}, ConfigureChannel(mode) PROVE TypeOK'
  <2>1. config' \in Configs
    <3>1. CASE config = None
      BY <1>0, <1>1, <3>1 DEF ConfigureChannel, Configs
    <3>2. CASE config # None
      BY <1>1, <3>2 DEF ConfigureChannel, Configs, TypeOK
    <3> QED BY <3>1, <3>2
  <2>2. acked' \in [mode : Modes \cup {None}, dev : Devices \cup {None}]
    BY <1>1 DEF ConfigureChannel, TypeOK
  <2>3. LiveTyped'
    BY <1>1, SameLiveTypes DEF ConfigureChannel
  <2> QED BY <1>1, <2>1, <2>2, <2>3 DEF ConfigureChannel, TypeOK, LiveTyped
<1>2. ASSUME NEW dev \in Devices, NEW tx \in TxDevices, NEW rate \in Rates,
             ConfigureAudio(dev, tx, rate)
      PROVE  TypeOK'
  <2>1. Rate(rate) \in KeptRates /\ StoredRate(Rate(rate)) \in KeptRates
    BY RateTypes
  <2>2. config' \in Configs
    BY <1>2, <2>1 DEF ConfigureAudio, Configs, TypeOK
  <2>3. acked' \in [mode : Modes \cup {None}, dev : Devices \cup {None}]
    BY <1>2 DEF ConfigureAudio, TypeOK
  <2>4. store' \in Configs \cup {None}
    BY <1>2, <2>2 DEF ConfigureAudio, TypeOK
  <2>5. config.mode \in Modes \cup {None}
    BY <1>2 DEF ConfigureAudio, TypeOK, Configs
  <2>6. LiveTyped'
    <3>1. CASE UNCHANGED live
      BY <3>1, SameLiveTypes
    <3>2. ASSUME NEW o \in BindOutcomes(Live, config.mode, dev, tx, Rate(rate)), SetLive(o.live)
          PROVE  LiveTyped'
      <4>1. o.live \in LiveStates
        BY <1>0, <2>1, <2>5, <3>2, Outcome
      <4> QED BY ONLY <3>2, <4>1, SetLiveTypes
    <3> QED BY <1>2, <3>1, <3>2 DEF ConfigureAudio
  <2> QED BY <1>2, <2>2, <2>3, <2>4, <2>6 DEF ConfigureAudio, TypeOK, LiveTyped
<1>3. CASE ConfigurePtt
  <2>1. LiveTyped'
    <3>1. CASE UNCHANGED live
      BY <3>1, SameLiveTypes
    <3>2. CASE SetLive(TrySpawn(Live, config.mode))
      <4>1. TrySpawn(Live, config.mode) \in LiveStates
        BY <1>0, HelperTypes
      <4> QED BY ONLY <3>2, <4>1, SetLiveTypes
    <3> QED BY <1>3, <3>1, <3>2 DEF ConfigurePtt
  <2> QED BY <1>3, <2>1 DEF ConfigurePtt, TypeOK, LiveTyped
<1>4. CASE SetSdr
  BY <1>4 DEF SetSdr, TypeOK, Cells
<1> QED BY <1>1, <1>2, <1>3, <1>4 DEF Commands

LEMMA TypeStep == TypeOK /\ [Next]_vars => TypeOK'
<1> SUFFICES ASSUME TypeOK, [Next]_vars PROVE TypeOK'
  OBVIOUS
<1>0. Live \in LiveStates /\ NothingLive \in LiveStates /\ present \subseteq Devices
  BY LiveTypes DEF TypeOK
<1>1. CASE PollHotplug
  <2> DEFINE l == [DropWorker(DropCapture(Live)) EXCEPT !.audio = None, !.cell = None]
  <2>1. l \in LiveStates
    <3>1. DropWorker(DropCapture(Live)) \in LiveStates
      BY <1>0, HelperTypes
    <3> QED BY <3>1 DEF LiveStates
  <2>2. LiveTyped'
    <3>1. CASE UNCHANGED live
      BY <3>1, SameLiveTypes
    <3>2. CASE SetLive(l)
      BY ONLY <2>1, <3>2, SetLiveTypes
    <3> QED BY <1>1, <3>1, <3>2 DEF PollHotplug
  <2> QED BY <1>1, <2>2 DEF PollHotplug, TypeOK, LiveTyped
<1>2. CASE WorkerEnds \/ ThreadReleases
  BY <1>2 DEF WorkerEnds, ThreadReleases, TypeOK, Workers
<1>3. ASSUME NEW d \in Devices, Unplug(d) \/ Plug(d) PROVE TypeOK'
  BY <1>3 DEF Unplug, Plug, TypeOK, live, Captures, Workers
<1>4. CASE Die
  BY <1>4 DEF Die, SetLive, NothingLive, TypeOK
<1>5. ASSUME NEW faulty \in BOOLEAN, Start(faulty) PROVE TypeOK'
  <2>1. LiveTyped'
    <3>1. CASE UNCHANGED live
      BY <3>1, SameLiveTypes
    <3>2. CASE SetLive(NothingLive)
      BY ONLY <1>0, <3>2, SetLiveTypes
    <3>3. ASSUME store # None, store.dev # None,
                 NEW o \in BindOutcomes(NothingLive, store.mode, store.dev,
                                        store.tx, Rate(store.rate)),
                 SetLive(o.live)
          PROVE  LiveTyped'
      <4>1. /\ store.mode \in Modes \cup {None} /\ store.dev \in Devices
            /\ store.tx \in TxDevices \cup {None} /\ store.rate \in KeptRates
        BY <3>3 DEF TypeOK, Configs
      <4>2. Rate(store.rate) \in KeptRates
        BY <4>1, RateTypes
      <4>3. o.live \in LiveStates
        BY <1>0, <3>3, <4>1, <4>2, Outcome
      <4> QED BY ONLY <3>3, <4>3, SetLiveTypes
    <3> QED BY <1>5, <3>1, <3>2, <3>3 DEF Start
  <2> QED BY <1>5, <2>1 DEF Start, TypeOK, LiveTyped
<1>6. CASE UNCHANGED vars
  BY <1>6 DEF TypeOK, vars, live
<1> QED BY <1>1, <1>2, <1>3, <1>4, <1>5, <1>6, CommandTypes DEF Next

\* The variables keep their types: of what is live, of what is stored, and
\* through every death and restart.
THEOREM BindingTypes == Spec => []TypeOK
BY TypeInit, TypeStep, PTL DEF Spec

-----------------------------------------------------------------------------
(* Durability. *)

\* While the daemon runs, its configuration has what clients were told too: the
\* row a later call writes is made from it.
Kept ==
    up => /\ acked.mode # None => config # None /\ config.mode = acked.mode
          /\ acked.dev # None => config # None /\ config.dev = acked.dev

Durable == Kept /\ AckedIsDurable

LEMMA DurableInit == Init => Durable
BY DEF Init, Durable, Kept, AckedIsDurable

LEMMA DurableStep == TypeOK /\ Durable /\ [Next]_vars => Durable'
<1> SUFFICES ASSUME TypeOK, Durable, [Next]_vars PROVE Durable'
  OBVIOUS
<1>1. ASSUME NEW mode \in Modes \cup {None}, ConfigureChannel(mode) PROVE Durable'
  <2>1. acked'.mode = mode /\ acked'.dev = acked.dev
    BY <1>1 DEF ConfigureChannel, TypeOK
  <2>2. store' = config' /\ config'.mode = mode /\ (acked.dev # None => config'.dev = acked.dev)
    BY <1>1 DEF ConfigureChannel, TypeOK, Configs, Durable, Kept
  <2>3. config' # None
    <3>1. config' \in Configs
      <4>1. MaxRate \in KeptRates
        BY DEF KeptRates
      <4> QED BY <1>1, <4>1 DEF ConfigureChannel, TypeOK, Configs
    <3> QED BY <3>1, NoneIsNothing
  <2> QED BY <2>1, <2>2, <2>3 DEF Durable, Kept, AckedIsDurable
<1>2. ASSUME NEW dev \in Devices, NEW tx \in TxDevices, NEW rate \in Rates,
             ConfigureAudio(dev, tx, rate)
      PROVE  Durable'
  <2>1. config' # None /\ config'.dev = dev /\ config'.mode = config.mode
    <3>1. Rate(rate) \in KeptRates /\ StoredRate(Rate(rate)) \in KeptRates
      BY RateTypes
    <3>2. config' \in Configs /\ config'.dev = dev /\ config'.mode = config.mode
      BY <1>2, <3>1 DEF ConfigureAudio, TypeOK, Configs
    <3> QED BY <3>2, NoneIsNothing
  <2>2. acked'.mode = acked.mode /\ acked'.dev \in {None, dev}
    BY <1>2 DEF ConfigureAudio, TypeOK
  <2>3. store' = config' \/ (store' = store /\ acked'.dev = None)
    BY <1>2 DEF ConfigureAudio, TypeOK
  <2> QED BY <1>2, <2>1, <2>2, <2>3 DEF ConfigureAudio, Durable, Kept, AckedIsDurable
<1>3. CASE ConfigurePtt
  BY <1>3 DEF ConfigurePtt, Durable, Kept, AckedIsDurable
<1>4. CASE SetSdr \/ PollHotplug \/ WorkerEnds \/ ThreadReleases
  BY <1>4 DEF SetSdr, PollHotplug, WorkerEnds, ThreadReleases, Durable, Kept, AckedIsDurable
<1>5. ASSUME NEW d \in Devices, Unplug(d) \/ Plug(d) PROVE Durable'
  BY <1>5 DEF Unplug, Plug, Durable, Kept, AckedIsDurable
<1>6. ASSUME NEW faulty \in BOOLEAN, Die \/ Start(faulty) PROVE Durable'
  BY <1>6 DEF Die, Start, Durable, Kept, AckedIsDurable
<1>7. CASE UNCHANGED vars
  BY <1>7 DEF vars, Durable, Kept, AckedIsDurable
<1> QED BY <1>1, <1>2, <1>3, <1>4, <1>5, <1>6, <1>7 DEF Next, Commands

\* What a client was told is in the store, whatever order the two calls write
\* and apply in, and whether the daemon has died in between.
THEOREM ToldIsStored == Spec => []AckedIsDurable
<1>1. Spec => []Durable
  BY TypeInit, TypeStep, DurableInit, DurableStep, PTL DEF Spec
<1>2. Durable => AckedIsDurable
  BY DEF Durable
<1> QED BY <1>1, <1>2, PTL

-----------------------------------------------------------------------------
(* What a restart and a repeated, a refused or a granted request do. *)

\* After a restart nothing is held, so the device opens if it is there and
\* nothing fails.
LEMMA RestartStep ==
  ASSUME TypeOK, AckedIsDurable, NEW faulty \in BOOLEAN, Start(faulty),
         acked.dev # None, acked.mode # None
  PROVE  /\ ~faulty /\ {acked.dev, store.tx} \subseteq present
              => audio' # None /\ audio'.rx = acked.dev
         /\ IF audio' = None THEN worker' = None
            ELSE /\ worker' # None /\ worker'.runs /\ worker'.dev = acked.dev
                 /\ audio'.mode = acked.mode
                 /\ acked.dev \in Sdrs => Front(worker', cell') = Takes(acked.mode)
<1> DEFINE dev == acked.dev
           mode == acked.mode
           rate == Rate(store.rate)
           new == [rx |-> dev, tx |-> store.tx, rate |-> rate, mode |-> mode]
           outcomes == BindOutcomes(NothingLive, mode, dev, store.tx, rate)
           bindable == Bindable(NothingLive, mode, dev, store.tx, rate)
<1>1. /\ store # None /\ store.dev = dev /\ store.mode = mode
      /\ dev \in Devices /\ mode \in Modes /\ store.tx \in TxDevices \cup {None}
      /\ rate \in KeptRates /\ present \subseteq Devices
  <2>1. store # None /\ store.dev = dev /\ store.mode = mode
    BY DEF AckedIsDurable
  <2>2. store \in Configs
    BY <2>1 DEF TypeOK
  <2> QED BY <2>1, <2>2, RateTypes DEF TypeOK, Configs
<1>2. \/ \E o \in outcomes : (~faulty /\ bindable => o.ok) /\ SetLive(o.live)
      \/ faulty /\ SetLive(NothingLive)
  BY <1>1 DEF Start
<1>3. /\ NothingLive \in LiveStates
      /\ NothingLive.audio = None /\ NothingLive.worker = None
      /\ ~Reuses(NothingLive, mode, dev, rate)
      /\ Held(NothingLive) = {}
  BY LiveTypes DEF NothingLive, Reuses, Held, HeldBy
<1>4. {dev, store.tx} \subseteq present => bindable
  BY <1>3 DEF Bindable, CanOpen
<1>5. ASSUME faulty, SetLive(NothingLive) PROVE audio' = None /\ worker' = None
  BY <1>5 DEF SetLive, NothingLive
<1> HIDE DEF rate, bindable
<1>6. ASSUME NEW o \in outcomes, SetLive(o.live)
      PROVE  /\ o.ok \in BOOLEAN
             /\ ~o.ok => audio' = None /\ worker' = None
             /\ o.ok => /\ audio' = new /\ new # None /\ worker' = NewWorker(dev)
                        /\ dev \in Sdrs => cell' = Takes(mode)
  <2>1. audio' = o.live.audio /\ worker' = o.live.worker /\ cell' = o.live.cell
    BY <1>6 DEF SetLive
  <2>2. mode # None
    BY <1>1, Something
  <2>3. /\ o.ok \in BOOLEAN
        /\ ~o.ok => /\ o.live.audio = NothingLive.audio
                    /\ Spared(NothingLive.worker, NothingLive.cell, o.live.worker, o.live.cell, mode)
        /\ o.ok => /\ store.tx \in TxDevices
                   /\ o.live.audio = new
                   /\ o.live.worker = NewWorker(dev)
                   /\ dev \in Sdrs => o.live.cell = Takes(mode)
    BY <1>1, <1>3, <1>6, <2>2, Outcome
  <2>4. store.tx \in TxDevices => new # None
    <3>1. store.tx \in TxDevices => new \in Audios
      BY <1>1 DEF Audios
    <3> QED BY <3>1, NoneIsNothing
  <2> QED BY <1>3, <2>1, <2>3, <2>4 DEF Spared
<1>7. /\ NewWorker(dev) # None /\ NewWorker(dev).runs /\ NewWorker(dev).dev = dev
      /\ NewWorker(dev).left = None
  BY <1>1, NewIsThere DEF NewWorker
<1>8. new.rx = dev /\ new.mode = mode
  OBVIOUS
<1> QED BY <1>2, <1>4, <1>5, <1>6, <1>7, <1>8 DEF Front

\* A restart brings the receiver back on the device configured last: the row
\* names it, and no thread of the old process holds it.
THEOREM RestartBringsBack == Spec => RestartReopens
<1>1. Spec => [](TypeOK /\ Durable)
  BY TypeInit, TypeStep, DurableInit, DurableStep, PTL DEF Spec
<1>2. TypeOK /\ Durable /\ [Next]_vars =>
        [\A faulty \in BOOLEAN :
           acked.dev # None /\ acked.mode # None /\ Start(faulty)
           => /\ ~faulty /\ {acked.dev, store.tx} \subseteq present
                 => audio' # None /\ audio'.rx = acked.dev
              /\ IF audio' = None THEN worker' = None
                 ELSE /\ worker' # None /\ worker'.runs /\ worker'.dev = acked.dev
                      /\ audio'.mode = acked.mode
                      /\ acked.dev \in Sdrs
                         => Front(worker', cell') = Takes(acked.mode)]_vars
  BY RestartStep DEF Durable
<1> QED BY <1>1, <1>2, PTL DEF Spec, RestartReopens

\* Repeating the request a running receiver is bound by keeps it, in whatever
\* form the rate comes: a stored rate is never "any".
THEOREM RepeatKeepsFeed == Spec => []ReconnectKeepsFeed
<1>1. TypeOK => ReconnectKeepsFeed
  <2> SUFFICES ASSUME TypeOK, worker # None, worker.runs, audio # None,
                      NEW r \in Rates \cup KeptRates,
                      audio.mode = config.mode, audio.tx \in present,
                      StoredRate(r) = StoredRate(audio.rate)
               PROVE  \E o \in BindOutcomes(Live, config.mode, audio.rx, audio.tx, Rate(r)) :
                         o.ok /\ o.live.worker = worker
    BY DEF ReconnectKeepsFeed
  <2>1. audio.rate \in KeptRates
    BY DEF TypeOK, Audios
  <2>2. Rate(r) = audio.rate
    BY <2>1, RateTypes
  <2>3. Reuses(Live, config.mode, audio.rx, Rate(r))
    BY <2>2 DEF Reuses, Live
  <2> DEFINE bound == [Live EXCEPT !.audio = [rx |-> audio.rx, tx |-> audio.tx,
                                              rate |-> Rate(r), mode |-> config.mode]]
  <2>4. bound.worker = worker
    BY DEF Live
  <2>5. TrySpawn(bound, config.mode) = bound
    BY <2>4 DEF TrySpawn
  <2>6. [ok |-> TRUE, live |-> TrySpawn(bound, config.mode)]
          \in BindOutcomes(Live, config.mode, audio.rx, audio.tx, Rate(r))
    BY <2>3 DEF BindOutcomes, Bindable, Bind
  <2> QED BY <2>4, <2>5, <2>6
<1> QED BY <1>1, BindingTypes, PTL

\* What ConfigureAudio does: it fails and spares the receiver, or makes the new
\* binding with the receiver that was kept or a new one.
AudioFails ==
    /\ acked'.dev = None /\ audio' = audio
    /\ Spared(worker, cell, worker', cell', config.mode)

AudioBinds(dev, tx, rate) ==
    /\ acked'.dev = dev
    /\ audio' = [rx |-> dev, tx |-> tx, rate |-> rate, mode |-> config.mode]
    /\ Reuses(Live, config.mode, dev, rate) /\ worker # None => worker' = worker
    /\ ~Reuses(Live, config.mode, dev, rate) /\ config.mode # None =>
         /\ worker' = NewWorker(dev)
         /\ dev \in Sdrs => cell' = Takes(config.mode)

LEMMA AudioStep ==
  ASSUME TypeOK, NEW dev \in Devices, NEW tx \in TxDevices, NEW rate \in Rates,
         ConfigureAudio(dev, tx, rate)
  PROVE  AudioFails \/ AudioBinds(dev, tx, Rate(rate))
<1>1. CASE UNCHANGED live /\ acked' = [acked EXCEPT !.dev = None]
  <2>1. worker # None => worker \in Workers /\ worker' = [worker EXCEPT !.left = worker'.left]
    BY <1>1 DEF live, TypeOK, Workers
  <2>2. UNCHANGED <<worker, cell, audio>> /\ acked'.dev = None
    BY <1>1 DEF live, TypeOK
  <2> QED BY <2>1, <2>2 DEF AudioFails, Spared
<1>2. ASSUME NEW o \in BindOutcomes(Live, config.mode, dev, tx, Rate(rate)), SetLive(o.live),
             acked' = [acked EXCEPT !.dev = IF o.ok THEN dev ELSE None]
      PROVE  AudioFails \/ AudioBinds(dev, tx, Rate(rate))
  <2>1. /\ Live \in LiveStates /\ config.mode \in Modes \cup {None}
        /\ Rate(rate) \in KeptRates /\ present \subseteq Devices /\ tx \in TxDevices \cup {None}
    BY LiveTypes, RateTypes DEF ConfigureAudio, TypeOK, Configs
  <2>2. Live.worker = worker /\ Live.audio = audio /\ Live.cell = cell
    BY DEF Live
  <2>3. /\ o.ok \in BOOLEAN
        /\ ~o.ok => /\ o.live.audio = audio
                    /\ Spared(worker, cell, o.live.worker, o.live.cell, config.mode)
        /\ o.ok => /\ o.live.audio = [rx |-> dev, tx |-> tx, rate |-> Rate(rate),
                                       mode |-> config.mode]
                   /\ Reuses(Live, config.mode, dev, Rate(rate)) /\ worker # None
                        => o.live.worker = worker
                   /\ ~Reuses(Live, config.mode, dev, Rate(rate)) /\ config.mode # None =>
                        /\ o.live.worker = NewWorker(dev)
                        /\ dev \in Sdrs => o.live.cell = Takes(config.mode)
    BY <2>1, <2>2, Outcome
  <2>4. worker' = o.live.worker /\ audio' = o.live.audio /\ cell' = o.live.cell
    BY <1>2 DEF SetLive
  <2>5. acked'.dev = IF o.ok THEN dev ELSE None
    BY <1>2 DEF TypeOK
  <2>6. CASE o.ok
    BY <2>3, <2>4, <2>5, <2>6 DEF AudioBinds
  <2>7. CASE ~o.ok
    BY <2>3, <2>4, <2>5, <2>7 DEF AudioFails
  <2> QED BY <2>3, <2>6, <2>7
<1> QED BY <1>1, <1>2 DEF ConfigureAudio

LEMMA RefusalStep ==
  ASSUME TypeOK, NEW d \in Devices, NEW t \in TxDevices, NEW r \in Rates,
         acked'.dev = None, ConfigureAudio(d, t, r)
  PROVE  /\ audio' = audio
         /\ IF worker = None THEN worker' = None
            ELSE /\ worker' # None
                 /\ worker' = [worker EXCEPT !.left = worker'.left]
                 /\ worker.dev \in Sdrs /\ Front(worker, cell) = Takes(config.mode)
                    => Front(worker', cell') = Front(worker, cell)
<1>1. AudioFails
  BY AudioStep, Something DEF AudioBinds
<1>2. worker # None => worker' # None
  BY <1>1, NoneIsNothing DEF AudioFails, Spared
<1> QED BY <1>1, <1>2 DEF AudioFails, Spared

\* A request that is refused, at whatever point, leaves the binding and the
\* receiver as they were; what the receiver is told it can only bring to what
\* the mode of the channel takes.
THEOREM RefusalKeepsReceiver == Spec => RefusalKeepsFeed
<1>1. TypeOK /\ [Next]_vars =>
        [\A d \in Devices, t \in TxDevices, r \in Rates :
           acked'.dev = None /\ ConfigureAudio(d, t, r)
           => /\ audio' = audio
              /\ IF worker = None THEN worker' = None
                 ELSE /\ worker' # None
                      /\ worker' = [worker EXCEPT !.left = worker'.left]
                      /\ worker.dev \in Sdrs /\ Front(worker, cell) = Takes(config.mode)
                         => Front(worker', cell') = Front(worker, cell)]_vars
  BY RefusalStep
<1> QED BY <1>1, BindingTypes, PTL DEF Spec, RefusalKeepsFeed

\* A binding of a mode that decodes has its worker, on the device it is bound
\* to: what makes the worker fit to be kept.
Fed == audio # None /\ audio.mode # None => worker # None /\ worker.dev = audio.rx

LEMMA FedInit == Init => Fed
BY DEF Init, Fed

LEMMA FedStep == TypeOK /\ Fed /\ [Next]_vars => Fed'
<1> SUFFICES ASSUME TypeOK, Fed, [Next]_vars PROVE Fed'
  OBVIOUS
<1>0. \A d \in Devices : NewWorker(d).dev = d /\ NewWorker(d) # None
  BY NewIsThere DEF NewWorker
<1>1. ASSUME UNCHANGED <<audio, worker>> PROVE Fed'
  BY <1>1 DEF Fed
<1>2. ASSUME NEW dev \in Devices, NEW tx \in TxDevices, NEW rate \in Rates,
             ConfigureAudio(dev, tx, rate)
      PROVE  Fed'
  <2>1. CASE AudioFails
    <3>1. ASSUME worker # None PROVE worker' \in Workers /\ worker'.dev = worker.dev
      <4>1. /\ worker \in Workers /\ worker' \in Workers
            /\ worker' = [worker EXCEPT !.left = worker'.left]
        BY <2>1, <3>1 DEF AudioFails, Spared, TypeOK
      <4> QED BY <4>1 DEF Workers
    <3>2. worker' # None \/ worker = None
      BY <3>1, NoneIsNothing
    <3> QED BY <2>1, <3>1, <3>2 DEF Fed, AudioFails
  <2> DEFINE reuse == Reuses(Live, config.mode, dev, Rate(rate))
  <2>2. CASE AudioBinds(dev, tx, Rate(rate))
    <3>1. audio'.rx = dev /\ audio'.mode = config.mode
      BY <2>2 DEF AudioBinds
    <3>2. CASE config.mode # None /\ reuse
      <4>1. audio # None /\ audio.rx = dev /\ audio.mode = config.mode
        BY <3>2 DEF Reuses, Live
      <4>2. worker # None /\ worker.dev = dev
        BY <3>2, <4>1 DEF Fed
      <4> QED BY <2>2, <3>1, <3>2, <4>2 DEF Fed, AudioBinds
    <3>3. CASE config.mode # None /\ ~reuse
      BY <1>0, <2>2, <3>1, <3>3 DEF Fed, AudioBinds
    <3> QED BY <3>1, <3>2, <3>3 DEF Fed
  <2> QED BY <1>2, <2>1, <2>2, AudioStep
<1>3. ASSUME NEW mode \in Modes \cup {None}, ConfigureChannel(mode) PROVE Fed'
  BY <1>1, <1>3 DEF ConfigureChannel, live
<1>4. CASE ConfigurePtt
  <2>1. CASE SetLive(TrySpawn(Live, config.mode))
    <3>1. TrySpawn(Live, config.mode).audio = audio
      BY DEF TrySpawn, Live, DropCapture
    <3>2. worker # None => TrySpawn(Live, config.mode).worker = worker
      BY DEF TrySpawn, Live
    <3> QED BY <2>1, <3>1, <3>2 DEF SetLive, Fed
  <2> QED BY <1>1, <1>4, <2>1 DEF ConfigurePtt, live
<1>5. CASE PollHotplug
  <2> DEFINE l == [DropWorker(DropCapture(Live)) EXCEPT !.audio = None, !.cell = None]
  <2>1. l.audio = None
    BY DEF DropWorker, DropCapture, Live
  <2>2. CASE SetLive(l)
    BY <2>1, <2>2 DEF SetLive, Fed
  <2> QED BY <1>1, <1>5, <2>2 DEF PollHotplug, live
<1>6. CASE WorkerEnds
  <2>1. worker \in Workers /\ worker' = [worker EXCEPT !.runs = FALSE]
    BY <1>6 DEF WorkerEnds, TypeOK
  <2>2. worker' \in Workers /\ worker'.dev = worker.dev
    BY <2>1 DEF Workers
  <2>3. worker' # None
    BY <2>2, NoneIsNothing
  <2> QED BY <1>6, <2>2, <2>3 DEF WorkerEnds, Fed
<1>7. CASE SetSdr \/ ThreadReleases
  BY <1>1, <1>7 DEF SetSdr, ThreadReleases
<1>8. ASSUME NEW d \in Devices, Unplug(d) PROVE Fed'
  <2>1. CASE worker # None /\ worker.dev = d
    <3>1. worker \in Workers /\ worker' = [worker EXCEPT !.fed = FALSE]
      BY <1>8, <2>1 DEF Unplug, TypeOK
    <3>2. worker' \in Workers /\ worker'.dev = worker.dev
      BY <3>1 DEF Workers
    <3>3. worker' # None
      BY <3>2, NoneIsNothing
    <3> QED BY <1>8, <3>2, <3>3 DEF Unplug, Fed
  <2> QED BY <1>1, <1>8, <2>1 DEF Unplug
<1>9. ASSUME NEW d \in Devices, Plug(d) PROVE Fed'
  BY <1>1, <1>9 DEF Plug, live
<1>10. CASE Die
  BY <1>10 DEF Die, SetLive, NothingLive, Fed
<1>11. ASSUME NEW faulty \in BOOLEAN, Start(faulty) PROVE Fed'
  <2>1. CASE UNCHANGED live
    BY <1>1, <2>1 DEF live
  <2>2. CASE SetLive(NothingLive)
    BY <2>2 DEF SetLive, NothingLive, Fed
  <2>3. ASSUME store # None, store.dev # None,
               NEW o \in BindOutcomes(NothingLive, store.mode, store.dev,
                                      store.tx, Rate(store.rate)),
               SetLive(o.live)
        PROVE  Fed'
    <3>1. /\ store.mode \in Modes \cup {None} /\ store.dev \in Devices
          /\ store.tx \in TxDevices \cup {None} /\ store.rate \in KeptRates
      BY <2>3 DEF TypeOK, Configs
    <3>2. Rate(store.rate) \in KeptRates /\ NothingLive \in LiveStates /\ present \subseteq Devices
      BY <3>1, RateTypes, LiveTypes DEF TypeOK
    <3>3. ~Reuses(NothingLive, store.mode, store.dev, Rate(store.rate))
      BY DEF Reuses, NothingLive
    <3>4. /\ o.ok \in BOOLEAN
          /\ ~o.ok => o.live.audio = None
          /\ o.ok => /\ o.live.audio = [rx |-> store.dev, tx |-> store.tx,
                                        rate |-> Rate(store.rate), mode |-> store.mode]
                     /\ store.mode # None => o.live.worker = NewWorker(store.dev)
      <4>1. NothingLive.audio = None
        BY DEF NothingLive
      <4> QED BY <2>3, <3>1, <3>2, <3>3, <4>1, Outcome
    <3>5. audio' = o.live.audio /\ worker' = o.live.worker
      BY <2>3 DEF SetLive
    <3>6. CASE ~o.ok
      BY <3>4, <3>5, <3>6 DEF Fed
    <3>7. CASE o.ok
      <4>1. audio'.rx = store.dev /\ audio'.mode = store.mode
        BY <3>4, <3>5, <3>7
      <4>2. store.mode # None => worker' # None /\ worker'.dev = store.dev
        BY <1>0, <3>1, <3>4, <3>5, <3>7
      <4> QED BY <4>1, <4>2 DEF Fed
    <3> QED BY <3>4, <3>6, <3>7
  <2> QED BY <1>11, <2>1, <2>2, <2>3 DEF Start
<1>12. CASE UNCHANGED vars
  BY <1>1, <1>12 DEF vars, live
<1> QED BY <1>2, <1>3, <1>4, <1>5, <1>6, <1>7, <1>8, <1>9, <1>10, <1>11, <1>12 DEF Next, Commands

LEMMA GrantStep ==
  ASSUME TypeOK, Fed, NEW d \in Devices, NEW t \in TxDevices, NEW r \in Rates,
         acked'.dev # None, ~Stray, ConfigureAudio(d, t, r), config.mode # None
  PROVE  /\ worker' # None /\ worker'.runs /\ worker'.dev = d
         /\ d \in Sdrs /\ worker' # worker => Front(worker', cell') = Takes(config.mode)
<1> DEFINE reuse == Reuses(Live, config.mode, d, Rate(r))
<1>1. /\ reuse /\ worker # None => worker' = worker
      /\ ~reuse => /\ worker' = NewWorker(d)
                   /\ d \in Sdrs => cell' = Takes(config.mode)
  <2>1. AudioBinds(d, t, Rate(r))
    BY AudioStep DEF AudioFails
  <2> QED BY <2>1 DEF AudioBinds
<1>2. CASE reuse
  <2>1. audio # None /\ audio.rx = d /\ audio.mode = config.mode
    BY <1>2 DEF Reuses, Live
  <2>2. worker # None /\ worker.dev = d
    BY <2>1 DEF Fed
  <2>3. worker.runs
    BY <1>2, <2>2 DEF Reuses, Live, Stray
  <2> QED BY <1>1, <1>2, <2>2, <2>3
<1>3. CASE ~reuse
  <2>1. /\ NewWorker(d) # None /\ NewWorker(d).runs /\ NewWorker(d).dev = d
        /\ NewWorker(d).left = None
    BY NewIsThere DEF NewWorker
  <2> QED BY <1>1, <1>3, <2>1 DEF Front
<1> QED BY <1>2, <1>3

\* A request that succeeds in a mode that decodes leaves a receiver running on
\* the device it names, be it kept or new, and a new one with the front end the
\* mode takes.
THEOREM GrantFeeds == Spec => AckedFeedRuns
<1>1. Spec => [](TypeOK /\ Fed)
  BY TypeInit, TypeStep, FedInit, FedStep, PTL DEF Spec
<1>2. TypeOK /\ Fed /\ [Next]_vars =>
        [\A d \in Devices, t \in TxDevices, r \in Rates :
           /\ acked'.dev # None /\ ~Stray
           /\ ConfigureAudio(d, t, r)
           /\ config.mode # None
           => /\ worker' # None /\ worker'.runs /\ worker'.dev = d
              /\ d \in Sdrs /\ worker' # worker
                 => Front(worker', cell') = Takes(config.mode)]_vars
  BY GrantStep
<1> QED BY <1>1, <1>2, PTL DEF Spec, AckedFeedRuns
-----------------------------------------------------------------------------
(* Playback. *)

\* The buffers on their way are in the order of submission, behind fed.
Ordered ==
    /\ \A i \in DOMAIN chan : fed <= chan[i]
    /\ \A i, j \in DOMAIN chan : i < j => chan[i] <= chan[j]
    /\ inHand # NoBuffer => fed <= inHand /\ \A i \in DOMAIN chan : inHand <= chan[i]

\* Until a flush, what is counted is what was put out, and that is all that
\* left the queue.
Counted == waitEnd # "aborted" => drained = position /\ played = 1 .. position

\* The wait is for the latest burst, and an aborted cycle is the last.
Phases ==
    /\ pc = "drain" => watermark = submitted
    /\ waitEnd = "aborted" => pc \in {"flush", "unkey", "gone"}
    /\ pc = "flush" => waitEnd = "aborted"

PlaybackInv == PlaybackTypeOK /\ Ordered /\ Counted /\ Phases /\ UnkeyAfterLastSample

LEMMA PlaybackStarts == PlaybackInit => PlaybackInv
<1> SUFFICES ASSUME PlaybackInit PROVE PlaybackInv
  OBVIOUS
<1>1. PlaybackTypeOK
  <2>1. chan \in Seq(0 .. submitted)
    BY DEF PlaybackInit
  <2>2. cycles \in 0 .. MaxCycles
    BY PlaybackBounds DEF PlaybackInit
  <2>3. played \subseteq 1 .. submitted
    BY DEF PlaybackInit
  <2>4. watermark \in 0 .. submitted /\ fed \in 0 .. submitted /\ position \in 0 .. fed
    BY DEF PlaybackInit
  <2>5. submitted \in Nat /\ drained \in Nat
    BY DEF PlaybackInit
  <2>6. inHand \in {NoBuffer} \cup (0 .. submitted)
    BY DEF PlaybackInit
  <2>7. /\ pc \in {"idle", "lead", "send", "drain", "flush", "unkey", "gone"}
        /\ waitEnd \in WaitEnd
        /\ cancel \in BOOLEAN
        /\ streamUp \in BOOLEAN
    BY DEF PlaybackInit, WaitEnd
  <2> QED BY <2>1, <2>2, <2>3, <2>4, <2>5, <2>6, <2>7 DEF PlaybackTypeOK
<1>2. Ordered
  BY DEF PlaybackInit, Ordered
<1>3. Counted /\ Phases /\ UnkeyAfterLastSample
  BY DEF PlaybackInit, Counted, Phases, UnkeyAfterLastSample
<1> QED BY <1>1, <1>2, <1>3 DEF PlaybackInv

\* The worker's steps, but for those that move samples.
LEMMA WorkerMoves ==
  ASSUME PlaybackInv,
         CancelWorker \/ BeginCycle \/ WorkerReturns \/ AbortLeadIn \/ EndCycle
  PROVE PlaybackInv'
<1> USE DEF CancelWorker, BeginCycle, WorkerReturns, AbortLeadIn, EndCycle,
    queueVars
<1>1. PlaybackTypeOK'
  <2>1. cycles' \in 0 .. MaxCycles
    BY PlaybackBounds DEF PlaybackInv, PlaybackTypeOK
  <2>2. /\ pc' \in {"idle", "lead", "send", "drain", "flush", "unkey", "gone"}
        /\ waitEnd' \in WaitEnd
        /\ cancel' \in BOOLEAN
    BY DEF PlaybackInv, PlaybackTypeOK, WaitEnd
  <2>3. UNCHANGED <<watermark, submitted, drained, chan, inHand, fed, position,
                    streamUp, played>>
    OBVIOUS
  <2> QED BY <2>1, <2>2, <2>3 DEF PlaybackInv, PlaybackTypeOK
<1>2. Ordered'
  BY DEF PlaybackInv, Ordered
<1>3. (Counted /\ Phases /\ UnkeyAfterLastSample)'
  BY DEF PlaybackInv, Counted, Phases, UnkeyAfterLastSample
<1> QED BY <1>1, <1>2, <1>3 DEF PlaybackInv

\* The streams come and go without touching a sample.
LEMMA StreamMoves ==
  ASSUME PlaybackInv, StreamFails \/ StreamBuilt
  PROVE PlaybackInv'
  BY DEF PlaybackInv, PlaybackTypeOK, Ordered, Counted, Phases, UnkeyAfterLastSample,
    StreamFails, StreamBuilt, cycleVars, queueVars

LEMMA CountMoves ==
  ASSUME PlaybackInv, CountSubmitted
  PROVE PlaybackInv'
<1>1. PICK n \in BurstLen : submitted' = submitted + n
  BY DEF CountSubmitted
<1>2. submitted' \in Nat /\ submitted <= submitted'
  BY <1>1, PlaybackBounds DEF PlaybackInv, PlaybackTypeOK
<1>3. 0 .. submitted \subseteq 0 .. submitted'
  BY <1>2 DEF PlaybackInv, PlaybackTypeOK
<1>4. chan' \in Seq(0 .. submitted')
  BY <1>3 DEF PlaybackInv, PlaybackTypeOK, CountSubmitted, queueVars
<1>5. PlaybackTypeOK'
  BY <1>2, <1>3, <1>4 DEF PlaybackInv, PlaybackTypeOK, WaitEnd, CountSubmitted, queueVars
<1>6. (Ordered /\ Counted /\ Phases /\ UnkeyAfterLastSample)'
  BY DEF PlaybackInv, Ordered, Counted, Phases, UnkeyAfterLastSample,
    CountSubmitted, queueVars
<1> QED BY <1>5, <1>6 DEF PlaybackInv

LEMMA SendMoves ==
  ASSUME PlaybackInv, SendBurst
  PROVE PlaybackInv'
<1>1. chan \in Seq(0 .. submitted) /\ submitted \in Nat /\ submitted' = submitted
  BY DEF PlaybackInv, PlaybackTypeOK, SendBurst
<1>2. chan' \in Seq(0 .. submitted')
  BY <1>1 DEF SendBurst
<1>3. PlaybackTypeOK'
  BY <1>1, <1>2 DEF PlaybackInv, PlaybackTypeOK, WaitEnd, SendBurst
<1>4. /\ DOMAIN chan' = 1 .. Len(chan) + 1
      /\ Len(chan) \in Nat
      /\ DOMAIN chan = 1 .. Len(chan)
      /\ \A i \in DOMAIN chan : chan'[i] = chan[i] /\ chan[i] \in 0 .. submitted
      /\ chan'[Len(chan) + 1] = submitted
  BY <1>1 DEF SendBurst
<1>5. Ordered'
  <2>1. fed' = fed /\ inHand' = inHand /\ fed <= submitted
    BY DEF PlaybackInv, PlaybackTypeOK, SendBurst
  <2>2. inHand # NoBuffer => inHand <= submitted
    BY <1>1 DEF PlaybackInv, PlaybackTypeOK, NoBuffer
  <2> QED BY <1>1, <1>4, <2>1, <2>2 DEF PlaybackInv, Ordered
<1>6. (Counted /\ Phases /\ UnkeyAfterLastSample)'
  BY DEF PlaybackInv, Counted, Phases, UnkeyAfterLastSample, SendBurst
<1> QED BY <1>3, <1>5, <1>6 DEF PlaybackInv

\* The one step that makes UnkeyAfterLastSample true: the wait was for the
\* latest burst, every sample counted has been put out, and none is counted
\* that was not submitted.
LEMMA WaitMoves ==
  ASSUME PlaybackInv, EndWait
  PROVE PlaybackInv'
<1>1. PlaybackTypeOK' /\ Ordered'
  <2>1. PlaybackTypeOK'
    BY DEF PlaybackInv, PlaybackTypeOK, WaitEnd, EndWait, queueVars
  <2>2. Ordered'
    BY DEF PlaybackInv, Ordered, EndWait, queueVars
  <2> QED BY <2>1, <2>2
<1>2. waitEnd # "aborted" /\ watermark = submitted
  BY DEF PlaybackInv, Phases, EndWait
<1>3. Counted' /\ Phases'
  BY <1>2 DEF PlaybackInv, Counted, Phases, EndWait
<1>4. ASSUME waitEnd' = "drained"
      PROVE 1 .. submitted \subseteq played
  <2>1. drained >= submitted
    BY <1>2, <1>4 DEF EndWait
  <2>2. position = submitted
    BY <1>2, <2>1 DEF PlaybackInv, PlaybackTypeOK, Counted
  <2> QED BY <1>2, <2>2 DEF PlaybackInv, Counted
<1>5. UnkeyAfterLastSample'
  BY <1>4 DEF UnkeyAfterLastSample, EndWait
<1> QED BY <1>1, <1>3, <1>5 DEF PlaybackInv

LEMMA FlushMoves ==
  ASSUME PlaybackInv, FlushQueue \/ FlushCount
  PROVE PlaybackInv'
<1>1. PlaybackTypeOK' /\ Ordered'
  <2>1. PlaybackTypeOK'
    <3>1. CASE FlushQueue
      BY <3>1 DEF PlaybackInv, PlaybackTypeOK, WaitEnd, FlushQueue, queueVars
    <3>2. CASE FlushCount
      BY <3>2 DEF PlaybackInv, PlaybackTypeOK, WaitEnd, FlushCount, queueVars
    <3> QED BY <3>1, <3>2
  <2>2. Ordered'
    BY DEF PlaybackInv, Ordered, FlushQueue, FlushCount, queueVars
  <2> QED BY <2>1, <2>2
<1>2. waitEnd' = "aborted"
  <2>1. CASE FlushQueue BY <2>1 DEF FlushQueue
  <2>2. CASE FlushCount
    BY <2>2 DEF PlaybackInv, FlushCount, Phases
  <2> QED BY <2>1, <2>2
<1>3. (Counted /\ Phases /\ UnkeyAfterLastSample)'
  BY <1>2 DEF Counted, Phases, UnkeyAfterLastSample, FlushQueue, FlushCount
<1> QED BY <1>1, <1>3 DEF PlaybackInv

LEMMA FeederMoves ==
  ASSUME PlaybackInv, FeederStep
  PROVE PlaybackInv'
<1>1. CASE FeederReceives
  <2>1. chan \in Seq(0 .. submitted) /\ chan # <<>> /\ Len(chan) \in Nat
    BY <1>1 DEF PlaybackInv, PlaybackTypeOK, FeederReceives
  <2>2. /\ chan' \in Seq(0 .. submitted)
        /\ 1 \in DOMAIN chan
        /\ inHand' = chan[1]
        /\ chan[1] \in 0 .. submitted
        /\ DOMAIN chan = 1 .. Len(chan)
        /\ DOMAIN chan' = 1 .. Len(chan) - 1
        /\ \A i \in DOMAIN chan' : chan'[i] = chan[i + 1]
    <3>1. /\ Tail(chan) \in Seq(0 .. submitted)
          /\ Len(Tail(chan)) = Len(chan) - 1
          /\ \A i \in 1 .. Len(Tail(chan)) : Tail(chan)[i] = chan[i + 1]
      BY <2>1, HeadTailProperties
    <3>2. Len(chan) >= 1 /\ DOMAIN chan = 1 .. Len(chan) /\ Head(chan) = chan[1]
      BY <2>1
    <3>3. Head(chan) \in 0 .. submitted
      BY <2>1, HeadTailProperties
    <3>4. DOMAIN Tail(chan) = 1 .. Len(Tail(chan))
      BY <3>1
    <3> QED BY <1>1, <2>1, <3>1, <3>2, <3>3, <3>4 DEF FeederReceives
  <2>3. PlaybackTypeOK'
    BY <1>1, <2>2 DEF PlaybackInv, PlaybackTypeOK, WaitEnd, FeederReceives, cycleVars
  <2>4. Ordered'
    <3>1. fed' = fed /\ fed <= chan[1]
      BY <1>1, <2>2 DEF PlaybackInv, Ordered, FeederReceives
    <3>2. \A i \in DOMAIN chan' : i + 1 \in DOMAIN chan /\ 1 < i + 1
      BY <2>1, <2>2
    <3>3. \A i \in DOMAIN chan' : chan[1] <= chan'[i] /\ fed <= chan'[i]
      BY <2>2, <3>2 DEF PlaybackInv, Ordered
    <3>4. \A i, j \in DOMAIN chan' : i < j => chan'[i] <= chan'[j]
      BY <2>1, <2>2, <3>2 DEF PlaybackInv, Ordered
    <3> QED BY <2>2, <3>1, <3>3, <3>4 DEF Ordered
  <2>5. (Counted /\ Phases /\ UnkeyAfterLastSample)'
    BY <1>1 DEF PlaybackInv, Counted, Phases, UnkeyAfterLastSample,
      FeederReceives, cycleVars
  <2> QED BY <2>3, <2>4, <2>5 DEF PlaybackInv
<1>2. CASE FeederExtends
  BY <1>2 DEF PlaybackInv, PlaybackTypeOK, WaitEnd, NoBuffer, Ordered, Counted, Phases,
    UnkeyAfterLastSample, FeederExtends, cycleVars
<1> QED BY <1>1, <1>2 DEF FeederStep

LEMMA CallbackMoves ==
  ASSUME PlaybackInv, Callback
  PROVE PlaybackInv'
<1>1. PICK upto \in position + 1 .. fed :
        /\ position' = upto
        /\ drained' = drained + (upto - position)
        /\ played' = played \cup (position + 1 .. upto)
  BY DEF Callback
<1>2. PlaybackTypeOK'
  BY <1>1 DEF PlaybackInv, PlaybackTypeOK, WaitEnd, Callback, cycleVars, queueVars
<1>3. Counted'
  <2>1. waitEnd # "aborted" => drained' = upto
    BY <1>1 DEF PlaybackInv, PlaybackTypeOK, Counted
  <2>2. waitEnd # "aborted" => played' = 1 .. upto
    BY <1>1 DEF PlaybackInv, PlaybackTypeOK, Counted
  <2> QED BY <1>1, <2>1, <2>2 DEF Counted, Callback, cycleVars
<1>4. (Ordered /\ Phases /\ UnkeyAfterLastSample)'
  BY <1>1 DEF PlaybackInv, Ordered, Phases, UnkeyAfterLastSample, Callback,
    cycleVars, queueVars
<1> QED BY <1>2, <1>3, <1>4 DEF PlaybackInv

LEMMA PlaybackStep == PlaybackInv /\ [PlaybackNext]_playbackVars => PlaybackInv'
<1> SUFFICES ASSUME PlaybackInv, [PlaybackNext]_playbackVars PROVE PlaybackInv'
  OBVIOUS
<1>1. CASE UNCHANGED playbackVars
  BY <1>1 DEF PlaybackInv, PlaybackTypeOK, Ordered, Counted, Phases,
    UnkeyAfterLastSample, playbackVars, cycleVars, queueVars
<1>2. CASE PlaybackNext
  BY <1>2, WorkerMoves, StreamMoves, CountMoves, SendMoves, WaitMoves,
    FlushMoves, FeederMoves, CallbackMoves DEF PlaybackNext, WorkerStep
<1> QED BY <1>1, <1>2

\* The types of all variables, and that no thread of the playback overtakes
\* the one before it: the feeder the worker, the callback the feeder.
THEOREM PlaybackTypes == PlaybackSpec => []PlaybackTypeOK
<1>1. PlaybackInv => PlaybackTypeOK BY DEF PlaybackInv
<1> QED BY <1>1, PlaybackStarts, PlaybackStep, PTL DEF PlaybackSpec

\* PTT is released on the watermark (drive_tx_cycle) only when the callback
\* has put out every sample ever submitted, whatever the sizes of the bursts,
\* the depth of the channel and the faults of the stream.
THEOREM PttOutlastsAudio == PlaybackSpec => []UnkeyAfterLastSample
<1>1. PlaybackInv => UnkeyAfterLastSample BY DEF PlaybackInv
<1> QED BY <1>1, PlaybackStarts, PlaybackStep, PTL DEF PlaybackSpec
=============================================================================
