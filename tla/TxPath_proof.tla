---------------------------- MODULE TxPath_proof ----------------------------
(***************************************************************************)
(* Proofs about TxPath, in three parts: type correctness; the safety       *)
(* properties that hold for every instance (the lease keeps other          *)
(* channels' workers off the rig, the interlock counts the cycles in       *)
(* flight, no line is stuck, a queue is served in order); and that TxPath  *)
(* keeps the ledger of transmissions and implements TxJobs.                *)
(*                                                                         *)
(* TypeOK is not inductive by itself: that a worker which runs has a rig   *)
(* and a driver, and that a legacy cycle has a bound channel and an id, is *)
(* Wired; TypeInv, the conjunction, is.                                    *)
(***************************************************************************)
EXTENDS TxService, FiniteSetTheorems, SequenceTheorems, TLAPS

\* A worker that runs has a channel, a rig and a driver, and the core runs a
\* legacy cycle only for an id it has handed out, on a channel that is bound.
LiveCfg == [channel : Channel, rig : AudioDev, driver : PttDev]
Wired ==
    /\ \A w \in Worker : pc[w] # "dead" => cfg[w] \in LiveCfg
    /\ legacy # NoChannel =>
         nextTx > 1 /\ audio[legacy] # NoBinding /\ drivers[legacy] # NoDevice

TypeInv == TypeOK /\ Wired

USE DEF TxId, NoJob, Device

\* What the operators of the interlock and of the ledger keep, whatever the
\* device or the id they are given.
LEMMA InterlockType ==
  ASSUME NEW k \in [Device -> Nat], NEW d
  PROVE BeginTx(k, d) \in [Device -> Nat] /\ EndTx(k, d) \in [Device -> Nat]
<1>1. \A e \in Device : k[e] \in Nat /\ k[e] + 1 \in Nat
  OBVIOUS
<1>2. \A e \in Device : k[e] # 0 => k[e] - 1 \in Nat
  OBVIOUS
<1>3. BeginTx(k, d) \in [Device -> Nat]
  BY <1>1 DEF BeginTx
<1>4. EndTx(k, d) \in [Device -> Nat]
  BY <1>1, <1>2 DEF EndTx
<1> QED BY <1>3, <1>4

Event == {"Started", "Failed", "Complete"}
LEMMA EventSeqs ==
  /\ <<"Started">> \in Seq(Event)
  /\ <<"Complete">> \in Seq(Event)
  /\ <<"Started", "Complete">> \in Seq(Event)
  /\ <<"Started", "Failed", "Complete">> \in Seq(Event)
  BY DEF Event

LEMMA EmitType ==
  ASSUME log \in [TxId -> Seq(Event)], NEW id, NEW events \in Seq(Event),
         Emit(id, events)
  PROVE log' \in [TxId -> Seq(Event)]
<1> DEFINE new(i) == IF i = id THEN log[i] \o events ELSE log[i]
<1>1. log' = [i \in TxId |-> new(i)]
  BY DEF Emit
<1>2. \A i \in TxId : new(i) \in Seq(Event)
  OBVIOUS
<1> QED BY <1>1, <1>2

LEMMA InitTypeInv == Init => TypeInv
<1> SUFFICES ASSUME Init PROVE TypeInv
  OBVIOUS
<1>1. CoreTypeOK
  <2>1. mode \in [Channel -> {"none", "tx"}]
    BY Switches DEF Init
  <2>2. nextTx \in 1 .. MaxTx + 1
    BY Sizes DEF Init
  <2> QED BY <2>1, <2>2 DEF Init, CoreTypeOK
<1>2. WorkerTypeOK
  <2>1. cfg \in [Worker -> CfgType]
    BY DEF Init, NoCfg, CfgType
  <2>2. queue \in [Worker -> Seq(TxId)]
    BY DEF Init
  <2> QED BY <2>1, <2>2 DEF Init, WorkerTypeOK, Phase, Outcome
<1>3. SharedTypeOK
  BY DEF Init, SharedTypeOK
<1>4. Wired
  BY ModelValues DEF Init, Wired
<1> QED BY <1>1, <1>2, <1>3, <1>4 DEF TypeInv, TypeOK

LEMMA ConfigureAudioTypeInv ==
  ASSUME TypeInv, NEW c \in Channel, NEW b \in Binding, ConfigureAudio(c, b)
  PROVE TypeInv'
<1> USE DEF TypeInv, TypeOK, ConfigureAudio, CoreIsFree
<1>1. CoreTypeOK'
  BY ModelValues DEF CoreTypeOK, TrySpawnWorkers, FreeSlots
<1>2. pc' \in [Worker -> Phase] /\ cfg' \in [Worker -> CfgType]
  BY ModelValues DEF CoreTypeOK, WorkerTypeOK, TrySpawnWorkers, FreeSlots, Phase, CfgType
<1>3. WorkerTypeOK'
  BY <1>2 DEF WorkerTypeOK, Evicted
<1>4. SharedTypeOK'
  BY DEF SharedTypeOK, lineVars, telemetryVars
<1>5. Wired'
  BY ModelValues DEF CoreTypeOK, WorkerTypeOK, Wired, TrySpawnWorkers, FreeSlots, LiveCfg
<1> QED BY <1>1, <1>3, <1>4, <1>5

LEMMA ConfigurePttTypeInv ==
  ASSUME TypeInv, NEW c \in Channel, NEW p \in PttDev, ConfigurePtt(c, p)
  PROVE TypeInv'
<1> USE DEF TypeInv, TypeOK, ConfigurePtt, CoreIsFree
<1>1. CoreTypeOK'
  BY ModelValues DEF CoreTypeOK, TrySpawnWorkers, FreeSlots
<1>2. pc' \in [Worker -> Phase] /\ cfg' \in [Worker -> CfgType]
  BY ModelValues DEF CoreTypeOK, WorkerTypeOK, TrySpawnWorkers, FreeSlots, Phase, CfgType
<1>3. WorkerTypeOK'
  BY <1>2 DEF WorkerTypeOK, Evicted
<1>4. SharedTypeOK'
  BY DEF SharedTypeOK, CoreTypeOK, lineVars, telemetryVars, Unkey, Failing
<1>5. Wired'
  BY ModelValues DEF CoreTypeOK, WorkerTypeOK, Wired, TrySpawnWorkers, FreeSlots, LiveCfg
<1> QED BY <1>1, <1>3, <1>4, <1>5

LEMMA ConfigureChannelTypeInv ==
  ASSUME TypeInv, NEW c \in Channel, NEW m \in Mode, ConfigureChannel(c, m)
  PROVE TypeInv'
<1> USE DEF TypeInv, TypeOK, CoreIsFree, ConfigureChannel, coreVars, workerVars, lineVars, telemetryVars
<1>1. CoreTypeOK'
  BY Switches DEF CoreTypeOK
<1>2. WorkerTypeOK'
  BY DEF WorkerTypeOK
<1>3. SharedTypeOK'
  BY DEF SharedTypeOK
<1>4. Wired'
  BY DEF Wired
<1> QED BY <1>1, <1>2, <1>3, <1>4

LEMMA KeyPttOnTypeInv ==
  ASSUME TypeInv, NEW c \in Channel, KeyPttOn(c)
  PROVE TypeInv'
<1> USE DEF TypeInv, TypeOK, CoreIsFree, KeyPttOn, coreVars, workerVars, lineVars, telemetryVars
<1>1. CoreTypeOK'
  BY DEF CoreTypeOK, CanKeyPtt
<1>2. WorkerTypeOK'
  BY DEF WorkerTypeOK
<1>3. SharedTypeOK'
  BY InterlockType DEF SharedTypeOK, CanKeyPtt, CoreTypeOK
<1>4. Wired'
  BY DEF Wired, CanKeyPtt, CoreTypeOK
<1> QED BY <1>1, <1>2, <1>3, <1>4

LEMMA KeyPttOffTypeInv ==
  ASSUME TypeInv, NEW c \in Channel, KeyPttOff(c)
  PROVE TypeInv'
<1> USE DEF TypeInv, TypeOK, CoreIsFree, KeyPttOff, coreVars, workerVars, lineVars, telemetryVars
<1>1. CoreTypeOK'
  BY DEF CoreTypeOK, CanKeyPtt
<1>2. WorkerTypeOK'
  BY DEF WorkerTypeOK
<1>3. SharedTypeOK'
  BY InterlockType DEF SharedTypeOK, Unkey
<1>4. Wired'
  BY DEF Wired, CanKeyPtt, CoreTypeOK
<1> QED BY <1>1, <1>2, <1>3, <1>4

LEMMA KeyPttOffFailsTypeInv ==
  ASSUME TypeInv, NEW c \in Channel, KeyPttOffFails(c)
  PROVE TypeInv'
<1> USE DEF TypeInv, TypeOK, CoreIsFree, KeyPttOffFails, coreVars, workerVars, lineVars, telemetryVars
<1>1. CoreTypeOK'
  BY DEF CoreTypeOK, CanKeyPtt, CoreTypeOK, EvictOnGone
<1>2. WorkerTypeOK'
  BY DEF WorkerTypeOK
<1>3. SharedTypeOK'
  BY InterlockType DEF SharedTypeOK, Unkey, DropDrivers, Failing
<1>4. Wired'
  BY DEF Wired, CanKeyPtt, CoreTypeOK
<1> QED BY <1>1, <1>2, <1>3, <1>4

LEMMA KeyPttOnFailsTypeInv ==
  ASSUME TypeInv, NEW c \in Channel, KeyPttOnFails(c)
  PROVE TypeInv'
<1> USE DEF TypeInv, TypeOK, CoreIsFree, KeyPttOnFails, coreVars, workerVars, lineVars, telemetryVars
<1>1. CoreTypeOK'
  BY DEF CoreTypeOK, CanKeyPtt, CoreTypeOK, EvictOnGone
<1>2. WorkerTypeOK'
  BY DEF WorkerTypeOK
<1>3. SharedTypeOK'
  BY ModelValues DEF SharedTypeOK, CanKeyPtt, CoreTypeOK, Unkey, DropDrivers, Failing
<1>4. Wired'
  BY DEF Wired, CanKeyPtt, CoreTypeOK
<1> QED BY <1>1, <1>2, <1>3, <1>4

LEMMA AcquireTxLeaseTypeInv ==
  ASSUME TypeInv, NEW c \in Channel, AcquireTxLease(c)
  PROVE TypeInv'
<1> USE DEF TypeInv, TypeOK, CoreIsFree, AcquireTxLease, coreVars, workerVars, lineVars, telemetryVars
<1>1. CoreTypeOK'
  BY DEF CoreTypeOK
<1>2. WorkerTypeOK'
  BY DEF WorkerTypeOK
<1>3. SharedTypeOK'
  BY DEF SharedTypeOK, Acquire
<1>4. Wired'
  BY DEF Wired
<1> QED BY <1>1, <1>2, <1>3, <1>4

LEMMA ReleaseTxLeaseTypeInv ==
  ASSUME TypeInv, NEW c \in Channel, ReleaseTxLease(c)
  PROVE TypeInv'
<1> USE DEF TypeInv, TypeOK, CoreIsFree, ReleaseTxLease, coreVars, workerVars, lineVars, telemetryVars
<1>1. CoreTypeOK'
  BY DEF CoreTypeOK
<1>2. WorkerTypeOK'
  BY DEF WorkerTypeOK
<1>3. SharedTypeOK'
  BY DEF SharedTypeOK, Release
<1>4. Wired'
  BY DEF Wired
<1> QED BY <1>1, <1>2, <1>3, <1>4

LEMMA TransmitQueuedTypeInv ==
  ASSUME TypeInv, NEW c \in Channel, TransmitQueued(c)
  PROVE TypeInv'
<1> USE DEF TypeInv, TypeOK, CoreIsFree, TransmitQueued, Enqueue, coreVars, workerVars, lineVars, telemetryVars
<1>1. CoreTypeOK'
  BY ModelValues, Sizes DEF CoreTypeOK, TakeTxId
<1>0. nextTx \in TxId
  BY Sizes DEF TakeTxId, CoreTypeOK
<1>2. WorkerTypeOK'
  <2>1. \A v \in Worker : Append(queue[v], nextTx) \in Seq(TxId)
    BY <1>0 DEF WorkerTypeOK
  <2>2. \/ queue' = queue
        \/ queue' = [queue EXCEPT ![txWorkers[c]] = Append(@, nextTx)]
    OBVIOUS
  <2>3. queue' \in [Worker -> Seq(TxId)]
    <3>1. CASE queue' = queue
      BY <3>1 DEF WorkerTypeOK
    <3>2. CASE queue' = [queue EXCEPT ![txWorkers[c]] = Append(@, nextTx)]
      <4>1. queue \in [Worker -> Seq(TxId)]
        BY DEF WorkerTypeOK
      <4> HIDE DEF TypeInv, TransmitQueued, TxId
      <4> QED BY <4>1, <3>2, <2>1
    <3> QED BY <2>2, <3>1, <3>2
  <2> QED BY <2>3 DEF WorkerTypeOK
<1>3. SharedTypeOK'
  BY <1>0 DEF SharedTypeOK
<1>4. Wired'
  BY ModelValues, Sizes DEF Wired, TakeTxId, CoreTypeOK
<1> QED BY <1>1, <1>2, <1>3, <1>4

LEMMA TransmitImageRefusedTypeInv ==
  ASSUME TypeInv, NEW c \in Channel, TransmitImageRefused(c)
  PROVE TypeInv'
<1> USE DEF TypeInv, TypeOK, CoreIsFree, TransmitImageRefused, coreVars, workerVars, lineVars, telemetryVars
<1>1. CoreTypeOK'
  BY ModelValues, Sizes DEF CoreTypeOK, TakeTxId
<1>2. WorkerTypeOK'
  BY ModelValues, Sizes DEF WorkerTypeOK, TakeTxId, CoreTypeOK
<1>3. SharedTypeOK'
  BY ModelValues, Sizes DEF SharedTypeOK, TakeTxId, CoreTypeOK
<1>4. Wired'
  BY ModelValues, Sizes DEF Wired, TakeTxId, CoreTypeOK
<1> QED BY <1>1, <1>2, <1>3, <1>4

LEMMA TransmitSimulatedTypeInv ==
  ASSUME TypeInv, NEW c \in Channel, TransmitSimulated(c)
  PROVE TypeInv'
<1> USE DEF TypeInv, TypeOK, CoreIsFree, TransmitSimulated, coreVars, workerVars, lineVars, telemetryVars
<1>1. CoreTypeOK'
  BY ModelValues, Sizes DEF CoreTypeOK, TakeTxId
<1>2. WorkerTypeOK'
  BY ModelValues, Sizes DEF WorkerTypeOK, TakeTxId, CoreTypeOK
<1>3. SharedTypeOK'
  BY ModelValues, Sizes DEF SharedTypeOK, TakeTxId, CoreTypeOK, Emit
<1>4. Wired'
  BY ModelValues, Sizes DEF Wired, TakeTxId, CoreTypeOK
<1> QED BY <1>1, <1>2, <1>3, <1>4

LEMMA TransmitLegacyTypeInv ==
  ASSUME TypeInv, NEW c \in Channel, TransmitLegacy(c)
  PROVE TypeInv'
<1> USE DEF TypeInv, TypeOK, CoreIsFree, TransmitLegacy, coreVars, workerVars, lineVars, telemetryVars
<1>1. CoreTypeOK'
  BY ModelValues, Sizes DEF CoreTypeOK, TakeTxId
<1>2. WorkerTypeOK'
  BY ModelValues, Sizes DEF WorkerTypeOK, TakeTxId, CoreTypeOK
<1>3. SharedTypeOK'
  BY ModelValues, Sizes DEF SharedTypeOK, TakeTxId, CoreTypeOK, Emit, BeginTx, HasLegacyPath
<1>4. Wired'
  BY ModelValues, Sizes DEF Wired, TakeTxId, CoreTypeOK, HasLegacyPath
<1> QED BY <1>1, <1>2, <1>3, <1>4

LEMMA LegacyKeyFailsTypeInv ==
  ASSUME TypeInv, NEW c \in Channel, LegacyKeyFails(c)
  PROVE TypeInv'
<1> USE DEF TypeInv, TypeOK, CoreIsFree, LegacyKeyFails, coreVars, workerVars, lineVars, telemetryVars
<1>1. CoreTypeOK'
  BY ModelValues, Sizes DEF CoreTypeOK, TakeTxId, EvictOnGone
<1>2. WorkerTypeOK'
  BY ModelValues, Sizes DEF WorkerTypeOK, TakeTxId, CoreTypeOK
<1>3. SharedTypeOK'
  BY ModelValues, Sizes DEF SharedTypeOK, TakeTxId, CoreTypeOK, Emit, Unkey, DropDrivers, Failing, HasLegacyPath
<1>4. Wired'
  BY ModelValues, Sizes DEF Wired, TakeTxId, CoreTypeOK
<1> QED BY <1>1, <1>2, <1>3, <1>4

LEMMA LegacyEndsTypeInv ==
  ASSUME TypeInv, LegacyEnds
  PROVE TypeInv'
<1> USE DEF TypeInv, TypeOK, CoreIsFree, LegacyEnds, coreVars, workerVars, lineVars, telemetryVars
<1>1. CoreTypeOK'
  BY ModelValues, Sizes DEF CoreTypeOK, EvictOnGone
<1>2. WorkerTypeOK'
  BY DEF WorkerTypeOK
<1>3. SharedTypeOK'
  <2>1. nextTx - 1 \in TxId
    BY Sizes DEF CoreTypeOK, Wired
  <2>2. log' \in [TxId -> Seq(Event)]
    BY EmitType, EventSeqs DEF SharedTypeOK, Event
  <2>3. keyed' \in [Device -> Nat]
    BY InterlockType DEF SharedTypeOK
  <2>4. asserted' \subseteq PttDev /\ jammed' \subseteq PttDev
    BY DEF SharedTypeOK, Unkey, DropDrivers, Failing
  <2> QED BY <2>1, <2>2, <2>3, <2>4 DEF SharedTypeOK, Event
<1>4. Wired'
  BY ModelValues DEF Wired
<1> QED BY <1>1, <1>2, <1>3, <1>4

LEMMA HotplugDepartedTypeInv ==
  ASSUME TypeInv, NEW d \in Device, HotplugDeparted(d)
  PROVE TypeInv'
<1> USE DEF TypeInv, TypeOK, CoreIsFree, HotplugDeparted, coreVars, workerVars, lineVars, telemetryVars
<1>1. CoreTypeOK'
  BY ModelValues DEF CoreTypeOK
<1>2. WorkerTypeOK'
  BY DEF WorkerTypeOK, Evicted
<1>3. SharedTypeOK'
  BY ModelValues DEF SharedTypeOK, CoreTypeOK, ReleaseAll, Unkey, DropDrivers, Failing
<1>4. Wired'
  BY ModelValues DEF Wired
<1> QED BY <1>1, <1>2, <1>3, <1>4

LEMMA ProcessExitTypeInv ==
  ASSUME TypeInv, ProcessExit
  PROVE TypeInv'
<1> USE DEF TypeInv, TypeOK, CoreIsFree, ProcessExit, coreVars, workerVars, lineVars, telemetryVars
<1>1. CoreTypeOK'
  BY DEF CoreTypeOK
<1>2. WorkerTypeOK'
  BY DEF WorkerTypeOK
<1>3. SharedTypeOK'
  BY DEF SharedTypeOK
<1>4. Wired'
  BY DEF Wired
<1> QED BY <1>1, <1>2, <1>3, <1>4

LEMMA RecvJobTypeInv ==
  ASSUME TypeInv, NEW w \in Worker, RecvJob(w)
  PROVE TypeInv'
<1> USE DEF TypeInv, TypeOK, RecvJob, At, Goto, coreVars, lineVars, telemetryVars
<1>1. CoreTypeOK'
  BY DEF CoreTypeOK
<1>2. WorkerTypeOK'
  <2>1. Head(queue[w]) \in TxId /\ Tail(queue[w]) \in Seq(TxId)
    <3>1. queue[w] \in Seq(TxId) /\ queue[w] # <<>>
      BY DEF WorkerTypeOK
    <3> QED BY <3>1, HeadTailProperties
  <2> QED BY <2>1 DEF WorkerTypeOK, Phase, Waiting, Cycle
<1>3. SharedTypeOK'
  BY DEF SharedTypeOK
<1>4. Wired'
  BY DEF Wired, WorkerTypeOK, Phase, Waiting, Cycle
<1> QED BY <1>1, <1>2, <1>3, <1>4

LEMMA RecvCancelledTypeInv ==
  ASSUME TypeInv, NEW w \in Worker, RecvCancelled(w)
  PROVE TypeInv'
<1> USE DEF TypeInv, TypeOK, RecvCancelled, At, Goto, coreVars, lineVars, telemetryVars
<1>1. CoreTypeOK'
  BY DEF CoreTypeOK
<1>2. WorkerTypeOK'
  BY DEF WorkerTypeOK, Phase, Waiting, Cycle
<1>3. SharedTypeOK'
  BY DEF SharedTypeOK
<1>4. Wired'
  BY DEF Wired, WorkerTypeOK, Phase, Waiting, Cycle
<1> QED BY <1>1, <1>2, <1>3, <1>4

LEMMA EncodeFailsTypeInv ==
  ASSUME TypeInv, NEW w \in Worker, EncodeFails(w)
  PROVE TypeInv'
<1> USE DEF TypeInv, TypeOK, EncodeFails, At, Goto, Refuse, coreVars, lineVars, telemetryVars
<1>1. CoreTypeOK'
  BY DEF CoreTypeOK
<1>2. WorkerTypeOK'
  BY DEF WorkerTypeOK, Phase, Waiting, Cycle
<1>3. SharedTypeOK'
  <2>1. log' \in [TxId -> Seq(Event)]
    BY EmitType, EventSeqs DEF SharedTypeOK, Event
  <2> QED BY <2>1 DEF SharedTypeOK, Event
<1>4. Wired'
  BY DEF Wired, WorkerTypeOK, Phase, Waiting, Cycle
<1> QED BY <1>1, <1>2, <1>3, <1>4

LEMMA ModulateTypeInv ==
  ASSUME TypeInv, NEW w \in Worker, Modulate(w)
  PROVE TypeInv'
<1> USE DEF TypeInv, TypeOK, Modulate, At, Goto, CheckLease, Refuse, coreVars, lineVars, telemetryVars
<1>1. CoreTypeOK'
  BY DEF CoreTypeOK
<1>2. WorkerTypeOK'
  BY DEF WorkerTypeOK, Phase, Waiting, Cycle
<1>3. SharedTypeOK'
  <2>1. log' \in [TxId -> Seq(Event)]
    BY EmitType, EventSeqs DEF SharedTypeOK, Event
  <2> QED BY <2>1 DEF SharedTypeOK, Event
<1>4. Wired'
  BY DEF Wired, WorkerTypeOK, Phase, Waiting, Cycle
<1> QED BY <1>1, <1>2, <1>3, <1>4

LEMMA SlotBoundaryTypeInv ==
  ASSUME TypeInv, NEW w \in Worker, SlotBoundary(w)
  PROVE TypeInv'
<1> USE DEF TypeInv, TypeOK, SlotBoundary, At, Goto, CheckLease, Refuse, coreVars, lineVars, telemetryVars
<1>1. CoreTypeOK'
  BY DEF CoreTypeOK
<1>2. WorkerTypeOK'
  BY DEF WorkerTypeOK, Phase, Waiting, Cycle
<1>3. SharedTypeOK'
  <2>1. log' \in [TxId -> Seq(Event)]
    BY EmitType, EventSeqs DEF SharedTypeOK, Event
  <2> QED BY <2>1 DEF SharedTypeOK, Event
<1>4. Wired'
  BY DEF Wired, WorkerTypeOK, Phase, Waiting, Cycle
<1> QED BY <1>1, <1>2, <1>3, <1>4

LEMMA StartTxTypeInv ==
  ASSUME TypeInv, NEW w \in Worker, StartTx(w)
  PROVE TypeInv'
<1> USE DEF TypeInv, TypeOK, StartTx, At, Goto, coreVars, lineVars, telemetryVars
<1>1. CoreTypeOK'
  BY DEF CoreTypeOK
<1>2. WorkerTypeOK'
  BY DEF WorkerTypeOK, Phase, Waiting, Cycle
<1>3. SharedTypeOK'
  <2>1. log' \in [TxId -> Seq(Event)]
    BY EmitType, EventSeqs DEF SharedTypeOK, Event
  <2>2. keyed' \in [Device -> Nat]
    BY InterlockType DEF SharedTypeOK
  <2> QED BY <2>1, <2>2 DEF SharedTypeOK, Event
<1>4. Wired'
  BY DEF Wired, WorkerTypeOK, Phase, Waiting, Cycle
<1> QED BY <1>1, <1>2, <1>3, <1>4

LEMMA KeyTypeInv ==
  ASSUME TypeInv, NEW w \in Worker, Key(w)
  PROVE TypeInv'
<1> USE DEF TypeInv, TypeOK, Key, At, Goto, coreVars, lineVars, telemetryVars
<1>1. CoreTypeOK'
  BY DEF CoreTypeOK
<1>2. WorkerTypeOK'
  BY DEF WorkerTypeOK, Phase, Waiting, Cycle
<1>3. SharedTypeOK'
  BY DEF SharedTypeOK, Wired, WorkerTypeOK, LiveCfg
<1>4. Wired'
  BY DEF Wired, WorkerTypeOK, Phase, Waiting, Cycle
<1> QED BY <1>1, <1>2, <1>3, <1>4

LEMMA KeyFailsTypeInv ==
  ASSUME TypeInv, NEW w \in Worker, KeyFails(w)
  PROVE TypeInv'
<1> USE DEF TypeInv, TypeOK, KeyFails, At, Goto, coreVars, lineVars, telemetryVars
<1>1. CoreTypeOK'
  BY DEF CoreTypeOK
<1>2. WorkerTypeOK'
  BY DEF WorkerTypeOK, Phase, Waiting, Cycle, Outcome
<1>3. SharedTypeOK'
  BY DEF SharedTypeOK
<1>4. Wired'
  BY DEF Wired, WorkerTypeOK, Phase, Waiting, Cycle
<1> QED BY <1>1, <1>2, <1>3, <1>4

LEMMA LeadInTypeInv ==
  ASSUME TypeInv, NEW w \in Worker, LeadIn(w)
  PROVE TypeInv'
<1> USE DEF TypeInv, TypeOK, LeadIn, At, Goto, AwaitOrAbort, coreVars, lineVars, telemetryVars
<1>1. CoreTypeOK'
  BY DEF CoreTypeOK
<1>2. WorkerTypeOK'
  BY DEF WorkerTypeOK, Phase, Waiting, Cycle, Outcome
<1>3. SharedTypeOK'
  BY DEF SharedTypeOK
<1>4. Wired'
  BY DEF Wired, WorkerTypeOK, Phase, Waiting, Cycle
<1> QED BY <1>1, <1>2, <1>3, <1>4

LEMMA DrainTypeInv ==
  ASSUME TypeInv, NEW w \in Worker, Drain(w)
  PROVE TypeInv'
<1> USE DEF TypeInv, TypeOK, Drain, At, Goto, AwaitOrAbort, coreVars, lineVars, telemetryVars
<1>1. CoreTypeOK'
  BY DEF CoreTypeOK
<1>2. WorkerTypeOK'
  BY DEF WorkerTypeOK, Phase, Waiting, Cycle, Outcome
<1>3. SharedTypeOK'
  BY DEF SharedTypeOK
<1>4. Wired'
  BY DEF Wired, WorkerTypeOK, Phase, Waiting, Cycle
<1> QED BY <1>1, <1>2, <1>3, <1>4

LEMMA SubmitTypeInv ==
  ASSUME TypeInv, NEW w \in Worker, Submit(w)
  PROVE TypeInv'
<1> USE DEF TypeInv, TypeOK, Submit, At, Goto, coreVars, lineVars, telemetryVars
<1>1. CoreTypeOK'
  BY DEF CoreTypeOK
<1>2. WorkerTypeOK'
  BY DEF WorkerTypeOK, Phase, Waiting, Cycle, Outcome
<1>3. SharedTypeOK'
  BY DEF SharedTypeOK
<1>4. Wired'
  BY DEF Wired, WorkerTypeOK, Phase, Waiting, Cycle
<1> QED BY <1>1, <1>2, <1>3, <1>4

LEMMA HoldTailTypeInv ==
  ASSUME TypeInv, NEW w \in Worker, HoldTail(w)
  PROVE TypeInv'
<1> USE DEF TypeInv, TypeOK, HoldTail, At, Goto, coreVars, lineVars, telemetryVars
<1>1. CoreTypeOK'
  BY DEF CoreTypeOK
<1>2. WorkerTypeOK'
  BY DEF WorkerTypeOK, Phase, Waiting, Cycle, Outcome
<1>3. SharedTypeOK'
  BY DEF SharedTypeOK
<1>4. Wired'
  BY DEF Wired, WorkerTypeOK, Phase, Waiting, Cycle
<1> QED BY <1>1, <1>2, <1>3, <1>4

LEMMA ReleasePttTypeInv ==
  ASSUME TypeInv, NEW w \in Worker, ReleasePtt(w)
  PROVE TypeInv'
<1> USE DEF TypeInv, TypeOK, ReleasePtt, At, Goto, coreVars, lineVars, telemetryVars
<1>1. CoreTypeOK'
  BY DEF CoreTypeOK
<1>2. WorkerTypeOK'
  BY DEF WorkerTypeOK, Phase, Waiting, Cycle, Outcome
<1>3. SharedTypeOK'
  BY DEF SharedTypeOK, Unkey
<1>4. Wired'
  BY DEF Wired, WorkerTypeOK, Phase, Waiting, Cycle
<1> QED BY <1>1, <1>2, <1>3, <1>4

LEMMA ReleasePttFailsTypeInv ==
  ASSUME TypeInv, NEW w \in Worker, ReleasePttFails(w)
  PROVE TypeInv'
<1> USE DEF TypeInv, TypeOK, ReleasePttFails, At, Goto, coreVars, lineVars, telemetryVars
<1>1. CoreTypeOK'
  BY DEF CoreTypeOK
<1>2. WorkerTypeOK'
  BY DEF WorkerTypeOK, Phase, Waiting, Cycle, Outcome
<1>3. SharedTypeOK'
  BY DEF SharedTypeOK, Unkey
<1>4. Wired'
  BY DEF Wired, WorkerTypeOK, Phase, Waiting, Cycle
<1> QED BY <1>1, <1>2, <1>3, <1>4

LEMMA EndCycleTypeInv ==
  ASSUME TypeInv, NEW w \in Worker, EndCycle(w)
  PROVE TypeInv'
<1> USE DEF TypeInv, TypeOK, EndCycle, At, Goto, coreVars, lineVars, telemetryVars
<1>1. CoreTypeOK'
  BY DEF CoreTypeOK
<1>2. WorkerTypeOK'
  BY DEF WorkerTypeOK, Phase, Waiting, Cycle, Outcome
<1>3. SharedTypeOK'
  <2>1. log' \in [TxId -> Seq(Event)]
    BY EmitType, EventSeqs DEF SharedTypeOK, Event
  <2>2. keyed' \in [Device -> Nat]
    BY InterlockType DEF SharedTypeOK
  <2> QED BY <2>1, <2>2 DEF SharedTypeOK, Event
<1>4. Wired'
  BY DEF Wired, WorkerTypeOK, Phase, Waiting, Cycle
<1> QED BY <1>1, <1>2, <1>3, <1>4

LEMMA ExitTypeInv ==
  ASSUME TypeInv, NEW w \in Worker, Exit(w)
  PROVE TypeInv'
<1> USE DEF TypeInv, TypeOK, Exit, At, Goto, coreVars, lineVars, telemetryVars
<1>1. CoreTypeOK'
  BY DEF CoreTypeOK
<1>2. WorkerTypeOK'
  BY DEF WorkerTypeOK, Phase, Waiting, Cycle, Outcome, NoCfg, CfgType
<1>3. SharedTypeOK'
  BY DEF SharedTypeOK, Unkey, DropDrivers, Failing
<1>4. Wired'
  BY DEF Wired, WorkerTypeOK, Phase, Waiting, Cycle
<1> QED BY <1>1, <1>2, <1>3, <1>4

LEMMA WorkerTypeInv ==
  ASSUME TypeInv, NEW w \in Worker, WorkerStep(w)
  PROVE TypeInv'
  BY RecvJobTypeInv, RecvCancelledTypeInv, EncodeFailsTypeInv, ModulateTypeInv,
     SlotBoundaryTypeInv, StartTxTypeInv, KeyTypeInv, KeyFailsTypeInv,
     LeadInTypeInv, SubmitTypeInv, DrainTypeInv, HoldTailTypeInv,
     ReleasePttTypeInv, ReleasePttFailsTypeInv, EndCycleTypeInv, ExitTypeInv
  DEF WorkerStep

LEMMA CoreTypeInv ==
  ASSUME TypeInv, CoreStep
  PROVE TypeInv'
<1>1. ASSUME NEW c \in Channel, NEW m \in Mode, ConfigureChannel(c, m)
      PROVE TypeInv'
  BY <1>1, ConfigureChannelTypeInv
<1>2. ASSUME NEW c \in Channel, NEW b \in Binding, ConfigureAudio(c, b)
      PROVE TypeInv'
  BY <1>2, ConfigureAudioTypeInv
<1>3. ASSUME NEW c \in Channel, NEW p \in PttDev, ConfigurePtt(c, p)
      PROVE TypeInv'
  BY <1>3, ConfigurePttTypeInv
<1>4. ASSUME NEW c \in Channel,
             KeyPttOn(c) \/ KeyPttOff(c) \/ KeyPttOnFails(c) \/ KeyPttOffFails(c)
      PROVE TypeInv'
  BY <1>4, KeyPttOnTypeInv, KeyPttOffTypeInv, KeyPttOnFailsTypeInv,
     KeyPttOffFailsTypeInv
<1>5. ASSUME NEW c \in Channel, AcquireTxLease(c) \/ ReleaseTxLease(c)
      PROVE TypeInv'
  BY <1>5, AcquireTxLeaseTypeInv, ReleaseTxLeaseTypeInv
<1>6. ASSUME NEW c \in Channel,
             TransmitQueued(c) \/ TransmitImageRefused(c) \/ TransmitSimulated(c)
             \/ TransmitLegacy(c) \/ LegacyKeyFails(c)
      PROVE TypeInv'
  BY <1>6, TransmitQueuedTypeInv, TransmitImageRefusedTypeInv,
     TransmitSimulatedTypeInv, TransmitLegacyTypeInv, LegacyKeyFailsTypeInv
<1>7. ASSUME NEW d \in Device, HotplugDeparted(d)
      PROVE TypeInv'
  BY <1>7, HotplugDepartedTypeInv
<1> QED BY <1>1, <1>2, <1>3, <1>4, <1>5, <1>6, <1>7, LegacyEndsTypeInv DEF CoreStep

LEMMA NextTypeInv == TypeInv /\ [Next]_vars => TypeInv'
<1>1. CASE Next
  BY <1>1, CoreTypeInv, WorkerTypeInv, ProcessExitTypeInv DEF Next
<1>2. CASE UNCHANGED vars
  BY <1>2 DEF vars, coreVars, workerVars, lineVars, telemetryVars, TypeInv,
     TypeOK, CoreTypeOK, WorkerTypeOK, SharedTypeOK, Wired
<1> QED BY <1>1, <1>2

LEMMA TypeInvAlways == Spec => []TypeInv
  BY InitTypeInv, NextTypeInv, PTL DEF Spec

\* Every variable keeps its type through every step of every thread.
THEOREM TypeCorrect == Spec => []TypeOK
  BY TypeInvAlways, PTL DEF TypeInv


-----------------------------------------------------------------------------
(* Where the threads can go in one step. *)

\* The core starts workers and changes nothing else about them.
Started(w) == pc[w] = "dead" /\ pc'[w] = "recv"
LEMMA CoreShape ==
  ASSUME TypeInv, CoreStep \/ ProcessExit, NEW w \in Worker
  PROVE Started(w) \/ (pc'[w] = pc[w] /\ cfg'[w] = cfg[w])
<1> USE DEF workerVars
<1>1. ASSUME NEW c \in Channel, NEW m \in Mode, ConfigureChannel(c, m)
      PROVE pc' = pc /\ cfg' = cfg
  BY <1>1 DEF ConfigureChannel
<1>2. ASSUME NEW c \in Channel, NEW b \in Binding, ConfigureAudio(c, b)
      PROVE Started(w) \/ (pc'[w] = pc[w] /\ cfg'[w] = cfg[w])
  BY <1>2 DEF ConfigureAudio, TrySpawnWorkers, FreeSlots, Started, TypeInv, TypeOK, WorkerTypeOK
<1>3. ASSUME NEW c \in Channel, NEW p \in PttDev, ConfigurePtt(c, p)
      PROVE Started(w) \/ (pc'[w] = pc[w] /\ cfg'[w] = cfg[w])
  BY <1>3 DEF ConfigurePtt, TrySpawnWorkers, FreeSlots, Started, TypeInv, TypeOK, WorkerTypeOK
<1>4. ASSUME NEW c \in Channel,
             KeyPttOn(c) \/ KeyPttOff(c) \/ KeyPttOnFails(c) \/ KeyPttOffFails(c)
      PROVE pc' = pc /\ cfg' = cfg
  BY <1>4 DEF KeyPttOn, KeyPttOff, KeyPttOnFails, KeyPttOffFails
<1>5. ASSUME NEW c \in Channel,
             \/ AcquireTxLease(c) \/ ReleaseTxLease(c) \/ TransmitQueued(c)
             \/ TransmitImageRefused(c) \/ TransmitSimulated(c)
             \/ TransmitLegacy(c) \/ LegacyKeyFails(c)
      PROVE pc' = pc /\ cfg' = cfg
  BY <1>5 DEF AcquireTxLease, ReleaseTxLease, TransmitQueued, TransmitImageRefused,
     TransmitSimulated, TransmitLegacy, LegacyKeyFails
<1>6. ASSUME LegacyEnds \/ ProcessExit \/ \E d \in Device : HotplugDeparted(d)
      PROVE pc' = pc /\ cfg' = cfg
  BY <1>6 DEF LegacyEnds, ProcessExit, HotplugDeparted
<1> QED BY <1>1, <1>2, <1>3, <1>4, <1>5, <1>6 DEF CoreStep

\* A worker moves only itself.
LEMMA WorkerShape ==
  ASSUME TypeInv, NEW v \in Worker, WorkerStep(v), NEW w \in Worker, w # v
  PROVE pc'[w] = pc[w] /\ cfg'[w] = cfg[w]
  BY DEF TypeInv, TypeOK, WorkerTypeOK, WorkerStep, RecvJob, RecvCancelled,
     EncodeFails, Modulate, SlotBoundary, CheckLease, Refuse, StartTx, Key,
     KeyFails, LeadIn, Drain, AwaitOrAbort, Submit, HoldTail, ReleasePtt,
     ReleasePttFails, EndCycle, Exit, Goto

-----------------------------------------------------------------------------
(* The lease. *)

OnAir == {"start"} \cup Cycle

\* Only the recheck after the slot wait lets a worker through.
LEMMA OnlyByLease ==
  ASSUME TypeInv, NEW w \in Worker, WorkerStep(w), pc'[w] \in OnAir, pc[w] \notin OnAir
  PROVE MayKey(w) /\ cfg'[w] = cfg[w] /\ holder' = holder
  BY DEF TypeInv, TypeOK, WorkerTypeOK, WorkerStep, RecvJob, RecvCancelled,
     EncodeFails, Modulate, SlotBoundary, CheckLease, Refuse, StartTx, Key,
     KeyFails, LeadIn, Drain, AwaitOrAbort, Submit, HoldTail, ReleasePtt,
     ReleasePttFails, EndCycle, Exit, Goto, OnAir, Cycle, At

LEMMA StaysOnRig ==
  ASSUME TypeInv, NEW w \in Worker, WorkerStep(w), pc'[w] \in OnAir
  PROVE cfg'[w] = cfg[w]
  BY DEF TypeInv, TypeOK, WorkerTypeOK, WorkerStep, RecvJob, RecvCancelled,
     EncodeFails, Modulate, SlotBoundary, CheckLease, Refuse, StartTx, Key,
     KeyFails, LeadIn, Drain, AwaitOrAbort, Submit, HoldTail, ReleasePtt,
     ReleasePttFails, EndCycle, Exit, Goto, OnAir, Cycle, At

LEMMA LeaseStep ==
  ASSUME TypeInv, [Next]_vars, NEW d \in Device, NEW c \in Channel,
         holder[d] = c, holder'[d] = c, PastLease(d, c) = {}
  PROVE PastLease(d, c)' = {}
<1> SUFFICES ASSUME NEW w \in Worker, cfg'[w].rig = d, cfg'[w].channel # c,
                    pc'[w] \in OnAir
             PROVE FALSE
  BY DEF PastLease, OnAir
<1>0. ~(cfg[w].rig = d /\ cfg[w].channel # c /\ pc[w] \in OnAir)
  BY DEF PastLease, OnAir
<1>1. CASE CoreStep \/ ProcessExit
  BY <1>0, <1>1, CoreShape DEF Started, OnAir, Cycle
<1>2. ASSUME NEW v \in Worker, WorkerStep(v), v # w
      PROVE FALSE
  BY <1>0, <1>2, WorkerShape
<1>3. CASE WorkerStep(w)
  <2>1. cfg'[w] = cfg[w]
    BY <1>3, StaysOnRig
  <2>2. pc[w] \notin OnAir
    BY <1>0, <2>1
  <2>3. MayKey(w)
    BY <1>3, <2>2, OnlyByLease
  <2> QED BY <2>1, <2>3, ModelValues DEF MayKey, MayTransmit
<1>4. CASE UNCHANGED vars
  BY <1>0, <1>4 DEF vars, workerVars
<1> QED BY <1>1, <1>2, <1>3, <1>4 DEF Next

\* A rig that is clear of other channels' workers stays clear for as long as
\* its lease is held: no worker gets past the recheck in run (tx_worker.rs).
THEOREM LeaseKeepsOthersOff == Spec => LeaseKeepsRigClear
<1>1. TypeInv /\ [Next]_vars =>
        [\A d \in Device, c \in Channel :
            holder[d] = c /\ holder'[d] = c /\ PastLease(d, c) = {}
                => PastLease(d, c)' = {}]_vars
  BY LeaseStep
<1> QED BY <1>1, TypeInvAlways, PTL DEF Spec, LeaseKeepsRigClear

-----------------------------------------------------------------------------
(* The interlock. *)

\* The cycles in flight stay the same, and so does every count.
Quiet ==
    /\ keyed' = keyed
    /\ legacy' = legacy
    /\ legacy # NoChannel => audio' = audio
    /\ \A w \in Worker :
          /\ pc'[w] \in Cycle <=> pc[w] \in Cycle
          /\ pc[w] \in Cycle => cfg'[w] = cfg[w]

InterlockInv == TypeInv /\ InterlockExact

LEMMA QuietInterlock ==
  ASSUME InterlockInv, Quiet
  PROVE InterlockExact'
<1> SUFFICES ASSUME NEW d \in Device
             PROVE keyed'[d] = Cardinality(OnRig(d)') + (IF LegacyOn(d)' THEN 1 ELSE 0)
  BY DEF InterlockExact
<1>1. OnRig(d)' = OnRig(d)
  <2>1. ASSUME NEW w \in Worker
        PROVE (cfg'[w].rig = d /\ pc'[w] \in Cycle) <=> (cfg[w].rig = d /\ pc[w] \in Cycle)
    BY DEF Quiet
  <2> QED BY <2>1 DEF OnRig
<1>2. LegacyOn(d)' <=> LegacyOn(d)
  BY DEF LegacyOn, Quiet
<1> QED BY <1>1, <1>2 DEF InterlockInv, InterlockExact, Quiet

LEMMA OnRigFinite == \A d : IsFiniteSet(OnRig(d)) /\ Cardinality(OnRig(d)) \in Nat
  BY Sizes, FS_Subset, FS_CardinalityType DEF OnRig

\* A worker begins its cycle.
LEMMA StartTxInterlock ==
  ASSUME InterlockInv, NEW w \in Worker, StartTx(w)
  PROVE InterlockExact'
<1> SUFFICES ASSUME NEW d \in Device
             PROVE keyed'[d] = Cardinality(OnRig(d)') + (IF LegacyOn(d)' THEN 1 ELSE 0)
  BY DEF InterlockExact
<1> USE DEF InterlockInv
<1>1. keyed[d] = Cardinality(OnRig(d)) + (IF LegacyOn(d) THEN 1 ELSE 0)
  BY DEF InterlockExact
<1>2. LegacyOn(d)' <=> LegacyOn(d)
  BY DEF LegacyOn, StartTx, coreVars
<1>3. OnRig(d)' = IF cfg[w].rig = d THEN OnRig(d) \cup {w} ELSE OnRig(d)
  BY DEF OnRig, StartTx, Goto, Cycle, TypeInv, TypeOK, WorkerTypeOK
<1>4. w \notin OnRig(d)
  BY DEF OnRig, StartTx, At, Cycle
<1>5. keyed'[d] = IF cfg[w].rig = d THEN keyed[d] + 1 ELSE keyed[d]
  BY DEF StartTx, BeginTx, TypeInv, TypeOK, SharedTypeOK
<1>6. Cardinality(OnRig(d) \cup {w}) = Cardinality(OnRig(d)) + 1
  BY <1>4, OnRigFinite, FS_AddElement
<1> QED BY <1>1, <1>2, <1>3, <1>5, <1>6, OnRigFinite

\* A worker ends its cycle.
LEMMA EndCycleInterlock ==
  ASSUME InterlockInv, NEW w \in Worker, EndCycle(w)
  PROVE InterlockExact'
<1> SUFFICES ASSUME NEW d \in Device
             PROVE keyed'[d] = Cardinality(OnRig(d)') + (IF LegacyOn(d)' THEN 1 ELSE 0)
  BY DEF InterlockExact
<1> USE DEF InterlockInv
<1>1. keyed[d] = Cardinality(OnRig(d)) + (IF LegacyOn(d) THEN 1 ELSE 0)
  BY DEF InterlockExact
<1>2. LegacyOn(d)' <=> LegacyOn(d)
  BY DEF LegacyOn, EndCycle, coreVars
<1>3. OnRig(d)' = IF cfg[w].rig = d THEN OnRig(d) \ {w} ELSE OnRig(d)
  BY DEF OnRig, EndCycle, Goto, Cycle, TypeInv, TypeOK, WorkerTypeOK
<1>4. cfg[w].rig = d => w \in OnRig(d)
  BY DEF OnRig, EndCycle, At, Cycle
<1>5. cfg[w].rig = d => Cardinality(OnRig(d) \ {w}) = Cardinality(OnRig(d)) - 1
  BY <1>4, OnRigFinite, FS_RemoveElement
<1>6. cfg[w].rig = d => Cardinality(OnRig(d)) # 0
  BY <1>4, OnRigFinite, FS_EmptySet
<1>7. keyed'[d] = IF cfg[w].rig = d /\ keyed[d] # 0 THEN keyed[d] - 1 ELSE keyed[d]
  BY DEF EndCycle, EndTx, TypeInv, TypeOK, SharedTypeOK
<1> QED BY <1>1, <1>2, <1>3, <1>5, <1>6, <1>7, OnRigFinite

\* The core begins and ends a legacy cycle.
LEMMA LegacyInterlock ==
  ASSUME InterlockInv, LegacyEnds \/ \E c \in Channel : TransmitLegacy(c)
  PROVE InterlockExact'
<1> SUFFICES ASSUME NEW d \in Device
             PROVE keyed'[d] = Cardinality(OnRig(d)') + (IF LegacyOn(d)' THEN 1 ELSE 0)
  BY DEF InterlockExact
<1> USE DEF InterlockInv
<1>1. keyed[d] = Cardinality(OnRig(d)) + (IF LegacyOn(d) THEN 1 ELSE 0)
  BY DEF InterlockExact
<1>2. OnRig(d)' = OnRig(d)
  BY DEF OnRig, LegacyEnds, TransmitLegacy, workerVars
<1>3. CASE LegacyEnds
  <2>1. ~LegacyOn(d)' /\ (LegacyOn(d) <=> audio[legacy].tx = d)
    BY <1>3 DEF LegacyOn, LegacyEnds
  <2>2. keyed'[d] = IF audio[legacy].tx = d /\ keyed[d] # 0
                    THEN keyed[d] - 1 ELSE keyed[d]
    BY <1>3 DEF LegacyEnds, EndTx, TypeInv, TypeOK, SharedTypeOK
  <2> QED BY <1>1, <1>2, <2>1, <2>2, OnRigFinite
<1>4. ASSUME NEW c \in Channel, TransmitLegacy(c)
      PROVE keyed'[d] = Cardinality(OnRig(d)') + (IF LegacyOn(d)' THEN 1 ELSE 0)
  <2>1. ~LegacyOn(d) /\ (LegacyOn(d)' <=> audio[c].tx = d)
    BY <1>4, ModelValues DEF LegacyOn, TransmitLegacy, TakeTxId, CoreIsFree, coreVars
  <2>2. keyed'[d] = IF audio[c].tx = d THEN keyed[d] + 1 ELSE keyed[d]
    BY <1>4 DEF TransmitLegacy, BeginTx, TypeInv, TypeOK, SharedTypeOK
  <2> QED BY <1>1, <1>2, <2>1, <2>2, OnRigFinite
<1> QED BY <1>3, <1>4

\* Every other step of a worker is quiet.
LEMMA WorkerQuiet ==
  ASSUME TypeInv, NEW w \in Worker, WorkerStep(w), ~StartTx(w), ~EndCycle(w)
  PROVE Quiet
<1>1. legacy' = legacy /\ audio' = audio /\ keyed' = keyed
  BY DEF WorkerStep, RecvJob, RecvCancelled, EncodeFails, Modulate, SlotBoundary,
     CheckLease, Key, KeyFails, LeadIn, Drain, AwaitOrAbort, Submit, HoldTail,
     ReleasePtt, ReleasePttFails, Exit, coreVars
<1>2. (pc'[w] \in Cycle <=> pc[w] \in Cycle) /\ (pc[w] \in Cycle => cfg'[w] = cfg[w])
  BY DEF TypeInv, TypeOK, WorkerTypeOK, WorkerStep, RecvJob, RecvCancelled,
     EncodeFails, Modulate, SlotBoundary, CheckLease, Refuse, Key, KeyFails,
     LeadIn, Drain, AwaitOrAbort, Submit, HoldTail, ReleasePtt,
     ReleasePttFails, Exit, Goto, Cycle, At
<1> QED BY <1>1, <1>2, WorkerShape DEF Quiet

\* So is every other step of the core when nobody keys by hand.
LEMMA CoreQuiet ==
  ASSUME TypeInv, ManualKey = {}, CoreStep \/ ProcessExit,
         ~LegacyEnds, ~\E c \in Channel : TransmitLegacy(c)
  PROVE Quiet
<1>1. keyed' = keyed /\ legacy' = legacy /\ (legacy # NoChannel => audio' = audio)
  BY DEF CoreStep, ProcessExit, ConfigureChannel, ConfigureAudio, ConfigurePtt,
     KeyPttOn, KeyPttOff, KeyPttOnFails, KeyPttOffFails, CanKeyPtt, AcquireTxLease,
     ReleaseTxLease, TransmitQueued, TransmitImageRefused, TransmitSimulated,
     LegacyKeyFails, HotplugDeparted, TakeTxId, CoreIsFree, coreVars
<1> QED BY <1>1, CoreShape DEF Quiet, Started, Cycle

LEMMA InterlockStep ==
  ASSUME ManualKey = {}, InterlockInv, [Next]_vars
  PROVE InterlockExact'
<1>1. CASE UNCHANGED vars
  BY <1>1, QuietInterlock DEF Quiet, vars, coreVars, workerVars
<1>2. ASSUME NEW w \in Worker, WorkerStep(w)
      PROVE InterlockExact'
  BY <1>2, StartTxInterlock, EndCycleInterlock, WorkerQuiet, QuietInterlock
  DEF InterlockInv
<1>3. CASE CoreStep \/ ProcessExit
  BY <1>3, LegacyInterlock, CoreQuiet, QuietInterlock DEF InterlockInv
<1> QED BY <1>1, <1>2, <1>3 DEF Next

LEMMA InterlockInit == Init => InterlockExact
<1> SUFFICES ASSUME Init, NEW d \in Device
             PROVE keyed[d] = Cardinality(OnRig(d)) + (IF LegacyOn(d) THEN 1 ELSE 0)
  BY DEF InterlockExact
<1>1. OnRig(d) = {}
  BY DEF Init, OnRig, Cycle
<1> QED BY <1>1, FS_EmptySet DEF Init, LegacyOn

\* As long as no client keys by hand, the interlock mutes a receiver exactly
\* while cycles are in flight on its device.
THEOREM InterlockCountsCycles == ManualKey = {} => (Spec => []InterlockExact)
<1> SUFFICES ASSUME ManualKey = {} PROVE Spec => []InterlockExact
  OBVIOUS
<1>1. Init => InterlockInv
  BY InitTypeInv, InterlockInit DEF InterlockInv
<1>2. InterlockInv /\ [Next]_vars => InterlockInv'
  BY NextTypeInv, InterlockStep DEF InterlockInv
<1>3. InterlockInv => InterlockExact
  BY DEF InterlockInv
<1> QED BY <1>1, <1>2, <1>3, PTL DEF Spec

-----------------------------------------------------------------------------
(* The PTT lines. *)

\* Manual keying and TX workers exclude each other: either no client keys by
\* hand, or no mode has a modulator and so no worker takes a keyed driver.
Separate == ManualKey = {} \/ "tx" \notin Mode

StuckInv ==
    /\ TypeInv
    /\ mode \in [Channel -> Mode]
    /\ manual \subseteq ManualKey
    /\ NoStuckTransmitter

\* What a step has to show: the owner of a line that is still asserted.
LEMMA OwnedSuffices ==
  ASSUME up' => \A p \in PttDev : p \in asserted' /\ p \notin jammed' => Owner(p)',
         TypeInv'
  PROVE NoStuckTransmitter'
  BY DEF NoStuckTransmitter, TypeInv, TypeOK, SharedTypeOK

LEMMA WorkerOwned ==
  ASSUME StuckInv, NEW w \in Worker, WorkerStep(w),
         NEW p \in PttDev, p \in asserted', p \notin jammed'
  PROVE Owner(p)'
<1> USE DEF StuckInv, TypeInv, TypeOK, WorkerTypeOK
<1>0. legacy' = legacy /\ drivers' = drivers /\ manual' = manual /\ up
  BY DEF WorkerStep, RecvJob, RecvCancelled, EncodeFails, Modulate, SlotBoundary,
     CheckLease, StartTx, Key, KeyFails, LeadIn, Drain, AwaitOrAbort, Submit,
     HoldTail, ReleasePtt, ReleasePttFails, EndCycle, Exit, coreVars, At
<1>1. CASE Key(w)
  <2>1. CASE p = cfg[w].driver
    BY <1>1, <2>1 DEF Key, Goto, Owner, Keyed
  <2>2. CASE p # cfg[w].driver
    BY <1>0, <1>1, <2>2 DEF Key, Goto, At, Owner, Keyed, NoStuckTransmitter
  <2> QED BY <2>1, <2>2
<1>2. CASE ReleasePtt(w) \/ ReleasePttFails(w)
  <2>1. p # cfg[w].driver /\ p \in asserted /\ p \notin jammed
    BY <1>2 DEF ReleasePtt, ReleasePttFails, Unkey
  <2>2. \A v \in Worker : v # w => pc'[v] = pc[v] /\ cfg'[v] = cfg[v]
    BY WorkerShape
  <2> QED BY <1>0, <2>1, <2>2 DEF Owner, NoStuckTransmitter
<1>3. CASE Exit(w)
  <2>1. p \in asserted /\ p \notin jammed
    BY <1>3 DEF Exit, DropDrivers, Unkey, Failing
  <2>2. pc[w] \notin Keyed
    BY <1>3 DEF Exit, At, Keyed
  <2>3. \A v \in Worker : v # w => pc'[v] = pc[v] /\ cfg'[v] = cfg[v]
    BY WorkerShape
  <2> QED BY <1>0, <2>1, <2>2, <2>3 DEF Owner, NoStuckTransmitter
<1>4. CASE ~(Key(w) \/ ReleasePtt(w) \/ ReleasePttFails(w) \/ Exit(w))
  <2>1. asserted' = asserted /\ jammed' = jammed /\ cfg' = cfg
    BY <1>4 DEF WorkerStep, RecvJob, RecvCancelled, EncodeFails, Modulate,
       SlotBoundary, CheckLease, StartTx, KeyFails, LeadIn, Drain, AwaitOrAbort,
       Submit, HoldTail, EndCycle, lineVars
  <2>2. pc[w] \in Keyed => pc'[w] \in Keyed
    BY <1>4 DEF WorkerStep, RecvJob, RecvCancelled, EncodeFails, Modulate,
       SlotBoundary, CheckLease, Refuse, StartTx, KeyFails, LeadIn, Drain,
       AwaitOrAbort, Submit, HoldTail, EndCycle, At, Goto, Keyed
  <2>3. \A v \in Worker : v # w => pc'[v] = pc[v]
    BY WorkerShape
  <2> QED BY <1>0, <2>1, <2>2, <2>3 DEF Owner, NoStuckTransmitter
<1> QED BY <1>1, <1>2, <1>3, <1>4

\* A worker the core starts owns no line yet, and no other worker changes.
LEMMA WorkerOwnerKept ==
  ASSUME TypeInv, CoreStep, NEW w \in Worker, NEW p \in PttDev,
         cfg[w].driver = p, pc[w] \in Keyed
  PROVE cfg'[w].driver = p /\ pc'[w] \in Keyed
  BY CoreShape DEF Started, Keyed

LEMMA ConfigureOwned ==
  ASSUME Separate, StuckInv, CoreStep, NEW c \in Channel,
         \/ \E b \in Binding : ConfigureAudio(c, b)
         \/ \E q \in PttDev : ConfigurePtt(c, q),
         NEW p \in PttDev, p \in asserted', p \notin jammed'
  PROVE Owner(p)'
<1> USE DEF StuckInv, TypeInv, TypeOK, CoreTypeOK, Separate
<1>1. p \in asserted /\ p \notin jammed /\ up /\ legacy = NoChannel
  BY DEF ConfigureAudio, ConfigurePtt, CoreIsFree, Unkey, Failing, lineVars
<1>2. \A k \in manual : drivers[k] = p => k \in manual' /\ drivers'[k] = p
  <2>1. ASSUME NEW b \in Binding, ConfigureAudio(c, b), NEW k \in manual, drivers[k] = p
        PROVE k \in manual' /\ drivers'[k] = p
    BY <2>1 DEF ConfigureAudio, TrySpawnWorkers
  <2>2. ASSUME NEW q \in PttDev, ConfigurePtt(c, q), NEW k \in manual, drivers[k] = p
        PROVE k \in manual' /\ drivers'[k] = p
    <3>1. k # c
      <4>1. PICK failing \in SUBSET (({drivers[c]} \ {NoDevice}) \ {q}) :
               Unkey(({drivers[c]} \ {NoDevice}) \cup {q}, failing)
        BY <2>2 DEF ConfigurePtt, Failing
      <4>2. CASE drivers[c] = p
        BY <4>1, <4>2, <1>1, ModelValues DEF Unkey
      <4> QED BY <2>2, <4>2
    <3> QED BY <2>2, <3>1 DEF ConfigurePtt, TrySpawnWorkers
  <2> QED BY <2>1, <2>2
<1> QED BY <1>1, <1>2, WorkerOwnerKept DEF Owner, NoStuckTransmitter

LEMMA ManualOwned ==
  ASSUME StuckInv, CoreStep, NEW c \in Channel,
         KeyPttOn(c) \/ KeyPttOff(c) \/ KeyPttOnFails(c) \/ KeyPttOffFails(c),
         NEW p \in PttDev, p \in asserted', p \notin jammed'
  PROVE Owner(p)'
<1> USE DEF StuckInv, TypeInv, TypeOK, CoreTypeOK
<1>1. up /\ legacy = NoChannel /\ legacy' = legacy
  BY DEF KeyPttOn, KeyPttOff, KeyPttOnFails, KeyPttOffFails, CanKeyPtt, CoreIsFree
<1>2. CASE KeyPttOn(c)
  <2>1. CASE p = drivers[c]
    BY <1>2, <2>1 DEF KeyPttOn, Owner
  <2>2. CASE p # drivers[c]
    BY <1>1, <1>2, <2>2, WorkerOwnerKept DEF KeyPttOn, Owner, NoStuckTransmitter
  <2> QED BY <2>1, <2>2
<1>3. CASE KeyPttOff(c) \/ KeyPttOnFails(c) \/ KeyPttOffFails(c)
  <2>1. p \in asserted /\ p \notin jammed
    BY <1>3 DEF KeyPttOff, KeyPttOnFails, KeyPttOffFails, DropDrivers, Unkey, Failing
  <2>2. \A k \in manual : drivers[k] = p => k \in manual' /\ drivers'[k] = p
    BY <1>3 DEF KeyPttOff, KeyPttOnFails, KeyPttOffFails, DropDrivers, Unkey, Failing,
       EvictOnGone
  <2> QED BY <1>1, <2>1, <2>2, WorkerOwnerKept DEF Owner, NoStuckTransmitter
<1> QED BY <1>2, <1>3

LEMMA LegacyOwned ==
  ASSUME StuckInv, CoreStep,
         LegacyEnds \/ \E c \in Channel : TransmitLegacy(c) \/ LegacyKeyFails(c),
         NEW p \in PttDev, p \in asserted', p \notin jammed'
  PROVE Owner(p)'
<1> USE DEF StuckInv, TypeInv, TypeOK, CoreTypeOK
<1>1. ASSUME NEW c \in Channel, TransmitLegacy(c)
      PROVE Owner(p)'
  <2>1. CASE p = drivers[c]
    BY <1>1, <2>1, ModelValues DEF TransmitLegacy, Owner, coreVars
  <2>2. CASE p # drivers[c]
    BY <1>1, <2>2, WorkerOwnerKept
    DEF TransmitLegacy, TakeTxId, CoreIsFree, coreVars, Owner, NoStuckTransmitter
  <2> QED BY <2>1, <2>2
<1>2. ASSUME NEW c \in Channel, LegacyKeyFails(c)
      PROVE Owner(p)'
  <2>1. p \in asserted /\ p \notin jammed /\ up /\ legacy = NoChannel
    BY <1>2 DEF LegacyKeyFails, TakeTxId, CoreIsFree, DropDrivers, Unkey, Failing, lineVars
  <2>2. \A k \in manual : drivers[k] = p => k \in manual' /\ drivers'[k] = p
    BY <1>2 DEF LegacyKeyFails, DropDrivers, Unkey, Failing, EvictOnGone
  <2> QED BY <2>1, <2>2, WorkerOwnerKept DEF Owner, NoStuckTransmitter
<1>3. CASE LegacyEnds
  <2>1. p \in asserted /\ p \notin jammed /\ up /\ p # drivers[legacy]
    BY <1>3 DEF LegacyEnds, DropDrivers, Unkey, Failing
  <2>2. \A k \in manual : drivers[k] = p => k \in manual' /\ drivers'[k] = p
    BY <1>3, <2>1 DEF LegacyEnds, EvictOnGone
  <2> QED BY <2>1, <2>2, WorkerOwnerKept DEF Owner, NoStuckTransmitter
<1> QED BY <1>1, <1>2, <1>3

LEMMA HotplugOwned ==
  ASSUME StuckInv, CoreStep, NEW d \in Device, HotplugDeparted(d),
         NEW p \in PttDev, p \in asserted', p \notin jammed'
  PROVE Owner(p)'
<1> USE DEF StuckInv, TypeInv, TypeOK, CoreTypeOK
<1>1. p \in asserted /\ p \notin jammed /\ up /\ legacy = NoChannel
  BY DEF HotplugDeparted, DropDrivers, Unkey, Failing, CoreIsFree
<1>2. \A k \in manual : drivers[k] = p => k \in manual' /\ drivers'[k] = p
  <2>1. \A k \in PttChannels(d) : drivers[k] # p
    <3>1. PICK failing \in SUBSET ({drivers[k] : k \in PttChannels(d)} \ {NoDevice}) :
             Unkey({drivers[k] : k \in PttChannels(d)} \ {NoDevice}, failing)
      BY DEF HotplugDeparted, DropDrivers, Failing
    <3>2. p \notin {drivers[k] : k \in PttChannels(d)}
      BY <3>1, <1>1, ModelValues DEF Unkey
    <3> QED BY <3>2
  <2> QED BY <2>1 DEF HotplugDeparted
<1> QED BY <1>1, <1>2, WorkerOwnerKept DEF Owner, NoStuckTransmitter

\* The other commands leave lines, drivers and workers' phases alone.
LEMMA OtherOwned ==
  ASSUME StuckInv, CoreStep, NEW c \in Channel,
         \/ \E m \in Mode : ConfigureChannel(c, m)
         \/ AcquireTxLease(c) \/ ReleaseTxLease(c) \/ TransmitQueued(c)
         \/ TransmitImageRefused(c) \/ TransmitSimulated(c),
         NEW p \in PttDev, p \in asserted', p \notin jammed'
  PROVE Owner(p)'
<1>1. /\ asserted' = asserted /\ jammed' = jammed /\ drivers' = drivers
      /\ manual' = manual /\ legacy = NoChannel /\ up
  BY DEF ConfigureChannel, AcquireTxLease, ReleaseTxLease, TransmitQueued,
     TransmitImageRefused, TransmitSimulated, TakeTxId, CoreIsFree, coreVars, lineVars
<1> QED BY <1>1, WorkerOwnerKept DEF Owner, NoStuckTransmitter, StuckInv

\* The two facts about modes and manual keys that the argument rests on.
LEMMA ManualStep ==
  ASSUME StuckInv, [Next]_vars
  PROVE mode' \in [Channel -> Mode] /\ manual' \subseteq ManualKey
<1> USE DEF StuckInv
<1>1. CASE UNCHANGED vars
  BY <1>1 DEF vars, coreVars
<1>2. ASSUME NEW w \in Worker, WorkerStep(w)
      PROVE mode' = mode /\ manual' = manual
  BY <1>2 DEF WorkerStep, RecvJob, RecvCancelled, EncodeFails, Modulate, SlotBoundary,
     CheckLease, StartTx, Key, KeyFails, LeadIn, Drain, AwaitOrAbort, Submit,
     HoldTail, ReleasePtt, ReleasePttFails, EndCycle, Exit, coreVars
<1>3. ASSUME NEW c \in Channel, NEW m \in Mode, ConfigureChannel(c, m)
      PROVE mode' \in [Channel -> Mode] /\ manual' = manual
  BY <1>3 DEF ConfigureChannel
<1>4. ASSUME NEW c \in Channel,
             \/ \E b \in Binding : ConfigureAudio(c, b)
             \/ \E p \in PttDev : ConfigurePtt(c, p)
      PROVE mode' = mode /\ manual' \subseteq manual
  BY <1>4 DEF ConfigureAudio, ConfigurePtt, TrySpawnWorkers
<1>5. ASSUME NEW c \in Channel,
             KeyPttOn(c) \/ KeyPttOff(c) \/ KeyPttOnFails(c) \/ KeyPttOffFails(c)
      PROVE mode' = mode /\ manual' \subseteq ManualKey
  BY <1>5 DEF KeyPttOn, KeyPttOff, KeyPttOnFails, KeyPttOffFails, CanKeyPtt, EvictOnGone
<1>6. ASSUME NEW c \in Channel,
             \/ AcquireTxLease(c) \/ ReleaseTxLease(c) \/ TransmitQueued(c)
             \/ TransmitImageRefused(c) \/ TransmitSimulated(c)
             \/ TransmitLegacy(c) \/ LegacyKeyFails(c)
      PROVE mode' = mode /\ manual' \subseteq manual
  BY <1>6 DEF AcquireTxLease, ReleaseTxLease, TransmitQueued, TransmitImageRefused,
     TransmitSimulated, TransmitLegacy, LegacyKeyFails, EvictOnGone, coreVars
<1>7. ASSUME LegacyEnds \/ ProcessExit \/ \E d \in Device : HotplugDeparted(d)
      PROVE mode' = mode /\ manual' \subseteq manual
  BY <1>7 DEF LegacyEnds, ProcessExit, HotplugDeparted, EvictOnGone, coreVars
<1> QED BY <1>1, <1>2, <1>3, <1>4, <1>5, <1>6, <1>7 DEF Next, CoreStep

LEMMA StuckStep ==
  ASSUME Separate, StuckInv, [Next]_vars
  PROVE StuckInv'
<1>1. TypeInv'
  BY NextTypeInv DEF StuckInv
<1>2. CASE UNCHANGED vars
  <2>1. /\ asserted' = asserted /\ jammed' = jammed /\ drivers' = drivers
        /\ manual' = manual /\ legacy' = legacy /\ up' = up
        /\ cfg' = cfg /\ pc' = pc
    BY <1>2 DEF vars, coreVars, workerVars, lineVars
  <2>2. \A p : Owner(p) => Owner(p)'
    BY <2>1 DEF Owner
  <2> QED BY <1>1, <2>1, <2>2, ManualStep DEF StuckInv, NoStuckTransmitter
<1>3. CASE ProcessExit
  BY <1>1, <1>3, ManualStep DEF ProcessExit, StuckInv, NoStuckTransmitter
<1>4. ASSUME NEW w \in Worker, WorkerStep(w), NEW p \in PttDev,
             p \in asserted', p \notin jammed'
      PROVE Owner(p)'
  BY <1>4, WorkerOwned
<1>5. ASSUME CoreStep, NEW p \in PttDev, p \in asserted', p \notin jammed'
      PROVE Owner(p)'
  BY <1>5, ConfigureOwned, ManualOwned, LegacyOwned, HotplugOwned, OtherOwned
  DEF CoreStep
<1> QED BY <1>1, <1>2, <1>3, <1>4, <1>5, OwnedSuffices, ManualStep DEF Next, StuckInv

\* Where manual keying and TX workers do not meet on a channel, no PTT line
\* stays asserted without somebody there to release it.
THEOREM NoLineIsStuck == Separate => (Spec => []NoStuckTransmitter)
<1> SUFFICES ASSUME Separate PROVE Spec => []NoStuckTransmitter
  OBVIOUS
<1>1. Init => StuckInv
  BY InitTypeInv DEF Init, StuckInv, NoStuckTransmitter
<1>2. StuckInv /\ [Next]_vars => StuckInv'
  BY StuckStep
<1>3. StuckInv => NoStuckTransmitter
  BY DEF StuckInv
<1> QED BY <1>1, <1>2, <1>3, PTL DEF Spec

-----------------------------------------------------------------------------
(* The order of service. *)

\* The order is inductive because every id that waits is below the next one.
FifoInv ==
    /\ TypeInv
    /\ FirstAcceptedFirstServed
    /\ \A w \in Worker :
          /\ job[w] < nextTx
          /\ \A i \in DOMAIN queue[w] : queue[w][i] < nextTx

\* The queues are left alone, and a job at most finishes.
NothingQueued ==
    /\ queue' = queue
    /\ nextTx' \in {nextTx, nextTx + 1}
    /\ \A w \in Worker : job'[w] \in {job[w], NoJob}

LEMMA QueuedIds ==
  ASSUME TypeInv, NEW w \in Worker, NEW i \in DOMAIN queue[w]
  PROVE queue[w][i] \in TxId
<1>1. queue[w] \in Seq(TxId)
  BY DEF TypeInv, TypeOK, WorkerTypeOK
<1>2. i \in 1 .. Len(queue[w])
  BY <1>1
<1> QED BY <1>1, <1>2, ElementOfSeq

LEMMA NothingQueuedFifo ==
  ASSUME FifoInv, NothingQueued, TypeInv'
  PROVE FifoInv'
<1> USE DEF FifoInv, NothingQueued
<1>1. \A w \in Worker : \A i \in DOMAIN queue[w] :
        queue[w][i] \in TxId /\ queue[w][i] < nextTx
  BY QueuedIds
<1>2. nextTx \in Nat /\ nextTx > 0 /\ nextTx' \in Nat
  BY Sizes DEF TypeInv, TypeOK, CoreTypeOK
<1>3. \A w \in Worker : job[w] \in Nat
  BY DEF TypeInv, TypeOK, WorkerTypeOK
<1>4. FirstAcceptedFirstServed'
  BY <1>1, <1>3 DEF FirstAcceptedFirstServed
<1> QED BY <1>1, <1>2, <1>3, <1>4

LEMMA RecvJobFifo ==
  ASSUME FifoInv, NEW v \in Worker, RecvJob(v), TypeInv'
  PROVE FifoInv'
<1> USE DEF FifoInv
<1>1. queue[v] \in Seq(TxId) /\ queue[v] # <<>>
  BY DEF RecvJob, TypeInv, TypeOK, WorkerTypeOK
<1> DEFINE rest == Tail(queue[v])
<1>2. /\ rest \in Seq(TxId)
      /\ Len(rest) = Len(queue[v]) - 1
      /\ \A i \in 1 .. Len(rest) : rest[i] = queue[v][i + 1]
  BY <1>1, HeadTailProperties
<1>3. Head(queue[v]) = queue[v][1] /\ Len(queue[v]) \in Nat /\ Len(queue[v]) >= 1
  BY <1>1
<1>4. /\ job'[v] = queue[v][1] /\ queue'[v] = rest /\ nextTx' = nextTx
      /\ \A w \in Worker : w # v => job'[w] = job[w] /\ queue'[w] = queue[w]
  BY <1>3 DEF RecvJob, TypeInv, TypeOK, WorkerTypeOK
<1>5. DOMAIN rest = 1 .. Len(rest) /\ DOMAIN queue[v] = 1 .. Len(queue[v])
  BY <1>1, <1>2
<1> HIDE DEF rest
<1>6. ASSUME NEW i \in DOMAIN rest, NEW j \in DOMAIN rest, i < j
      PROVE rest[i] < rest[j]
  <2>1. i + 1 \in DOMAIN queue[v] /\ j + 1 \in DOMAIN queue[v] /\ i + 1 < j + 1
    BY <1>2, <1>3, <1>5, <1>6
  <2>2. queue[v][i + 1] < queue[v][j + 1]
    BY <2>1 DEF FirstAcceptedFirstServed
  <2> QED BY <1>2, <1>5, <2>2
<1>7. \A i \in DOMAIN rest : queue[v][1] < rest[i] /\ rest[i] < nextTx
  BY <1>2, <1>3, <1>5 DEF FirstAcceptedFirstServed
<1>8. FirstAcceptedFirstServed'
  BY <1>4, <1>6, <1>7 DEF FirstAcceptedFirstServed
<1> QED BY <1>3, <1>4, <1>5, <1>7, <1>8

LEMMA TransmitQueuedFifo ==
  ASSUME FifoInv, NEW c \in Channel, TransmitQueued(c), TypeInv'
  PROVE FifoInv'
<1> USE DEF FifoInv
<1>1. nextTx \in TxId /\ nextTx' = nextTx + 1 /\ job' = job
  BY Sizes DEF TransmitQueued, TakeTxId, TypeInv, TypeOK, CoreTypeOK
<1>2. CASE queue' = queue
  BY <1>1, <1>2, NothingQueuedFifo DEF NothingQueued
<1>3. CASE Enqueue(txWorkers[c], nextTx) /\ txWorkers[c] \in Worker
  <2> DEFINE v == txWorkers[c]
             q == queue[v]
             r == Append(q, nextTx)
  <2>1. q \in Seq(TxId)
    BY <1>3 DEF TypeInv, TypeOK, WorkerTypeOK
  <2>2. /\ Len(r) = Len(q) + 1 /\ r[Len(q) + 1] = nextTx /\ r \in Seq(TxId)
        /\ \A i \in 1 .. Len(q) : r[i] = q[i]
    BY <1>1, <2>1, AppendProperties
  <2>3. queue'[v] = r /\ \A w \in Worker : w # v => queue'[w] = queue[w]
    BY <1>3 DEF Enqueue, TypeInv, TypeOK, WorkerTypeOK
  <2>4. DOMAIN r = 1 .. Len(q) + 1 /\ DOMAIN q = 1 .. Len(q) /\ Len(q) \in Nat
    BY <2>1, <2>2
  <2>5. \A i \in 1 .. Len(q) : job[v] < q[i] /\ q[i] < nextTx /\ q[i] \in TxId
    BY <1>3, <2>4, QueuedIds DEF FirstAcceptedFirstServed
  <2>6. \A i, j \in 1 .. Len(q) : i < j => q[i] < q[j]
    BY <1>3, <2>4 DEF FirstAcceptedFirstServed
  <2>7. job[v] < nextTx /\ \A w \in Worker : job[w] \in Nat /\ job[w] < nextTx + 1
    BY <1>1, <1>3 DEF TypeInv, TypeOK, WorkerTypeOK
  <2>8. v \in Worker
    BY <1>3
  <2>9. \A w \in Worker : \A i \in DOMAIN queue[w] :
          queue[w][i] \in TxId /\ queue[w][i] < nextTx + 1
    BY <1>1, QueuedIds
  <2> HIDE DEF v, q, r
  <2>10. \A i, j \in DOMAIN r : i < j => r[i] < r[j]
    BY <2>2, <2>4, <2>5, <2>6
  <2>11. \A i \in DOMAIN r : job[v] < r[i] /\ r[i] < nextTx + 1
    BY <1>1, <2>2, <2>4, <2>5, <2>7
  <2>12. FirstAcceptedFirstServed'
    BY <1>1, <2>3, <2>8, <2>10, <2>11 DEF FirstAcceptedFirstServed
  <2> QED BY <1>1, <2>3, <2>7, <2>8, <2>9, <2>11, <2>12
<1> QED BY <1>2, <1>3, ModelValues DEF TransmitQueued, TypeInv, TypeOK, CoreTypeOK

LEMMA ExitFifo ==
  ASSUME FifoInv, NEW v \in Worker, Exit(v), TypeInv'
  PROVE FifoInv'
<1> USE DEF FifoInv
<1>1. /\ queue'[v] = <<>> /\ job' = job /\ nextTx' = nextTx
      /\ \A w \in Worker : w # v => queue'[w] = queue[w]
  BY DEF Exit, TypeInv, TypeOK, WorkerTypeOK
<1>2. DOMAIN queue'[v] = {}
  BY <1>1
<1> QED BY <1>1, <1>2 DEF FirstAcceptedFirstServed

LEMMA FifoStep ==
  ASSUME FifoInv, [Next]_vars
  PROVE FifoInv'
<1>0. TypeInv'
  BY NextTypeInv DEF FifoInv
<1>1. CASE UNCHANGED vars
  BY <1>0, <1>1, NothingQueuedFifo DEF vars, workerVars, NothingQueued
<1>2. ASSUME NEW w \in Worker, WorkerStep(w), ~RecvJob(w), ~Exit(w)
      PROVE NothingQueued
  BY <1>2 DEF FifoInv, TypeInv, TypeOK, WorkerTypeOK, WorkerStep, RecvCancelled,
     EncodeFails, Modulate, SlotBoundary, CheckLease, Refuse, StartTx, Key,
     KeyFails, LeadIn, Drain, AwaitOrAbort, Submit, HoldTail, ReleasePtt,
     ReleasePttFails, EndCycle, NothingQueued
<1>3. ASSUME CoreStep \/ ProcessExit, ~\E c \in Channel : TransmitQueued(c)
      PROVE NothingQueued
  <2>1. queue' = queue /\ job' = job
    BY <1>3 DEF CoreStep, ProcessExit, ConfigureChannel, ConfigureAudio, ConfigurePtt,
       KeyPttOn, KeyPttOff, KeyPttOnFails, KeyPttOffFails, AcquireTxLease,
       ReleaseTxLease, TransmitImageRefused, TransmitSimulated, TransmitLegacy,
       LegacyKeyFails, LegacyEnds, HotplugDeparted, workerVars
  <2>2. nextTx' = nextTx \/ nextTx' = nextTx + 1
    BY <1>3 DEF CoreStep, ProcessExit, ConfigureChannel, ConfigureAudio, ConfigurePtt,
       KeyPttOn, KeyPttOff, KeyPttOnFails, KeyPttOffFails, AcquireTxLease,
       ReleaseTxLease, TransmitImageRefused, TransmitSimulated, TransmitLegacy,
       LegacyKeyFails, LegacyEnds, HotplugDeparted, TakeTxId
  <2> QED BY <2>1, <2>2 DEF NothingQueued
<1> QED BY <1>0, <1>1, <1>2, <1>3, NothingQueuedFifo, RecvJobFifo,
       TransmitQueuedFifo, ExitFifo DEF Next

\* A worker serves its jobs in the order in which the core accepted them.
THEOREM FirstComeFirstServed == Spec => []FirstAcceptedFirstServed
<1>1. Init => FifoInv
  <2>1. ASSUME Init, NEW w \in Worker
        PROVE queue[w] = <<>> /\ job[w] = 0 /\ nextTx = 1
    BY <2>1 DEF Init
  <2>2. ASSUME Init, NEW w \in Worker
        PROVE DOMAIN queue[w] = {}
    BY <2>1, <2>2
  <2> QED BY <2>1, <2>2, InitTypeInv DEF FifoInv, FirstAcceptedFirstServed
<1>2. FifoInv /\ [Next]_vars => FifoInv'
  BY FifoStep
<1>3. FifoInv => FirstAcceptedFirstServed
  BY DEF FifoInv
<1> QED BY <1>1, <1>2, <1>3, PTL DEF Spec


-----------------------------------------------------------------------------
(* What the log holds of an id. *)

Silent == <<>>
Begun == <<"Started">>
Over == <<"Started", "Complete">>
Failed == <<"Started", "Failed", "Complete">>

LEMMA Entries ==
  /\ Silent # Begun /\ Silent # Over /\ Silent # Failed
  /\ Begun # Over /\ Begun # Failed
  /\ Silent \o Begun = Begun /\ Silent \o Over = Over /\ Silent \o Failed = Failed
  /\ Begun \o <<"Complete">> = Over
  /\ Last(Begun) # "Complete" /\ Last(Over) = "Complete" /\ Last(Failed) = "Complete"
<1>1. Len(Silent) = 0 /\ Len(Begun) = 1 /\ Len(Over) = 2 /\ Len(Failed) = 3
  BY DEF Silent, Begun, Over, Failed
<1>2. /\ Silent # Begun /\ Silent # Over /\ Silent # Failed
      /\ Begun # Over /\ Begun # Failed
  BY ONLY <1>1
<1>3. Silent \o Begun = Begun /\ Silent \o Over = Over /\ Silent \o Failed = Failed
  BY DEF Silent, Begun, Over, Failed
<1>4. Begun \o <<"Complete">> = Over
  <2> DEFINE done == <<"Complete">>
             both == Begun \o done
  <2>1. Begun \in Seq(Event) /\ done \in Seq(Event) /\ Over \in Seq(Event)
    BY EventSeqs DEF Begun, Over
  <2>2. /\ Len(Begun) = 1 /\ Begun[1] = "Started" /\ Len(done) = 1 /\ done[1] = "Complete"
        /\ Len(Over) = 2 /\ Over[1] = "Started" /\ Over[2] = "Complete"
    BY DEF Begun, Over
  <2> HIDE DEF done
  <2>3. /\ both \in Seq(Event) /\ Len(both) = Len(Begun) + Len(done)
        /\ \A i \in 1 .. Len(Begun) + Len(done) :
              both[i] = IF i <= Len(Begun) THEN Begun[i] ELSE done[i - Len(Begun)]
    BY <2>1, ConcatProperties
  <2> HIDE DEF both
  <2>4. Len(both) = 2 /\ both[1] = "Started" /\ both[2] = "Complete"
    BY ONLY <2>2, <2>3
  <2>5. \A i \in 1 .. Len(both) : both[i] = Over[i]
    BY ONLY <2>2, <2>4
  <2>6. both = Over
    BY ONLY <2>1, <2>2, <2>3, <2>4, <2>5, SeqEqual
  <2> QED BY <2>6 DEF both, done
<1>5. Last(Begun) # "Complete" /\ Last(Over) = "Complete" /\ Last(Failed) = "Complete"
  BY DEF Begun, Over, Failed, Last
<1> QED BY <1>2, <1>3, <1>4, <1>5

\* JobStatus, of the values it is read from.
StatusOf(i, entry, waiting, told, next) ==
    CASE entry # <<>> /\ Last(entry) = "Complete" -> "over"
      [] entry # <<>> /\ Last(entry) # "Complete" -> "onAir"
      [] entry = <<>> /\ i \in waiting             -> "waiting"
      [] entry = <<>> /\ i \in told \ waiting      -> "dropped"
      [] entry = <<>> /\ i < next /\ i \notin told \cup waiting -> "refused"
      [] OTHER                                     -> "new"

LEMMA StatusValues ==
  ASSUME NEW i \in TxId, NEW entry, NEW waiting, NEW told, NEW next \in Nat
  PROVE  /\ entry \in {Over, Failed} => StatusOf(i, entry, waiting, told, next) = "over"
         /\ entry = Begun => StatusOf(i, entry, waiting, told, next) = "onAir"
         /\ entry = Silent /\ i \in waiting =>
              StatusOf(i, entry, waiting, told, next) = "waiting"
         /\ entry = Silent /\ i \notin waiting /\ i \in told =>
              StatusOf(i, entry, waiting, told, next) = "dropped"
         /\ entry = Silent /\ i \notin waiting /\ i \notin told /\ i < next =>
              StatusOf(i, entry, waiting, told, next) = "refused"
         /\ entry = Silent /\ i \notin waiting /\ i \notin told /\ ~(i < next) =>
              StatusOf(i, entry, waiting, told, next) = "new"
<1>1. entry = Silent <=> entry = <<>>
  BY DEF Silent
<1> QED BY <1>1, Entries DEF StatusOf

LEMMA StatusRead ==
  ASSUME NEW i \in TxId
  PROVE  /\ JobStatus(i) = StatusOf(i, log[i], AtWorkers, accepted, nextTx)
         /\ JobStatus(i)' = StatusOf(i, log'[i], AtWorkers', accepted', nextTx')
BY DEF JobStatus, StatusOf

LEMMA EmitEntry ==
  ASSUME TypeInv, NEW id \in TxId, NEW events, Emit(id, events)
  PROVE  log'[id] = log[id] \o events /\ \A j \in TxId \ {id} : log'[j] = log[j]
BY DEF TypeInv, TypeOK, SharedTypeOK, Emit

-----------------------------------------------------------------------------
(* The invariant: where the program keeps an id agrees with its log. *)

\* A worker has a job from the moment it takes one to the end of its cycle.
JobWhileBusy == \A w \in Worker : job[w] # NoJob <=> pc[w] \in Waiting \cup Cycle

\* No id is at two workers, and one that is at a worker is silent until the
\* worker's cycle has begun.
Apart == \A v, w \in Worker : v # w => Jobs(v) \cap Jobs(w) = {}
Carrying ==
    \A w \in Worker : \A i \in Jobs(w) :
        /\ i \in accepted
        /\ log[i] = IF i = job[w] /\ pc[w] \in Cycle THEN Begun ELSE Silent

\* Nothing is said of an id before it is handed out.
Told == \A i \in accepted : i < nextTx
Unspoken == \A i \in TxId : i >= nextTx => log[i] = Silent

\* What is announced as begun is on the air, of a worker or of the core.
Entered == \A i \in TxId : log[i] \in {Silent, Begun, Over, Failed}
Aired ==
    \A i \in TxId : log[i] = Begun =>
        \/ \E w \in Worker : job[w] = i /\ pc[w] \in Cycle
        \/ legacy # NoChannel /\ i = nextTx - 1
Inline ==
    legacy # NoChannel =>
        log[nextTx - 1] = Begun /\ \A w \in Worker : nextTx - 1 \notin Jobs(w)

Ledger ==
    /\ JobWhileBusy /\ Apart /\ Carrying
    /\ Told /\ Unspoken /\ Entered
    /\ Aired /\ Inline
LedgerInv == FifoInv /\ Ledger

LEMMA JobsTyped ==
  ASSUME TypeInv, NEW w \in Worker
  PROVE  /\ Jobs(w) \subseteq TxId
         /\ job[w] # NoJob => job[w] \in Jobs(w)
         /\ job[w] = NoJob => job[w] \notin Jobs(w)
<1>1. \A k \in DOMAIN queue[w] : queue[w][k] \in TxId
  BY QueuedIds
<1>2. job[w] \in TxId \cup {NoJob}
  BY DEF TypeInv, TypeOK, WorkerTypeOK
<1>3. NoJob \notin TxId
  OBVIOUS
<1> QED BY <1>1, <1>2, <1>3 DEF Jobs

\* An id that is at a worker was handed out before.
LEMMA JobsAreOld ==
  ASSUME LedgerInv, NEW w \in Worker, NEW i \in Jobs(w)
  PROVE  i \in TxId /\ i < nextTx
BY JobsTyped DEF LedgerInv, Ledger, Carrying, Told, FifoInv

LEMMA Numbers ==
  ASSUME TypeInv
  PROVE  /\ nextTx \in Nat /\ nextTx >= 1
         /\ legacy # NoChannel => nextTx - 1 \in TxId
         /\ CoreIsFree /\ nextTx <= MaxTx => nextTx \in TxId
BY Sizes DEF TypeInv, TypeOK, CoreTypeOK, Wired

-----------------------------------------------------------------------------
(* The moves of the interface, one id at a time. *)

Others(i) == \A j \in TxId \ {i} : JobStatus(j)' = JobStatus(j)

\* An id whose log and whereabouts stay the same keeps its status.
SameEntry(j) ==
    /\ log'[j] = log[j]
    /\ j \in AtWorkers' <=> j \in AtWorkers
    /\ j \in accepted' <=> j \in accepted
    /\ j < nextTx' <=> j < nextTx
LEMMA SameStatus ==
  ASSUME NEW j \in TxId, SameEntry(j)
  PROVE  JobStatus(j)' = JobStatus(j)
BY StatusRead DEF StatusOf, SameEntry

LEMMA TakeMove ==
  ASSUME NEW i \in TxId, NEW s \in {"refused", "waiting", "onAir", "over"},
         JobStatus(i) = "new", \A j \in TxId : j < i => JobStatus(j) # "new",
         JobStatus(i)' = s, Others(i)
  PROVE  Service!Next
BY DEF Service!Next, Service!Take, Service!IsNext, Service!Id, Others

LEMMA ServeMove ==
  ASSUME NEW i \in TxId, NEW s \in {"onAir", "over"},
         JobStatus(i) = "waiting", JobStatus(i)' = s, Others(i)
  PROVE  Service!Next
BY DEF Service!Next, Service!Serve, Service!Id, Others

LEMMA FinishMove ==
  ASSUME NEW i \in TxId, JobStatus(i) = "onAir", JobStatus(i)' = "over", Others(i)
  PROVE  Service!Next
BY DEF Service!Next, Service!Finish, Service!Id, Others

LEMMA DropMove ==
  ASSUME NEW lost \in SUBSET TxId, lost # {},
         \A i \in lost : JobStatus(i) = "waiting" /\ JobStatus(i)' = "dropped",
         \A j \in TxId \ lost : JobStatus(j)' = JobStatus(j)
  PROVE  Service!Next
BY DEF Service!Next, Service!Drop, Service!Id

\* The interface sees nothing.
Unseen == \A j \in TxId : JobStatus(j)' = JobStatus(j)
Kept == Service!Next \/ Unseen

\* The next id is new, and every id before it is not.
LEMMA NextIsNew ==
  ASSUME LedgerInv, nextTx \in TxId
  PROVE  /\ nextTx \notin AtWorkers /\ nextTx \notin accepted /\ log[nextTx] = Silent
         /\ JobStatus(nextTx) = "new"
         /\ \A j \in TxId : j < nextTx => JobStatus(j) # "new"
<1>1. nextTx \notin AtWorkers
  BY JobsAreOld DEF AtWorkers
<1>2. nextTx \notin accepted /\ log[nextTx] = Silent
  BY DEF LedgerInv, Ledger, Told, Unspoken
<1>3. JobStatus(nextTx) = "new"
  BY <1>1, <1>2, StatusRead, StatusValues
<1>4. ASSUME NEW j \in TxId, j < nextTx
      PROVE JobStatus(j) # "new"
  <2>1. log[j] \in {Silent, Begun, Over, Failed}
    BY DEF LedgerInv, Ledger, Entered
  <2> QED BY <1>4, <2>1, StatusRead, StatusValues
<1> QED BY <1>1, <1>2, <1>3, <1>4

-----------------------------------------------------------------------------
(* What a step does to the ledger. *)

SameWork(w) ==
    /\ job'[w] = job[w] /\ queue'[w] = queue[w]
    /\ pc'[w] \in Waiting <=> pc[w] \in Waiting
    /\ pc'[w] \in Cycle <=> pc[w] \in Cycle
SameBooks ==
    log' = log /\ accepted' = accepted /\ nextTx' = nextTx /\ legacy' = legacy

LEMMA SameJobs ==
  ASSUME NEW w \in Worker, job'[w] = job[w], queue'[w] = queue[w]
  PROVE  Jobs(w)' = Jobs(w)
BY DEF Jobs

LEMMA StillMove ==
  ASSUME LedgerInv, SameBooks, \A w \in Worker : SameWork(w)
  PROVE  Ledger' /\ Unseen
<1> USE DEF LedgerInv, Ledger, SameBooks, SameWork
<1>1. \A w \in Worker : Jobs(w)' = Jobs(w)
  BY SameJobs
<1>2. AtWorkers' = AtWorkers
  BY <1>1 DEF AtWorkers
<1>3. Unseen
  BY <1>2, SameStatus DEF Unseen, SameEntry
<1>4. JobWhileBusy' /\ Apart' /\ Carrying'
  BY <1>1 DEF JobWhileBusy, Apart, Carrying
<1>5. Told' /\ Unspoken' /\ Entered'
  BY DEF Told, Unspoken, Entered
<1>6. Aired' /\ Inline'
  BY <1>1 DEF Aired, Inline
<1> QED BY <1>3, <1>4, <1>5, <1>6

\* A worker takes the first job of its queue.
LEMMA RecvMove ==
  ASSUME LedgerInv, NEW v \in Worker, RecvJob(v)
  PROVE  Ledger' /\ Unseen
<1> USE DEF LedgerInv, Ledger
<1>1. /\ SameBooks
      /\ pc[v] = "recv" /\ pc'[v] = "modulate"
      /\ \A w \in Worker \ {v} : SameWork(w)
  BY DEF RecvJob, At, Goto, SameBooks, SameWork, FifoInv, TypeInv, TypeOK,
     WorkerTypeOK, telemetryVars
<1>2. job[v] = NoJob
  BY <1>1 DEF JobWhileBusy, Waiting, Cycle
<1>3. queue[v] \in Seq(TxId) /\ queue[v] # <<>>
  BY DEF RecvJob, FifoInv, TypeInv, TypeOK, WorkerTypeOK
<1>4. job'[v] = Head(queue[v]) /\ queue'[v] = Tail(queue[v])
  BY DEF RecvJob, FifoInv, TypeInv, TypeOK, WorkerTypeOK
<1>5. Jobs(v)' = Jobs(v) /\ job'[v] \in TxId
  <2> DEFINE q == queue[v]
             t == Tail(queue[v])
  <2>1. /\ t \in Seq(TxId) /\ Len(t) = Len(q) - 1
        /\ \A k \in 1 .. Len(t) : t[k] = q[k + 1]
    BY <1>3, HeadTailProperties
  <2>2. /\ Head(q) = q[1] /\ Len(q) \in Nat /\ Len(q) >= 1 /\ DOMAIN q = 1 .. Len(q)
        /\ DOMAIN t = 1 .. Len(t)
    BY <1>3, <2>1
  <2>3. q[1] \in TxId
    BY <2>2, QueuedIds DEF FifoInv
  <2>4. Jobs(v) = {q[k] : k \in DOMAIN q}
    BY <1>2 DEF Jobs
  <2>5. Jobs(v)' = {t[k] : k \in DOMAIN t} \cup {q[1]}
    BY <1>4, <2>2, <2>3 DEF Jobs
  <2> HIDE DEF q, t
  <2>6. ASSUME NEW k \in DOMAIN q
        PROVE q[k] \in {t[n] : n \in DOMAIN t} \cup {q[1]}
    <3>1. k = 1 \/ (k - 1 \in DOMAIN t /\ t[k - 1] = q[k])
      BY <2>1, <2>2
    <3> QED BY <3>1
  <2>7. ASSUME NEW k \in DOMAIN t
        PROVE t[k] \in {q[n] : n \in DOMAIN q}
    <3>1. k + 1 \in DOMAIN q /\ t[k] = q[k + 1]
      BY <2>1, <2>2
    <3> QED BY <3>1
  <2>8. q[1] \in {q[n] : n \in DOMAIN q}
    BY <2>2
  <2>9. job'[v] = q[1]
    BY <1>4, <2>2 DEF q
  <2> QED BY <2>3, <2>4, <2>5, <2>6, <2>7, <2>8, <2>9
<1>6. \A w \in Worker : Jobs(w)' = Jobs(w)
  BY <1>1, <1>5, SameJobs DEF SameWork
<1>7. AtWorkers' = AtWorkers
  BY <1>6 DEF AtWorkers
<1>8. Unseen
  BY <1>1, <1>7, SameStatus DEF Unseen, SameEntry, SameBooks
<1>9. JobWhileBusy' /\ Apart' /\ Carrying'
  <2>1. JobWhileBusy'
    BY <1>1, <1>5 DEF JobWhileBusy, SameWork, Waiting
  <2>2. Apart'
    BY <1>6 DEF Apart
  <2>3. ASSUME NEW w \in Worker, NEW i \in Jobs(w)
        PROVE i \in accepted' /\ log'[i] = IF i = job'[w] /\ pc'[w] \in Cycle THEN Begun ELSE Silent
    <3>1. i \in accepted /\ log[i] = IF i = job[w] /\ pc[w] \in Cycle THEN Begun ELSE Silent
      BY <2>3 DEF Carrying
    <3>2. pc[v] \notin Cycle /\ pc'[v] \notin Cycle
      BY <1>1 DEF Cycle
    <3> QED BY <1>1, <3>1, <3>2 DEF SameBooks, SameWork
  <2> QED BY <1>6, <2>1, <2>2, <2>3 DEF Carrying
<1>10. Told' /\ Unspoken' /\ Entered'
  BY <1>1 DEF Told, Unspoken, Entered, SameBooks
<1>11. Aired' /\ Inline'
  <2>1. pc[v] \notin Cycle
    BY <1>1 DEF Cycle
  <2> QED BY <1>1, <1>6, <2>1 DEF Aired, Inline, SameBooks, SameWork
<1> QED BY <1>8, <1>9, <1>10, <1>11

\* The job of a busy worker, and what is left when it is done with it.
LEMMA AtWork ==
  ASSUME LedgerInv, NEW v \in Worker, pc[v] \in Waiting \cup Cycle
  PROVE  /\ job[v] \in TxId /\ job[v] \in Jobs(v)
         /\ job[v] \in AtWorkers /\ job[v] \in accepted /\ job[v] < nextTx
         /\ \A w \in Worker \ {v} : job[v] \notin Jobs(w)
         /\ legacy # NoChannel => job[v] # nextTx - 1
         /\ pc[v] \in Waiting => log[job[v]] = Silent /\ JobStatus(job[v]) = "waiting"
         /\ pc[v] \in Cycle => log[job[v]] = Begun /\ JobStatus(job[v]) = "onAir"
<1> USE DEF LedgerInv, Ledger
<1>1. job[v] # NoJob
  BY DEF JobWhileBusy
<1>2. job[v] \in Jobs(v) /\ job[v] \in TxId
  BY <1>1, JobsTyped DEF FifoInv
<1>3. job[v] \in AtWorkers
  BY <1>2 DEF AtWorkers
<1>4. job[v] \in accepted /\ job[v] < nextTx
  BY <1>2 DEF Carrying, Told
<1>5. \A w \in Worker \ {v} : job[v] \notin Jobs(w)
  BY <1>2 DEF Apart
<1>6. legacy # NoChannel => job[v] # nextTx - 1
  BY <1>2 DEF Inline
<1>7. pc[v] \in Waiting => pc[v] \notin Cycle
  BY DEF Waiting, Cycle
<1>8. /\ pc[v] \in Waiting => log[job[v]] = Silent
      /\ pc[v] \in Cycle => log[job[v]] = Begun
  BY <1>2, <1>7 DEF Carrying
<1>9. nextTx \in Nat
  BY Numbers DEF FifoInv
<1>10. /\ pc[v] \in Waiting => JobStatus(job[v]) = "waiting"
       /\ pc[v] \in Cycle => JobStatus(job[v]) = "onAir"
  BY <1>2, <1>3, <1>8, <1>9, StatusRead, StatusValues
<1> QED BY <1>2, <1>3, <1>4, <1>5, <1>6, <1>8, <1>10

LEMMA JobsLeft ==
  ASSUME FifoInv, NEW v \in Worker, job'[v] = NoJob, queue'[v] = queue[v]
  PROVE  Jobs(v)' = Jobs(v) \ {job[v]}
<1>1. \A k \in DOMAIN queue[v] : queue[v][k] \in TxId /\ job[v] < queue[v][k]
  BY QueuedIds DEF FifoInv, FirstAcceptedFirstServed
<1>2. job[v] \in TxId \cup {NoJob}
  BY DEF FifoInv, TypeInv, TypeOK, WorkerTypeOK
<1>3. \A k \in DOMAIN queue[v] : queue[v][k] # job[v]
  BY <1>1, <1>2
<1>4. Jobs(v)' = {queue[v][k] : k \in DOMAIN queue[v]}
  BY DEF Jobs
<1> QED BY <1>3, <1>4 DEF Jobs

\* A worker puts its job on the air.
LEMMA StartMove ==
  ASSUME LedgerInv, NEW v \in Worker, StartTx(v), NEW id, job[v] = id
  PROVE  Ledger' /\ Service!Next
<1> USE DEF LedgerInv, Ledger
<1>1. pc[v] = "start" /\ pc'[v] = "key" /\ Emit(id, Begun)
  BY DEF StartTx, At, Goto, FifoInv, TypeInv, TypeOK, WorkerTypeOK, Begun
<1>2. /\ job' = job /\ queue' = queue /\ accepted' = accepted
      /\ nextTx' = nextTx /\ legacy' = legacy
      /\ \A w \in Worker \ {v} : pc'[w] = pc[w]
  BY DEF StartTx, At, Goto, FifoInv, TypeInv, TypeOK, WorkerTypeOK
<1>3. pc[v] \in Waiting /\ pc[v] \notin Cycle /\ pc'[v] \in Cycle /\ pc'[v] \notin Waiting
  BY <1>1 DEF Waiting, Cycle
<1>4. /\ id \in TxId /\ id \in Jobs(v) /\ id < nextTx /\ id \in AtWorkers
      /\ \A w \in Worker \ {v} : id \notin Jobs(w)
      /\ log[id] = Silent /\ JobStatus(id) = "waiting"
      /\ legacy # NoChannel => id # nextTx - 1
  BY <1>3, AtWork
<1>5. log'[id] = Begun /\ \A j \in TxId \ {id} : log'[j] = log[j]
  BY <1>1, <1>4, EmitEntry, Entries DEF FifoInv
<1>6. \A w \in Worker : Jobs(w)' = Jobs(w)
  BY <1>2, SameJobs
<1>7. AtWorkers' = AtWorkers
  BY <1>6 DEF AtWorkers
<1>8. Others(id)
  BY <1>2, <1>5, <1>7, SameStatus DEF Others, SameEntry
<1>9. JobStatus(id)' = "onAir"
  <2>1. nextTx' \in Nat
    BY <1>2, Numbers DEF FifoInv
  <2> QED BY <1>4, <1>5, <2>1, StatusRead, StatusValues
<1>10. JobWhileBusy' /\ Apart'
  BY <1>2, <1>3, <1>6 DEF JobWhileBusy, Apart
<1>11. Carrying'
  <2> SUFFICES ASSUME NEW w \in Worker, NEW i \in Jobs(w)
               PROVE /\ i \in accepted
                     /\ log'[i] = IF i = job[w] /\ pc'[w] \in Cycle THEN Begun ELSE Silent
    BY <1>2, <1>6 DEF Carrying
  <2>1. i \in accepted /\ log[i] = IF i = job[w] /\ pc[w] \in Cycle THEN Begun ELSE Silent
    BY DEF Carrying
  <2>2. i \in TxId
    BY JobsTyped DEF FifoInv
  <2>3. CASE i = id
    BY <1>3, <1>4, <1>5, <2>1, <2>3
  <2>4. CASE i # id
    BY <1>2, <1>3, <1>5, <2>1, <2>2, <2>4
  <2> QED BY <2>3, <2>4
<1>12. Told' /\ Unspoken' /\ Entered'
  <2>1. Told'
    BY <1>2 DEF Told
  <2>2. Unspoken'
    BY <1>2, <1>4, <1>5, Numbers DEF Unspoken, FifoInv
  <2>3. Entered'
    BY <1>5 DEF Entered
  <2> QED BY <2>1, <2>2, <2>3
<1>13. Aired' /\ Inline'
  <2>1. Aired'
    BY <1>2, <1>3, <1>5 DEF Aired
  <2>2. Inline'
    BY <1>2, <1>4, <1>5, <1>6, Numbers DEF Inline, FifoInv
  <2> QED BY <2>1, <2>2
<1>14. Service!Next
  BY <1>4, <1>8, <1>9, ServeMove
<1> QED BY <1>10, <1>11, <1>12, <1>13, <1>14

\* A worker is done with its job, which is over.
DoneWith(v, id) ==
    /\ pc[v] \in Waiting \cup Cycle /\ pc'[v] \notin Waiting \cup Cycle
    /\ job[v] = id /\ job'[v] = NoJob /\ queue'[v] = queue[v]
    /\ \A w \in Worker \ {v} :
          pc'[w] = pc[w] /\ job'[w] = job[w] /\ queue'[w] = queue[w]
    /\ accepted' = accepted /\ nextTx' = nextTx /\ legacy' = legacy
    /\ log'[id] \in {Over, Failed}
    /\ \A j \in TxId \ {id} : log'[j] = log[j]

LEMMA DoneMove ==
  ASSUME LedgerInv, NEW v \in Worker, NEW id, DoneWith(v, id)
  PROVE  Ledger' /\ Service!Next
<1> USE DEF LedgerInv, Ledger
<1>1. /\ id \in TxId /\ id \in Jobs(v) /\ id < nextTx /\ id \in accepted
      /\ \A w \in Worker \ {v} : id \notin Jobs(w)
      /\ JobStatus(id) \in {"waiting", "onAir"}
      /\ legacy # NoChannel => id # nextTx - 1
  BY AtWork DEF DoneWith
<1>2. Jobs(v)' = Jobs(v) \ {id}
  BY JobsLeft DEF DoneWith
<1>3. \A w \in Worker \ {v} : Jobs(w)' = Jobs(w)
  BY SameJobs DEF DoneWith
<1>4. AtWorkers' = AtWorkers \ {id}
  BY <1>1, <1>2, <1>3 DEF AtWorkers
<1>5. Others(id)
  BY <1>4, SameStatus DEF Others, SameEntry, DoneWith
<1>6. JobStatus(id)' = "over"
  <2>1. nextTx' \in Nat
    BY Numbers DEF FifoInv, DoneWith
  <2> QED BY <1>1, <2>1, StatusRead, StatusValues DEF DoneWith
<1>7. JobWhileBusy' /\ Apart'
  <2>1. JobWhileBusy'
    BY DEF JobWhileBusy, DoneWith
  <2>2. Apart'
    BY <1>2, <1>3 DEF Apart
  <2> QED BY <2>1, <2>2
<1>8. Carrying'
  <2>0. \A w \in Worker : Jobs(w)' = Jobs(w) \ {id}
    BY <1>1, <1>2, <1>3
  <2> SUFFICES ASSUME NEW w \in Worker, NEW i \in Jobs(w), i # id
               PROVE /\ i \in accepted
                     /\ log'[i] = IF i = job'[w] /\ pc'[w] \in Cycle THEN Begun ELSE Silent
    BY <2>0 DEF Carrying, DoneWith
  <2>1. i \in accepted /\ log[i] = IF i = job[w] /\ pc[w] \in Cycle THEN Begun ELSE Silent
    BY DEF Carrying
  <2>2. i \in TxId /\ i # NoJob
    BY JobsTyped DEF FifoInv
  <2> QED BY <2>1, <2>2 DEF DoneWith
<1>9. Told' /\ Unspoken' /\ Entered'
  <2>1. Told'
    BY DEF Told, DoneWith
  <2>2. Unspoken'
    BY <1>1, Numbers DEF Unspoken, FifoInv, DoneWith
  <2>3. Entered'
    BY DEF Entered, DoneWith
  <2> QED BY <2>1, <2>2, <2>3
<1>10. Aired' /\ Inline'
  <2>1. ASSUME NEW i \in TxId, log'[i] = Begun
        PROVE \/ \E w \in Worker : job'[w] = i /\ pc'[w] \in Cycle
              \/ legacy' # NoChannel /\ i = nextTx' - 1
    <3>1. i # id /\ log[i] = Begun
      BY <2>1, Entries DEF DoneWith
    <3> QED BY <3>1 DEF Aired, DoneWith
  <2>2. Inline'
    BY <1>1, <1>2, <1>3, Numbers DEF Inline, FifoInv, DoneWith
  <2> QED BY <2>1, <2>2 DEF Aired
<1>11. Service!Next
  <2>1. JobStatus(id) = "waiting" \/ JobStatus(id) = "onAir"
    BY <1>1
  <2> QED BY <1>1, <1>5, <1>6, <2>1, ServeMove, FinishMove
<1> QED BY <1>7, <1>8, <1>9, <1>10, <1>11

\* A worker ends, and what waited for it is dropped.
LEMMA ExitMove ==
  ASSUME LedgerInv, NEW v \in Worker, Exit(v)
  PROVE  Ledger' /\ Kept
<1> USE DEF LedgerInv, Ledger
<1>1. /\ SameBooks /\ job' = job
      /\ pc[v] = "exit" /\ pc'[v] = "dead" /\ queue'[v] = <<>>
      /\ \A w \in Worker \ {v} : pc'[w] = pc[w] /\ queue'[w] = queue[w]
  BY DEF Exit, At, Goto, SameBooks, FifoInv, TypeInv, TypeOK, WorkerTypeOK, telemetryVars
<1>2. pc[v] \notin Waiting \cup Cycle /\ pc'[v] \notin Waiting \cup Cycle
  BY <1>1 DEF Waiting, Cycle
<1>3. job[v] = NoJob
  BY <1>2 DEF JobWhileBusy
<1>4. Jobs(v)' = {}
  <2>1. DOMAIN queue'[v] = {}
    BY <1>1
  <2> QED BY <1>1, <1>3, <2>1 DEF Jobs
<1>5. \A w \in Worker \ {v} : Jobs(w)' = Jobs(w)
  BY <1>1, SameJobs
<1>6. \A w \in Worker \ {v} : Jobs(w) \cap Jobs(v) = {}
  BY DEF Apart
<1>7. AtWorkers' = AtWorkers \ Jobs(v)
  BY <1>4, <1>5, <1>6 DEF AtWorkers
<1>8. \A j \in TxId \ Jobs(v) : JobStatus(j)' = JobStatus(j)
  BY <1>1, <1>7, SameStatus DEF SameEntry, SameBooks
<1>9. ASSUME NEW i \in Jobs(v)
      PROVE i \in TxId /\ JobStatus(i) = "waiting" /\ JobStatus(i)' = "dropped"
  <2>1. i \in TxId /\ i # NoJob /\ i \in AtWorkers /\ i \notin AtWorkers'
    BY <1>7, JobsTyped DEF FifoInv, AtWorkers
  <2>2. i \in accepted /\ log[i] = Silent
    BY <1>3, <2>1 DEF Carrying
  <2>3. nextTx \in Nat /\ nextTx' \in Nat /\ i \in accepted' /\ log'[i] = Silent
    BY <1>1, <2>2, Numbers DEF FifoInv, SameBooks
  <2>4. JobStatus(i) = "waiting"
    BY <2>1, <2>2, <2>3, StatusRead, StatusValues
  <2>5. JobStatus(i)' = "dropped"
    BY <2>1, <2>3, StatusRead, StatusValues
  <2> QED BY <2>1, <2>4, <2>5
<1>10. Kept
  <2>1. CASE Jobs(v) = {}
    BY <1>8, <2>1 DEF Kept, Unseen
  <2>2. CASE Jobs(v) # {}
    BY <1>8, <1>9, <2>2, DropMove DEF Kept
  <2> QED BY <2>1, <2>2
<1>11. JobWhileBusy' /\ Apart'
  BY <1>1, <1>2, <1>4, <1>5 DEF JobWhileBusy, Apart
<1>12. Carrying'
  BY <1>1, <1>4, <1>5 DEF Carrying, SameBooks
<1>13. Told' /\ Unspoken' /\ Entered'
  BY <1>1 DEF Told, Unspoken, Entered, SameBooks
<1>14. Aired'
  BY <1>1, <1>2 DEF Aired, SameBooks
<1>15. Inline'
  BY <1>1, <1>4, <1>5 DEF Inline, SameBooks
<1> QED BY <1>10, <1>11, <1>12, <1>13, <1>14, <1>15

\* A command takes an id and, without a worker, is done with it or starts the
\* legacy cycle for it.
WorkersStay ==
    \A w \in Worker : pc'[w] = pc[w] /\ job'[w] = job[w] /\ queue'[w] = queue[w]
TakenInline(id) ==
    /\ TakeTxId /\ id = nextTx /\ WorkersStay
    /\ log'[id] \in {Silent, Begun, Over}
    /\ \A j \in TxId \ {id} : log'[j] = log[j]
    /\ \/ accepted' = accepted
       \/ log'[id] = Over /\ accepted' = accepted \cup {id}
    /\ legacy' # NoChannel <=> log'[id] = Begun

LEMMA InlineMove ==
  ASSUME LedgerInv, NEW id, TakenInline(id)
  PROVE  Ledger' /\ Service!Next
<1> USE DEF LedgerInv, Ledger
<1>1. id \in TxId /\ id = nextTx /\ nextTx \in Nat /\ nextTx' = id + 1 /\ legacy = NoChannel
  BY Numbers DEF TakenInline, TakeTxId, CoreIsFree, FifoInv
<1>2. /\ id \notin AtWorkers /\ id \notin accepted /\ log[id] = Silent
      /\ JobStatus(id) = "new"
      /\ \A j \in TxId : j < id => JobStatus(j) # "new"
  BY <1>1, NextIsNew
<1>3. \A w \in Worker : Jobs(w)' = Jobs(w) /\ id \notin Jobs(w)
  BY <1>2, SameJobs DEF TakenInline, WorkersStay, AtWorkers
<1>4. AtWorkers' = AtWorkers
  BY <1>3 DEF AtWorkers
<1>5. Others(id)
  <2>1. \A j \in TxId \ {id} : j < nextTx' <=> j < nextTx
    BY <1>1
  <2> QED BY <1>4, <2>1, SameStatus DEF Others, SameEntry, TakenInline
<1>6. JobStatus(id)' \in {"refused", "onAir", "over"}
  <2>1. nextTx' \in Nat /\ id < nextTx'
    BY <1>1
  <2>2. log'[id] = Silent => id \notin accepted'
    BY <1>2, Entries DEF TakenInline
  <2>3. JobStatus(id)' = StatusOf(id, log'[id], AtWorkers', accepted', nextTx')
    BY <1>1, StatusRead
  <2>4. id \notin AtWorkers'
    BY <1>2, <1>4
  <2>5. CASE log'[id] = Silent
    BY <1>1, <2>1, <2>2, <2>3, <2>4, <2>5, StatusValues
  <2>6. CASE log'[id] = Begun
    BY <1>1, <2>1, <2>3, <2>6, StatusValues
  <2>7. CASE log'[id] = Over
    BY <1>1, <2>1, <2>3, <2>7, StatusValues
  <2> QED BY <2>5, <2>6, <2>7 DEF TakenInline
<1>7. JobWhileBusy' /\ Apart'
  BY <1>3 DEF JobWhileBusy, Apart, TakenInline, WorkersStay
<1>8. Carrying'
  <2> SUFFICES ASSUME NEW w \in Worker, NEW i \in Jobs(w)
               PROVE /\ i \in accepted'
                     /\ log'[i] = IF i = job'[w] /\ pc'[w] \in Cycle THEN Begun ELSE Silent
    BY <1>3 DEF Carrying
  <2>1. i \in accepted /\ log[i] = IF i = job[w] /\ pc[w] \in Cycle THEN Begun ELSE Silent
    BY DEF Carrying
  <2>2. i \in TxId /\ i # id
    BY <1>3, JobsTyped DEF FifoInv
  <2> QED BY <2>1, <2>2 DEF TakenInline, WorkersStay
<1>9. Told'
  <2>1. accepted \subseteq TxId
    BY DEF FifoInv, TypeInv, TypeOK, SharedTypeOK
  <2>2. \A i \in accepted : i \in Int /\ i < id + 1
    BY <1>1, <2>1 DEF Told
  <2>3. accepted' \subseteq accepted \cup {id} /\ id < id + 1
    BY <1>1 DEF TakenInline
  <2> QED BY <1>1, <2>2, <2>3 DEF Told
<1>10. Unspoken'
  BY <1>1 DEF Unspoken, TakenInline
<1>11. Entered'
  BY DEF Entered, TakenInline
<1>12. Aired' /\ Inline'
  <2>1. nextTx' - 1 = id
    BY <1>1
  <2>2. ASSUME NEW i \in TxId, log'[i] = Begun
        PROVE \/ \E w \in Worker : job'[w] = i /\ pc'[w] \in Cycle
              \/ legacy' # NoChannel /\ i = nextTx' - 1
    <3>1. CASE i = id
      BY <2>1, <2>2, <3>1 DEF TakenInline
    <3>2. CASE i # id
      BY <1>1, <2>2, <3>2 DEF Aired, TakenInline, WorkersStay
    <3> QED BY <3>1, <3>2
  <2>3. Inline'
    BY <1>3, <2>1 DEF Inline, TakenInline
  <2> QED BY <2>2, <2>3 DEF Aired
<1>13. Service!Next
  BY <1>1, <1>2, <1>5, <1>6, TakeMove
<1> QED BY <1>7, <1>8, <1>9, <1>10, <1>11, <1>12, <1>13

\* A command refuses a transmission, or hands it to the channel's worker.
LEMMA QueueMove ==
  ASSUME LedgerInv, NEW c \in Channel, TransmitQueued(c)
  PROVE  Ledger' /\ Service!Next
<1> USE DEF LedgerInv, Ledger
<1> DEFINE id == nextTx
<1>1. /\ log' = log /\ legacy' = legacy /\ pc' = pc /\ job' = job /\ TakeTxId
      /\ id \in TxId /\ nextTx \in Nat /\ nextTx' = id + 1 /\ legacy = NoChannel
  BY Numbers DEF TransmitQueued, TakeTxId, CoreIsFree, FifoInv
<1>2. CASE queue' = queue /\ accepted' = accepted
  <2>1. log[nextTx] = Silent
    BY <1>1, NextIsNew
  <2>2. Silent # Begun
    BY Entries
  <2>3. TakenInline(nextTx)
    BY <1>1, <1>2, <2>1, <2>2 DEF TakenInline, WorkersStay
  <2> QED BY <2>3, InlineMove
<1>3. ASSUME NEW v \in Worker, Enqueue(v, nextTx), accepted' = accepted \cup {nextTx}
      PROVE Ledger' /\ Service!Next
  <2>1. queue'[v] = Append(queue[v], id) /\ \A w \in Worker \ {v} : queue'[w] = queue[w]
    BY <1>3 DEF Enqueue, FifoInv, TypeInv, TypeOK, WorkerTypeOK
  <2>2. Jobs(v)' = Jobs(v) \cup {id}
    <3> DEFINE q == queue[v]
               r == Append(q, id)
    <3>1. q \in Seq(TxId)
      BY DEF FifoInv, TypeInv, TypeOK, WorkerTypeOK
    <3>2. /\ Len(r) = Len(q) + 1 /\ r[Len(q) + 1] = id /\ r \in Seq(TxId)
          /\ \A k \in 1 .. Len(q) : r[k] = q[k]
      BY <1>1, <3>1, AppendProperties
    <3>3. DOMAIN r = 1 .. Len(q) + 1 /\ DOMAIN q = 1 .. Len(q) /\ Len(q) \in Nat
      BY <3>1, <3>2
    <3>4. Jobs(v) = {q[k] : k \in DOMAIN q} \cup ({job[v]} \ {NoJob})
      BY DEF Jobs
    <3>5. Jobs(v)' = {r[k] : k \in DOMAIN r} \cup ({job[v]} \ {NoJob})
      BY <1>1, <2>1 DEF Jobs
    <3> HIDE DEF q, r, id
    <3>6. {r[k] : k \in DOMAIN r} = {q[k] : k \in DOMAIN q} \cup {id}
      <4>1. ASSUME NEW k \in DOMAIN r
            PROVE r[k] \in {q[n] : n \in DOMAIN q} \cup {id}
        <5>1. (k \in DOMAIN q /\ r[k] = q[k]) \/ r[k] = id
          BY <3>2, <3>3
        <5> QED BY <5>1
      <4>2. ASSUME NEW k \in DOMAIN q
            PROVE q[k] \in {r[n] : n \in DOMAIN r}
        <5>1. k \in DOMAIN r /\ r[k] = q[k]
          BY <3>2, <3>3
        <5> QED BY <5>1
      <4>3. id \in {r[n] : n \in DOMAIN r}
        BY <3>2, <3>3
      <4> QED BY <4>1, <4>2, <4>3
    <3> QED BY <3>4, <3>5, <3>6
  <2>3. \A w \in Worker \ {v} : Jobs(w)' = Jobs(w)
    BY <1>1, <2>1, SameJobs
  <2>4. /\ id \notin AtWorkers /\ id \notin accepted /\ log[id] = Silent
        /\ JobStatus(nextTx) = "new"
        /\ \A j \in TxId : j < id => JobStatus(j) # "new"
    BY <1>1, NextIsNew
  <2>5. \A w \in Worker : id \notin Jobs(w)
    BY <2>4 DEF AtWorkers
  <2>6. AtWorkers' = AtWorkers \cup {id}
    BY <2>2, <2>3 DEF AtWorkers
  <2>7. PICK i \in TxId : i = id
    BY <1>1
  <2>8. Others(i)
    <3>1. \A j \in TxId \ {i} : j < nextTx' <=> j < nextTx
      BY <1>1, <2>7
    <3> QED BY <1>1, <1>3, <2>6, <2>7, <3>1, SameStatus DEF Others, SameEntry
  <2>9. JobStatus(i)' = "waiting"
    <3>1. nextTx' \in Nat /\ log'[i] = Silent /\ i \in AtWorkers'
      BY <1>1, <2>4, <2>6, <2>7
    <3> QED BY <3>1, StatusRead, StatusValues
  <2>10. Service!Next
    BY <2>4, <2>7, <2>8, <2>9, TakeMove
  <2>11. JobWhileBusy' /\ Apart'
    <3>1. JobWhileBusy'
      BY <1>1 DEF JobWhileBusy
    <3>2. Apart'
      BY <2>2, <2>3, <2>5 DEF Apart
    <3> QED BY <3>1, <3>2
  <2>12. job[v] # id
    BY <2>5, <1>1, JobsTyped DEF FifoInv
  <2>13. ASSUME NEW w \in Worker, NEW n \in Jobs(w)'
         PROVE n \in accepted' /\ log[n] = IF n = job[w] /\ pc[w] \in Cycle THEN Begun ELSE Silent
    <3>1. CASE n \in Jobs(w)
      BY <1>3, <3>1 DEF Carrying
    <3>2. CASE n \notin Jobs(w)
      <4>1. n = id /\ w = v
        BY <2>2, <2>3, <2>13, <3>2
      <4> QED BY <1>3, <2>4, <2>12, <4>1
    <3> QED BY <3>1, <3>2
  <2>14. Carrying'
    BY <1>1, <2>13 DEF Carrying
  <2>15. Told'
    <3>1. accepted \subseteq TxId
      BY DEF FifoInv, TypeInv, TypeOK, SharedTypeOK
    <3>2. \A n \in accepted : n \in Int /\ n < id + 1
      BY <1>1, <3>1 DEF Told
    <3> QED BY <1>1, <1>3, <3>2 DEF Told
  <2>16. Unspoken' /\ Entered'
    BY <1>1 DEF Unspoken, Entered
  <2>17. Aired' /\ Inline'
    BY <1>1 DEF Aired, Inline
  <2> QED BY <2>10, <2>11, <2>14, <2>15, <2>16, <2>17
<1> QED BY <1>2, <1>3, ModelValues DEF TransmitQueued, FifoInv, TypeInv, TypeOK, CoreTypeOK

\* The legacy cycle ends.
LEMMA LegacyMove ==
  ASSUME LedgerInv, LegacyEnds
  PROVE  Ledger' /\ Service!Next
<1> USE DEF LedgerInv, Ledger
<1>1. PICK id \in TxId : id = nextTx - 1
  BY Numbers DEF LegacyEnds, FifoInv
<1>2. /\ legacy # NoChannel /\ legacy' = NoChannel /\ nextTx' = nextTx
      /\ pc' = pc /\ job' = job /\ queue' = queue
      /\ accepted' \in {accepted, accepted \cup {id}}
      /\ Emit(id, <<"Complete">>)
  BY <1>1 DEF LegacyEnds, workerVars
<1>3. log[id] = Begun /\ \A w \in Worker : id \notin Jobs(w)
  BY <1>1, <1>2 DEF Inline
<1>4. log'[id] = Over /\ \A j \in TxId \ {id} : log'[j] = log[j]
  BY <1>2, <1>3, EmitEntry, Entries DEF FifoInv
<1>5. \A w \in Worker : Jobs(w)' = Jobs(w)
  BY <1>2, SameJobs
<1>6. AtWorkers' = AtWorkers
  BY <1>5 DEF AtWorkers
<1>7. Others(id)
  BY <1>2, <1>4, <1>6, SameStatus DEF Others, SameEntry
<1>8. nextTx \in Nat /\ id < nextTx
  BY <1>1, Numbers DEF FifoInv
<1>9. JobStatus(id) = "onAir" /\ JobStatus(id)' = "over"
  <2>1. nextTx' \in Nat
    BY <1>2, <1>8
  <2>2. JobStatus(id) = "onAir"
    BY <1>3, <1>8, StatusRead, StatusValues
  <2>3. JobStatus(id)' = "over"
    BY <1>4, <2>1, StatusRead, StatusValues
  <2> QED BY <2>2, <2>3
<1>10. Service!Next
  BY <1>7, <1>9, FinishMove
<1>11. JobWhileBusy' /\ Apart'
  BY <1>2, <1>5 DEF JobWhileBusy, Apart
<1>12. ASSUME NEW w \in Worker, NEW n \in Jobs(w)
       PROVE n \in accepted' /\ log'[n] = IF n = job[w] /\ pc[w] \in Cycle THEN Begun ELSE Silent
  <2>1. n \in accepted /\ log[n] = IF n = job[w] /\ pc[w] \in Cycle THEN Begun ELSE Silent
    BY DEF Carrying
  <2>2. n \in TxId /\ n # id
    BY <1>3, JobsTyped DEF FifoInv
  <2> QED BY <1>2, <1>4, <2>1, <2>2
<1>13. Carrying'
  BY <1>2, <1>5, <1>12 DEF Carrying
<1>14. Told'
  BY <1>2, <1>8 DEF Told
<1>15. Unspoken'
  BY <1>2, <1>4, <1>8 DEF Unspoken
<1>16. Entered'
  BY <1>4 DEF Entered
<1>17. ASSUME NEW i \in TxId, log'[i] = Begun
       PROVE \E w \in Worker : job'[w] = i /\ pc'[w] \in Cycle
  <2>1. i # id /\ log[i] = Begun
    BY <1>4, <1>17, Entries
  <2> QED BY <1>1, <1>2, <2>1 DEF Aired
<1>18. Aired' /\ Inline'
  BY <1>2, <1>17 DEF Aired, Inline
<1> QED BY <1>10, <1>11, <1>13, <1>14, <1>15, <1>16, <1>18

-----------------------------------------------------------------------------
(* Every step is one of these. *)

LEMMA CoreLedger ==
  ASSUME LedgerInv, CoreStep \/ ProcessExit
  PROVE  Ledger' /\ Kept
<1> USE DEF LedgerInv, FifoInv
<1>1. ASSUME NEW c \in Channel, TransmitQueued(c)
      PROVE Ledger' /\ Kept
  BY <1>1, QueueMove DEF Kept
<1>2. CASE LegacyEnds
  BY <1>2, LegacyMove DEF Kept
<1>3. ASSUME NEW c \in Channel,
             \/ TransmitImageRefused(c) \/ TransmitSimulated(c)
             \/ TransmitLegacy(c) \/ LegacyKeyFails(c)
      PROVE Ledger' /\ Kept
  <2>1. TakeTxId /\ legacy = NoChannel /\ nextTx \in TxId
    BY <1>3, Numbers DEF TransmitImageRefused, TransmitSimulated, TransmitLegacy,
       LegacyKeyFails, TakeTxId, CoreIsFree
  <2>2. WorkersStay
    BY <1>3 DEF TransmitImageRefused, TransmitSimulated, TransmitLegacy,
       LegacyKeyFails, WorkersStay, workerVars
  <2>3. log[nextTx] = Silent
    BY <2>1, NextIsNew
  <2>4. CASE TransmitImageRefused(c)
    <3>1. log' = log /\ accepted' = accepted /\ legacy' = legacy
      BY <2>4 DEF TransmitImageRefused, telemetryVars
    <3> QED BY <2>1, <2>2, <2>3, <3>1, Entries, InlineMove DEF TakenInline, Kept
  <2>5. CASE TransmitSimulated(c) \/ LegacyKeyFails(c)
    <3>1. /\ Emit(nextTx, Over) /\ legacy' = legacy
          /\ accepted' \in {accepted, accepted \cup {nextTx}}
      BY <2>5 DEF TransmitSimulated, LegacyKeyFails, Over
    <3>2. log'[nextTx] = Over /\ \A j \in TxId \ {nextTx} : log'[j] = log[j]
      BY <2>1, <2>3, <3>1, EmitEntry, Entries
    <3> QED BY <2>1, <2>2, <3>1, <3>2, Entries, InlineMove DEF TakenInline, Kept
  <2>6. CASE TransmitLegacy(c)
    <3>1. /\ Emit(nextTx, Begun) /\ legacy' = c /\ c # NoChannel
          /\ accepted' = accepted
      BY <2>6, ModelValues DEF TransmitLegacy, Begun
    <3>2. log'[nextTx] = Begun /\ \A j \in TxId \ {nextTx} : log'[j] = log[j]
      BY <2>1, <2>3, <3>1, EmitEntry, Entries
    <3> QED BY <2>1, <2>2, <3>1, <3>2, Entries, InlineMove DEF TakenInline, Kept
  <2> QED BY <1>3, <2>4, <2>5, <2>6
<1>4. CASE /\ ~LegacyEnds
           /\ ~\E c \in Channel :
                 \/ TransmitQueued(c) \/ TransmitImageRefused(c)
                 \/ TransmitSimulated(c) \/ TransmitLegacy(c) \/ LegacyKeyFails(c)
  <2>1. SameBooks /\ job' = job /\ queue' = queue
    BY <1>4 DEF CoreStep, ProcessExit, ConfigureChannel, ConfigureAudio, ConfigurePtt,
       KeyPttOn, KeyPttOff, KeyPttOnFails, KeyPttOffFails, AcquireTxLease,
       ReleaseTxLease, HotplugDeparted, SameBooks, telemetryVars, workerVars
  <2>2. ASSUME NEW w \in Worker
        PROVE SameWork(w)
    <3>1. Started(w) \/ pc'[w] = pc[w]
      BY CoreShape
    <3> QED BY <2>1, <3>1 DEF SameWork, Started, Waiting, Cycle
  <2> QED BY <2>1, <2>2, StillMove DEF Kept
<1> QED BY <1>1, <1>2, <1>3, <1>4

LEMMA WorkerLedger ==
  ASSUME LedgerInv, NEW v \in Worker, WorkerStep(v)
  PROVE  Ledger' /\ Kept
<1> USE DEF LedgerInv, FifoInv
<1>1. CASE RecvJob(v)
  BY <1>1, RecvMove DEF Kept
<1>2. CASE StartTx(v)
  BY <1>2, StartMove DEF Kept
<1>3. CASE Exit(v)
  BY <1>3, ExitMove
<1>4. CASE EndCycle(v)
  <2>1. pc[v] \in Cycle /\ pc[v] = "end"
    BY <1>4 DEF EndCycle, At, Cycle
  <2>2. job[v] \in TxId /\ log[job[v]] = Begun
    BY <2>1, AtWork
  <2>3. Emit(job[v], <<"Complete">>)
    BY <1>4 DEF EndCycle
  <2>4. log'[job[v]] = Over /\ \A j \in TxId \ {job[v]} : log'[j] = log[j]
    BY <2>2, <2>3, EmitEntry, Entries
  <2>5. DoneWith(v, job[v])
    BY <1>4, <2>1, <2>4 DEF EndCycle, DoneWith, Goto, Waiting, Cycle, TypeInv, TypeOK,
       WorkerTypeOK
  <2> QED BY <2>5, DoneMove DEF Kept
<1>5. ASSUME \/ EncodeFails(v)
             \/ /\ Modulate(v) \/ SlotBoundary(v)
                /\ ~MayKey(v)
      PROVE Ledger' /\ Kept
  <2>1. pc[v] \in Waiting
    BY <1>5 DEF EncodeFails, Modulate, SlotBoundary, CheckLease, At, Waiting
  <2>2. Refuse(v, Over) \/ Refuse(v, Failed)
    BY <1>5 DEF EncodeFails, Modulate, SlotBoundary, CheckLease, Over, Failed
  <2>3. job[v] \in TxId /\ log[job[v]] = Silent
    BY <2>1, AtWork
  <2>4. log'[job[v]] \in {Over, Failed} /\ \A j \in TxId \ {job[v]} : log'[j] = log[j]
    <3>1. CASE Refuse(v, Over)
      BY <2>3, <3>1, EmitEntry, Entries DEF Refuse
    <3>2. CASE Refuse(v, Failed)
      BY <2>3, <3>2, EmitEntry, Entries DEF Refuse
    <3> QED BY <2>2, <3>1, <3>2
  <2>5. /\ job' = [job EXCEPT ![v] = NoJob] /\ pc' = [pc EXCEPT ![v] = "recv"]
        /\ queue' = queue /\ accepted' = accepted /\ nextTx' = nextTx /\ legacy' = legacy
    BY <1>5, <2>2 DEF Refuse, Goto, EncodeFails, Modulate, SlotBoundary, CheckLease
  <2>6. DoneWith(v, job[v])
    BY <2>1, <2>4, <2>5 DEF DoneWith, Waiting, Cycle, TypeInv, TypeOK, WorkerTypeOK
  <2> QED BY <2>6, DoneMove DEF Kept
<1>6. ASSUME \/ /\ Modulate(v) \/ SlotBoundary(v)
                /\ MayKey(v)
             \/ RecvCancelled(v) \/ Key(v) \/ KeyFails(v) \/ LeadIn(v) \/ Submit(v)
             \/ Drain(v) \/ HoldTail(v) \/ ReleasePtt(v) \/ ReleasePttFails(v)
      PROVE Ledger' /\ Kept
  <2>1. SameBooks /\ job' = job /\ queue' = queue
    BY <1>6 DEF Modulate, SlotBoundary, CheckLease, RecvCancelled, Key, KeyFails,
       LeadIn, Submit, Drain, AwaitOrAbort, HoldTail, ReleasePtt, ReleasePttFails,
       SameBooks, telemetryVars
  <2>2. /\ pc'[v] \in Waiting <=> pc[v] \in Waiting
        /\ pc'[v] \in Cycle <=> pc[v] \in Cycle
    BY <1>6 DEF Modulate, SlotBoundary, CheckLease, RecvCancelled, Key, KeyFails,
       LeadIn, Submit, Drain, AwaitOrAbort, HoldTail, ReleasePtt, ReleasePttFails,
       At, Goto, Waiting, Cycle, TypeInv, TypeOK, WorkerTypeOK
  <2>3. \A w \in Worker \ {v} : pc'[w] = pc[w]
    BY WorkerShape
  <2>4. \A w \in Worker : SameWork(w)
    BY <2>1, <2>2, <2>3 DEF SameWork
  <2> QED BY <2>1, <2>4, StillMove DEF Kept
<1> QED BY <1>1, <1>2, <1>3, <1>4, <1>5, <1>6 DEF WorkerStep

LEMMA LedgerStep ==
  ASSUME LedgerInv, [Next]_vars
  PROVE  LedgerInv' /\ Kept
<1>1. FifoInv'
  BY FifoStep DEF LedgerInv
<1>2. CASE UNCHANGED vars
  <2>1. SameBooks /\ \A w \in Worker : SameWork(w)
    BY <1>2 DEF vars, workerVars, telemetryVars, SameBooks, SameWork
  <2> QED BY <1>1, <2>1, StillMove DEF LedgerInv, Kept
<1>3. CASE CoreStep \/ ProcessExit
  BY <1>1, <1>3, CoreLedger DEF LedgerInv
<1>4. ASSUME NEW w \in Worker, WorkerStep(w)
      PROVE LedgerInv' /\ Kept
  BY <1>1, <1>4, WorkerLedger DEF LedgerInv
<1> QED BY <1>2, <1>3, <1>4 DEF Next

LEMMA LedgerInit == Init => LedgerInv /\ Service!Init
<1> SUFFICES ASSUME Init PROVE LedgerInv /\ Service!Init
  OBVIOUS
<1>1. \A w \in Worker : job[w] = NoJob /\ pc[w] = "dead" /\ queue[w] = <<>>
  BY DEF Init
<1>2. \A w \in Worker : DOMAIN queue[w] = {}
  BY <1>1
<1>3. \A w \in Worker : Jobs(w) = {}
  BY <1>1, <1>2 DEF Jobs
<1>4. FifoInv
  BY <1>1, <1>2, InitTypeInv DEF FifoInv, FirstAcceptedFirstServed, Init
<1>5. /\ \A i \in TxId : log[i] = Silent
      /\ accepted = {} /\ nextTx = 1 /\ legacy = NoChannel
  BY DEF Init, Silent
<1>6. JobWhileBusy /\ Apart /\ Carrying
  BY <1>1, <1>3 DEF JobWhileBusy, Apart, Carrying, Waiting, Cycle
<1>7. Told /\ Unspoken /\ Entered /\ Aired /\ Inline
  BY <1>5, Entries DEF Told, Unspoken, Entered, Aired, Inline
<1>8. Service!Init
  <2>1. AtWorkers = {}
    BY <1>3 DEF AtWorkers
  <2>2. ASSUME NEW i \in TxId
        PROVE JobStatus(i) = "new"
    BY <1>5, <2>1, StatusRead, StatusValues
  <2> QED BY <2>2 DEF Service!Init, Service!Id
<1> QED BY <1>4, <1>6, <1>7, <1>8 DEF LedgerInv, Ledger

\* At most one worker carries an id.
LEMMA OneCarrier ==
  ASSUME Apart, NEW i, NEW S, S = {w \in Worker : i \in Jobs(w)}
  PROVE  Cardinality(S) <= 1
<1>1. \A v, w \in S : v = w
  BY DEF Apart
<1>2. CASE S = {}
  BY <1>2, FS_EmptySet
<1>3. ASSUME NEW w \in S
      PROVE Cardinality(S) <= 1
  <2>1. S = {w}
    BY <1>1, <1>3
  <2>2. Cardinality({w}) = 1
    BY FS_Singleton
  <2> QED BY ONLY <2>1, <2>2
<1> QED BY <1>2, <1>3

LEMMA LedgerIsJobLedger ==
  ASSUME LedgerInv
  PROVE  JobLedger
<1> USE DEF LedgerInv, Ledger
<1> SUFFICES ASSUME NEW i \in TxId, NEW carriers, NEW onAir \in BOOLEAN,
                    carriers = {w \in Worker : i \in Jobs(w)},
                    onAir <=> \/ \E w \in Worker : job[w] = i /\ pc[w] \in Cycle
                              \/ legacy # NoChannel /\ i = nextTx - 1
             PROVE  /\ Cardinality(carriers) <= 1
                    /\ carriers # {} => i \in accepted /\ i < nextTx
                    /\ log[i] = Begun <=> onAir
                    /\ log[i] # Silent /\ ~onAir => carriers = {}
                    /\ log[i] \in {Silent, Begun, Over, Failed}
  BY DEF JobLedger, Silent, Begun, Over, Failed
<1>1. Cardinality(carriers) <= 1
  BY OneCarrier
<1>2. carriers # {} => i \in accepted /\ i < nextTx
  BY DEF Carrying, Told
<1>3. onAir => log[i] = Begun
  <2>1. ASSUME NEW w \in Worker, job[w] = i, pc[w] \in Cycle
        PROVE log[i] = Begun
    BY <2>1, AtWork
  <2> QED BY <2>1 DEF Inline
<1>4. log[i] = Begun => onAir
  BY DEF Aired
<1>5. ASSUME NEW w \in Worker, i \in Jobs(w), log[i] # Silent
      PROVE onAir
  BY <1>5 DEF Carrying
<1>6. log[i] \in {Silent, Begun, Over, Failed}
  BY DEF Entered
<1> QED BY <1>1, <1>2, <1>3, <1>4, <1>5, <1>6

\* Every transmit id is in one place, and its telemetry says where: it is at
\* one worker at most, announced as begun exactly while a cycle carries it,
\* and never announced twice (the worker's loop, Transmit in core/mod.rs).
THEOREM LedgerKept == Spec => []JobLedger
<1>1. LedgerInv /\ [Next]_vars => LedgerInv'
  BY LedgerStep
<1> QED BY <1>1, LedgerInit, LedgerIsJobLedger, PTL DEF Spec

\* The daemon implements the interface: ids are handed out in order, what is
\* accepted goes on the air at most once, nothing that is over comes back, and
\* only what still waits is dropped.
THEOREM TxPathKeepsPromise == Spec => ServicePromise
<1> DEFINE st == [i \in TxId |-> JobStatus(i)]
<1>1. LedgerInv /\ [Next]_vars => LedgerInv'
  BY LedgerStep
<1>2. LedgerInv /\ [Next]_vars => [Service!Next]_st
  BY LedgerStep DEF Kept, Unseen
<1> QED BY <1>1, <1>2, LedgerInit, PTL DEF Spec, ServicePromise, Service!Spec
=============================================================================
