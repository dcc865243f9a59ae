----------------------------- MODULE SdrCapture -----------------------------
(***************************************************************************)
(* One SDR capture: the control cell the core writes (audio/sdr/mod.rs),   *)
(* the capture thread that reads IQ, follows the cell and delivers audio   *)
(* (pipeline.rs), and the rtl_tcp link below it, which drops and           *)
(* reconnects (rtl_tcp.rs).  The fields of the cell are atomics, each set  *)
(* and announced by a store and a bump of the generation; nothing makes a  *)
(* group of them one step.                                                 *)
(*                                                                         *)
(* The stop hook of a capture is a boxed closure in its handle             *)
(* (audio/backend.rs).  Dropping the handle drops the box, which does not  *)
(* call it, and nothing else does: the transport's stop flag is never set, *)
(* and the branches that test it are not in the model.  What the thread    *)
(* does notice is that the receiver in the handle is gone.                 *)
(*                                                                         *)
(* Frequencies are small integers and a rate is the width of the band in   *)
(* the same unit.  Connections are numbered.  Blocks of audio are numbered *)
(* in the order the pipeline produces them.                                *)
(***************************************************************************)
EXTENDS Integers, Sequences, FiniteSets, SequencesExt

CONSTANTS
    Freqs,       \* what clients tune to, none of them 0 Hz
    Rates,       \* capture rates the dongle accepts
    InitialRate, \* the rate open_capture seeds
    Depth,       \* CHUNK_QUEUE_DEPTH, 64 in the code
    MaxChanges,  \* bounds SetSdrTune and ConfigureSdr
    MaxBlocks,   \* bounds the audio produced
    MaxDrops     \* bounds the drops of the link

ASSUME CaptureBounds ==
    /\ Freqs \subseteq Nat \ {0}
    /\ Rates \subseteq Nat \ {0} /\ InitialRate \in Rates
    /\ Depth \in Nat \ {0}
    /\ MaxChanges \in Nat /\ MaxBlocks \in Nat /\ MaxDrops \in Nat

VARIABLES
    \* The core thread and the control cell.
    setter,     \* the stores a command has still to make
    changes,    \* commands so far
    cell,       \* center, offset, rate
    generation,
    wanted,     \* the frequency the last SetSdrTune asked for
    \* The capture thread.
    pc,
    chain,      \* what the RX chain was built for: offset, rate
    seenGen,
    startGen,   \* the generation it began with
    produced, backlog,
    dropped,    \* control.dropped_chunks
    \* The link and the dongle behind it.
    dongle,     \* what the dongle was last commanded: center, rate
    lastRate,   \* the rate the transport believes it commanded
    rateRead,   \* the rate it read to decide whether to send one
    slipped,    \* history: a rate was stored between the two reads of the
                \* rate by which it was last programmed and noted
    linkUp,     \* the connection in use has not dropped
    drops,      \* drops so far
    \* The handle and its owner.
    chan, heard,
    held        \* the handle has not been dropped

coreVars == <<setter, changes, cell, generation, wanted>>
chainVars == <<chain, seenGen, startGen>>
audioVars == <<produced, backlog, dropped, chan, heard>>
linkVars == <<dongle, lastRate, rateRead, slipped, linkUp, drops>>
vars == <<coreVars, pc, chainVars, audioVars, linkVars, held>>

-----------------------------------------------------------------------------
(* The tune plan. *)

Distance(a, b) == IF a > b THEN a - b ELSE b - a

\* In the central 80% of the band only the NCO moves; else the hardware is
\* put a quarter of the band below the target.
PlanTune(center, rate, target) ==
    IF center # 0 /\ 10 * Distance(target, center) <= 4 * rate
    THEN [center |-> center, offset |-> target - center]
    ELSE [center |-> target - rate \div 4, offset |-> rate \div 4]

\* open_capture has seeded the rate and connected, and spawns the thread.
Init ==
    /\ setter = <<>>
    /\ changes = 0
    /\ cell = [center |-> 0, offset |-> 0, rate |-> InitialRate]
    /\ generation = 0
    /\ wanted = 0
    /\ pc = "spawned"
    /\ chain = [offset |-> 0, rate |-> 0]
    /\ seenGen = 0
    /\ startGen = 0
    /\ produced = 0 /\ backlog = <<>> /\ dropped = 0
    /\ dongle = [center |-> 0, rate |-> InitialRate]
    /\ lastRate = InitialRate /\ rateRead = InitialRate /\ slipped = FALSE
    /\ linkUp = TRUE /\ drops = 0
    /\ chan = <<>> /\ heard = {}
    /\ held = TRUE

-----------------------------------------------------------------------------
(* The core thread.  A command plans its stores and makes them one by one. *)

SetSdrTune ==
    /\ setter = <<>>
    /\ changes < MaxChanges
    /\ \E f \in Freqs :
          LET plan == PlanTune(cell.center, cell.rate, f)
          IN  /\ setter' = << <<"center", plan.center>>, <<"bump", 0>>,
                              <<"offset", plan.offset>>, <<"bump", 0>> >>
              /\ wanted' = f
    /\ changes' = changes + 1
    /\ UNCHANGED <<cell, generation, pc, chainVars, audioVars, linkVars,
                   held>>

\* The setters after that of the rate have fields of their own, left out.
ConfigureSdr ==
    /\ setter = <<>>
    /\ changes < MaxChanges
    /\ \E r \in Rates :
          setter' = << <<"rate", r>>, <<"bump", 0>> >>
    /\ changes' = changes + 1
    /\ UNCHANGED <<cell, generation, wanted, pc, chainVars, audioVars,
                   linkVars, held>>

\* The transport is between sending a rate and noting one.
Programming == pc = "publish" \/ (pc = "command" /\ rateRead # lastRate)

SetterStep ==
    /\ setter # <<>>
    /\ setter' = Tail(setter)
    /\ LET store == Head(setter)
       IN  IF store[1] = "bump"
           THEN generation' = generation + 1 /\ UNCHANGED cell
           ELSE cell' = [cell EXCEPT ![store[1]] = store[2]]
                /\ UNCHANGED generation
    /\ slipped' = (slipped \/ (Head(setter)[1] = "rate" /\ Programming))
    /\ UNCHANGED <<changes, wanted, pc, chainVars, audioVars, dongle, lastRate,
                   rateRead, linkUp, drops, held>>

-----------------------------------------------------------------------------
(* The capture thread: run_capture. *)

\* It builds the chain from the cell ...
BuildChain ==
    /\ pc = "spawned"
    /\ chain' = [offset |-> cell.offset, rate |-> cell.rate]
    /\ pc' = "built"
    /\ UNCHANGED <<coreVars, seenGen, startGen, audioVars, linkVars, held>>

\* ... and takes the generation from which on it follows changes.
ReadGeneration ==
    /\ pc = "built"
    /\ seenGen' = generation
    /\ startGen' = generation
    /\ pc' = "read"
    /\ UNCHANGED <<coreVars, chain, audioVars, linkVars, held>>

\* The thread ends; what it had staged goes with it.
End ==
    /\ pc' = "ended"
    /\ backlog' = <<>>

\* A block of IQ arrives.
ReadBlock ==
    /\ pc = "read"
    /\ linkUp
    /\ produced < MaxBlocks \/ ~held
    /\ pc' = "reconcile"
    /\ UNCHANGED <<coreVars, chainVars, audioVars, linkVars, held>>

\* The read fails or is at its end; a reconnect begins.
ReadFails ==
    /\ pc = "read"
    /\ ~linkUp
    /\ pc' = "backoff"
    /\ UNCHANGED <<coreVars, chainVars, audioVars, linkVars, held>>

\* The handshake programs the dongle from the cell ...
Handshake ==
    /\ pc = "backoff"
    /\ dongle' = [center |-> cell.center, rate |-> cell.rate]
    /\ slipped' = FALSE
    /\ pc' = "publish"
    /\ UNCHANGED <<coreVars, chainVars, audioVars, lastRate, rateRead, linkUp,
                   drops, held>>

\* ... and the rate noted as commanded is read again.
Publish ==
    /\ pc = "publish"
    /\ linkUp' = TRUE
    /\ lastRate' = cell.rate
    /\ pc' = "read"
    /\ UNCHANGED <<coreVars, chainVars, audioVars, dongle, rateRead, slipped,
                   drops, held>>

\* A new generation is taken first, the values after it.
Reconcile ==
    /\ pc = "reconcile"
    /\ seenGen' = generation
    /\ pc' = IF generation # seenGen THEN "retune" ELSE "demodulate"
    /\ UNCHANGED <<coreVars, chain, startGen, audioVars, linkVars, held>>

\* Mutant: only a new rate is commanded.
RetuneWithoutHardware ==
    /\ pc = "retune"
    /\ chain' = [offset |-> cell.offset, rate |-> cell.rate]
    /\ pc' = IF chain.rate = cell.rate THEN "demodulate" ELSE "apply"
    /\ UNCHANGED <<coreVars, seenGen, startGen, audioVars, linkVars, held>>

\* A new rate rebuilds the chain, else its NCO moves.
Retune ==
    /\ pc = "retune"
    /\ chain' = [offset |-> cell.offset, rate |-> cell.rate]
    /\ pc' = "apply"
    /\ UNCHANGED <<coreVars, seenGen, startGen, audioVars, linkVars, held>>

\* apply_hardware reads the rate to see whether it is new ...
ReadRate ==
    /\ pc = "apply"
    /\ rateRead' = cell.rate
    /\ slipped' = (slipped /\ cell.rate = lastRate)
    /\ pc' = "command"
    /\ UNCHANGED <<coreVars, chainVars, audioVars, dongle, lastRate, linkUp,
                   drops, held>>

\* ... and sends the settings, with the rate, read again, only if it was.  A
\* dead connection takes them nowhere, and the error is ignored.
SendHardware ==
    /\ pc = "command"
    /\ \/ /\ linkUp
          /\ dongle' = [center |-> cell.center,
                        rate |-> IF lastRate # rateRead THEN cell.rate
                                                        ELSE dongle.rate]
          /\ lastRate' = rateRead
       \/ /\ ~linkUp
          /\ UNCHANGED <<dongle, lastRate>>
    /\ pc' = "demodulate"
    /\ UNCHANGED <<coreVars, chainVars, audioVars, rateRead, slipped, linkUp,
                   drops, held>>

\* Demodulation may leave nothing to deliver (the decimator is filling).
NoAudio ==
    /\ pc = "demodulate"
    /\ pc' = "read"
    /\ UNCHANGED <<coreVars, chainVars, audioVars, linkVars, held>>

\* Mutant: a full backlog turns the new chunk away.
TrimNewest(rest) == IF Len(rest) > Depth THEN SubSeq(rest, 1, Depth) ELSE rest

\* Mutant: nothing bounds the backlog.
TrimNever(rest) == rest

\* The oldest chunks go.
Trim(rest) ==
    IF Len(rest) > Depth THEN SubSeq(rest, Len(rest) - Depth + 1, Len(rest))
                         ELSE rest

\* deliver_audio: the channel takes what it can, the rest is staged.
Deliver ==
    /\ pc = "demodulate"
    /\ held
    /\ produced' = produced + 1
    /\ LET staged == Append(backlog, produced + 1)
           room   == Depth - Len(chan)
           sent   == IF Len(staged) < room THEN Len(staged) ELSE room
           rest   == SubSeq(staged, sent + 1, Len(staged))
       IN  /\ chan' = chan \o SubSeq(staged, 1, sent)
           /\ backlog' = Trim(rest)
           /\ dropped' = dropped + Len(rest) - Len(Trim(rest))
    /\ pc' = "read"
    /\ UNCHANGED <<coreVars, chainVars, heard, linkVars, held>>

\* Mutant: a chunk nobody takes is a chunk dropped.
ConsumerIgnored ==
    /\ pc = "demodulate"
    /\ ~held
    /\ pc' = "read"
    /\ UNCHANGED <<coreVars, chainVars, audioVars, linkVars, held>>

\* The receiver is gone, and with it the handle.
ConsumerGone ==
    /\ pc = "demodulate"
    /\ ~held
    /\ End
    /\ UNCHANGED <<coreVars, chainVars, produced, dropped, chan, heard,
                   linkVars, held>>

\* What the thread does without new IQ.
ThreadStep ==
    \/ BuildChain \/ ReadGeneration \/ ReadFails \/ Publish \/ Reconcile
    \/ Retune \/ ReadRate \/ SendHardware \/ NoAudio \/ Deliver \/ ConsumerGone

-----------------------------------------------------------------------------
(* The server, and the owner of the handle. *)

LinkDrops ==
    /\ drops < MaxDrops
    /\ linkUp
    /\ linkUp' = FALSE
    /\ drops' = drops + 1
    /\ UNCHANGED <<coreVars, pc, chainVars, audioVars, dongle, lastRate,
                   rateRead, slipped, held>>

\* The RX worker takes a chunk.
Receive ==
    /\ held
    /\ chan # <<>>
    /\ heard' = heard \cup {Head(chan)}
    /\ chan' = Tail(chan)
    /\ UNCHANGED <<coreVars, pc, chainVars, produced, backlog, dropped,
                   linkVars, held>>

\* The worker ends, or the core drops a capture it held idle.
DropHandle ==
    /\ held
    /\ held' = FALSE
    /\ chan' = <<>>
    /\ UNCHANGED <<coreVars, pc, chainVars, produced, backlog, dropped, heard,
                   linkVars>>

-----------------------------------------------------------------------------
Next ==
    \/ SetSdrTune \/ ConfigureSdr \/ SetterStep
    \/ ReadBlock \/ Handshake \/ ThreadStep
    \/ LinkDrops \/ Receive \/ DropHandle

Spec == Init /\ [][Next]_vars

\* The threads run.  The server is back after every drop, and streams; IQ
\* fills the decimator in the end.
FairServerSpec ==
    /\ Spec /\ WF_vars(ThreadStep) /\ WF_vars(SetterStep)
    /\ WF_vars(Handshake)
    /\ WF_vars(ReadBlock)
    /\ SF_vars(Deliver \/ ConsumerGone)

-----------------------------------------------------------------------------
(* Properties. *)

\* Every variable has its type, and the queues their bounds.
TypeOK ==
    /\ setter \in Seq({"center", "offset", "rate", "bump"} \X Int)
    /\ changes \in 0 .. MaxChanges
    /\ cell \in [center : Int, offset : Int, rate : Rates]
    /\ generation \in Nat /\ seenGen \in 0 .. generation
    /\ startGen \in 0 .. seenGen
    /\ wanted \in Freqs \cup {0}
    /\ pc \in {"spawned", "built", "read", "reconcile", "retune", "apply",
              "command", "demodulate", "backoff", "publish", "ended"}
    /\ chain \in [offset : Int, rate : Rates \cup {0}]
    /\ dongle \in [center : Int, rate : Rates]
    /\ {lastRate, rateRead} \subseteq Rates
    /\ produced \in 0 .. MaxBlocks /\ dropped \in 0 .. produced
    /\ Len(backlog) <= Depth /\ Len(chan) <= Depth
    /\ heard \subseteq 1 .. produced
    /\ {slipped, linkUp, held} \subseteq BOOLEAN
    /\ drops \in 0 .. MaxDrops

\* The thread has seen the last change and is past applying it, on a link
\* that stands, and no command is under way.
Settled ==
    /\ setter = <<>>
    /\ seenGen = generation
    /\ pc \in {"read", "reconcile", "demodulate"}
    /\ linkUp

\* The dongle's rate may be another for one reason: the transport reads the
\* rate twice, to send it and to note it as sent, and a rate stored between
\* the two is taken for sent.
Tuned ==
    /\ chain = [offset |-> cell.offset, rate |-> cell.rate]
    /\ dongle.center = cell.center
    /\ dongle.rate = cell.rate \/ slipped

\* A running capture that sees a change makes the whole of it: when it has
\* settled, the chain and the dongle's frequency are as the cell says, with the
\* channel on the frequency last asked for, and so is the dongle's rate unless
\* it was stored while the link was being programmed - whatever setters,
\* reconnects and blocks came between.
ChangesReachCapture ==
    Settled /\ generation # startGen =>
        /\ Tuned
        /\ wanted # 0 => dongle.center + chain.offset = wanted

\* Under overrun the worker gets chunks in order, without one twice; just
\* those counted as dropped are missing, and the newest Depth never are.
OldestDroppedAndCounted ==
    pc # "ended" /\ held =>
        LET kept == chan \o backlog
            lost == (1 .. produced) \ (heard \cup ToSet(kept))
        IN  /\ \A i \in 1 .. Len(kept) - 1 : kept[i] < kept[i + 1]
            /\ \A h \in heard, i \in 1 .. Len(kept) : h < kept[i]
            /\ Cardinality(lost) = dropped
            /\ \A l \in lost : l <= produced - Depth

\* "Dropping this stops the underlying stream" (audio/backend.rs): a capture
\* whose handle is gone ends, and lets go of the device.
DroppedCaptureEnds == ~held ~> pc = "ended"
=============================================================================
