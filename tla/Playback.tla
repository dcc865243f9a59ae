------------------------------ MODULE Playback ------------------------------
(***************************************************************************)
(* The playback side of a sound card (audio/cpal_backend.rs) and the wait  *)
(* of the keying cycle for it (ptt/sequence.rs, audio/backend.rs).  Three  *)
(* threads take part: the worker that owns the PlaybackHandle and runs one *)
(* cycle after another, the feeder that moves submitted buffers into the   *)
(* queue of the DAC, and the playback thread, whose stream may fail and is *)
(* rebuilt, and whose callback empties the queue.                          *)
(*                                                                         *)
(* Samples are numbered in the order of submission.  The channel and the   *)
(* DAC queue keep that order, so a buffer is known by the number of its    *)
(* last sample, its watermark, and the DAC queue is the samples after      *)
(* position up to fed.  PTT and telemetry are those of TxPath.             *)
(***************************************************************************)
EXTENDS Integers, Sequences

CONSTANTS
    ChanDepth,  \* CHUNK_QUEUE_DEPTH, 64 in the code
    BurstLen,   \* sizes of a modulated transmission
    MaxCycles   \* bounds the cycles driven on the handle

ASSUME PlaybackBounds ==
    /\ ChanDepth \in Nat \ {0}
    /\ BurstLen \subseteq Nat
    /\ MaxCycles \in Nat

NoBuffer == -1

VARIABLES
    \* The worker.
    pc,         \* where it is in drive_tx_cycle; "gone": the handle is dropped
    cycles,     \* cycles begun
    cancel,     \* the worker's cancel flag
    watermark,  \* what the current cycle waits for
    waitEnd,    \* how the latest cycle ended its wait; "unsent": in the lead-in
    \* The handle's counters, shared with the callback.
    submitted, drained,
    \* The feeder and the DAC queue.
    chan,       \* watermarks of the buffers in the channel
    inHand,     \* watermark of the buffer the feeder holds
    fed,        \* last sample moved into the DAC queue
    position,   \* last sample that left the DAC queue
    \* The stream, and what has been heard.
    streamUp,
    played      \* samples the DAC has put out

cycleVars == <<pc, cycles, cancel, watermark, waitEnd>>
queueVars == <<chan, inHand, fed>>
playbackVars == <<cycleVars, submitted, drained, queueVars, position, streamUp, played>>

PlaybackInit ==
    /\ pc = "idle"
    /\ cycles = 0
    /\ cancel = FALSE
    /\ watermark = 0
    /\ waitEnd = "none"
    /\ submitted = 0
    /\ drained = 0
    /\ chan = <<>>
    /\ inHand = NoBuffer
    /\ fed = 0
    /\ position = 0
    /\ streamUp = FALSE
    /\ played = {}

-----------------------------------------------------------------------------
(* The worker. *)

\* The core drops the worker's handle.
CancelWorker ==
    /\ ~cancel
    /\ cancel' = TRUE
    /\ UNCHANGED <<pc, cycles, watermark, waitEnd, submitted, drained,
                   queueVars, position, streamUp, played>>

\* run takes a job and keys; a cancelled worker returns and drops the sink.
BeginCycle ==
    /\ pc = "idle"
    /\ ~cancel
    /\ cycles < MaxCycles
    /\ cycles' = cycles + 1
    /\ pc' = "lead"
    /\ UNCHANGED <<cancel, watermark, waitEnd, submitted, drained, queueVars,
                   position, streamUp, played>>

WorkerReturns ==
    /\ pc = "idle"
    /\ cancel
    /\ pc' = "gone"
    /\ UNCHANGED <<cycles, cancel, watermark, waitEnd, submitted, drained,
                   queueVars, position, streamUp, played>>

\* The lead-in has been served: submit counts the burst first ...
CountSubmitted ==
    /\ pc = "lead"
    /\ ~cancel
    /\ \E n \in BurstLen : submitted' = submitted + n
    /\ pc' = "send"
    /\ UNCHANGED <<cycles, cancel, watermark, waitEnd, drained, queueVars,
                   position, streamUp, played>>

\* ... or the lead-in was cancelled, and nothing is submitted.
AbortLeadIn ==
    /\ pc = "lead"
    /\ cancel
    /\ waitEnd' = "unsent"
    /\ pc' = "unkey"
    /\ UNCHANGED <<cycles, cancel, watermark, submitted, drained, queueVars,
                   position, streamUp, played>>

\* ... and then sends it, which blocks while the channel is full.  The feeder
\* outlives the handle, so the send never fails.
SendBurst ==
    /\ pc = "send"
    /\ Len(chan) < ChanDepth
    /\ chan' = Append(chan, submitted)
    /\ watermark' = submitted
    /\ pc' = "drain"
    /\ UNCHANGED <<cycles, cancel, waitEnd, submitted, drained, inHand, fed,
                   position, streamUp, played>>

\* The drain loop ends: the watermark is reached, or, because the stream is
\* stuck or slow, the deadline.  Time is left out: either may be any moment.
EndWait ==
    /\ pc = "drain"
    /\ ~cancel
    /\ waitEnd' = IF drained >= watermark THEN "drained" ELSE "deadline"
    /\ pc' = "unkey"
    /\ UNCHANGED <<cycles, cancel, watermark, submitted, drained, queueVars,
                   position, streamUp, played>>

\* Mutant: flush also gives up what the feeder has yet to deliver.
FlushQueueAhead ==
    /\ pc = "drain"
    /\ cancel
    /\ position' = submitted
    /\ waitEnd' = "aborted"
    /\ pc' = "flush"
    /\ UNCHANGED <<cycles, cancel, watermark, submitted, drained, queueVars,
                   streamUp, played>>

\* The drain loop sees the cancel and flushes: first the DAC queue ...
FlushQueue ==
    /\ pc = "drain"
    /\ cancel
    /\ position' = fed
    /\ waitEnd' = "aborted"
    /\ pc' = "flush"
    /\ UNCHANGED <<cycles, cancel, watermark, submitted, drained, queueVars,
                   streamUp, played>>

\* ... then, without the lock, the count of what was played.
FlushCount ==
    /\ pc = "flush"
    /\ drained' = submitted
    /\ pc' = "unkey"
    /\ UNCHANGED <<cycles, cancel, watermark, waitEnd, submitted, queueVars,
                   position, streamUp, played>>

\* The tail, unless aborted, and unkey.  After an abort the worker returns.
EndCycle ==
    /\ pc = "unkey"
    /\ pc' = IF waitEnd \in {"aborted", "unsent"} THEN "gone" ELSE "idle"
    /\ UNCHANGED <<cycles, cancel, watermark, waitEnd, submitted, drained,
                   queueVars, position, streamUp, played>>

WorkerStep ==
    \/ WorkerReturns \/ CountSubmitted \/ AbortLeadIn \/ SendBurst
    \/ EndWait \/ FlushQueue \/ FlushCount \/ EndCycle

-----------------------------------------------------------------------------
(* The feeder.  A closed channel still delivers what it holds. *)

FeederReceives ==
    /\ inHand = NoBuffer
    /\ chan # <<>>
    /\ inHand' = Head(chan)
    /\ chan' = Tail(chan)
    /\ UNCHANGED <<cycleVars, submitted, drained, fed, position, streamUp,
                   played>>

\* Mutant: the feeder hands its buffer to a stream and waits for one.
FeederWaitsForStream ==
    /\ inHand # NoBuffer
    /\ streamUp
    /\ fed' = inHand
    /\ inHand' = NoBuffer
    /\ UNCHANGED <<cycleVars, submitted, drained, chan, position, streamUp,
                   played>>

FeederExtends ==
    /\ inHand # NoBuffer
    /\ fed' = inHand
    /\ inHand' = NoBuffer
    /\ UNCHANGED <<cycleVars, submitted, drained, chan, position, streamUp,
                   played>>

FeederStep == FeederReceives \/ FeederExtends

-----------------------------------------------------------------------------
(* The playback thread. *)

\* Mutant: silence put out in an underrun is counted, too.
CallbackCountsSilence ==
    /\ streamUp
    /\ \E room \in 1 .. submitted + 1 :
          LET upto == IF position + room < fed THEN position + room ELSE fed
          IN  /\ drained' = drained + room
              /\ position' = upto
              /\ played' = played \cup (position + 1 .. upto)
    /\ UNCHANGED <<cycleVars, submitted, queueVars, streamUp>>

\* One callback empties a part of the queue, holding its lock.  Callbacks
\* that find it empty put out silence and count nothing.
Callback ==
    /\ streamUp
    /\ \E upto \in position + 1 .. fed :
          /\ position' = upto
          /\ drained' = drained + (upto - position)
          /\ played' = played \cup (position + 1 .. upto)
    /\ UNCHANGED <<cycleVars, submitted, queueVars, streamUp>>

\* The stream reports an error and is dropped; it is built, at first and
\* again, after a backoff that has no end while the device refuses.
StreamFails ==
    /\ streamUp
    /\ streamUp' = FALSE
    /\ UNCHANGED <<cycleVars, submitted, drained, queueVars, position, played>>

StreamBuilt ==
    /\ ~streamUp
    /\ streamUp' = TRUE
    /\ UNCHANGED <<cycleVars, submitted, drained, queueVars, position, played>>

-----------------------------------------------------------------------------
PlaybackNext ==
    \/ BeginCycle \/ CancelWorker \/ WorkerStep \/ FeederStep
    \/ Callback \/ StreamFails \/ StreamBuilt

PlaybackSpec == PlaybackInit /\ [][PlaybackNext]_playbackVars

\* The worker and the feeder are threads whose every wait is bounded or for
\* the other.  Nothing makes a job arrive, a stream work, or the core cancel.
FairPlaybackSpec == PlaybackSpec /\ WF_playbackVars(WorkerStep) /\ WF_playbackVars(FeederStep)

-----------------------------------------------------------------------------
(* Properties. *)

WaitEnd == {"none", "unsent", "drained", "deadline", "aborted"}

\* Every variable has its type, and no thread gets ahead of the one that
\* feeds it.
PlaybackTypeOK ==
    /\ pc \in {"idle", "lead", "send", "drain", "flush", "unkey", "gone"}
    /\ cycles \in 0 .. MaxCycles
    /\ cancel \in BOOLEAN
    /\ waitEnd \in WaitEnd
    /\ submitted \in Nat
    /\ drained \in Nat
    /\ watermark \in 0 .. submitted
    /\ chan \in Seq(0 .. submitted)
    /\ inHand \in {NoBuffer} \cup (0 .. submitted)
    /\ fed \in 0 .. submitted
    /\ position \in 0 .. fed
    /\ streamUp \in BOOLEAN
    /\ played \subseteq 1 .. submitted

\* A cycle whose wait ended on the watermark releases PTT only when all of
\* its samples have been put out, and with them all that cycles before it
\* left behind at their deadlines; so nothing is pending between two cycles.
UnkeyAfterLastSample ==
    waitEnd = "drained" /\ pc \in {"unkey", "idle", "gone"}
        => 1 .. submitted \subseteq played

\* A cycle ends whatever the sound card does: a stream that never comes back
\* and cycles that give up on it leave no buffer in the way of the next.
CycleEnds == pc = "lead" ~> pc \in {"idle", "gone"}
=============================================================================
