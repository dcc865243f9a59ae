------------------------------ MODULE RxWorker ------------------------------
(***************************************************************************)
(* One RX worker (core/rx_worker.rs), streaming or windowed: it takes      *)
(* chunks of audio from its capture, honours the interlock of its rig,     *)
(* decodes, and publishes frames and metrics.  A sample is known by        *)
(* whether it was received while the rig transmitted; a window by its      *)
(* samples.  Time is left out: a receive times out whenever no chunk is    *)
(* there.                                                                  *)
(*                                                                         *)
(* Frames are numbered modulo FrameIds, and what the worker sends is left  *)
(* to the module that has the receivers: sent is what it sends in a step.  *)
(***************************************************************************)
EXTENDS Integers, Sequences

CONSTANTS
    Kind,       \* "streaming" or "windowed", after the mode's demodulator
    WinLen,     \* samples of a window
    ChunkLens,  \* samples of a chunk
    ChunkDepth, \* CHUNK_QUEUE_DEPTH, 64 in the code
    FrameIds    \* bounds the numbers of frames, which repeat

ASSUME RxWorkerBounds ==
    /\ Kind \subseteq {"streaming", "windowed"}
    /\ WinLen \in Nat \ {0}
    /\ ChunkLens \subseteq 1 .. WinLen   \* a chunk completes one window at most
    /\ ChunkDepth \in Nat \ {0}
    /\ FrameIds \in Nat \ {0}

VARIABLES
    kind,
    pc,           \* "top" of the loop, "wait", "metrics", then "stopped" or
                  \* "drained", "lastMetrics" and "ended"
    running,      \* the flag the handle clears
    muted,        \* the interlock counts a transmission on the rig
    chunks,       \* lengths of the chunks in the capture's channel
    capturing,    \* the capture's sender is alive
    buf,          \* windowed: samples not decoded, TRUE if received muted
    mutedWindow,
    phase,        \* samples received so far, modulo WinLen
    frames,       \* the number of the next frame
    sent          \* what the latest step sent: <<>>, <<"metrics">>, or
                  \* <<"frame", its number, the window it was decoded from>>

workerVars == <<kind, pc, running, muted, chunks, capturing, buf, mutedWindow,
                phase, frames, sent>>

WorkerInit ==
    /\ kind \in Kind
    /\ pc = "top"
    /\ running = TRUE
    /\ muted = FALSE
    /\ chunks = <<>>
    /\ capturing = TRUE
    /\ buf = <<>>
    /\ mutedWindow = FALSE
    /\ phase = 0
    /\ frames = 0
    /\ sent = <<>>

-----------------------------------------------------------------------------
(* What happens around the worker. *)

\* begin_tx and end_tx on the worker's rig.
RigKeysOrUnkeys ==
    /\ muted' = ~muted
    /\ sent' = <<>>
    /\ UNCHANGED <<kind, pc, running, chunks, capturing, buf, mutedWindow,
                   phase, frames>>

\* The capture delivers a chunk; with the channel full it is lost.
Capture ==
    /\ capturing
    /\ pc # "ended"
    /\ Len(chunks) < ChunkDepth
    /\ \E n \in ChunkLens : chunks' = Append(chunks, n)
    /\ sent' = <<>>
    /\ UNCHANGED <<kind, pc, running, muted, capturing, buf, mutedWindow,
                   phase, frames>>

\* A replay is over, or a device gone for good.
CaptureEnds ==
    /\ capturing
    /\ capturing' = FALSE
    /\ sent' = <<>>
    /\ UNCHANGED <<kind, pc, running, muted, chunks, buf, mutedWindow, phase,
                   frames>>

\* The core drops its handle.
DropWorker ==
    /\ running
    /\ running' = FALSE
    /\ sent' = <<>>
    /\ UNCHANGED <<kind, pc, muted, chunks, capturing, buf, mutedWindow,
                   phase, frames>>

-----------------------------------------------------------------------------
(* The worker's thread. *)

\* A decode publishes a frame, and metrics after it, or nothing.
Decoded(window) ==
    \/ /\ sent' = <<"frame", frames, window>>
       /\ frames' = (frames + 1) % FrameIds
       /\ pc' = "metrics"
    \/ /\ sent' = <<>>
       /\ UNCHANGED frames
       /\ pc' = "top"

\* Nothing is decoded, and nothing sent.
Skipped ==
    /\ sent' = <<>>
    /\ UNCHANGED frames
    /\ pc' = "top"

\* Mutant: the flag is looked at in a pause of the audio.
CheckRunningInPause ==
    /\ pc = "top"
    /\ pc' = IF ~running /\ chunks = <<>> THEN "stopped" ELSE "wait"
    /\ sent' = <<>>
    /\ UNCHANGED <<kind, running, muted, chunks, capturing, buf, mutedWindow,
                   phase, frames>>

CheckRunning ==
    /\ pc = "top"
    /\ pc' = IF running THEN "wait" ELSE "stopped"
    /\ sent' = <<>>
    /\ UNCHANGED <<kind, running, muted, chunks, capturing, buf, mutedWindow,
                   phase, frames>>

\* A chunk for a streaming demodulator: fed to it, or skipped while muted.
StreamChunk ==
    /\ kind = "streaming"
    /\ pc = "wait"
    /\ chunks # <<>>
    /\ chunks' = Tail(chunks)
    /\ phase' = (phase + Head(chunks)) % WinLen
    /\ IF muted THEN Skipped ELSE Decoded(<<>>)
    /\ UNCHANGED <<kind, running, muted, capturing, buf, mutedWindow>>

\* Mutant: a window is judged by the chunk that completes it.
WindowChunkLastMute ==
    /\ kind = "windowed"
    /\ pc = "wait"
    /\ chunks # <<>>
    /\ chunks' = Tail(chunks)
    /\ phase' = (phase + Head(chunks)) % WinLen
    /\ LET all == buf \o [i \in 1 .. Head(chunks) |-> muted]
       IN  IF Len(all) < WinLen
           THEN buf' = all /\ Skipped
           ELSE /\ buf' = SubSeq(all, WinLen + 1, Len(all))
                /\ IF muted THEN Skipped ELSE Decoded(SubSeq(all, 1, WinLen))
    /\ UNCHANGED <<kind, running, muted, capturing, mutedWindow>>

\* A chunk for a windowed one.  It marks the window it begins in; a window it
\* completes is decoded unless marked, and the next begins unmarked, with the
\* rest of the chunk.
WindowChunk ==
    /\ kind = "windowed"
    /\ pc = "wait"
    /\ chunks # <<>>
    /\ chunks' = Tail(chunks)
    /\ phase' = (phase + Head(chunks)) % WinLen
    /\ LET all    == buf \o [i \in 1 .. Head(chunks) |-> muted]
           marked == mutedWindow \/ muted
       IN  IF Len(all) < WinLen
           THEN /\ buf' = all
                /\ mutedWindow' = marked
                /\ Skipped
           ELSE /\ buf' = SubSeq(all, WinLen + 1, Len(all))
                /\ mutedWindow' = FALSE
                /\ IF marked THEN Skipped ELSE Decoded(SubSeq(all, 1, WinLen))
    /\ UNCHANGED <<kind, running, muted, capturing>>

ReceiveTimesOut ==
    /\ pc = "wait"
    /\ chunks = <<>>
    /\ capturing
    /\ pc' = "top"
    /\ sent' = <<>>
    /\ UNCHANGED <<kind, running, muted, chunks, capturing, buf, mutedWindow,
                   phase, frames>>

\* What the channel still held has been taken.
ReceiveDisconnected ==
    /\ pc = "wait"
    /\ chunks = <<>>
    /\ ~capturing
    /\ pc' = "drained"
    /\ sent' = <<>>
    /\ UNCHANGED <<kind, running, muted, chunks, capturing, buf, mutedWindow,
                   phase, frames>>

EmitMetrics ==
    /\ pc \in {"metrics", "lastMetrics"}
    /\ sent' = <<"metrics">>
    /\ pc' = IF pc = "metrics" THEN "top" ELSE "ended"
    /\ UNCHANGED <<kind, running, muted, chunks, capturing, buf, mutedWindow,
                   phase, frames>>

\* A streaming demodulator is flushed, after a stop as well.  Of a window,
\* what the end of the capture left is decoded, unless marked, with padding
\* for the rest.  With the thread the capture ends.
Flush ==
    /\ pc \in {"stopped", "drained"}
    /\ chunks' = <<>>
    /\ \/ /\ kind = "windowed" => pc = "drained" /\ buf # <<>> /\ ~mutedWindow
          /\ sent' = <<"frame", frames, buf>>
          /\ frames' = (frames + 1) % FrameIds
          /\ pc' = "lastMetrics"
       \/ /\ sent' = <<>>
          /\ pc' = "ended"
          /\ UNCHANGED frames
    /\ UNCHANGED <<kind, running, muted, capturing, buf, mutedWindow, phase>>

ThreadStep ==
    \/ CheckRunning \/ StreamChunk \/ WindowChunk \/ ReceiveTimesOut
    \/ ReceiveDisconnected \/ EmitMetrics \/ Flush

WorkerNext ==
    \/ RigKeysOrUnkeys \/ Capture \/ CaptureEnds \/ DropWorker \/ ThreadStep

-----------------------------------------------------------------------------
(* Properties. *)

\* Every variable has its type.
WorkerTypeOK ==
    /\ kind \in Kind
    /\ pc \in {"top", "wait", "metrics", "stopped", "drained",
               "lastMetrics", "ended"}
    /\ {running, muted, capturing, mutedWindow} \subseteq BOOLEAN
    /\ chunks \in Seq(ChunkLens) /\ Len(chunks) <= ChunkDepth
    /\ buf \in Seq(BOOLEAN) /\ Len(buf) < WinLen
    /\ \/ sent \in {<<>>, <<"metrics">>}
       \/ /\ sent[1] = "frame"
          /\ sent[2] \in 0 .. FrameIds - 1
          /\ sent[3] \in Seq(BOOLEAN) /\ Len(sent[3]) <= WinLen
    /\ phase \in 0 .. WinLen - 1
    /\ frames \in 0 .. FrameIds - 1

\* The window a frame was decoded from in this step.
Window == IF sent \in {<<>>, <<"metrics">>} THEN <<>> ELSE sent[3]

\* Of the rig's own transmission, a window that is decoded can hold no more
\* than the end of one chunk that began in the window before.
OnlyLeadingSpill ==
    \A i \in 1 .. Len(Window) :
        Window[i] => /\ \A j \in 1 .. i : Window[j]
                     /\ \E n \in ChunkLens : i < n

\* Muting does not move the windows: their grid is that of the audio received
\* since the capture began.
WindowsKeepGrid == kind = "windowed" => Len(buf) = phase

\* A worker told to stop ends, and lets go of its capture, however steadily
\* audio arrives and whatever the interlock says.
StoppedWorkerEnds == ~running ~> pc = "ended"
=============================================================================
