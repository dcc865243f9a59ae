------------------------------ MODULE Subscribe ------------------------------
(***************************************************************************)
(* One SubscribeEvents stream (grpc/subscribe.rs): it attaches to the two  *)
(* broadcast rings, asks the core for a snapshot, and then merges the      *)
(* rings into the answer.  A ring keeps the newest messages; a receiver    *)
(* that falls behind by more is told it lagged, at its next receive.       *)
(*                                                                         *)
(* Frames are numbered modulo FrameIds.  Of the telemetry, ChannelConfigured *)
(* counts: each one announces a change of what a snapshot holds.           *)
(***************************************************************************)
EXTENDS Integers, Sequences, SequencesExt, FiniteSets

CONSTANTS
    FrameRing,   \* FRAME_RING, 1024 in the code
    TeleRing,    \* TELEMETRY_RING, 256 in the code
    FrameNumbers,
    MaxChanges   \* bounds the changes of the channel

VARIABLES
    stream,      \* "new", "frames", "attached", "asked", "answered",
                 \* "streaming", "lagged" or "gone"
    frameRing,   \* frames not received yet
    frameLag,    \* a frame not received yet was overwritten
    expected,    \* the number of the frame this client is to get next
    gap,         \* it got another one
    teleRing,
    teleLag,
    teleLost,    \* telemetry was overwritten before it was received
    version,     \* how often the channel has been configured
    snapshot,    \* the version in the answer of the core
    announced    \* changes the client was told of after the snapshot

subVars == <<stream, frameRing, frameLag, expected, gap, teleRing, teleLag,
             teleLost, version, snapshot, announced>>

SubInit ==
    /\ stream = "new"
    /\ frameRing = <<>> /\ teleRing = <<>>
    /\ frameLag = FALSE /\ teleLag = FALSE /\ teleLost = FALSE
    /\ expected = 0
    /\ gap = FALSE
    /\ version = 0 /\ snapshot = 0 /\ announced = 0

\* Mutant: nothing is overwritten.
PushAll(ring, n, message) == Append(ring, message)

\* A ring of n messages after a send.
Push(ring, n, message) ==
    IF Len(ring) < n THEN Append(ring, message) ELSE Append(Tail(ring), message)

HearsFrames == stream \notin {"new", "lagged", "gone"}

\* Mutant: the telemetry is attached when the stream is first polled.
HearsTelemetryLate == stream = "streaming"

HearsTelemetry == HearsFrames /\ stream # "frames"

SendFrame(f) ==
    /\ IF HearsFrames
       THEN /\ frameRing' = Push(frameRing, FrameRing, f)
            /\ frameLag' = (frameLag \/ Len(frameRing) = FrameRing)
       ELSE UNCHANGED <<frameRing, frameLag>>
    /\ expected' = IF stream = "new" THEN (f + 1) % FrameNumbers ELSE expected
    /\ UNCHANGED <<stream, gap, teleRing, teleLag, teleLost, version,
                   snapshot, announced>>

SendTelemetry(t) ==
    IF HearsTelemetry
    THEN /\ teleRing' = Push(teleRing, TeleRing, t)
         /\ teleLag' = (teleLag \/ Len(teleRing) = TeleRing)
         /\ teleLost' = (teleLost \/ Len(teleRing) = TeleRing)
    ELSE UNCHANGED <<teleRing, teleLag, teleLost>>

SendNothing == UNCHANGED subVars

SendMetrics ==
    /\ SendTelemetry("metrics")
    /\ UNCHANGED <<stream, frameRing, frameLag, expected, gap, version,
                   snapshot, announced>>

-----------------------------------------------------------------------------

\* The stream ends, and its receivers go with it.
EndStream(how) ==
    /\ stream' = how
    /\ frameRing' = <<>> /\ teleRing' = <<>>
    /\ frameLag' = FALSE /\ teleLag' = FALSE /\ teleLost' = FALSE
    /\ expected' = 0 /\ snapshot' = 0 /\ announced' = 0
    /\ UNCHANGED <<gap, version>>

\* The core's thread handles another client's ConfigureChannel.
ConfigureChannel ==
    /\ version < MaxChanges
    /\ version' = version + 1
    /\ SendTelemetry("configured")
    /\ UNCHANGED <<stream, frameRing, frameLag, expected, gap, snapshot,
                   announced>>

AttachFrames ==
    /\ stream = "new"
    /\ stream' = "frames"
    /\ UNCHANGED <<frameRing, frameLag, expected, gap, teleRing, teleLag,
                   teleLost, version, snapshot, announced>>

AttachTelemetry ==
    /\ stream = "frames"
    /\ stream' = "attached"
    /\ UNCHANGED <<frameRing, frameLag, expected, gap, teleRing, teleLag,
                   teleLost, version, snapshot, announced>>

\* The command queue takes GetState, or is full and the call fails.
AskState ==
    /\ stream = "attached"
    /\ \/ /\ stream' = "asked"
          /\ UNCHANGED <<frameRing, frameLag, expected, gap, teleRing,
                         teleLag, teleLost, version, snapshot, announced>>
       \/ EndStream("gone")

\* The core's thread handles GetState.
GetState ==
    /\ stream = "asked"
    /\ stream' = "answered"
    /\ snapshot' = version
    /\ UNCHANGED <<frameRing, frameLag, expected, gap, teleRing, teleLag,
                   teleLost, version, announced>>

YieldSnapshot ==
    /\ stream = "answered"
    /\ stream' = "streaming"
    /\ UNCHANGED <<frameRing, frameLag, expected, gap, teleRing, teleLag,
                   teleLost, version, snapshot, announced>>

ReceiveFrame ==
    /\ stream = "streaming"
    /\ frameRing # <<>>
    /\ ~frameLag
    /\ frameRing' = Tail(frameRing)
    /\ gap' = (gap \/ Head(frameRing) # expected)
    /\ expected' = (Head(frameRing) + 1) % FrameNumbers
    /\ UNCHANGED <<stream, frameLag, teleRing, teleLag, teleLost, version,
                   snapshot, announced>>

\* Mutant: a lag of the frames is skipped, like one of the telemetry.
FrameLagSkipped ==
    /\ stream = "streaming"
    /\ frameLag
    /\ frameLag' = FALSE
    /\ UNCHANGED <<stream, frameRing, expected, gap, teleRing, teleLag,
                   teleLost, version, snapshot, announced>>

\* A frame was lost: the stream ends with an error.
FrameLagged ==
    /\ stream = "streaming"
    /\ frameLag
    /\ EndStream("lagged")

\* Telemetry is handed on; what was overwritten is skipped.
ReceiveTelemetry ==
    /\ stream = "streaming"
    /\ teleRing # <<>>
    /\ IF teleLag
       THEN teleLag' = FALSE /\ UNCHANGED <<teleRing, announced>>
       ELSE /\ teleRing' = Tail(teleRing)
            /\ announced' = announced
                            + (IF Head(teleRing) = "configured" THEN 1 ELSE 0)
            /\ UNCHANGED teleLag
    /\ UNCHANGED <<stream, frameRing, frameLag, expected, gap, teleLost,
                   version, snapshot>>

ClientLeaves ==
    /\ stream \notin {"lagged", "gone"}
    /\ EndStream("gone")

StreamStep ==
    \/ AttachFrames \/ AttachTelemetry \/ AskState \/ YieldSnapshot
    \/ ReceiveFrame \/ FrameLagged
    \/ ReceiveTelemetry

SubNext == ConfigureChannel \/ GetState \/ ClientLeaves \/ StreamStep

-----------------------------------------------------------------------------
(* Properties. *)

SubTypeOK ==
    /\ stream \in {"new", "frames", "attached", "asked", "answered",
                   "streaming", "lagged", "gone"}
    /\ frameRing \in Seq(0 .. FrameNumbers - 1) /\ Len(frameRing) <= FrameRing
    /\ teleRing \in Seq({"metrics", "configured"}) /\ Len(teleRing) <= TeleRing
    /\ {frameLag, gap, teleLag, teleLost} \subseteq BOOLEAN
    /\ expected \in 0 .. FrameNumbers - 1
    /\ {version, snapshot} \subseteq 0 .. MaxChanges
    /\ announced \in Nat

\* Every frame decoded after the client subscribed is handed to it, once and
\* in order, or the stream ends.
FramesLossless == ~gap

\* Changes the client has been told of, or will be.
Announced ==
    announced + Cardinality({i \in 1 .. Len(teleRing) :
                               teleRing[i] = "configured"})

\* A change that is not in the snapshot is announced after it, as long as the
\* client keeps up with the telemetry.
ChangesAnnounced ==
    stream = "streaming" /\ ~teleLost => version - snapshot <= Announced
=============================================================================
