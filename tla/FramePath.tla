------------------------------ MODULE FramePath ------------------------------
(***************************************************************************)
(* An RX worker and one client of the event stream: what the worker sends  *)
(* in a step goes into the rings the client's stream reads.                *)
(***************************************************************************)
EXTENDS RxWorker

CONSTANTS FrameRing, TeleRing, MaxChanges

ASSUME RingBounds ==
    /\ {FrameRing, TeleRing} \subseteq Nat \ {0}
    /\ FrameIds > FrameRing + 1
    /\ MaxChanges \in Nat

VARIABLES stream, frameRing, frameLag, expected, gap, teleRing, teleLag,
          teleLost, version, snapshot, announced

Client == INSTANCE Subscribe WITH FrameNumbers <- FrameIds

vars == <<workerVars, Client!subVars>>

Init == WorkerInit /\ Client!SubInit

\* The worker's sends reach the rings at once.
Broadcast ==
    \/ sent' = <<>> /\ Client!SendNothing
    \/ sent' = <<"metrics">> /\ Client!SendMetrics
    \/ sent' \notin {<<>>, <<"metrics">>} /\ Client!SendFrame(sent'[2])

WorkerMoves == WorkerNext /\ Broadcast

ClientMoves ==
    /\ Client!SubNext
    /\ sent' = <<>>
    /\ UNCHANGED <<kind, pc, running, muted, chunks, capturing, buf,
                   mutedWindow, phase, frames>>

Next == WorkerMoves \/ ClientMoves

Spec == Init /\ [][Next]_vars

\* The operating system runs the worker's thread.
FairSpec == Spec /\ WF_vars(ThreadStep /\ Broadcast)

\* Every variable has its type.
TypeOK == WorkerTypeOK /\ Client!SubTypeOK

\* Every frame decoded after the client subscribed is handed to it, once and
\* in order, or the stream ends.
FramesLossless == Client!FramesLossless

\* A change that is not in the snapshot is announced after it, as long as the
\* client keeps up with the telemetry.
ChangesAnnounced == Client!ChangesAnnounced
=============================================================================
