--------------------------- MODULE FramePath_proof ---------------------------
(***************************************************************************)
(* Proofs about FramePath: its types, that no frame is missing or doubled  *)
(* in what a client is given, and what a window that is decoded may hold   *)
(* of the rig's own transmission.                                          *)
(***************************************************************************)
EXTENDS FramePath, SequenceTheorems, FiniteSetTheorems, TLAPS

-----------------------------------------------------------------------------
(* The numbers of frames, and the phase of the windows, count round. *)

Succ(f) == (f + 1) % FrameIds

LEMMA SuccTypes ==
  \A f \in 0 .. FrameIds - 1 : Succ(f) \in 0 .. FrameIds - 1
BY RxWorkerBounds DEF Succ

\* One chunk takes the phase at most once over the end of a window.
LEMMA PhaseOnce ==
  ASSUME NEW p \in 0 .. WinLen - 1, NEW n \in 1 .. WinLen
  PROVE  /\ (p + n) % WinLen \in 0 .. WinLen - 1
         /\ p + n < WinLen => (p + n) % WinLen = p + n
         /\ p + n >= WinLen => (p + n) % WinLen = p + n - WinLen
BY RxWorkerBounds

-----------------------------------------------------------------------------
(* Types of the worker. *)

\* What a step sends, in the shape the worker's type invariant gives it.
SentOK(s) ==
    \/ s \in {<<>>, <<"metrics">>}
    \/ /\ s[1] = "frame"
       /\ s[2] \in 0 .. FrameIds - 1
       /\ s[3] \in Seq(BOOLEAN) /\ Len(s[3]) <= WinLen

Places == {"top", "wait", "metrics", "stopped", "drained", "lastMetrics", "ended"}

LEMMA DecodedTypes ==
  ASSUME WorkerTypeOK, NEW window \in Seq(BOOLEAN), Len(window) <= WinLen,
         Decoded(window) \/ Skipped
  PROVE  SentOK(sent') /\ frames' \in 0 .. FrameIds - 1 /\ pc' \in Places
<1>1. frames \in 0 .. FrameIds - 1 /\ (frames + 1) % FrameIds \in 0 .. FrameIds - 1
  BY SuccTypes DEF WorkerTypeOK, Succ
<1>2. CASE sent' = <<"frame", frames, window>> /\ frames' = (frames + 1) % FrameIds
           /\ pc' = "metrics"
  BY <1>1, <1>2 DEF SentOK, Places
<1>3. CASE sent' = <<>> /\ frames' = frames /\ pc' = "top"
  BY <1>1, <1>3 DEF SentOK, Places
<1> QED BY <1>2, <1>3 DEF Decoded, Skipped

\* The samples of a window that is decoded, and of what is left.
LEMMA WindowTypes ==
  ASSUME WorkerTypeOK, chunks # <<>>
  PROVE  LET all == buf \o [i \in 1 .. Head(chunks) |-> muted]
         IN  /\ Head(chunks) \in 1 .. WinLen
             /\ all \in Seq(BOOLEAN) /\ Len(all) = Len(buf) + Head(chunks)
             /\ Len(all) >= WinLen =>
                  /\ SubSeq(all, 1, WinLen) \in Seq(BOOLEAN)
                  /\ Len(SubSeq(all, 1, WinLen)) = WinLen
                  /\ SubSeq(all, WinLen + 1, Len(all)) \in Seq(BOOLEAN)
                  /\ Len(SubSeq(all, WinLen + 1, Len(all))) = Len(all) - WinLen
<1> DEFINE all == buf \o [i \in 1 .. Head(chunks) |-> muted]
<1>1. Head(chunks) \in 1 .. WinLen /\ Head(chunks) \in Nat
  <2>1. Head(chunks) \in ChunkLens
    BY DEF WorkerTypeOK
  <2>2. Head(chunks) \in 1 .. WinLen
    BY <2>1, RxWorkerBounds
  <2> QED BY ONLY <2>2
<1>2. muted \in BOOLEAN /\ buf \in Seq(BOOLEAN)
  BY DEF WorkerTypeOK
<1> DEFINE more == [i \in 1 .. Head(chunks) |-> muted]
<1>3. more \in Seq(BOOLEAN) /\ Len(more) = Head(chunks)
  BY <1>1, <1>2
<1> HIDE DEF more
<1>4. all \in Seq(BOOLEAN) /\ Len(all) = Len(buf) + Head(chunks)
  <2>1. all = buf \o more
    BY DEF more
  <2> QED BY ONLY <1>2, <1>3, <2>1, ConcatProperties
<1>5. WinLen \in Nat /\ WinLen >= 1
  BY RxWorkerBounds
<1> HIDE DEF all
<1>6. ASSUME Len(all) >= WinLen
      PROVE  /\ SubSeq(all, 1, WinLen) \in Seq(BOOLEAN)
             /\ Len(SubSeq(all, 1, WinLen)) = WinLen
             /\ SubSeq(all, WinLen + 1, Len(all)) \in Seq(BOOLEAN)
             /\ Len(SubSeq(all, WinLen + 1, Len(all))) = Len(all) - WinLen
  <2>1. Len(all) \in Nat
    BY <1>4
  <2> QED BY ONLY <1>4, <1>5, <1>6, <2>1, SubSeqProperties
<1> QED BY <1>1, <1>4, <1>6 DEF all

LEMMA WorkerTypeInit == WorkerInit => WorkerTypeOK
<1>1. WorkerInit => buf \in Seq(BOOLEAN) /\ Len(buf) < WinLen
  BY RxWorkerBounds DEF WorkerInit
<1>2. WorkerInit => chunks \in Seq(ChunkLens) /\ Len(chunks) <= ChunkDepth
  BY RxWorkerBounds DEF WorkerInit
<1>3. WorkerInit => phase \in 0 .. WinLen - 1 /\ frames \in 0 .. FrameIds - 1
  BY RxWorkerBounds DEF WorkerInit
<1>4. WorkerInit => {running, muted, capturing, mutedWindow} \subseteq BOOLEAN
  BY DEF WorkerInit
<1>5. WorkerInit => kind \in Kind /\ sent = <<>> /\ pc = "top"
  BY DEF WorkerInit
<1> QED BY <1>1, <1>2, <1>3, <1>4, <1>5 DEF WorkerTypeOK

LEMMA WorkerTypeStep == WorkerTypeOK /\ WorkerNext => WorkerTypeOK'
<1> SUFFICES ASSUME WorkerTypeOK, WorkerNext PROVE WorkerTypeOK'
  OBVIOUS
<1>0. /\ kind \in Kind /\ pc \in Places
      /\ {running, muted, capturing, mutedWindow} \subseteq BOOLEAN
      /\ chunks \in Seq(ChunkLens) /\ Len(chunks) <= ChunkDepth
      /\ buf \in Seq(BOOLEAN) /\ Len(buf) < WinLen
      /\ phase \in 0 .. WinLen - 1 /\ frames \in 0 .. FrameIds - 1
  BY DEF WorkerTypeOK, Places
<1>1. SUFFICES /\ kind' \in Kind /\ pc' \in Places
               /\ {running', muted', capturing', mutedWindow'} \subseteq BOOLEAN
               /\ chunks' \in Seq(ChunkLens) /\ Len(chunks') <= ChunkDepth
               /\ buf' \in Seq(BOOLEAN) /\ Len(buf') < WinLen
               /\ SentOK(sent')
               /\ phase' \in 0 .. WinLen - 1 /\ frames' \in 0 .. FrameIds - 1
  BY DEF WorkerTypeOK, SentOK, Places
<1>2. SentOK(<<>>) /\ SentOK(<<"metrics">>)
  BY DEF SentOK
<1>3. ChunkDepth \in Nat
  BY RxWorkerBounds
<1>4. chunks # <<>> => /\ Tail(chunks) \in Seq(ChunkLens) /\ Len(Tail(chunks)) <= ChunkDepth
                       /\ (phase + Head(chunks)) % WinLen \in 0 .. WinLen - 1
  <2>1. ASSUME chunks # <<>>
        PROVE  Tail(chunks) \in Seq(ChunkLens) /\ Len(Tail(chunks)) <= ChunkDepth
    BY <1>0, <1>3, <2>1
  <2>2. ASSUME chunks # <<>> PROVE Head(chunks) \in 1 .. WinLen
    <3>1. Head(chunks) \in ChunkLens
      BY <1>0, <2>2
    <3> QED BY <3>1, RxWorkerBounds
  <2> QED BY <1>0, <2>1, <2>2, PhaseOnce
<1>5. CASE RigKeysOrUnkeys \/ CaptureEnds \/ DropWorker
  BY <1>0, <1>2, <1>5 DEF RigKeysOrUnkeys, CaptureEnds, DropWorker
<1>6. CASE Capture
  <2>1. PICK n \in ChunkLens : chunks' = Append(chunks, n)
    BY <1>6 DEF Capture
  <2>2. chunks' \in Seq(ChunkLens) /\ Len(chunks') = Len(chunks) + 1 /\ Len(chunks) \in Nat
    BY <1>0, <2>1
  <2>3. Len(chunks') <= ChunkDepth
    BY <1>3, <1>6, <2>2 DEF Capture
  <2> QED BY <1>0, <1>2, <1>6, <2>2, <2>3 DEF Capture
<1>7. CASE CheckRunning \/ ReceiveTimesOut \/ ReceiveDisconnected \/ EmitMetrics
  BY <1>0, <1>2, <1>7 DEF CheckRunning, ReceiveTimesOut, ReceiveDisconnected, EmitMetrics, Places
<1>8. CASE StreamChunk
  <2>1. Decoded(<<>>) \/ Skipped
    BY <1>8 DEF StreamChunk
  <2>2. <<>> \in Seq(BOOLEAN) /\ Len(<<>>) <= WinLen
    BY RxWorkerBounds
  <2>3. SentOK(sent') /\ frames' \in 0 .. FrameIds - 1 /\ pc' \in Places
    BY <2>1, <2>2, DecodedTypes
  <2> QED BY <1>0, <1>4, <1>8, <2>3 DEF StreamChunk
<1>9. CASE WindowChunk
  <2> DEFINE all == buf \o [i \in 1 .. Head(chunks) |-> muted]
  <2>1. /\ all \in Seq(BOOLEAN) /\ Len(all) = Len(buf) + Head(chunks)
        /\ Head(chunks) \in 1 .. WinLen
        /\ Len(all) >= WinLen =>
             /\ SubSeq(all, 1, WinLen) \in Seq(BOOLEAN)
             /\ Len(SubSeq(all, 1, WinLen)) = WinLen
             /\ SubSeq(all, WinLen + 1, Len(all)) \in Seq(BOOLEAN)
             /\ Len(SubSeq(all, WinLen + 1, Len(all))) = Len(all) - WinLen
    BY <1>9, WindowTypes DEF WindowChunk
  <2>2. /\ chunks # <<>> /\ chunks' = Tail(chunks)
        /\ phase' = (phase + Head(chunks)) % WinLen
        /\ \/ /\ Len(all) < WinLen /\ buf' = all /\ Skipped
              /\ mutedWindow' = (mutedWindow \/ muted)
           \/ /\ ~(Len(all) < WinLen) /\ buf' = SubSeq(all, WinLen + 1, Len(all))
              /\ mutedWindow' = FALSE
              /\ Skipped \/ Decoded(SubSeq(all, 1, WinLen))
        /\ UNCHANGED <<kind, running, muted, capturing>>
    BY <1>9 DEF WindowChunk
  <2> HIDE DEF all
  <2>3. Len(buf) \in Nat /\ WinLen \in Nat
    BY <1>0, RxWorkerBounds
  <2>4. buf' \in Seq(BOOLEAN) /\ Len(buf') < WinLen
    <3>1. CASE Len(all) < WinLen /\ buf' = all
      BY ONLY <2>1, <3>1
    <3>2. CASE ~(Len(all) < WinLen) /\ buf' = SubSeq(all, WinLen + 1, Len(all))
      <4>1. Len(all) >= WinLen
        BY ONLY <1>0, <2>1, <2>3, <3>2
      <4>2. buf' \in Seq(BOOLEAN) /\ Len(buf') = Len(all) - WinLen
        BY ONLY <2>1, <3>2, <4>1
      <4>3. Len(buf') < WinLen
        BY ONLY <1>0, <2>1, <2>3, <4>2
      <4> QED BY <4>2, <4>3
    <3> QED BY <2>2, <3>1, <3>2
  <2>5. SentOK(sent') /\ frames' \in 0 .. FrameIds - 1 /\ pc' \in Places
    <3>1. <<>> \in Seq(BOOLEAN) /\ Len(<<>>) <= WinLen
      BY RxWorkerBounds
    <3>2. CASE Skipped
      BY <3>1, <3>2, DecodedTypes
    <3>3. CASE Decoded(SubSeq(all, 1, WinLen)) /\ ~(Len(all) < WinLen)
      <4>1. SubSeq(all, 1, WinLen) \in Seq(BOOLEAN) /\ Len(SubSeq(all, 1, WinLen)) <= WinLen
        BY <2>1, <2>3, <3>3
      <4> QED BY <3>3, <4>1, DecodedTypes
    <3> QED BY <2>2, <3>2, <3>3
  <2>6. {running', muted', capturing', mutedWindow'} \subseteq BOOLEAN
    BY <1>0, <2>2
  <2> QED BY <1>0, <1>4, <2>2, <2>4, <2>5, <2>6
<1>10. CASE Flush
  <2>1. chunks' \in Seq(ChunkLens) /\ Len(chunks') <= ChunkDepth
    BY <1>3, <1>10 DEF Flush
  <2>2. SentOK(sent') /\ frames' \in 0 .. FrameIds - 1 /\ pc' \in Places
    <3>1. CASE sent' = <<"frame", frames, buf>> /\ frames' = (frames + 1) % FrameIds
               /\ pc' = "lastMetrics"
      <4>1. frames' \in 0 .. FrameIds - 1
        BY <1>0, <3>1, SuccTypes DEF Succ
      <4>2. Len(buf) <= WinLen
        BY <1>0, RxWorkerBounds
      <4> QED BY <1>0, <3>1, <4>1, <4>2 DEF SentOK, Places
    <3>2. CASE sent' = <<>> /\ pc' = "ended" /\ frames' = frames
      BY <1>0, <1>2, <3>2 DEF Places
    <3> QED BY <1>10, <3>1, <3>2 DEF Flush
  <2> QED BY <1>0, <1>10, <2>1, <2>2 DEF Flush
<1> QED BY <1>5, <1>6, <1>7, <1>8, <1>9, <1>10 DEF WorkerNext, ThreadStep

-----------------------------------------------------------------------------
(* Types of the client's stream. *)

Numbers == 0 .. FrameIds - 1
Telemetry == {"metrics", "configured"}
Stages == {"new", "frames", "attached", "asked", "answered", "streaming", "lagged", "gone"}

LEMMA PushTypes ==
  ASSUME NEW S, NEW ring \in Seq(S), NEW n \in Nat \ {0}, Len(ring) <= n, NEW m \in S
  PROVE  Client!Push(ring, n, m) \in Seq(S) /\ Len(Client!Push(ring, n, m)) <= n
<1>0. Len(ring) \in Nat
  BY LenProperties
<1>1. CASE Len(ring) < n
  <2>1. Append(ring, m) \in Seq(S) /\ Len(Append(ring, m)) = Len(ring) + 1
    BY ONLY ring \in Seq(S), m \in S, AppendProperties
  <2>2. Client!Push(ring, n, m) = Append(ring, m)
    BY <1>1 DEF Client!Push
  <2> QED BY <1>0, <1>1, <2>1, <2>2
<1>2. CASE ~(Len(ring) < n)
  <2>1. Len(ring) = n /\ ring # <<>>
    BY <1>0, <1>2
  <2>2. Tail(ring) \in Seq(S) /\ Len(Tail(ring)) = Len(ring) - 1
    BY <2>1, HeadTailProperties
  <2>3. Append(Tail(ring), m) \in Seq(S) /\ Len(Append(Tail(ring), m)) = Len(ring)
    BY <1>0, <2>2, AppendProperties
  <2>4. Client!Push(ring, n, m) = Append(Tail(ring), m)
    BY <1>2 DEF Client!Push
  <2> QED BY <1>0, <2>1, <2>3, <2>4
<1> QED BY <1>1, <1>2

LEMMA SubTypeInit == Client!SubInit => Client!SubTypeOK
<1>1. Client!SubInit => /\ frameRing \in Seq(Numbers) /\ Len(frameRing) <= FrameRing
                        /\ teleRing \in Seq(Telemetry) /\ Len(teleRing) <= TeleRing
  BY RingBounds DEF Client!SubInit
<1>2. Client!SubInit => {frameLag, gap, teleLag, teleLost} \subseteq BOOLEAN
  BY DEF Client!SubInit
<1>3. Client!SubInit => /\ expected \in Numbers /\ {version, snapshot} \subseteq 0 .. MaxChanges
                        /\ announced \in Nat
  BY RingBounds, RxWorkerBounds DEF Client!SubInit, Numbers
<1>4. Client!SubInit => stream = "new"
  BY DEF Client!SubInit
<1> QED BY <1>1, <1>2, <1>3, <1>4 DEF Client!SubTypeOK, Numbers, Telemetry

LEMMA SubTypeStep ==
  ASSUME Client!SubTypeOK,
         \/ Client!SubNext \/ Client!SendNothing \/ Client!SendMetrics
         \/ \E f \in Numbers : Client!SendFrame(f)
  PROVE  Client!SubTypeOK'
<1>0. /\ stream \in Stages
      /\ frameRing \in Seq(Numbers) /\ Len(frameRing) <= FrameRing
      /\ teleRing \in Seq(Telemetry) /\ Len(teleRing) <= TeleRing
      /\ {frameLag, gap, teleLag, teleLost} \subseteq BOOLEAN
      /\ expected \in Numbers /\ {version, snapshot} \subseteq 0 .. MaxChanges
      /\ announced \in Nat
  BY DEF Client!SubTypeOK, Stages, Numbers, Telemetry
<1>1. SUFFICES /\ stream' \in Stages
               /\ frameRing' \in Seq(Numbers) /\ Len(frameRing') <= FrameRing
               /\ teleRing' \in Seq(Telemetry) /\ Len(teleRing') <= TeleRing
               /\ {frameLag', gap', teleLag', teleLost'} \subseteq BOOLEAN
               /\ expected' \in Numbers /\ {version', snapshot'} \subseteq 0 .. MaxChanges
               /\ announced' \in Nat
  BY DEF Client!SubTypeOK, Stages, Numbers, Telemetry
<1>2. FrameRing \in Nat \ {0} /\ TeleRing \in Nat \ {0} /\ MaxChanges \in Nat /\ 0 \in Numbers
  BY RingBounds, RxWorkerBounds DEF Numbers
<1>3. \A f \in Numbers : (f + 1) % FrameIds \in Numbers
  BY SuccTypes DEF Numbers, Succ
<1>4. ASSUME NEW t \in Telemetry, Client!SendTelemetry(t)
      PROVE  /\ teleRing' \in Seq(Telemetry) /\ Len(teleRing') <= TeleRing
             /\ {teleLag', teleLost'} \subseteq BOOLEAN
  <2>1. /\ Client!Push(teleRing, TeleRing, t) \in Seq(Telemetry)
        /\ Len(Client!Push(teleRing, TeleRing, t)) <= TeleRing
    BY <1>0, <1>2, PushTypes
  <2>2. (teleLag \/ Len(teleRing) = TeleRing) \in BOOLEAN
        /\ (teleLost \/ Len(teleRing) = TeleRing) \in BOOLEAN
    OBVIOUS
  <2> QED BY <1>0, <1>4, <2>1, <2>2 DEF Client!SendTelemetry
<1>5. ASSUME NEW how \in Stages, Client!EndStream(how)
      PROVE  /\ stream' \in Stages
             /\ frameRing' \in Seq(Numbers) /\ Len(frameRing') <= FrameRing
             /\ teleRing' \in Seq(Telemetry) /\ Len(teleRing') <= TeleRing
             /\ {frameLag', gap', teleLag', teleLost'} \subseteq BOOLEAN
             /\ expected' \in Numbers /\ {version', snapshot'} \subseteq 0 .. MaxChanges
             /\ announced' \in Nat
  <2>1. stream' = how /\ frameRing' = <<>> /\ teleRing' = <<>> /\ expected' = 0 /\ snapshot' = 0
        /\ announced' = 0 /\ version' = version
    BY <1>5 DEF Client!EndStream
  <2>2. {frameLag', gap', teleLag', teleLost'} \subseteq BOOLEAN
    BY <1>0, <1>5 DEF Client!EndStream
  <2> QED BY <1>0, <1>2, <2>1, <2>2
<1>6. CASE Client!SendNothing
  BY <1>0, <1>6 DEF Client!SendNothing, Client!subVars
<1>7. CASE Client!SendMetrics
  <2>1. Client!SendTelemetry("metrics")
    BY <1>7 DEF Client!SendMetrics
  <2>2. "metrics" \in Telemetry
    BY DEF Telemetry
  <2>3. /\ teleRing' \in Seq(Telemetry) /\ Len(teleRing') <= TeleRing
        /\ {teleLag', teleLost'} \subseteq BOOLEAN
    BY <1>4, <2>1, <2>2
  <2> QED BY <1>0, <1>7, <2>3 DEF Client!SendMetrics
<1>8. ASSUME NEW f \in Numbers, Client!SendFrame(f)
      PROVE  /\ frameRing' \in Seq(Numbers) /\ Len(frameRing') <= FrameRing
             /\ frameLag' \in BOOLEAN /\ expected' \in Numbers
             /\ UNCHANGED <<stream, gap, teleRing, teleLag, teleLost, version, snapshot, announced>>
  <2>1. /\ Client!Push(frameRing, FrameRing, f) \in Seq(Numbers)
        /\ Len(Client!Push(frameRing, FrameRing, f)) <= FrameRing
    BY <1>0, <1>2, PushTypes
  <2>2. (frameLag \/ Len(frameRing) = FrameRing) \in BOOLEAN
    OBVIOUS
  <2>3. frameRing' \in Seq(Numbers) /\ Len(frameRing') <= FrameRing /\ frameLag' \in BOOLEAN
    BY <1>0, <1>8, <2>1, <2>2 DEF Client!SendFrame
  <2>4. expected' \in Numbers
    BY <1>0, <1>3, <1>8 DEF Client!SendFrame
  <2> QED BY <1>8, <2>3, <2>4 DEF Client!SendFrame
<1>9. CASE Client!ConfigureChannel
  <2>1. Client!SendTelemetry("configured") /\ "configured" \in Telemetry
    BY <1>9 DEF Client!ConfigureChannel, Telemetry
  <2>2. /\ teleRing' \in Seq(Telemetry) /\ Len(teleRing') <= TeleRing
        /\ {teleLag', teleLost'} \subseteq BOOLEAN
    BY <1>4, <2>1
  <2>3. version' \in 0 .. MaxChanges
    BY <1>0, <1>2, <1>9 DEF Client!ConfigureChannel
  <2> QED BY <1>0, <1>9, <2>2, <2>3 DEF Client!ConfigureChannel
<1>10. CASE Client!AttachFrames \/ Client!AttachTelemetry \/ Client!GetState \/ Client!YieldSnapshot
  BY <1>0, <1>10 DEF Client!AttachFrames, Client!AttachTelemetry, Client!GetState,
                     Client!YieldSnapshot, Stages
<1>11. CASE Client!AskState
  <2>1. CASE stream' = "asked"
    BY <1>0, <1>5, <1>11, <2>1 DEF Client!AskState, Client!EndStream, Stages
  <2>2. CASE Client!EndStream("gone")
    BY <1>5, <2>2 DEF Stages
  <2> QED BY <1>11, <2>1, <2>2 DEF Client!AskState
<1>12. CASE Client!FrameLagged \/ Client!ClientLeaves
  BY <1>5, <1>12 DEF Client!FrameLagged, Client!ClientLeaves, Stages
<1>13. CASE Client!ReceiveFrame
  <2>1. Tail(frameRing) \in Seq(Numbers) /\ Len(Tail(frameRing)) <= FrameRing
        /\ Head(frameRing) \in Numbers
    <3>1. frameRing # <<>>
      BY <1>13 DEF Client!ReceiveFrame
    <3>2. Len(frameRing) \in Nat /\ Len(Tail(frameRing)) = Len(frameRing) - 1
          /\ Tail(frameRing) \in Seq(Numbers) /\ Head(frameRing) \in Numbers
      BY ONLY <1>0, <3>1, HeadTailProperties, LenProperties
    <3> QED BY <1>0, <1>2, <3>2
  <2>2. gap' \in BOOLEAN
    BY <1>13 DEF Client!ReceiveFrame
  <2> QED BY <1>0, <1>3, <1>13, <2>1, <2>2 DEF Client!ReceiveFrame
<1>14. CASE Client!ReceiveTelemetry
  <2>1. Tail(teleRing) \in Seq(Telemetry) /\ Len(Tail(teleRing)) <= TeleRing
    <3>1. teleRing # <<>>
      BY <1>14 DEF Client!ReceiveTelemetry
    <3>2. Len(teleRing) \in Nat /\ Len(Tail(teleRing)) = Len(teleRing) - 1
          /\ Tail(teleRing) \in Seq(Telemetry)
      BY ONLY <1>0, <3>1, HeadTailProperties, LenProperties
    <3> QED BY <1>0, <1>2, <3>2
  <2>2. announced' \in Nat
    BY <1>0, <1>14 DEF Client!ReceiveTelemetry
  <2>3. teleLag' \in BOOLEAN
    BY <1>0, <1>14 DEF Client!ReceiveTelemetry
  <2> QED BY <1>0, <1>14, <2>1, <2>2, <2>3 DEF Client!ReceiveTelemetry
<1> QED BY <1>0, <1>6, <1>7, <1>8, <1>9, <1>10, <1>11, <1>12, <1>13, <1>14
        DEF Client!SubNext, Client!StreamStep

LEMMA TypeInit == Init => TypeOK
BY WorkerTypeInit, SubTypeInit DEF Init, TypeOK

\* What the worker sends in a step is of a kind the rings take.
LEMMA SendKinds ==
  ASSUME WorkerTypeOK', Broadcast
  PROVE  \/ Client!SendNothing \/ Client!SendMetrics
         \/ \E f \in Numbers : sent' \notin {<<>>, <<"metrics">>} /\ f = sent'[2] /\ Client!SendFrame(f)
BY DEF WorkerTypeOK, Broadcast, Numbers

LEMMA TypeStep == TypeOK /\ [Next]_vars => TypeOK'
<1> SUFFICES ASSUME TypeOK, [Next]_vars PROVE TypeOK'
  OBVIOUS
<1>1. CASE WorkerMoves
  <2>1. WorkerTypeOK'
    BY <1>1, WorkerTypeStep DEF WorkerMoves, TypeOK
  <2>2. Client!SubTypeOK'
    BY <1>1, <2>1, SendKinds, SubTypeStep DEF WorkerMoves, TypeOK
  <2> QED BY <2>1, <2>2 DEF TypeOK
<1>2. CASE ClientMoves
  <2>1. WorkerTypeOK'
    BY <1>2 DEF ClientMoves, TypeOK, WorkerTypeOK
  <2>2. Client!SubTypeOK'
    BY <1>2, SubTypeStep DEF ClientMoves, TypeOK
  <2> QED BY <2>1, <2>2 DEF TypeOK
<1>3. CASE UNCHANGED vars
  BY <1>3 DEF vars, workerVars, Client!subVars, TypeOK, WorkerTypeOK, Client!SubTypeOK
<1> QED BY <1>1, <1>2, <1>3 DEF Next

\* The variables of the worker and of the client's stream keep their types, the
\* rings and the channel their bounds.
THEOREM FramePathTypes == Spec => []TypeOK
BY TypeInit, TypeStep, PTL DEF Spec

-----------------------------------------------------------------------------
(* Frames, without a gap. *)

\* Between the frame the client is to get next and the one the worker sends
\* next, the ring holds all the others, in order, unless it has lagged.
Chained(ring, first, next) ==
    /\ ring = <<>> => first = next
    /\ ring # <<>> => /\ ring[1] = first
                      /\ Succ(ring[Len(ring)]) = next
                      /\ \A i \in 1 .. Len(ring) - 1 : ring[i + 1] = Succ(ring[i])

InOrder ==
    /\ ~gap
    /\ stream = "new" => frameRing = <<>> /\ ~frameLag /\ expected = frames
    /\ Client!HearsFrames /\ ~frameLag => Chained(frameRing, expected, frames)

LEMMA ChainedAppend ==
  ASSUME NEW ring \in Seq(Numbers), NEW first, NEW next \in Numbers, Chained(ring, first, next)
  PROVE  Chained(Append(ring, next), first, Succ(next))
<1>1. /\ Len(ring) \in Nat /\ Append(ring, next) # <<>>
      /\ Len(Append(ring, next)) = Len(ring) + 1
      /\ \A i \in 1 .. Len(ring) : Append(ring, next)[i] = ring[i]
      /\ Append(ring, next)[Len(ring) + 1] = next
  BY AppendProperties, LenProperties
<1>2. ring # <<>> => Len(ring) >= 1
  BY EmptySeq
<1>3. ring = <<>> => Len(ring) = 0
  OBVIOUS
<1> DEFINE more == Append(ring, next)
<1> HIDE DEF more
<1>4. more[1] = first
  BY <1>1, <1>2, <1>3 DEF Chained, more
<1>5. Succ(more[Len(more)]) = Succ(next)
  BY <1>1 DEF more
<1>6. \A i \in 1 .. Len(more) - 1 : more[i + 1] = Succ(more[i])
  <2>1. SUFFICES ASSUME NEW i \in 1 .. Len(ring) PROVE more[i + 1] = Succ(more[i])
    BY <1>1 DEF more
  <2>2. CASE i = Len(ring)
    BY <1>1, <1>2, <2>2 DEF Chained, more
  <2>3. CASE i # Len(ring)
    <3>1. i \in 1 .. Len(ring) - 1 /\ i + 1 \in 1 .. Len(ring) /\ ring # <<>>
      BY <1>1, <1>3, <2>1, <2>3
    <3> QED BY <1>1, <3>1 DEF Chained, more
  <2> QED BY <2>2, <2>3
<1> QED BY <1>1, <1>4, <1>5, <1>6 DEF Chained, more

LEMMA ChainedTail ==
  ASSUME NEW ring \in Seq(Numbers), ring # <<>>, NEW first, NEW next, Chained(ring, first, next)
  PROVE  Chained(Tail(ring), Succ(first), next)
<1>1. /\ Len(ring) \in Nat /\ Len(ring) >= 1 /\ Tail(ring) \in Seq(Numbers)
      /\ Len(Tail(ring)) = Len(ring) - 1
      /\ \A i \in 1 .. Len(ring) - 1 : Tail(ring)[i] = ring[i + 1]
  BY HeadTailProperties, LenProperties, EmptySeq
<1> DEFINE rest == Tail(ring)
<1> HIDE DEF rest
<1>2. /\ ring[1] = first /\ Succ(ring[Len(ring)]) = next
      /\ \A i \in 1 .. Len(ring) - 1 : ring[i + 1] = Succ(ring[i])
  BY DEF Chained
<1>3. CASE rest = <<>>
  <2>0. Len(rest) = 0
    BY ONLY <1>3
  <2>1. Len(ring) \in Nat /\ Len(rest) = Len(ring) - 1
    BY ONLY <1>1 DEF rest
  <2>2. Len(ring) = 1
    BY ONLY <2>0, <2>1
  <2>3. Succ(first) = next
    BY <1>2, <2>2
  <2> QED BY <1>3, <2>3 DEF Chained, rest
<1>4. CASE rest # <<>>
  <2>1. Len(rest) >= 1
    BY <1>1, <1>4, EmptySeq DEF rest
  <2>2. rest[1] = Succ(first)
    BY <1>1, <1>2, <2>1 DEF rest
  <2>3. rest[Len(rest)] = ring[Len(ring)]
    BY <1>1, <2>1 DEF rest
  <2>4. \A i \in 1 .. Len(rest) - 1 : rest[i + 1] = Succ(rest[i])
    BY <1>1, <1>2, <2>1 DEF rest
  <2> QED BY <1>2, <1>4, <2>2, <2>3, <2>4 DEF Chained, rest
<1> QED BY <1>3, <1>4

\* A step of the worker takes the next number, and sends it, or sends no frame.
LEMMA FrameSent ==
  ASSUME WorkerNext
  PROVE  \/ sent' \in {<<>>, <<"metrics">>} /\ frames' = frames
         \/ sent' \notin {<<>>, <<"metrics">>} /\ sent'[2] = frames /\ frames' = Succ(frames)
<1>1. ASSUME NEW w, sent' = <<"frame", frames, w>>
      PROVE  sent' \notin {<<>>, <<"metrics">>} /\ sent'[2] = frames
  <2>1. Len(sent') = 3 /\ Len(<<>>) = 0 /\ Len(<<"metrics">>) = 1
    BY ONLY <1>1
  <2> QED BY ONLY <1>1, <2>1
<1>2. ASSUME NEW w, Decoded(w) \/ Skipped
      PROVE  \/ sent' = <<>> /\ frames' = frames
             \/ sent' = <<"frame", frames, w>> /\ frames' = Succ(frames)
  BY <1>2 DEF Decoded, Skipped, Succ
<1>3. CASE RigKeysOrUnkeys \/ Capture \/ CaptureEnds \/ DropWorker \/ CheckRunning
           \/ ReceiveTimesOut \/ ReceiveDisconnected \/ EmitMetrics
  BY <1>3 DEF RigKeysOrUnkeys, Capture, CaptureEnds, DropWorker, CheckRunning, ReceiveTimesOut,
              ReceiveDisconnected, EmitMetrics
<1>4. CASE StreamChunk
  <2>1. Decoded(<<>>) \/ Skipped
    BY <1>4 DEF StreamChunk
  <2> QED BY <1>1, <1>2, <2>1
<1>5. CASE WindowChunk
  <2>1. \E w : Decoded(w) \/ Skipped
    BY <1>5 DEF WindowChunk
  <2> QED BY <1>1, <1>2, <2>1
<1>6. CASE Flush
  <2>1. \/ sent' = <<"frame", frames, buf>> /\ frames' = Succ(frames)
        \/ sent' = <<>> /\ frames' = frames
    BY <1>6 DEF Flush, Succ
  <2> QED BY <1>1, <2>1
<1> QED BY <1>3, <1>4, <1>5, <1>6 DEF WorkerNext, ThreadStep

LEMMA InOrderInit == Init => InOrder
BY DEF Init, WorkerInit, Client!SubInit, InOrder, Client!HearsFrames, Chained

LEMMA InOrderStep == TypeOK /\ InOrder /\ [Next]_vars => InOrder'
<1> SUFFICES ASSUME TypeOK, InOrder, [Next]_vars PROVE InOrder'
  OBVIOUS
<1>0. /\ stream \in Stages /\ frameRing \in Seq(Numbers) /\ Len(frameRing) <= FrameRing
      /\ Len(frameRing) \in Nat /\ FrameRing \in Nat
      /\ expected \in Numbers /\ frames \in Numbers
  BY RingBounds DEF TypeOK, Client!SubTypeOK, WorkerTypeOK, Stages, Numbers
<1>1. ASSUME UNCHANGED <<stream, frameRing, frameLag, expected, gap, frames>> PROVE InOrder'
  BY <1>1 DEF InOrder, Client!HearsFrames
<1>2. ASSUME NEW how \in {"gone", "lagged"}, Client!EndStream(how) PROVE InOrder'
  BY <1>2 DEF Client!EndStream, InOrder, Client!HearsFrames
<1>3. ASSUME NEW f \in Numbers, Client!SendFrame(f), f = frames, frames' = Succ(frames)
      PROVE  InOrder'
  <2>1. ~gap' /\ stream' = stream
    BY <1>3 DEF Client!SendFrame, InOrder
  <2>2. stream = "new" => frameRing' = <<>> /\ ~frameLag' /\ expected' = frames'
    BY <1>3 DEF Client!SendFrame, InOrder, Client!HearsFrames, Succ
  <2>3. ASSUME Client!HearsFrames, ~frameLag'
        PROVE  Chained(frameRing', expected', frames')
    <3>1. ~frameLag /\ Len(frameRing) # FrameRing /\ expected' = expected
      BY <1>3, <2>3 DEF Client!SendFrame, Client!HearsFrames
    <3>2. frameRing' = Append(frameRing, frames)
      BY <1>0, <1>3, <2>3, <3>1 DEF Client!SendFrame, Client!Push
    <3>3. Chained(frameRing, expected, frames)
      BY <2>3, <3>1 DEF InOrder
    <3> QED BY <1>0, <1>3, <3>1, <3>2, <3>3, ChainedAppend
  <2>4. Client!HearsFrames' = Client!HearsFrames
    BY <2>1 DEF Client!HearsFrames
  <2> QED BY <2>1, <2>2, <2>3, <2>4 DEF InOrder
<1>4. CASE WorkerMoves
  <2>1. CASE sent' \in {<<>>, <<"metrics">>}
    <3>1. frames' = frames
      BY <1>4, <2>1, FrameSent DEF WorkerMoves
    <3>2. UNCHANGED <<stream, frameRing, frameLag, expected, gap>>
      BY <1>4, <2>1 DEF WorkerMoves, Broadcast, Client!SendNothing, Client!SendMetrics,
             Client!subVars
    <3> QED BY <1>1, <3>1, <3>2
  <2>2. CASE sent' \notin {<<>>, <<"metrics">>}
    <3>1. frames' = Succ(frames) /\ sent'[2] = frames
      BY <1>4, <2>2, FrameSent DEF WorkerMoves
    <3>2. Client!SendFrame(frames)
      BY <1>4, <2>2, <3>1 DEF WorkerMoves, Broadcast
    <3> QED BY <1>0, <1>3, <3>1, <3>2
  <2> QED BY <2>1, <2>2
<1>5. CASE ClientMoves
  <2>0. frames' = frames
    BY <1>5 DEF ClientMoves
  <2>1. CASE Client!ConfigureChannel
    BY <1>1, <2>0, <2>1 DEF Client!ConfigureChannel
  <2>2. CASE Client!AttachFrames
    <3>1. stream = "new" /\ stream' = "frames"
          /\ UNCHANGED <<frameRing, frameLag, expected, gap>>
      BY <2>2 DEF Client!AttachFrames
    <3> QED BY <2>0, <3>1 DEF InOrder, Chained
  <2>3. CASE Client!AttachTelemetry \/ Client!GetState \/ Client!YieldSnapshot
    BY <2>0, <2>3 DEF Client!AttachTelemetry, Client!GetState, Client!YieldSnapshot, InOrder,
                      Client!HearsFrames
  <2>4. CASE Client!AskState
    <3>1. CASE Client!EndStream("gone")
      BY <1>2, <3>1
    <3>2. CASE stream' = "asked" /\ UNCHANGED <<frameRing, frameLag, expected, gap>>
      BY <2>0, <2>4, <3>2 DEF Client!AskState, InOrder, Client!HearsFrames
    <3> QED BY <2>4, <3>1, <3>2 DEF Client!AskState
  <2>5. CASE Client!FrameLagged \/ Client!ClientLeaves
    BY <1>2, <2>5 DEF Client!FrameLagged, Client!ClientLeaves
  <2>6. CASE Client!ReceiveTelemetry
    BY <1>1, <2>0, <2>6 DEF Client!ReceiveTelemetry
  <2>7. CASE Client!ReceiveFrame
    <3>1. /\ stream = "streaming" /\ frameRing # <<>> /\ ~frameLag
          /\ stream' = stream /\ frameLag' = frameLag /\ frameRing' = Tail(frameRing)
          /\ gap' = (gap \/ Head(frameRing) # expected)
          /\ expected' = Succ(Head(frameRing))
      BY <2>7 DEF Client!ReceiveFrame, Succ
    <3>2. Chained(frameRing, expected, frames)
      BY <3>1 DEF InOrder, Client!HearsFrames
    <3>3. Head(frameRing) = expected
      BY <1>0, <3>1, <3>2 DEF Chained
    <3>4. ~gap'
      BY <3>1, <3>3 DEF InOrder
    <3>5. Chained(frameRing', expected', frames')
      BY <1>0, <2>0, <3>1, <3>2, <3>3, ChainedTail
    <3> QED BY <3>1, <3>4, <3>5 DEF InOrder
  <2> QED BY <1>5, <2>1, <2>2, <2>3, <2>4, <2>5, <2>6, <2>7
          DEF ClientMoves, Client!SubNext, Client!StreamStep
<1>6. CASE UNCHANGED vars
  BY <1>1, <1>6 DEF vars, workerVars, Client!subVars
<1> QED BY <1>4, <1>5, <1>6 DEF Next

\* Every frame decoded after the client subscribed is handed to it, once and in
\* order, or the stream ends: a ring that has lagged ends it before another
\* frame is taken.
THEOREM NoFrameMissing == Spec => []FramesLossless
<1>1. InOrder => FramesLossless
  BY DEF InOrder, FramesLossless, Client!FramesLossless
<1> QED BY <1>1, TypeInit, TypeStep, InOrderInit, InOrderStep, PTL DEF Spec

-----------------------------------------------------------------------------
(* The grid of the windows, and what of a transmission they may hold. *)

\* What is buffered is what the window that is being received has so far.
OnGrid == kind = "windowed" => Len(buf) = phase

LEMMA OnGridInit == Init => OnGrid
BY DEF Init, WorkerInit, OnGrid

\* The samples a windowed worker has when it has taken a chunk.
Received == buf \o [i \in 1 .. Head(chunks) |-> muted]

\* What a chunk does to a windowed worker: it fits into the window, or it
\* completes it and begins the next.
LEMMA ChunkCases ==
  ASSUME WorkerTypeOK, WindowChunk
  PROVE  /\ Received \in Seq(BOOLEAN) /\ Len(Received) = Len(buf) + Head(chunks)
         /\ Head(chunks) \in ChunkLens /\ Head(chunks) \in 1 .. WinLen
         /\ Len(buf) \in Nat /\ Len(buf) < WinLen /\ WinLen \in Nat
         /\ \A i \in 1 .. Len(buf) : Received[i] = buf[i]
         /\ \A i \in Len(buf) + 1 .. Len(Received) : Received[i] = muted
         /\ \/ /\ Len(Received) < WinLen /\ buf' = Received
               /\ mutedWindow' = (mutedWindow \/ muted)
               /\ sent' = <<>>
            \/ /\ Len(Received) >= WinLen /\ buf' = SubSeq(Received, WinLen + 1, Len(Received))
               /\ Len(buf') = Len(Received) - WinLen
               /\ \A i \in 1 .. Len(Received) - WinLen : buf'[i] = Received[WinLen + i]
               /\ mutedWindow' = FALSE
               /\ \/ sent' = <<>>
                  \/ ~mutedWindow /\ ~muted
                     /\ sent' = <<"frame", frames, SubSeq(Received, 1, WinLen)>>
               /\ Len(SubSeq(Received, 1, WinLen)) = WinLen
               /\ \A i \in 1 .. WinLen : SubSeq(Received, 1, WinLen)[i] = Received[i]
<1>1. /\ chunks # <<>>
      /\ \/ /\ Len(Received) < WinLen /\ buf' = Received /\ Skipped
            /\ mutedWindow' = (mutedWindow \/ muted)
         \/ /\ ~(Len(Received) < WinLen) /\ buf' = SubSeq(Received, WinLen + 1, Len(Received))
            /\ mutedWindow' = FALSE
            /\ \/ Skipped
               \/ ~mutedWindow /\ ~muted /\ Decoded(SubSeq(Received, 1, WinLen))
  <2>1. /\ chunks # <<>>
        /\ IF Len(Received) < WinLen
           THEN buf' = Received /\ mutedWindow' = (mutedWindow \/ muted) /\ Skipped
           ELSE /\ buf' = SubSeq(Received, WinLen + 1, Len(Received))
                /\ mutedWindow' = FALSE
                /\ IF mutedWindow \/ muted THEN Skipped
                   ELSE Decoded(SubSeq(Received, 1, WinLen))
    BY Zenon DEF WindowChunk, Received
  <2>2. CASE Len(Received) < WinLen
    BY ONLY <2>1, <2>2
  <2>3. CASE ~(Len(Received) < WinLen) /\ (mutedWindow \/ muted)
    BY ONLY <2>1, <2>3, Zenon
  <2>4. CASE ~(Len(Received) < WinLen) /\ ~(mutedWindow \/ muted)
    BY ONLY <2>1, <2>4, Zenon
  <2> QED BY <2>1, <2>2, <2>3, <2>4
<1>2. /\ Head(chunks) \in 1 .. WinLen
      /\ Received \in Seq(BOOLEAN) /\ Len(Received) = Len(buf) + Head(chunks)
  BY <1>1, WindowTypes DEF Received
<1>3. /\ buf \in Seq(BOOLEAN) /\ muted \in BOOLEAN /\ Len(buf) \in Nat /\ Len(buf) < WinLen
      /\ WinLen \in Nat /\ 1 <= WinLen /\ Head(chunks) \in ChunkLens
  BY <1>1, RxWorkerBounds, LenProperties DEF WorkerTypeOK
<1> DEFINE more == [i \in 1 .. Head(chunks) |-> muted]
<1>4. /\ more \in Seq(BOOLEAN) /\ Len(more) = Head(chunks)
      /\ \A i \in 1 .. Head(chunks) : more[i] = muted
  <2>1. \A i \in 1 .. Head(chunks) : more[i] = muted
    OBVIOUS
  <2>2. more \in Seq(BOOLEAN) /\ Len(more) = Head(chunks)
    BY SMTT(20), <1>2, <1>3
  <2> QED BY <2>1, <2>2
<1>5. Received = buf \o more
  BY DEF Received
<1> HIDE DEF more
<1>6. /\ \A i \in 1 .. Len(buf) : Received[i] = buf[i]
      /\ \A i \in Len(buf) + 1 .. Len(Received) : Received[i] = muted
  <2>1. \A i \in 1 .. Len(buf) + Len(more) :
            Received[i] = IF i <= Len(buf) THEN buf[i] ELSE more[i - Len(buf)]
    BY ONLY <1>3, <1>4, <1>5, ConcatProperties
  <2>2. ASSUME NEW i \in 1 .. Len(buf) PROVE Received[i] = buf[i]
    <3>1. i \in 1 .. Len(buf) + Len(more) /\ i <= Len(buf)
      BY ONLY <1>2, <1>3, <1>4, <2>2
    <3> QED BY ONLY <2>1, <3>1
  <2>3. ASSUME NEW i \in Len(buf) + 1 .. Len(Received) PROVE Received[i] = muted
    <3>1. i \in 1 .. Len(buf) + Len(more) /\ ~(i <= Len(buf))
          /\ i - Len(buf) \in 1 .. Head(chunks)
      BY ONLY <1>2, <1>3, <1>4, <2>3
    <3> QED BY ONLY <1>4, <2>1, <3>1
  <2> QED BY <2>2, <2>3
<1>7. CASE Len(Received) < WinLen
  BY <1>1, <1>2, <1>3, <1>6, <1>7 DEF Skipped
<1>8. CASE ~(Len(Received) < WinLen)
  <2>1. Len(Received) \in Nat /\ Len(Received) >= WinLen
    BY ONLY <1>2, <1>3, <1>8
  <2>2. /\ Len(SubSeq(Received, WinLen + 1, Len(Received))) = Len(Received) - WinLen
        /\ \A i \in 1 .. Len(Received) - WinLen :
             SubSeq(Received, WinLen + 1, Len(Received))[i] = Received[WinLen + i]
        /\ Len(SubSeq(Received, 1, WinLen)) = WinLen
        /\ \A i \in 1 .. WinLen : SubSeq(Received, 1, WinLen)[i] = Received[i]
    <3>1. \A i \in 1 .. Len(Received) : Received[i] \in BOOLEAN
      BY ONLY <1>2
    <3>2. /\ Len(SubSeq(Received, 1, WinLen)) = WinLen
          /\ \A i \in 1 .. WinLen : SubSeq(Received, 1, WinLen)[i] = Received[1 + i - 1]
      BY ONLY <1>3, <2>1, <3>1, SubSeqProperties
    <3>3. /\ Len(SubSeq(Received, WinLen + 1, Len(Received))) = Len(Received) - WinLen
          /\ \A i \in 1 .. Len(Received) - WinLen :
               SubSeq(Received, WinLen + 1, Len(Received))[i] = Received[WinLen + 1 + i - 1]
      BY ONLY <1>3, <2>1, <3>1, SubSeqProperties
    <3> QED BY ONLY <1>3, <2>1, <3>2, <3>3
  <2>3. /\ buf' = SubSeq(Received, WinLen + 1, Len(Received)) /\ mutedWindow' = FALSE
        /\ \/ sent' = <<>>
           \/ ~mutedWindow /\ ~muted /\ sent' = <<"frame", frames, SubSeq(Received, 1, WinLen)>>
    BY <1>1, <1>8 DEF Skipped, Decoded
  <2> QED BY <1>2, <1>3, <1>6, <2>1, <2>2, <2>3
<1> QED BY <1>7, <1>8

LEMMA OnGridStep == TypeOK /\ OnGrid /\ [Next]_vars => OnGrid'
<1> SUFFICES ASSUME TypeOK, OnGrid, [Next]_vars PROVE OnGrid'
  OBVIOUS
<1>1. ASSUME UNCHANGED <<kind, buf, phase>> PROVE OnGrid'
  BY <1>1 DEF OnGrid
<1>2. CASE WindowChunk
  <2>1. /\ Head(chunks) \in 1 .. WinLen /\ Len(Received) = Len(buf) + Head(chunks)
        /\ \/ Len(Received) < WinLen /\ buf' = Received
           \/ Len(Received) >= WinLen /\ Len(buf') = Len(Received) - WinLen
    BY <1>2, ChunkCases DEF TypeOK
  <2>2. /\ phase' = (phase + Head(chunks)) % WinLen
        /\ phase \in 0 .. WinLen - 1 /\ Len(buf) = phase
    BY <1>2 DEF WindowChunk, TypeOK, WorkerTypeOK, OnGrid
  <2>3. WinLen \in Nat
    BY RxWorkerBounds
  <2>4. CASE Len(Received) < WinLen /\ buf' = Received
    <3>0. phase + Head(chunks) < WinLen
      BY <2>1, <2>2, <2>4
    <3>1. phase' = phase + Head(chunks)
      BY <2>1, <2>2, <3>0, PhaseOnce
    <3> QED BY <2>1, <2>2, <2>4, <3>1 DEF OnGrid
  <2>5. CASE Len(Received) >= WinLen /\ Len(buf') = Len(Received) - WinLen
    <3>0. phase + Head(chunks) >= WinLen
      BY <2>1, <2>2, <2>5
    <3>1. phase' = phase + Head(chunks) - WinLen
      BY <2>1, <2>2, <3>0, PhaseOnce
    <3>2. Len(buf') = phase'
      BY ONLY <2>1, <2>2, <2>3, <2>5, <3>1
    <3> QED BY <3>2 DEF OnGrid
  <2> QED BY <2>1, <2>4, <2>5
<1>3. CASE StreamChunk
  BY <1>3 DEF StreamChunk, OnGrid
<1>4. CASE WorkerNext /\ ~WindowChunk /\ ~StreamChunk
  BY <1>1, <1>4 DEF WorkerNext, ThreadStep, RigKeysOrUnkeys, Capture, CaptureEnds, DropWorker,
         CheckRunning, ReceiveTimesOut, ReceiveDisconnected, EmitMetrics, Flush
<1>5. CASE ClientMoves \/ UNCHANGED vars
  BY <1>1, <1>5 DEF ClientMoves, vars, workerVars
<1> QED BY <1>2, <1>3, <1>4, <1>5 DEF Next, WorkerMoves

\* Muting does not move the windows: their grid is that of the audio received
\* since the capture began.
THEOREM MutingKeepsGrid == Spec => []WindowsKeepGrid
<1>1. OnGrid => WindowsKeepGrid
  BY DEF OnGrid, WindowsKeepGrid
<1> QED BY <1>1, TypeInit, TypeStep, OnGridInit, OnGridStep, PTL DEF Spec

\* Samples of a transmission are at the front, and fewer than one chunk.
Leading(w) ==
    \A i \in 1 .. Len(w) :
        w[i] => /\ \A j \in 1 .. i : w[j]
                /\ \E n \in ChunkLens : i < n

\* A window that is not marked holds of a transmission the rest of one chunk,
\* and only a windowed worker marks any.
Spilled ==
    /\ ~mutedWindow => Leading(buf)
    /\ mutedWindow => kind = "windowed"
    /\ Leading(Window)

LEMMA NothingLeads == Leading(<<>>)
BY DEF Leading

LEMMA SpilledInit == Init => Spilled
BY NothingLeads DEF Init, WorkerInit, Spilled, Window

\* Audio received with the rig silent leaves a spill as it is.
LEMMA SilenceKeepsLeading ==
  ASSUME NEW w \in Seq(BOOLEAN), Leading(w), NEW more \in Seq(BOOLEAN), Len(more) >= Len(w),
         \A i \in 1 .. Len(w) : more[i] = w[i],
         \A i \in Len(w) + 1 .. Len(more) : ~more[i]
  PROVE  Leading(more)
<1> SUFFICES ASSUME NEW i \in 1 .. Len(more), more[i]
             PROVE  (\A j \in 1 .. i : more[j]) /\ \E n \in ChunkLens : i < n
  BY DEF Leading
<1>1. Len(w) \in Nat /\ Len(more) \in Nat
  BY LenProperties
<1>2. i \in 1 .. Len(w)
  BY <1>1
<1>3. w[i] /\ \A j \in 1 .. i : j \in 1 .. Len(w)
  BY <1>1, <1>2
<1> QED BY <1>2, <1>3 DEF Leading

LEMMA SpilledStep == TypeOK /\ Spilled /\ [Next]_vars => Spilled'
<1> SUFFICES ASSUME TypeOK, Spilled, [Next]_vars PROVE Spilled'
  OBVIOUS
<1>0. WorkerTypeOK /\ kind \in {"streaming", "windowed"}
  BY RxWorkerBounds DEF TypeOK, WorkerTypeOK
<1>1. ASSUME UNCHANGED <<kind, buf, mutedWindow>>, sent' \in {<<>>, <<"metrics">>}
      PROVE  Spilled'
  BY <1>1, NothingLeads DEF Spilled, Window, Leading
<1>2. ASSUME UNCHANGED <<kind, buf, mutedWindow>>, NEW w, sent' = <<"frame", frames, w>>, Leading(w)
      PROVE  Spilled'
  <2>1. Len(sent') = 3 /\ Len(<<>>) = 0 /\ Len(<<"metrics">>) = 1 /\ sent'[3] = w
    BY ONLY <1>2
  <2>2. sent' \notin {<<>>, <<"metrics">>}
    BY ONLY <2>1
  <2>3. Window' = w
    BY <2>1, <2>2 DEF Window
  <2> QED BY <1>2, <2>3 DEF Spilled, Leading
<1>3. CASE WindowChunk
  <2>1. /\ Received \in Seq(BOOLEAN) /\ Len(Received) = Len(buf) + Head(chunks)
        /\ Head(chunks) \in ChunkLens /\ Head(chunks) \in 1 .. WinLen
        /\ Len(buf) \in Nat /\ Len(buf) < WinLen /\ WinLen \in Nat
        /\ \A i \in 1 .. Len(buf) : Received[i] = buf[i]
        /\ \A i \in Len(buf) + 1 .. Len(Received) : Received[i] = muted
    BY <1>0, <1>3, ChunkCases
  <2>2. \/ /\ Len(Received) < WinLen /\ buf' = Received
           /\ mutedWindow' = (mutedWindow \/ muted)
           /\ sent' = <<>>
        \/ /\ Len(Received) >= WinLen /\ Len(buf') = Len(Received) - WinLen
           /\ \A i \in 1 .. Len(Received) - WinLen : buf'[i] = Received[WinLen + i]
           /\ mutedWindow' = FALSE
           /\ \/ sent' = <<>>
              \/ ~mutedWindow /\ ~muted
                 /\ sent' = <<"frame", frames, SubSeq(Received, 1, WinLen)>>
           /\ SubSeq(Received, 1, WinLen) \in Seq(BOOLEAN)
           /\ Len(SubSeq(Received, 1, WinLen)) = WinLen
           /\ \A i \in 1 .. WinLen : SubSeq(Received, 1, WinLen)[i] = Received[i]
    BY <1>0, <1>3, ChunkCases, WindowTypes DEF WindowChunk, Received
  <2>3. buf \in Seq(BOOLEAN) /\ kind' = kind /\ kind = "windowed"
    BY <1>0, <1>3 DEF WindowChunk, WorkerTypeOK
  <2>4. ASSUME ~mutedWindow, ~muted PROVE Leading(Received)
    BY <2>1, <2>3, <2>4, SilenceKeepsLeading DEF Spilled
  <2>5. CASE Len(Received) < WinLen
    <3>0. buf' = Received /\ mutedWindow' = (mutedWindow \/ muted) /\ sent' = <<>>
      BY <2>1, <2>2, <2>5
    <3>1. Window' = <<>> /\ (~mutedWindow' => Leading(buf'))
      BY <2>4, <3>0 DEF Window
    <3> QED BY <2>3, <3>1, NothingLeads DEF Spilled, Leading
  <2>6. CASE Len(Received) >= WinLen
    <3>1. Leading(buf')
      <4>1. SUFFICES ASSUME NEW i \in 1 .. Len(buf'), buf'[i]
                     PROVE  (\A j \in 1 .. i : buf'[j]) /\ \E n \in ChunkLens : i < n
        BY DEF Leading
      <4>2. /\ Len(buf') = Len(buf) + Head(chunks) - WinLen
            /\ \A j \in 1 .. Len(buf') : buf'[j] = Received[WinLen + j]
        <5>1. /\ Len(buf') = Len(Received) - WinLen
              /\ \A j \in 1 .. Len(Received) - WinLen : buf'[j] = Received[WinLen + j]
          BY <2>1, <2>2, <2>6
        <5> QED BY ONLY <2>1, <5>1
      <4>3. i < Head(chunks) /\ \A j \in 1 .. i : j \in 1 .. Len(buf')
        BY ONLY <2>1, <4>2, i \in 1 .. Len(buf')
      <4>4. \A j \in 1 .. Len(buf') : buf'[j] = muted
        <5>1. \A j \in 1 .. Len(buf') : WinLen + j \in Len(buf) + 1 .. Len(Received)
          BY ONLY <2>1, <4>2
        <5> QED BY ONLY <2>1, <4>2, <5>1
      <4>5. muted /\ \A j \in 1 .. i : buf'[j]
        BY <4>1, <4>3, <4>4
      <4> QED BY <2>1, <4>3, <4>5
    <3>2. Leading(Window')
      <4>1. CASE sent' = <<>>
        BY <4>1, NothingLeads DEF Window
      <4>2. CASE ~mutedWindow /\ ~muted /\ sent' = <<"frame", frames, SubSeq(Received, 1, WinLen)>>
        <5> DEFINE w == SubSeq(Received, 1, WinLen)
        <5>1. /\ w \in Seq(BOOLEAN) /\ Len(w) = WinLen
              /\ \A i \in 1 .. WinLen : w[i] = Received[i]
          BY <2>1, <2>2, <2>6
        <5>2. sent' = <<"frame", frames, w>>
          BY <4>2
        <5> HIDE DEF w
        <5>3. Window' = w
          <6>1. Len(sent') = 3 /\ Len(<<>>) = 0 /\ Len(<<"metrics">>) = 1 /\ sent'[3] = w
            BY ONLY <5>2
          <6>2. sent' \notin {<<>>, <<"metrics">>}
            BY ONLY <6>1
          <6> QED BY <6>1, <6>2 DEF Window
        <5>4. /\ \A i \in 1 .. Len(buf) : w[i] = buf[i]
              /\ \A i \in Len(buf) + 1 .. Len(w) : ~w[i]
              /\ Len(w) >= Len(buf)
          <6>1. Len(w) >= Len(buf)
            BY <2>1, <5>1
          <6>2. ASSUME NEW i \in 1 .. Len(buf) PROVE w[i] = buf[i]
            <7>1. i \in 1 .. WinLen
              BY <2>1
            <7> QED BY <2>1, <5>1, <7>1
          <6>3. ASSUME NEW i \in Len(buf) + 1 .. Len(w) PROVE ~w[i]
            <7>1. i \in 1 .. WinLen /\ i \in Len(buf) + 1 .. Len(Received)
              BY ONLY <2>1, <2>6, <5>1, <6>3
            <7>2. w[i] = muted
              BY ONLY <2>1, <5>1, <7>1
            <7> QED BY <4>2, <7>2
          <6> QED BY <6>1, <6>2, <6>3
        <5>5. Leading(w)
          BY <2>3, <4>2, <5>1, <5>4, SilenceKeepsLeading DEF Spilled
        <5> QED BY <5>3, <5>5
      <4> QED BY <2>1, <2>2, <2>6, <4>1, <4>2
    <3>3. ~mutedWindow'
      BY <2>1, <2>2, <2>6
    <3> QED BY <2>3, <3>1, <3>2, <3>3 DEF Spilled, Leading
  <2> QED BY <2>1, <2>5, <2>6
<1>4. CASE Flush
  <2>1. UNCHANGED <<kind, buf, mutedWindow>>
    BY <1>4 DEF Flush
  <2>2. CASE sent' = <<>>
    BY <1>1, <2>1, <2>2
  <2>3. CASE sent' = <<"frame", frames, buf>> /\ (kind = "windowed" => ~mutedWindow)
    <3>1. Leading(buf)
      BY <1>0, <2>3 DEF Spilled
    <3> QED BY <1>2, <2>1, <2>3, <3>1
  <2> QED BY <1>4, <2>2, <2>3 DEF Flush
<1>5. CASE StreamChunk
  <2>1. UNCHANGED <<kind, buf, mutedWindow>>
    BY <1>5 DEF StreamChunk
  <2>2. sent' = <<"frame", frames, <<>>>> \/ sent' = <<>>
    BY <1>5 DEF StreamChunk, Decoded, Skipped
  <2> QED BY <1>1, <1>2, <2>1, <2>2, NothingLeads
<1>6. CASE WorkerNext /\ ~WindowChunk /\ ~StreamChunk /\ ~Flush
  <2>1. UNCHANGED <<kind, buf, mutedWindow>> /\ sent' \in {<<>>, <<"metrics">>}
    BY <1>6 DEF WorkerNext, ThreadStep, RigKeysOrUnkeys, Capture, CaptureEnds, DropWorker,
         CheckRunning, ReceiveTimesOut, ReceiveDisconnected, EmitMetrics
  <2> QED BY <1>1, <2>1
<1>7. CASE ClientMoves
  BY <1>1, <1>7 DEF ClientMoves
<1>8. CASE UNCHANGED vars
  BY <1>8 DEF vars, workerVars, Spilled, Leading, Window
<1> QED BY <1>3, <1>4, <1>5, <1>6, <1>7, <1>8 DEF Next, WorkerMoves

\* Of the rig's own transmission, a window that is decoded holds no more than
\* the end of one chunk that began in the window before.
THEOREM SpillIsOneChunk == Spec => []OnlyLeadingSpill
<1>1. Spilled => OnlyLeadingSpill
  BY DEF Spilled, Leading, OnlyLeadingSpill
<1> QED BY <1>1, TypeInit, TypeStep, SpilledInit, SpilledStep, PTL DEF Spec

-----------------------------------------------------------------------------
(* What a client is told of the configuration. *)

Changes(ring) == Cardinality({i \in 1 .. Len(ring) : ring[i] = "configured"})

LEMMA AnnouncedIs == Client!Announced = announced + Changes(teleRing)
BY DEF Client!Announced, Changes, Client!Cardinality, Cardinality

LEMMA ChangesTypes ==
  ASSUME NEW S, NEW ring \in Seq(S)
  PROVE  /\ IsFiniteSet({i \in 1 .. Len(ring) : ring[i] = "configured"})
         /\ Changes(ring) \in Nat
<1>1. IsFiniteSet(1 .. Len(ring))
  BY FS_Interval, LenProperties
<1> DEFINE C == {i \in 1 .. Len(ring) : ring[i] = "configured"}
<1>2. C \in SUBSET (1 .. Len(ring))
  OBVIOUS
<1> HIDE DEF C
<1>3. IsFiniteSet(C) /\ Cardinality(C) \in Nat
  BY <1>1, <1>2, FS_Subset, FS_CardinalityType
<1> QED BY <1>3 DEF C, Changes

LEMMA ChangesAppend ==
  ASSUME NEW S, NEW ring \in Seq(S), NEW m \in S
  PROVE  Changes(Append(ring, m)) = Changes(ring) + (IF m = "configured" THEN 1 ELSE 0)
<1> DEFINE more == Append(ring, m)
           n == Len(ring)
           C == {i \in 1 .. n : ring[i] = "configured"}
           D == {i \in 1 .. Len(more) : more[i] = "configured"}
<1>1. /\ n \in Nat /\ Len(more) = n + 1
      /\ \A i \in 1 .. n : more[i] = ring[i] /\ more[n + 1] = m
  BY AppendProperties, LenProperties
<1>2. IsFiniteSet(C) /\ Cardinality(C) \in Nat
  BY ChangesTypes DEF Changes
<1>3. more[n + 1] = m
  BY AppendProperties, LenProperties
<1>4. n + 1 \notin C
  BY <1>1
<1> HIDE DEF more, n
<1>5. CASE m = "configured"
  <2>1. D = C \cup {n + 1}
    BY <1>1, <1>3, <1>5
  <2> HIDE DEF C, D
  <2>2. Cardinality(D) = Cardinality(C) + 1
    BY <1>2, <1>4, <2>1, FS_AddElement
  <2> QED BY <1>5, <2>2 DEF Changes, C, D, more, n
<1>6. CASE m # "configured"
  <2>1. D = C
    BY <1>1, <1>3, <1>6
  <2>2. Changes(Append(ring, m)) = Cardinality(D) /\ Changes(ring) = Cardinality(C)
    BY DEF Changes, C, D, more, n
  <2>3. Cardinality(C) + 0 = Cardinality(C)
    BY <1>2
  <2> HIDE DEF C, D
  <2> QED BY <1>6, <2>1, <2>2, <2>3
<1> QED BY <1>5, <1>6

LEMMA ChangesTail ==
  ASSUME NEW S, NEW ring \in Seq(S), ring # <<>>
  PROVE  Changes(ring) = Changes(Tail(ring)) + (IF Head(ring) = "configured" THEN 1 ELSE 0)
<1> DEFINE rest == Tail(ring)
           n == Len(ring)
           C == {i \in 1 .. n : ring[i] = "configured"}
           D == {i \in 1 .. Len(rest) : rest[i] = "configured"}
           f == [i \in D |-> i + 1]
<1>1. /\ n \in Nat /\ n >= 1 /\ Len(rest) = n - 1 /\ rest \in Seq(S)
      /\ \A i \in 1 .. n - 1 : rest[i] = ring[i + 1]
  BY HeadTailProperties, LenProperties, EmptySeq
<1>2. Head(ring) = ring[1]
  OBVIOUS
<1>3. IsFiniteSet(C) /\ IsFiniteSet(D) /\ Cardinality(D) \in Nat /\ Cardinality(C) \in Nat
  BY <1>1, ChangesTypes DEF Changes
<1> HIDE DEF rest, n
<1>4. f \in Bijection(D, C \ {1})
  <2>1. \A i \in D : i + 1 \in C \ {1}
    BY <1>1
  <2>2. \A j \in C \ {1} : j - 1 \in D /\ j - 1 + 1 = j
    <3> SUFFICES ASSUME NEW j \in C \ {1} PROVE j - 1 \in D /\ j - 1 + 1 = j
      OBVIOUS
    <3>1. j - 1 \in 1 .. n - 1 /\ j - 1 + 1 = j
      BY <1>1
    <3> QED BY <1>1, <3>1
  <2>3. \A i \in D, j \in D : i + 1 = j + 1 => i = j
    BY <1>1
  <2> HIDE DEF C, D
  <2> QED BY <2>1, <2>2, <2>3 DEF Bijection, Injection, Surjection, IsInjective
<1> HIDE DEF f
<1>5. Cardinality(C \ {1}) = Cardinality(D)
  <2> HIDE DEF C, D
  <2> QED BY <1>3, <1>4, FS_Bijection DEF ExistsBijection
<1>6. 1 \in C <=> Head(ring) = "configured"
  BY <1>1, <1>2
<1>7. Cardinality(C \ {1}) = IF 1 \in C THEN Cardinality(C) - 1 ELSE Cardinality(C)
  <2> HIDE DEF C
  <2> QED BY <1>3, FS_RemoveElement
<1> HIDE DEF C, D
<1>8. Cardinality(C) = Cardinality(D) + (IF Head(ring) = "configured" THEN 1 ELSE 0)
  BY <1>3, <1>5, <1>6, <1>7
<1> QED BY <1>8 DEF Changes, C, D, rest, n

\* Once the core has answered, a change is in the snapshot, has been announced
\* or is on its way.
Announces ==
    stream \in {"answered", "streaming"} /\ ~teleLost =>
        version - snapshot <= announced + Changes(teleRing)

LEMMA AnnouncesStep == TypeOK /\ Announces /\ [Next]_vars => Announces'
<1> SUFFICES ASSUME TypeOK, Announces, [Next]_vars PROVE Announces'
  OBVIOUS
<1>0. /\ stream \in Stages /\ teleRing \in Seq(Telemetry) /\ Len(teleRing) <= TeleRing
      /\ Len(teleRing) \in Nat /\ TeleRing \in Nat /\ teleLost \in BOOLEAN
      /\ version \in Nat /\ snapshot \in Nat /\ announced \in Nat
      /\ Changes(teleRing) \in Nat
  <2>1. /\ stream \in Stages /\ teleRing \in Seq(Telemetry) /\ Len(teleRing) <= TeleRing
        /\ teleLost \in BOOLEAN /\ announced \in Nat
    BY DEF TypeOK, Client!SubTypeOK, Stages, Telemetry
  <2>2. version \in Nat /\ snapshot \in Nat
    BY RingBounds DEF TypeOK, Client!SubTypeOK
  <2> QED BY <2>1, <2>2, ChangesTypes, LenProperties, RingBounds
<1>1. ASSUME UNCHANGED <<stream, teleRing, teleLost, version, snapshot, announced>>
      PROVE  Announces'
  BY <1>1 DEF Announces
<1>2. ASSUME stream' \notin {"answered", "streaming"} PROVE Announces'
  BY <1>2 DEF Announces
<1>3. ASSUME NEW t \in Telemetry, Client!SendTelemetry(t), stream \in {"answered", "streaming"},
             ~teleLost'
      PROVE  /\ ~teleLost
             /\ Changes(teleRing') = Changes(teleRing) + (IF t = "configured" THEN 1 ELSE 0)
  <2>1. Client!HearsTelemetry
    BY <1>3 DEF Client!HearsTelemetry, Client!HearsFrames
  <2>2. ~teleLost /\ Len(teleRing) # TeleRing /\ teleRing' = Client!Push(teleRing, TeleRing, t)
    BY <1>3, <2>1 DEF Client!SendTelemetry
  <2>3. teleRing' = Append(teleRing, t)
    BY <1>0, <2>2 DEF Client!Push
  <2> QED BY <1>0, <2>2, <2>3, ChangesAppend
<1>4. CASE WorkerMoves
  <2>1. CASE Client!SendMetrics
    <3>1. /\ UNCHANGED <<stream, version, snapshot, announced>> /\ "metrics" \in Telemetry
          /\ Client!SendTelemetry("metrics")
      BY <2>1 DEF Client!SendMetrics, Telemetry
    <3> SUFFICES ASSUME stream \in {"answered", "streaming"}, ~teleLost'
                 PROVE  version - snapshot <= announced + Changes(teleRing')
      BY <3>1 DEF Announces
    <3>2. ~teleLost /\ Changes(teleRing') = Changes(teleRing)
      BY <1>0, <1>3, <3>1
    <3> QED BY <3>2 DEF Announces
  <2>2. CASE \E f : Client!SendFrame(f)
    BY <1>1, <2>2 DEF Client!SendFrame
  <2>3. CASE Client!SendNothing
    BY <1>1, <2>3 DEF Client!SendNothing, Client!subVars
  <2> QED BY <1>4, <2>1, <2>2, <2>3 DEF WorkerMoves, Broadcast
<1>5. CASE ClientMoves
  <2>1. CASE Client!ConfigureChannel
    <3>1. /\ UNCHANGED <<stream, snapshot, announced>> /\ "configured" \in Telemetry
          /\ Client!SendTelemetry("configured") /\ version' = version + 1
      BY <2>1 DEF Client!ConfigureChannel, Telemetry
    <3> SUFFICES ASSUME stream \in {"answered", "streaming"}, ~teleLost'
                 PROVE  version' - snapshot <= announced + Changes(teleRing')
      BY <3>1 DEF Announces
    <3>2. ~teleLost /\ Changes(teleRing') = Changes(teleRing) + 1
      BY <1>3, <3>1
    <3>3. version - snapshot <= announced + Changes(teleRing)
      BY <3>2 DEF Announces
    <3> QED BY <1>0, <3>1, <3>2, <3>3
  <2>2. CASE Client!AttachFrames \/ Client!AttachTelemetry \/ Client!AskState
             \/ Client!FrameLagged \/ Client!ClientLeaves
    <3>1. stream' \in {"frames", "attached", "asked", "gone", "lagged"}
      BY <2>2 DEF Client!AttachFrames, Client!AttachTelemetry, Client!AskState,
                  Client!FrameLagged, Client!ClientLeaves, Client!EndStream
    <3> QED BY <1>2, <3>1
  <2>3. CASE Client!GetState
    <3>1. snapshot' = version /\ version' = version /\ announced' = announced
          /\ teleRing' = teleRing
      BY <2>3 DEF Client!GetState
    <3>2. version' - snapshot' <= announced' + Changes(teleRing')
      BY <1>0, <3>1
    <3> QED BY <3>2 DEF Announces
  <2>4. CASE Client!YieldSnapshot
    <3>1. stream = "answered" /\ UNCHANGED <<teleRing, teleLost, version, snapshot, announced>>
      BY <2>4 DEF Client!YieldSnapshot
    <3> QED BY <3>1 DEF Announces
  <2>5. CASE Client!ReceiveFrame
    BY <1>1, <2>5 DEF Client!ReceiveFrame
  <2>6. CASE Client!ReceiveTelemetry
    <3>1. /\ stream = "streaming" /\ teleRing # <<>>
          /\ UNCHANGED <<stream, teleLost, version, snapshot>>
      BY <2>6 DEF Client!ReceiveTelemetry
    <3>2. CASE teleLag
      BY <1>1, <2>6, <3>1, <3>2 DEF Client!ReceiveTelemetry
    <3>3. CASE ~teleLag
      <4>1. /\ teleRing' = Tail(teleRing)
            /\ announced' = announced + (IF Head(teleRing) = "configured" THEN 1 ELSE 0)
        BY <2>6, <3>3 DEF Client!ReceiveTelemetry
      <4>2. /\ Changes(teleRing) =
                  Changes(teleRing') + (IF Head(teleRing) = "configured" THEN 1 ELSE 0)
            /\ Changes(teleRing') \in Nat
        <5>1. teleRing' \in Seq(Telemetry)
          BY <1>0, <3>1, <4>1, HeadTailProperties
        <5> QED BY <1>0, <3>1, <4>1, <5>1, ChangesTail, ChangesTypes
      <4>3. announced' + Changes(teleRing') = announced + Changes(teleRing)
        BY <1>0, <4>1, <4>2
      <4> QED BY <3>1, <4>3 DEF Announces
    <3> QED BY <3>2, <3>3
  <2> QED BY <1>5, <2>1, <2>2, <2>3, <2>4, <2>5, <2>6
          DEF ClientMoves, Client!SubNext, Client!StreamStep
<1>6. CASE UNCHANGED vars
  BY <1>1, <1>6 DEF vars, workerVars, Client!subVars
<1> QED BY <1>4, <1>5, <1>6 DEF Next

\* What is configured while a client subscribes is in its snapshot or announced
\* after it, as long as it keeps up with the telemetry.
THEOREM NoChangeMissed == Spec => []ChangesAnnounced
<1>1. Init => Announces
  BY DEF Init, Client!SubInit, Announces
<1>2. Announces => ChangesAnnounced
  BY AnnouncedIs DEF Announces, ChangesAnnounced, Client!ChangesAnnounced
<1> QED BY <1>1, <1>2, TypeInit, TypeStep, AnnouncesStep, PTL DEF Spec
=============================================================================
