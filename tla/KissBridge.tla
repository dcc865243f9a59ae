------------------------------- MODULE KissBridge -------------------------------
(***************************************************************************)
(* The KISS-over-TCP bridge (kiss/listener.rs): the channel's listeners    *)
(* and the connections they accept. A connection reads its host's bytes in *)
(* whatever pieces TCP delivers, decodes them and offers each data frame   *)
(* to the core's bounded queue, awaiting the answer; meanwhile it forwards *)
(* the channel's frames from the broadcast ring. Whichever half ends first *)
(* ends both.                                                              *)
(***************************************************************************)
EXTENDS KissRegistry, KissCodec, SequencesExt

CONSTANTS Client,     \* hosts; each connects once
          Script,     \* what a host writes: a sequence of items
          ReadSizes,  \* sizes of the pieces that read() may return
          QueueSize,  \* commands that the core's queue holds
          Ring,       \* frames that the broadcast ring holds
          MaxAir      \* bound: frames published in a behaviour

\* An item of the script: "noise", "param" (a TXDELAY), "empty", or a payload
\* to be framed as data.
Wire(item) ==
    CASE item.kind = "noise" -> <<"x00", TFEND>>
      [] item.kind = "param" -> <<FEND, "x01", "x00", FEND>>
      [] item.kind = "empty" -> EncodeDataFrame(<<>>)
      [] OTHER -> EncodeDataFrame(item.payload)

\* What a host writes: noise comes before its first frame only, and a frame of
\* data carries something.
ASSUME ScriptOfItems ==
    /\ Script \in Seq([kind : {"noise", "param", "empty", "data"}, payload : Seq(Byte)])
    /\ \A i \in 1..Len(Script) : /\ Script[i].kind = "noise" => i = 1
                                 /\ Script[i].kind = "data" => Script[i].payload # <<>>

ASSUME SizesAreNumbers == ReadSizes \subseteq Nat

\* The first i items of the script on the wire, and all of them.
Stream[i \in 0..Len(Script)] == IF i = 0 THEN <<>> ELSE Stream[i - 1] \o Wire(Script[i])
Bytes == Stream[Len(Script)]

VARIABLES conn,       \* each host's connection
          queue,      \* the core's queue: the connection that waits, or Other
          air         \* frames published so far: TRUE is one of this channel

vars == <<registryVars, conn, queue, air>>

Other == "other"

NoConnection ==
    [st |-> "none", of |-> None, read |-> 0, decoder |-> NewDecoder, todo |-> <<>>,
     waiting |-> FALSE, offered |-> <<>>, from |-> 0, next |-> 0, forwarded |-> <<>>]

Init ==
    /\ RegistryInit
    /\ conn = [h \in Client |-> NoConnection]
    /\ queue = <<>>
    /\ air = <<>>

\* Its task has ended, and all that it held is dropped.
Closed(h) == [conn EXCEPT ![h] = [NoConnection EXCEPT !.st = "closed", !.of = conn[h].of]]

\* A task that was aborted while it is being polled runs on until it yields.
Polled(h) == conn[h].st \in {"open", "aborted"}

\* bridge_connection has subscribed to the frames and runs its two halves.
Bridging(h) == Polled(h) /\ conn[h].next # 0

\* accept_loop spawns bridge_connection; aborted in mid-poll, it may still do so.
Accept(h) ==
    /\ conn[h].st = "none"
    /\ \E l \in Bound : conn' = [conn EXCEPT ![h].st = "open", ![h].of = l]
    /\ UNCHANGED <<registryVars, queue, air>>

\* The first poll of bridge_connection: it subscribes at the end of the ring.
Subscribe(h) ==
    /\ Polled(h) /\ conn[h].next = 0
    /\ conn' = [conn EXCEPT ![h].from = Len(air), ![h].next = Len(air) + 1]
    /\ UNCHANGED <<registryVars, queue, air>>

ReadFresh(h) ==      \* mutant: a decoder for each read
    /\ Bridging(h) /\ ~conn[h].waiting /\ conn[h].todo = <<>>
    /\ \E n \in ReadSizes :
         /\ conn[h].read + n <= Len(Bytes)
         /\ LET pushed == Push(NewDecoder, SubSeq(Bytes, conn[h].read + 1, conn[h].read + n))
            IN  conn' = [conn EXCEPT ![h].read = @ + n, ![h].todo = pushed.frames]
    /\ UNCHANGED <<registryVars, queue, air>>

\* The reader: one read() and the frames that it completes.
Read(h) ==
    /\ Bridging(h) /\ ~conn[h].waiting /\ conn[h].todo = <<>>
    /\ \E n \in ReadSizes :
         /\ conn[h].read + n <= Len(Bytes)
         /\ LET pushed == Push(conn[h].decoder, SubSeq(Bytes, conn[h].read + 1, conn[h].read + n))
            IN  conn' = [conn EXCEPT ![h].read = @ + n, ![h].decoder = pushed.decoder,
                                     ![h].todo = pushed.frames]
    /\ UNCHANGED <<registryVars, queue, air>>

\* Only a data frame that carries something is transmitted.
Transmits(frame) == IsData(frame) /\ frame.data # <<>>

\* The next decoded frame: skipped, or offered with try_send, which awaits
\* the core's answer when there is room and drops the frame when there is not.
Offer(h) ==
    /\ Bridging(h) /\ ~conn[h].waiting /\ conn[h].todo # <<>>
    /\ LET frame == Head(conn[h].todo)
           sent == Transmits(frame) /\ Len(queue) < QueueSize
       IN  /\ conn' = [conn EXCEPT ![h].todo = Tail(@), ![h].waiting = sent,
                                ![h].offered = IF Transmits(frame) THEN Append(@, frame.data) ELSE @]
           /\ queue' = IF sent THEN Append(queue, h) ELSE queue
    /\ UNCHANGED <<registryVars, air>>

\* The writer: the next frame of the ring is written if it is this channel's.
Forward(h) ==
    /\ Bridging(h) /\ conn[h].next <= Len(air) /\ conn[h].next > Len(air) - Ring
    /\ conn' = [conn EXCEPT ![h].next = @ + 1,
                            ![h].forwarded = IF air[conn[h].next] THEN Append(@, conn[h].next) ELSE @]
    /\ UNCHANGED <<registryVars, queue, air>>

LagSkipped(h) ==     \* mutant: the writer goes on with the oldest frame left
    /\ Bridging(h) /\ conn[h].next <= Len(air) - Ring
    /\ conn' = [conn EXCEPT ![h].next = Len(air) - Ring + 1]
    /\ UNCHANGED <<registryVars, queue, air>>

\* The ring has overwritten the next frame: the host is disconnected.
Lagged(h) ==
    /\ Bridging(h) /\ conn[h].next <= Len(air) - Ring
    /\ conn' = Closed(h)
    /\ UNCHANGED <<registryVars, queue, air>>

\* End of file, a read error or a failed write: either half closes both.
HostGone(h) ==
    /\ conn[h].st = "open" /\ conn[h].next # 0
    /\ conn' = Closed(h)
    /\ UNCHANGED <<registryVars, queue, air>>

\* The runtime drops an aborted connection task.
DropConnection(h) ==
    /\ conn[h].st = "aborted"
    /\ conn' = Closed(h)
    /\ UNCHANGED <<registryVars, queue, air>>

EndListenerAlone(l) ==    \* mutant: connections are spawned free of the accept task
    Unwind(l) /\ UNCHANGED <<conn, queue, air>>

\* An accept task unwinds: dropping its JoinSet aborts its connections.
EndListener(l) ==
    /\ Unwind(l)
    /\ conn' = [h \in Client |-> IF conn[h].st = "open" /\ conn[h].of = l
                                 THEN [conn[h] EXCEPT !.st = "aborted"] ELSE conn[h]]
    /\ UNCHANGED <<queue, air>>

\* Another part of the program sends the core a command.
OtherCommand ==
    /\ Len(queue) < QueueSize
    /\ queue' = Append(queue, Other)
    /\ UNCHANGED <<registryVars, conn, air>>

\* The core takes a command and answers it.
Serve ==
    /\ queue # <<>>
    /\ queue' = Tail(queue)
    /\ conn' = [h \in Client |-> IF h = Head(queue) THEN [conn[h] EXCEPT !.waiting = FALSE] ELSE conn[h]]
    /\ UNCHANGED <<registryVars, air>>

\* A frame is decoded, on this channel or on another.
Publish ==
    /\ Len(air) < MaxAir
    /\ \E mine \in BOOLEAN : air' = Append(air, mine)
    /\ UNCHANGED <<registryVars, conn, queue>>

Next ==
    \/ \E c \in Caller : HandlerStep(c) /\ UNCHANGED <<conn, queue, air>>
    \/ \E l \in Listener : EndListener(l)
    \/ \E h \in Client : \/ Accept(h) \/ Subscribe(h) \/ Read(h) \/ Offer(h)
                         \/ Forward(h) \/ Lagged(h) \/ HostGone(h) \/ DropConnection(h)
    \/ OtherCommand \/ Serve \/ Publish

Spec == Init /\ [][Next]_vars

\* The runtime polls every task that was aborted.
FairSpec ==
    /\ Spec
    /\ \A l \in Listener : WF_vars(EndListener(l))
    /\ \A h \in Client : WF_vars(DropConnection(h))

-----------------------------------------------------------------------------
\* The payloads among the first i items of the script.
Written[i \in 0..Len(Script)] ==
    IF i = 0 THEN <<>>
    ELSE IF Script[i].kind = "data" THEN Append(Written[i - 1], Script[i].payload)
    ELSE Written[i - 1]

\* The payloads whose frames lie wholly within the first n bytes of the wire.
Within(n) == Written[Max({i \in 0..Len(Script) : Len(Stream[i]) <= n})]

\* The payloads that a run of decoded frames has for the air.
Payloads(frames) ==
    LET upTo[i \in 0..Len(frames)] ==
            IF i = 0 THEN <<>>
            ELSE IF Transmits(frames[i]) THEN Append(upTo[i - 1], frames[i].data)
            ELSE upTo[i - 1]
    IN  upTo[Len(frames)]

(* However TCP cuts the stream, escapes included, what the reader offers   *)
(* the core, with what it still has to offer, is the data frames whose     *)
(* last byte has arrived, each once and in order: noise before the first   *)
(* FEND, parameter frames and empty frames never become a transmission,    *)
(* and a full queue or another command never reorders or repeats one.      *)
HostFramesInOrder ==
    \A h \in Client :
        conn[h].offered \o Payloads(conn[h].todo) = Within(conn[h].read)

(* A host is sent every frame of its channel since its connection          *)
(* subscribed, up to the one the writer is at, each once and in order: it  *)
(* is disconnected rather than given a gap.                                *)
AirFramesGapless ==
    \A h \in Client : Polled(h) =>
        LET sent == conn[h].forwarded
        IN  /\ ToSet(sent) = {i \in (conn[h].from + 1) .. (conn[h].next - 1) : air[i]}
            /\ \A j, k \in 1..Len(sent) : j < k => sent[j] < sent[k]

(* Stopping or replacing a listener closes every connection that it        *)
(* accepted.                                                               *)
StoppedConnectionsClose ==
    \A l \in Listener :
        listener[l] = "aborted" ~> \A h \in Client : conn[h].of = l => conn[h].st = "closed"
=============================================================================
