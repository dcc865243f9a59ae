-------------------------- MODULE KissBridge_proof --------------------------
(***************************************************************************)
(* The map of KISS listeners tells the truth: however the handlers of      *)
(* ConfigureKissListener interleave, and wherever one is cancelled, the    *)
(* listener that the map names is accepting connections. A host is sent    *)
(* its channel's frames without a gap, and what it writes is heard whole,  *)
(* in order and once, in whatever pieces it arrives.                       *)
(***************************************************************************)
EXTENDS KissBridge, TLAPS, SequenceTheorems, FiniteSetTheorems, WellFoundedInduction

USE DEF Listener, None

Handlers == [pc : {"idle", "stop", "await", "bind", "insert"},
             start : BOOLEAN,
             holds : Listener \cup {None}]
RegistryTypes ==
    /\ entry \in Listener \cup {None}
    /\ listener \in [Listener -> {"unborn", "listening", "aborted", "ended"}]
    /\ call \in [Caller -> Handlers]

\* Between Bind and Insert a handler owns the listener it has spawned: it
\* runs, and neither the map nor another handler knows of it.
Inserting(c) == call[c].pc = "insert"
Owned ==
    /\ \A c \in Caller : Inserting(c) =>
          call[c].holds \in Running /\ call[c].holds # entry
    /\ \A c, d \in Caller : Inserting(c) /\ Inserting(d) /\ c # d =>
          call[c].holds # call[d].holds

RegistryInv == RegistryTypes /\ Owned /\ EntryIsRunning

LEMMA RunningDef ==
  \A l : l \in Running <=> l \in Listener /\ listener[l] = "listening"
BY DEF Running

\* What a handler is left in by a step that does not bind.
LEMMA HandlerRecords ==
  ASSUME RegistryTypes, NEW c \in Caller
  PROVE  /\ Idle \in Handlers /\ Idle.pc # "insert"
         /\ \A start \in BOOLEAN :
              LET k == [call[c] EXCEPT !.pc = "stop", !.start = start]
              IN  k \in Handlers /\ k.pc # "insert"
         /\ LET k == [call[c] EXCEPT !.pc = "bind", !.holds = None]
            IN  k \in Handlers /\ k.pc # "insert"
<1>1. Idle \in Handlers /\ Idle.pc # "insert"
  BY DEF Handlers, Idle
<1>2. call[c] \in Handlers
  BY DEF RegistryTypes
<1> QED BY <1>1, <1>2 DEF Handlers

LEMMA HandlerKeeps ==
  ASSUME RegistryInv, NEW c \in Caller, HandlerStep(c)
  PROVE  RegistryInv'
<1> USE DEF RegistryInv, RegistryTypes, Handlers, Idle, Inserting
<1>1. CASE Begin(c) \/ Cancel(c) \/ BindFails(c) \/ Stopped(c)
  <2>1. /\ entry' = entry /\ listener' = listener
        /\ call' \in [Caller -> Handlers]
        /\ ~Inserting(c)' /\ \A d \in Caller \ {c} : call'[d] = call[d]
    <3>1. PICK k \in Handlers : k.pc # "insert" /\ call' = [call EXCEPT ![c] = k]
      BY <1>1, HandlerRecords DEF Begin, Cancel, BindFails, Stopped
    <3>2. entry' = entry /\ listener' = listener
      BY <1>1 DEF Begin, Cancel, BindFails, Stopped
    <3>3. call' \in [Caller -> Handlers] /\ call'[c] = k
      BY <3>1
    <3>4. \A d \in Caller \ {c} : call'[d] = call[d]
      BY <3>1
    <3> QED BY <3>1, <3>2, <3>3, <3>4
  <2> QED BY <2>1 DEF Owned, EntryIsRunning, Running
<1>2. CASE TakeEntry(c)
  <2>1. /\ entry' = None /\ call' \in [Caller -> Handlers]
        /\ ~Inserting(c)' /\ \A d \in Caller \ {c} : call'[d] = call[d]
        /\ listener' \in [Listener -> {"unborn", "listening", "aborted", "ended"}]
        /\ \A l \in Listener \ {entry} : listener'[l] = listener[l]
    BY <1>2 DEF TakeEntry
  <2> QED BY <2>1 DEF Owned, EntryIsRunning, Running
<1>3. CASE Bind(c)
  <2>1. PICK l \in Listener :
          /\ listener[l] = "unborn"
          /\ listener' = [listener EXCEPT ![l] = "listening"]
          /\ call' = [call EXCEPT ![c].pc = "insert", ![c].holds = l]
          /\ entry' = entry
    BY <1>3 DEF Bind
  <2>2. /\ call' \in [Caller -> Handlers] /\ call'[c].holds = l
        /\ \A d \in Caller \ {c} : call'[d] = call[d]
    BY <2>1
  <2>3. \A d \in Caller : Inserting(d) => call[d].holds # l
    BY <2>1 DEF Owned, Running
  <2>4. entry # l
    BY <2>1 DEF EntryIsRunning, Running
  <2>5. l \in Running' /\ \A k \in Running : k \in Running'
    BY <2>1 DEF Running
  <2>6. Owned'
    BY <2>1, <2>2, <2>3, <2>4, <2>5 DEF Owned
  <2> QED BY <2>1, <2>2, <2>5, <2>6 DEF EntryIsRunning
<1>4. CASE Insert(c)
  <2>1. /\ Inserting(c) /\ entry' = call[c].holds /\ listener' = listener
        /\ call' \in [Caller -> Handlers]
        /\ ~Inserting(c)' /\ \A d \in Caller \ {c} : call'[d] = call[d]
    BY <1>4 DEF Insert
  <2> QED BY <2>1 DEF Owned, EntryIsRunning, Running
<1> QED BY <1>1, <1>2, <1>3, <1>4 DEF HandlerStep

LEMMA ListenerEnds ==
  ASSUME RegistryInv, NEW l \in Listener, EndListener(l)
  PROVE  RegistryInv'
<1> USE DEF RegistryInv, RegistryTypes
<1>1. /\ listener[l] = "aborted" /\ listener' = [listener EXCEPT ![l] = "ended"]
      /\ entry' = entry /\ call' = call
  BY DEF EndListener, Unwind
<1>2. Running' = Running
  BY <1>1 DEF Running
<1> QED BY <1>1, <1>2 DEF Owned, Inserting, EntryIsRunning

LEMMA Untouched ==
  ASSUME RegistryInv, UNCHANGED registryVars
  PROVE  RegistryInv'
BY DEF RegistryInv, RegistryTypes, Owned, Inserting, EntryIsRunning, Running, registryVars

\* Whatever handlers start, replace, stop and cancel, the listener that the map
\* of listeners names accepts connections (start, stop in kiss/listener.rs).
THEOREM MapTellsTruth == Spec => []EntryIsRunning
<1>1. Init => RegistryInv
  BY MaxStartsAssumption DEF Init, RegistryInit, RegistryInv, RegistryTypes, Handlers,
     Idle, Owned, Inserting, EntryIsRunning
<1>2. RegistryInv /\ [Next]_vars => RegistryInv'
  <2> SUFFICES ASSUME RegistryInv, [Next]_vars PROVE RegistryInv'
    OBVIOUS
  <2>1. ASSUME NEW h \in Client,
               \/ Accept(h) \/ Subscribe(h) \/ Read(h) \/ Offer(h)
               \/ Forward(h) \/ Lagged(h) \/ HostGone(h) \/ DropConnection(h)
        PROVE UNCHANGED registryVars
    BY <2>1 DEF Accept, Subscribe, Read, Offer, Forward, Lagged, HostGone, DropConnection
  <2>2. CASE OtherCommand \/ Serve \/ Publish
    BY <2>2, Untouched DEF OtherCommand, Serve, Publish
  <2>3. CASE UNCHANGED vars
    BY <2>3, Untouched DEF vars
  <2> QED BY <2>1, <2>2, <2>3, HandlerKeeps, ListenerEnds, Untouched DEF Next
<1>3. RegistryInv => EntryIsRunning
  BY DEF RegistryInv
<1> QED BY <1>1, <1>2, <1>3, PTL DEF Spec

-----------------------------------------------------------------------------
(* What a host is sent. *)

Fields == {"st", "of", "read", "decoder", "todo", "waiting", "offered", "from", "next",
           "forwarded"}
\* A connection has these fields and no more, whatever they hold.
Record(k) == k = [f \in Fields |-> k[f]]

\* The host of a connection has been sent what was heard up to its writer's place.
Sending(k, heard) ==
    /\ k.from \in Nat /\ k.next \in Nat /\ k.from < k.next /\ k.next - 1 <= Len(heard)
    /\ k.forwarded \in Seq(Nat)
    /\ ToSet(k.forwarded) = {i \in (k.from + 1) .. (k.next - 1) : heard[i]}
    /\ \A i, j \in 1..Len(k.forwarded) : i < j => k.forwarded[i] < k.forwarded[j]

\* It has subscribed; it has not, and has been sent nothing.
Live(k) == k.st \in {"open", "aborted"} /\ k.next # 0
Unsent(k) == /\ k.st = "none" => k.next = 0
             /\ k.next = 0 => k.from = 0 /\ k.forwarded = <<>>

Sent ==
    /\ air \in Seq(BOOLEAN)
    /\ conn = [h \in Client |-> conn[h]]
    /\ \A h \in Client : /\ Record(conn[h])
                         /\ Unsent(conn[h])
                         /\ Live(conn[h]) => Sending(conn[h], air)

\* A connection that is not there.
LEMMA Fresh == Record(NoConnection) /\ ~Live(NoConnection) /\ Unsent(NoConnection)
BY DEF Record, Fields, NoConnection, Live, Unsent

\* A step of one connection that leaves its writer alone, or that closes it.
LEMMA OneConnection ==
  ASSUME Sent, air' = air, NEW h \in Client, NEW k,
         conn' = [conn EXCEPT ![h] = k],
         Record(k), Unsent(k), Live(k) => Sending(k, air)
  PROVE  Sent'
<1>1. conn' = [g \in Client |-> conn'[g]]
  BY DEF Sent
<1>2. \A g \in Client : conn'[g] = IF g = h THEN k ELSE conn[g]
  BY DEF Sent
<1>3. ASSUME NEW g \in Client
      PROVE  /\ Record(conn'[g])
             /\ Unsent(conn'[g])
             /\ Live(conn'[g]) => Sending(conn'[g], air')
  BY <1>2, <1>3 DEF Sent, Record, Live, Sending
<1> QED BY <1>1, <1>3 DEF Sent

\* One more frame forwarded.
LEMMA OneMore ==
  ASSUME NEW s \in Seq(Nat), NEW n \in Nat,
         \A i, j \in 1..Len(s) : i < j => s[i] < s[j],
         \A e \in ToSet(s) : e < n
  PROVE  /\ Append(s, n) \in Seq(Nat)
         /\ ToSet(Append(s, n)) = ToSet(s) \cup {n}
         /\ \A i, j \in 1..Len(Append(s, n)) : i < j => Append(s, n)[i] < Append(s, n)[j]
<1> DEFINE t == Append(s, n)
           m == Len(s)
<1>1. t \in Seq(Nat) /\ Len(t) = m + 1 /\ t[m + 1] = n /\ m \in Nat
  OBVIOUS
<1>2. \A i \in 1..m : t[i] = s[i] /\ s[i] \in Nat
  OBVIOUS
<1>3. ToSet(s) = {s[i] : i \in 1..m}
  BY DEF ToSet
<1>4. ToSet(t) = {t[i] : i \in 1..(m + 1)}
  BY <1>1 DEF ToSet
<1>5. \A i, j \in 1..m : i < j => s[i] < s[j]
  OBVIOUS
<1> HIDE DEF t, m
<1>6. ToSet(t) = ToSet(s) \cup {n}
  BY <1>1, <1>2, <1>3, <1>4
<1>7. \A i \in 1..m : s[i] < n
  BY <1>3
<1>8. ASSUME NEW i \in 1..(m + 1), NEW j \in 1..(m + 1), i < j PROVE t[i] < t[j]
  <2>1. i \in 1..m
    BY <1>1, <1>8
  <2>2. CASE j = m + 1
    BY <1>1, <1>2, <1>7, <2>1, <2>2
  <2>3. CASE j # m + 1
    <3>1. j \in 1..m
      BY <1>1, <2>3
    <3> QED BY <1>2, <1>5, <1>8, <2>1, <3>1
  <2> QED BY <2>2, <2>3
<1>9. \A i, j \in 1..Len(t) : i < j => t[i] < t[j]
  BY <1>1, <1>8
<1> QED BY <1>1, <1>6, <1>9 DEF t

\* A connection that is accepted has yet to subscribe.
LEMMA AcceptSends == ASSUME Sent, NEW h \in Client, Accept(h) PROVE Sent'
<1>0. Record(conn[h]) /\ Unsent(conn[h])
  BY DEF Sent
<1>1. PICK l \in Bound : conn' = [conn EXCEPT ![h].st = "open", ![h].of = l]
  BY DEF Accept
<1> DEFINE k == [conn[h] EXCEPT !.st = "open", !.of = l]
<1>2. conn' = [conn EXCEPT ![h] = k] /\ air' = air /\ conn[h].next = 0
  BY <1>0, <1>1 DEF Accept, Unsent
<1>3. /\ Record(k) /\ k.st = "open" /\ k.from = conn[h].from /\ k.next = conn[h].next
      /\ k.forwarded = conn[h].forwarded
  BY <1>0 DEF Record, Fields
<1> HIDE DEF k
<1>4. Unsent(k) /\ ~Live(k)
  BY <1>0, <1>2, <1>3 DEF Unsent, Live
<1> QED BY <1>2, <1>3, <1>4, OneConnection

\* A connection subscribes at the end of the ring.
LEMMA SubscribeSends == ASSUME Sent, NEW h \in Client, Subscribe(h) PROVE Sent'
<1> DEFINE k == [conn[h] EXCEPT !.from = Len(air), !.next = Len(air) + 1]
<1>1. conn' = [conn EXCEPT ![h] = k] /\ air' = air /\ conn[h].next = 0 /\ conn[h].st # "none"
  BY DEF Subscribe, Polled
<1>2. Record(conn[h]) /\ conn[h].forwarded = <<>> /\ Len(air) \in Nat
  BY <1>1 DEF Sent, Unsent
<1>3. /\ Record(k) /\ k.from = Len(air) /\ k.next = Len(air) + 1
      /\ k.forwarded = <<>> /\ k.st = conn[h].st
  BY <1>2 DEF Record, Fields
<1> HIDE DEF k
<1>4. Sending(k, air)
  <2>1. k.forwarded \in Seq(Nat) /\ Len(k.forwarded) = 0 /\ ToSet(k.forwarded) = {}
    BY <1>3 DEF ToSet
  <2> QED BY <1>2, <1>3, <2>1 DEF Sending
<1>5. Unsent(k)
  BY <1>1, <1>2, <1>3 DEF Unsent
<1> QED BY <1>1, <1>3, <1>4, <1>5, OneConnection

\* A connection that closes sends no more.
LEMMA CloseSends ==
  ASSUME Sent, NEW h \in Client, conn' = Closed(h), air' = air
  PROVE  Sent'
<1> DEFINE k == [NoConnection EXCEPT !.st = "closed", !.of = conn[h].of]
<1>1. conn' = [conn EXCEPT ![h] = k]
  BY DEF Closed
<1>2. Record(k) /\ k.st = "closed" /\ Unsent(k)
  BY DEF NoConnection, Record, Fields, Unsent
<1> QED BY <1>1, <1>2, OneConnection DEF Live

\* A step of the reader.
LEMMA ReaderSends ==
  ASSUME Sent, NEW h \in Client, Read(h) \/ Offer(h)
  PROVE  Sent'
<1>1. Record(conn[h]) /\ conn \in [Client -> {conn[g] : g \in Client}]
  BY DEF Sent
<1> DEFINE k == conn'[h]
<1>2. /\ conn' = [conn EXCEPT ![h] = k] /\ Record(k)
      /\ k.st = conn[h].st /\ k.from = conn[h].from /\ k.next = conn[h].next
      /\ k.forwarded = conn[h].forwarded
  <2>1. CASE Read(h)
    <3>1. PICK n, d, f :
            conn' = [conn EXCEPT ![h].read = @ + n, ![h].decoder = d, ![h].todo = f]
      BY <2>1, Zenon DEF Read
    <3> QED BY <1>1, <3>1 DEF Record, Fields
  <2>2. CASE Offer(h)
    <3>1. PICK f, w, s :
            conn' = [conn EXCEPT ![h].todo = f, ![h].waiting = w, ![h].offered = s]
      BY <2>2, Zenon DEF Offer
    <3> QED BY <1>1, <3>1 DEF Record, Fields
  <2> QED BY <2>1, <2>2
<1>3. air' = air /\ Live(conn[h])
  BY DEF Read, Offer, Bridging, Polled, Live
<1> HIDE DEF k
<1>4. Sending(k, air) /\ Unsent(k)
  BY <1>2, <1>3 DEF Sent, Sending, Live, Unsent
<1> QED BY <1>2, <1>3, <1>4, OneConnection

\* The writer takes the next frame of the ring.
LEMMA ForwardSends == ASSUME Sent, NEW h \in Client, Forward(h) PROVE Sent'
<1> DEFINE n == conn[h].next
           s == conn[h].forwarded
           k == conn'[h]
<1>0. Record(conn[h]) /\ conn \in [Client -> {conn[g] : g \in Client}]
  BY DEF Sent
<1>1. /\ conn' = [conn EXCEPT ![h] = k] /\ air' = air /\ Live(conn[h]) /\ n <= Len(air)
  BY <1>0 DEF Forward, Bridging, Polled, Live
<1>2. Sending(conn[h], air)
  BY <1>1 DEF Sent
<1>3. /\ Record(k) /\ k.st = conn[h].st /\ k.from = conn[h].from /\ k.next = n + 1
      /\ k.forwarded = IF air[n] THEN Append(s, n) ELSE s
  BY <1>0 DEF Forward, Record, Fields
<1> HIDE DEF k
<1> HIDE DEF n, s
<1>4. Sending(k, air)
  <2>1. /\ s \in Seq(Nat) /\ n \in Nat /\ k.from \in Nat /\ k.from < n
        /\ ToSet(s) = {i \in (k.from + 1) .. (n - 1) : air[i]}
        /\ \A i, j \in 1..Len(s) : i < j => s[i] < s[j]
    BY <1>2, <1>3 DEF Sending, n, s
  <2>2. k.next \in Nat /\ k.from < k.next /\ k.next - 1 <= Len(air)
    BY <1>1, <1>3, <2>1
  <2>3. CASE air[n]
    <3>1. \A e \in ToSet(s) : e < n
      BY <2>1
    <3>2. /\ k.forwarded \in Seq(Nat) /\ ToSet(k.forwarded) = ToSet(s) \cup {n}
          /\ \A i, j \in 1..Len(k.forwarded) : i < j => k.forwarded[i] < k.forwarded[j]
      BY <1>3, <2>1, <2>3, <3>1, OneMore
    <3>3. ToSet(k.forwarded) = {i \in (k.from + 1) .. (k.next - 1) : air[i]}
      BY <1>3, <2>1, <2>3, <3>2
    <3> QED BY <2>1, <2>2, <3>2, <3>3 DEF Sending
  <2>4. CASE ~air[n]
    <3>1. ToSet(s) = {i \in (k.from + 1) .. (k.next - 1) : air[i]}
      BY <1>3, <2>1, <2>4
    <3>2. k.forwarded = s
      BY <1>3, <2>4
    <3> QED BY <2>1, <2>2, <3>1, <3>2 DEF Sending
  <2> QED BY <2>3, <2>4
<1>5. Unsent(k)
  BY <1>1, <1>2, <1>3 DEF Unsent, Sending, Live, n
<1> QED BY <1>1, <1>3, <1>4, <1>5, OneConnection

\* A step that takes no connection's writer further.
LEMMA AllConnections ==
  ASSUME Sent, conn' = [h \in Client |-> conn'[h]],
         air' \in Seq(BOOLEAN), Len(air) <= Len(air'), \A i \in 1..Len(air) : air'[i] = air[i],
         \A h \in Client :
            /\ Record(conn'[h])
            /\ conn'[h].from = conn[h].from /\ conn'[h].next = conn[h].next
            /\ conn'[h].forwarded = conn[h].forwarded
            /\ conn'[h].st = "none" => conn[h].st = "none"
            /\ Live(conn'[h]) => Live(conn[h])
  PROVE  Sent'
<1>0. ASSUME NEW h \in Client PROVE Unsent(conn'[h])
  BY <1>0 DEF Sent, Unsent
<1>1. ASSUME NEW h \in Client, Live(conn'[h]) PROVE Sending(conn'[h], air')
  <2>1. Sending(conn[h], air)
    BY <1>1 DEF Sent
  <2>2. {i \in (conn[h].from + 1) .. (conn[h].next - 1) : air[i]}
          = {i \in (conn[h].from + 1) .. (conn[h].next - 1) : air'[i]}
    <3>1. conn[h].from \in Nat /\ conn[h].next - 1 <= Len(air) /\ conn[h].next \in Nat
      BY <2>1 DEF Sending
    <3>2. Len(air) \in Nat
      BY DEF Sent
    <3>3. \A i \in (conn[h].from + 1) .. (conn[h].next - 1) : i \in 1..Len(air)
      BY <3>1, <3>2
    <3> QED BY <3>3
  <2> QED BY SMTT(20), <1>1, <2>1, <2>2 DEF Sending, Sent
<1> QED BY <1>0, <1>1 DEF Sent

\* No connection is open at first.
LEMMA SentInit == Init => Sent
<1> SUFFICES ASSUME Init PROVE Sent
  OBVIOUS
<1> QED BY Fresh DEF Init, Sent

\* Every step of the bridge.
LEMMA SentStep == ASSUME Sent, [Next]_vars PROVE Sent'
<1>1. ASSUME NEW h \in Client, Accept(h) PROVE Sent'
  BY <1>1, AcceptSends
<1>2. ASSUME NEW h \in Client, Subscribe(h) PROVE Sent'
  BY <1>2, SubscribeSends
<1>3. ASSUME NEW h \in Client, Read(h) \/ Offer(h) PROVE Sent'
  BY <1>3, ReaderSends
<1>4. ASSUME NEW h \in Client, Forward(h) PROVE Sent'
  BY <1>4, ForwardSends
<1>5. ASSUME NEW h \in Client, Lagged(h) \/ HostGone(h) \/ DropConnection(h) PROVE Sent'
  BY <1>5, CloseSends DEF Lagged, HostGone, DropConnection
<1>6. ASSUME UNCHANGED <<conn, air>> PROVE Sent'
  BY <1>6 DEF Sent, Sending
<1>7. ASSUME NEW l \in Listener, EndListener(l) PROVE Sent'
  <2>1. /\ conn' = [h \in Client |-> IF conn[h].st = "open" /\ conn[h].of = l
                                     THEN [conn[h] EXCEPT !.st = "aborted"] ELSE conn[h]]
        /\ air' = air
    BY <1>7 DEF EndListener
  <2>2. ASSUME NEW h \in Client
        PROVE  /\ Record(conn'[h])
               /\ conn'[h].from = conn[h].from /\ conn'[h].next = conn[h].next
               /\ conn'[h].forwarded = conn[h].forwarded
               /\ conn'[h].st = "none" => conn[h].st = "none"
               /\ Live(conn'[h]) => Live(conn[h])
    <3>1. Record(conn[h])
      BY DEF Sent
    <3> QED BY <2>1, <3>1 DEF Record, Fields, Live
  <2>3. conn' = [h \in Client |-> conn'[h]] /\ air' \in Seq(BOOLEAN)
    BY <2>1 DEF Sent
  <2> QED BY <2>1, <2>2, <2>3, AllConnections DEF Sent
<1>8. CASE Serve
  <2>1. /\ conn' = [h \in Client |-> IF h = Head(queue)
                                     THEN [conn[h] EXCEPT !.waiting = FALSE] ELSE conn[h]]
        /\ air' = air
    BY <1>8 DEF Serve
  <2>2. ASSUME NEW h \in Client
        PROVE  /\ Record(conn'[h])
               /\ conn'[h].from = conn[h].from /\ conn'[h].next = conn[h].next
               /\ conn'[h].forwarded = conn[h].forwarded
               /\ conn'[h].st = "none" => conn[h].st = "none"
               /\ Live(conn'[h]) => Live(conn[h])
    <3>1. Record(conn[h])
      BY DEF Sent
    <3> QED BY <2>1, <3>1 DEF Record, Fields, Live
  <2>3. conn' = [h \in Client |-> conn'[h]] /\ air' \in Seq(BOOLEAN)
    BY <2>1 DEF Sent
  <2> QED BY <2>1, <2>2, <2>3, AllConnections DEF Sent
<1>9. CASE Publish
  <2>1. PICK mine \in BOOLEAN : air' = Append(air, mine) /\ conn' = conn
    BY <1>9 DEF Publish
  <2>2. /\ air' \in Seq(BOOLEAN) /\ Len(air) <= Len(air')
        /\ \A i \in 1..Len(air) : air'[i] = air[i]
    BY <2>1 DEF Sent
  <2> QED BY <2>1, <2>2, AllConnections DEF Sent
<1> QED BY <1>1, <1>2, <1>3, <1>4, <1>5, <1>6, <1>7, <1>8, <1>9
        DEF Next, vars, OtherCommand

\* A host is sent every frame of its channel since it subscribed, each once and
\* in order, up to where its writer is (bridge_connection in kiss/listener.rs).
THEOREM NoGapOnTheAir == Spec => []AirFramesGapless
<1>1. Sent => AirFramesGapless
  <2> SUFFICES ASSUME Sent, NEW h \in Client, Polled(h),
                      NEW sent, sent = conn[h].forwarded
               PROVE  /\ ToSet(sent) = {i \in (conn[h].from + 1) .. (conn[h].next - 1) : air[i]}
                      /\ \A j, k \in 1..Len(sent) : j < k => sent[j] < sent[k]
    BY DEF AirFramesGapless
  <2>1. CASE conn[h].next = 0
    <3>1. sent = <<>> /\ conn[h].from = 0
      BY <2>1 DEF Sent, Unsent
    <3> QED BY <2>1, <3>1 DEF ToSet
  <2>2. CASE conn[h].next # 0
    BY <2>2 DEF Sent, Polled, Live, Sending
  <2> QED BY <2>1, <2>2
<1> QED BY <1>1, SentInit, SentStep, PTL DEF Spec

-----------------------------------------------------------------------------
(* Numbers, and what is defined step by step. *)

\* A set of numbers that is not empty has a least one.
LEMMA Least ==
  ASSUME NEW T \in SUBSET Nat, T # {}
  PROVE  \E n \in T : \A m \in T : n <= m
<1>1. PICK top \in T : TRUE
  OBVIOUS
<1> DEFINE S == 0..top
           C == {D \in SUBSET S : \E m \in T : m <= top /\ D = 0..m}
<1>2. IsWellFoundedOn(StrictSubsetOrdering(S), FiniteSubsetsOf(S))
  BY FS_StrictSubsetOrderingWellFounded
<1>3. IsFiniteSet(S)
  BY FS_Interval
<1>4. FiniteSubsetsOf(S) = SUBSET S
  <2> HIDE DEF S
  <2> QED BY <1>3, FS_FiniteSubsetsOfFinite
<1>5. S \in C
  BY <1>1
<1>6. PICK D \in C : \A E \in C : ~(<<E, D>> \in StrictSubsetOrdering(S))
  <2> HIDE DEF C, S
  <2>1. C \subseteq FiniteSubsetsOf(S) /\ C # {}
    BY <1>4, <1>5 DEF C
  <2> QED BY <1>2, <2>1, WFMin
<1>7. PICK n \in T : n <= top /\ D = 0..n
  BY <1>6
<1>8. \A m \in T : n <= m
  <2> SUFFICES ASSUME NEW m \in T, m < n PROVE FALSE
    BY <1>7
  <2>1. 0..m \in C
    BY <1>7
  <2>2. 0..m \subseteq 0..n /\ 0..m # 0..n
    BY <1>7
  <2>3. <<0..m, D>> \in StrictSubsetOrdering(S)
    BY <1>6, <1>7, <2>1, <2>2 DEF StrictSubsetOrdering
  <2> QED BY <1>6, <2>1, <2>3
<1> QED BY <1>8

\* Induction, of sets of numbers instead of predicates.
LEMMA Induct ==
  ASSUME NEW T \in SUBSET Nat, 0 \in T, \A n \in T : n + 1 \in T
  PROVE  T = Nat
<1> SUFFICES ASSUME Nat \ T # {} PROVE FALSE
  OBVIOUS
<1>1. PICK n \in Nat \ T : \A m \in Nat \ T : n <= m
  BY Least
<1>2. n # 0 /\ n - 1 \in Nat /\ n - 1 \in T
  BY <1>1
<1>3. n - 1 + 1 \in T
  BY <1>2
<1> QED BY <1>1, <1>3


\* f runs for n steps from a value of S.
Steps(S) == [Nat -> [S -> S]]
Runs(f, S, first, step, n) ==
    f \in [0..n -> S] /\ f[0] = first /\ \A i \in 1..n : f[i] = step[i][f[i - 1]]

\* What is defined step by step, each value from the one before, exists.
LEMMA Iterates ==
  \A S, first, step, n : first \in S /\ step \in Steps(S) /\ n \in Nat =>
     \E f : Runs(f, S, first, step, n)
<1> SUFFICES ASSUME NEW S, NEW a \in S, NEW step \in Steps(S), NEW n \in Nat
             PROVE  \E f : Runs(f, S, a, step, n)
  BY Zenon
<1>0. step \in [Nat -> [S -> S]]
  BY DEF Steps
<1> DEFINE Solves(f, m) == f[0] = a /\ \A i \in 1..m : f[i] = step[i][f[i - 1]]
           T == {m \in Nat : \E f \in [0..m -> S] : Solves(f, m)}
<1>1. 0 \in T
  <2> DEFINE g == [i \in 0..0 |-> a]
  <2>1. g \in [0..0 -> S] /\ Solves(g, 0)
    OBVIOUS
  <2> QED BY <2>1
<1>2. ASSUME NEW m \in T PROVE m + 1 \in T
  <2>1. PICK f \in [0..m -> S] : Solves(f, m)
    OBVIOUS
  <2> DEFINE g == [i \in 0..(m + 1) |-> IF i = m + 1 THEN step[m + 1][f[m]] ELSE f[i]]
  <2>2. g \in [0..(m + 1) -> S]
    <3>1. step[m + 1][f[m]] \in S
      BY <1>0, <2>1
    <3> QED BY <3>1, <2>1
  <2>3. g[0] = a
    BY <2>1
  <2>4. ASSUME NEW i \in 1..(m + 1) PROVE g[i] = step[i][g[i - 1]]
    <3>1. CASE i \in 1..m
      <4>1. g[i] = f[i] /\ g[i - 1] = f[i - 1]
        BY <3>1
      <4> QED BY <2>1, <3>1, <4>1
    <3>2. CASE i = m + 1
      <4>1. g[i] = step[m + 1][f[m]] /\ g[i - 1] = f[m]
        BY <3>2
      <4> QED BY <3>2, <4>1
    <3> QED BY <3>1, <3>2
  <2> HIDE DEF g
  <2>5. Solves(g, m + 1)
    BY <2>3, <2>4
  <2>6. \E h \in [0..(m + 1) -> S] : Solves(h, m + 1)
    BY <2>2, <2>5
  <2> HIDE DEF Solves
  <2> QED BY <2>6
<1>3. T = Nat
  BY <1>1, <1>2, Induct
<1>4. n \in T
  BY <1>3
<1>5. \E f \in [0..n -> S] : Solves(f, n)
  BY <1>4
<1> QED BY <1>5 DEF Runs

\* What follows the same steps is that run.
Follows(e, S, first, step, n) ==
    /\ n \in Nat /\ e[0] = first
    /\ \A i \in 1..n : e[i - 1] \in S => e[i] = step[i][e[i - 1]]

\* What is defined step by step is defined once.
LEMMA Same ==
  \A e, f, S, first, step, n :
     Runs(f, S, first, step, n) /\ Follows(e, S, first, step, n) => \A i \in 0..n : e[i] \in S
<1> SUFFICES ASSUME NEW e, NEW f, NEW S, NEW first, NEW step, NEW n,
                    Runs(f, S, first, step, n), Follows(e, S, first, step, n)
             PROVE  \A i \in 0..n : e[i] \in S
  BY Zenon
<1>0. /\ n \in Nat /\ e[0] = first
      /\ \A i \in 1..n : e[i - 1] \in S => e[i] = step[i][e[i - 1]]
  BY DEF Follows
<1>1. /\ \A i \in 0..n : f[i] \in S
      /\ f[0] = first /\ \A i \in 1..n : f[i] = step[i][f[i - 1]]
  BY DEF Runs
<1> DEFINE T == {i \in Nat : i <= n => e[i] = f[i]}
<1>2. 0 \in T
  BY <1>0, <1>1
<1>3. ASSUME NEW i \in T PROVE i + 1 \in T
  <2> SUFFICES ASSUME i + 1 <= n PROVE e[i + 1] = f[i + 1]
    BY <1>3
  <2>1. i \in Nat /\ i \in 0..n /\ e[i] = f[i]
    BY <1>0, <1>3
  <2> HIDE DEF T
  <2> DEFINE j == i + 1
  <2>2. j \in 1..n /\ j - 1 = i
    BY <2>1
  <2> HIDE DEF j
  <2>3. e[j] = step[j][e[j - 1]] /\ f[j] = step[j][f[j - 1]]
    BY <1>0, <1>1, <2>1, <2>2
  <2>4. e[j] = f[j]
    BY <2>1, <2>2, <2>3
  <2> QED BY <2>4 DEF j
<1>4. T = Nat
  BY <1>2, <1>3, Induct
<1>5. \A i \in 0..n : i \in T
  <2> HIDE DEF T
  <2> QED BY <1>4
<1> QED BY <1>1, <1>5

Joins(u, s, t) ==
    /\ Len(s) \in Nat /\ Len(t) \in Nat /\ Len(u) = Len(s) + Len(t)
    /\ \A i \in 1..Len(s) : u[i] = s[i]
    /\ \A j \in 1..Len(t) : u[Len(s) + j] = t[j]

\* Concatenation.
LEMMA Joined == \A S : \A s, t \in Seq(S) : s \o t \in Seq(S) /\ Joins(s \o t, s, t)
<1> SUFFICES ASSUME NEW S, NEW s \in Seq(S), NEW t \in Seq(S)
             PROVE  s \o t \in Seq(S) /\ Joins(s \o t, s, t)
  OBVIOUS
<1> DEFINE m == Len(s)
           n == Len(t)
           u == s \o t
<1>1. /\ u \in Seq(S) /\ Len(u) = m + n
      /\ \A i \in 1 .. m + n : u[i] = IF i <= m THEN s[i] ELSE t[i - m]
  BY ConcatProperties
<1>2. m \in Nat /\ n \in Nat
  BY LenProperties
<1> HIDE DEF m, n, u
<1>3. \A i \in 1..m : u[i] = s[i]
  BY <1>1, <1>2
<1>4. ASSUME NEW j \in 1..n PROVE u[m + j] = t[j]
  <2> DEFINE i == m + j
  <2>1. i \in 1 .. m + n /\ ~(i <= m) /\ i - m = j
    BY <1>2
  <2> HIDE DEF i
  <2>2. u[i] = t[j]
    BY <1>1, <2>1
  <2> QED BY <2>2 DEF i
<1> QED BY <1>1, <1>2, <1>3, <1>4 DEF m, n, u, Joins

\* In what is put together piece by piece, each stage begins with every earlier one.
Begins(s, t) == Len(s) <= Len(t) /\ \A o \in 1..Len(s) : t[o] = s[o]

\* What grows by concatenation begins alike at every stage.
LEMMA Stages ==
  ASSUME NEW n \in Nat, NEW f \in [0..n -> Seq(Byte)], NEW g,
         \A i \in 1..n : g[i] \in Seq(Byte) /\ f[i] = f[i - 1] \o g[i]
  PROVE  \A i \in 0..n : \A k \in 0..i : Begins(f[k], f[i])
<1> DEFINE T == {i \in Nat : i <= n => \A k \in 0..i : Begins(f[k], f[i])}
<1>0. \A i \in 0..n : f[i] \in Seq(Byte) /\ Len(f[i]) \in Nat
  BY LenProperties
<1>a. \A i \in 0..(n - 1) : f[i + 1] = f[i] \o g[i + 1] /\ g[i + 1] \in Seq(Byte)
  <2> SUFFICES ASSUME NEW i \in 0..(n - 1)
               PROVE  f[i + 1] = f[i] \o g[i + 1] /\ g[i + 1] \in Seq(Byte)
    OBVIOUS
  <2> DEFINE j == i + 1
  <2>1. j \in 1..n /\ j - 1 = i
    OBVIOUS
  <2> HIDE DEF j
  <2>2. f[j] = f[j - 1] \o g[j] /\ g[j] \in Seq(Byte)
    BY <2>1
  <2> QED BY <2>1, <2>2 DEF j
<1>1. 0 \in T
  <2> SUFFICES ASSUME NEW k \in 0..0 PROVE Begins(f[k], f[0])
    OBVIOUS
  <2>1. k = 0
    OBVIOUS
  <2> QED BY <1>0, <2>1 DEF Begins
<1>2. ASSUME NEW i \in T PROVE i + 1 \in T
  <2>0. i \in Nat /\ (i <= n => \A k \in 0..i : Begins(f[k], f[i]))
    BY <1>2
  <2> HIDE DEF T
  <2>1. ASSUME i + 1 <= n, NEW k \in 0..(i + 1) PROVE Begins(f[k], f[i + 1])
    <3>1. CASE k = i + 1
      BY <1>0, <2>0, <2>1, <3>1 DEF Begins
    <3>2. CASE k \in 0..i
      <4>1. Begins(f[k], f[i])
        BY <2>0, <2>1, <3>2
      <4>2. i + 1 \in 1..n /\ i + 1 - 1 = i /\ i \in 0..n /\ k \in 0..n
        BY <2>0, <2>1, <3>2
      <4>3. f[i + 1] = f[i] \o g[i + 1] /\ f[i] \in Seq(Byte) /\ g[i + 1] \in Seq(Byte)
        <5>1. i \in 0..(n - 1)
          BY <4>2
        <5>2. f[i] \in Seq(Byte)
          BY <1>0, <4>2
        <5> QED BY <1>a, <5>1, <5>2
      <4>4. /\ Len(f[i + 1]) = Len(f[i]) + Len(g[i + 1]) /\ Len(g[i + 1]) \in Nat
            /\ \A o \in 1..Len(f[i]) : f[i + 1][o] = f[i][o]
        BY <4>3, <1>0, <4>2, ConcatProperties, LenProperties
      <4> QED BY <1>0, <4>1, <4>2, <4>4 DEF Begins
    <3> QED BY <2>0, <2>1, <3>1, <3>2
  <2> QED BY <2>0, <2>1 DEF T
<1>3. T = Nat
  BY <1>1, <1>2, Induct
<1>4. \A i \in 0..n : i \in T
  <2> HIDE DEF T
  <2> QED BY <1>3
<1>5. \A i \in 0..n : \A k \in 0..i : Begins(f[k], f[i])
  BY <1>4
<1> QED BY <1>5

-----------------------------------------------------------------------------
(* What is on the wire. *)

LEMMA EscapesAreBytes ==
  /\ Byte = {"FEND", "FESC", "TFEND", "TFESC", "x00", "x01"}
  /\ \A b \in Byte : Escape(b) \in Seq(Byte)
  /\ FEND \in Byte /\ FESC \in Byte
BY DEF Byte, Escape, FEND, FESC, TFEND, TFESC

\* Stage k of a payload's escapes.
LEMMA Escapes ==
  ASSUME NEW p \in Seq(Byte)
  PROVE  \E e \in [0..Len(p) -> Seq(Byte)] :
            /\ e[0] = <<>> /\ \A i \in 1..Len(p) : e[i] = e[i - 1] \o Escape(p[i])
            /\ EncodeDataFrame(p) = <<FEND, "x00">> \o e[Len(p)] \o <<FEND>>
<1> DEFINE n == Len(p)
           Strings == Seq(Byte)
           next == [i \in Nat |-> [x \in Strings |-> IF i \in 1..n THEN x \o Escape(p[i]) ELSE x]]
           Solves(f) == f = [i \in 0..n |-> IF i = 0 THEN <<>> ELSE f[i - 1] \o Escape(p[i])]
           e == CHOOSE f : Solves(f)
<1>1. n \in Nat /\ \A i \in 1..n : p[i] \in Byte
  BY LenProperties, ElementOfSeq
<1>2. <<>> \in Strings /\ next \in Steps(Strings)
  BY <1>1, EscapesAreBytes, ConcatProperties, EmptySeq DEF Steps
<1>3. \A x \in Strings, i \in 1..n : next[i][x] = x \o Escape(p[i])
  <2> HIDE DEF Strings
  <2> QED BY <1>1
<1>4. EncodeDataFrame(p) = <<FEND, "x00">> \o e[n] \o <<FEND>>
  BY DEF EncodeDataFrame
<1> HIDE DEF n, Strings, next
<1>5. PICK f : Runs(f, Strings, <<>>, next, n)
  BY <1>1, <1>2, Iterates
<1>6. Solves(f)
  <2>1. ASSUME NEW i \in 1..n PROVE next[i][f[i - 1]] = f[i - 1] \o Escape(p[i])
    <3>1. i - 1 \in 0..n
      BY <1>1
    <3>2. f[i - 1] \in Strings
      BY <1>5, <3>1 DEF Runs
    <3> QED BY <1>3, <3>2
  <2>2. ASSUME NEW i \in 0..n PROVE f[i] = IF i = 0 THEN <<>> ELSE f[i - 1] \o Escape(p[i])
    <3>1. CASE i = 0
      BY <1>5, <3>1 DEF Runs
    <3>2. CASE i \in 1..n
      BY <1>5, <2>1, <3>2 DEF Runs
    <3> QED BY <1>1, <3>1, <3>2
  <2>3. f = [i \in 0..n |-> f[i]]
    BY <1>5 DEF Runs
  <2> QED BY <2>2, <2>3, Zenon
<1>7. Solves(e)
  <2> HIDE DEF Solves
  <2> QED BY <1>6
<1> HIDE DEF e
<1>8. e[0] = <<>> /\ \A i \in 1..n : e[i] = e[i - 1] \o Escape(p[i])
  BY <1>1, <1>7
<1>9. e \in [0..n -> Strings]
  <2>1. e = [i \in 0..n |-> e[i]]
    <3> DEFINE V(i) == IF i = 0 THEN <<>> ELSE e[i - 1] \o Escape(p[i])
    <3>1. e = [i \in 0..n |-> V(i)]
      BY <1>7
    <3> HIDE DEF V
    <3> QED BY <3>1
  <2>2. \A i \in 1..n : e[i - 1] \in Strings => e[i] = next[i][e[i - 1]]
    BY <1>3, <1>8
  <2>3. \A i \in 0..n : e[i] \in Strings
    <3>1. Follows(e, Strings, <<>>, next, n)
      BY <1>1, <1>8, <2>2 DEF Follows
    <3> QED BY <1>5, <3>1, Same
  <2> QED BY <2>1, <2>3
<1> QED BY <1>4, <1>8, <1>9 DEF n, Strings

\* The bytes of w after place from, up to place to, stand for b.
Coded(w, from, to, b) ==
    \/ to = from + 1 /\ w[to] = b /\ b \notin {FEND, FESC}
    \/ /\ to = from + 2 /\ w[to - 1] = FESC
       /\ w[to] \in {TFEND, TFESC} /\ Unescape(w[to]) = b

\* The byte sequence w frames the contents c, byte k of which ends at place q[k].
Framed(w, c, q) ==
    /\ w \in Seq(Byte) /\ c \in Seq(Byte) /\ c # <<>>
    /\ q \in [0..Len(c) -> Nat] /\ q[0] = 1 /\ Len(w) = q[Len(c)] + 1
    /\ \A k \in 0..Len(c) : q[k] <= q[Len(c)]
    /\ w[1] = FEND /\ w[Len(w)] = FEND
    /\ \A k \in 1..Len(c) : Coded(w, q[k - 1], q[k], c[k])

\* A byte is escaped by two or stands for itself.
LEMMA EscapeCases ==
  ASSUME NEW b \in Byte
  PROVE  \/ b \notin {FEND, FESC} /\ Escape(b) = <<b>>
         \/ \E x \in {TFEND, TFESC} : Escape(b) = <<FESC, x>> /\ Unescape(x) = b
BY DEF Byte, Escape, Unescape, FEND, FESC, TFEND, TFESC

\* One byte of a payload more.
LEMMA OneEscape ==
  ASSUME NEW s \in Seq(Byte), NEW b \in Byte, NEW t, t = s \o Escape(b)
  PROVE  Coded(t, Len(s), Len(t), b)
<1> DEFINE n == Len(s)
<1>1. CASE b \notin {FEND, FESC} /\ Escape(b) = <<b>>
  <2> DEFINE u == <<b>>
  <2>1. u \in Seq(Byte) /\ Len(u) = 1 /\ u[1] = b /\ t = s \o u
    BY <1>1
  <2> HIDE DEF u
  <2>2. Joins(t, s, u)
    BY <2>1, Joined
  <2>3. Len(t) = n + 1 /\ t[n + 1] = b
    BY <2>1, <2>2 DEF Joins
  <2> QED BY <1>1, <2>3 DEF Coded
<1>2. CASE \E x \in {TFEND, TFESC} : Escape(b) = <<FESC, x>> /\ Unescape(x) = b
  <2>1. PICK x \in {TFEND, TFESC} : Escape(b) = <<FESC, x>> /\ Unescape(x) = b
    BY <1>2
  <2> DEFINE u == <<FESC, x>>
  <2>2. u \in Seq(Byte) /\ Len(u) = 2 /\ u[1] = FESC /\ u[2] = x /\ t = s \o u
    BY <2>1 DEF Byte, FESC, TFEND, TFESC
  <2> HIDE DEF u
  <2>3. Joins(t, s, u)
    BY <2>2, Joined
  <2>4. n \in Nat /\ Len(t) = n + 2 /\ t[n + 1] = FESC /\ t[n + 2] = x
    BY <2>2, <2>3 DEF Joins
  <2> HIDE DEF n
  <2>5. n + 2 - 1 = n + 1
    BY <2>4
  <2> QED BY <2>1, <2>4, <2>5 DEF Coded, n
<1> QED BY <1>1, <1>2, EscapeCases

\* A byte coded in the body of a frame is coded two places on in the frame.
LEMMA Shifted ==
  ASSUME NEW t, NEW w, NEW from \in Nat, NEW to \in Nat, NEW b,
         Coded(t, from, to, b), \A o \in 1..to : w[o + 2] = t[o]
  PROVE  Coded(w, from + 2, to + 2, b)
<1>1. to \in 1..to
  BY DEF Coded
<1>2. w[to + 2] = t[to]
  BY <1>1
<1>3. CASE to = from + 1 /\ t[to] = b /\ b \notin {FEND, FESC}
  <2>1. to + 2 = from + 2 + 1
    BY <1>3
  <2> QED BY <1>2, <1>3, <2>1 DEF Coded
<1>4. CASE /\ to = from + 2 /\ t[to - 1] = FESC
           /\ t[to] \in {TFEND, TFESC} /\ Unescape(t[to]) = b
  <2> DEFINE o == to - 1
  <2>1. o \in 1..to /\ o + 2 = to + 2 - 1 /\ to + 2 = from + 2 + 2
    BY <1>4
  <2>2. w[o + 2] = t[o]
    BY <2>1
  <2> QED BY <1>2, <1>4, <2>1, <2>2 DEF Coded
<1> QED BY <1>3, <1>4 DEF Coded

\* A payload with its command byte before it.
LEMMA Commanded ==
  ASSUME NEW p \in Seq(Byte), NEW c, c = <<"x00">> \o p
  PROVE  /\ c \in Seq(Byte) /\ c # <<>> /\ Len(p) \in Nat /\ Len(c) = Len(p) + 1
         /\ c[1] = "x00" /\ \A k \in 1..Len(p) : c[k + 1] = p[k]
<1> DEFINE z == <<"x00">>
           n == Len(p)
<1>1. z \in Seq(Byte) /\ Len(z) = 1 /\ z[1] = "x00" /\ c = z \o p
  BY DEF Byte
<1> HIDE DEF z
<1>2. c \in Seq(Byte) /\ Joins(c, z, p)
  BY <1>1, Joined
<1>3. n \in Nat /\ Len(c) = 1 + n /\ c[1] = z[1] /\ \A k \in 1..n : c[1 + k] = p[k]
  BY <1>1, <1>2 DEF Joins
<1>4. c # <<>>
  BY <1>3
<1> HIDE DEF n
<1>5. 1 + n = n + 1 /\ \A k \in 1..n : c[k + 1] = p[k]
  BY <1>3
<1> QED BY <1>1, <1>2, <1>3, <1>4, <1>5 DEF n

\* A frame is its body between a head of two bytes and a delimiter.
LEMMA Delimited ==
  ASSUME NEW x \in Seq(Byte), NEW w, w = <<FEND, "x00">> \o x \o <<FEND>>
  PROVE  /\ w \in Seq(Byte) /\ Len(x) \in Nat /\ Len(w) = Len(x) + 3
         /\ w[1] = FEND /\ w[2] = "x00" /\ w[Len(w)] = FEND
         /\ \A o \in 1..Len(x) : w[o + 2] = x[o]
<1> DEFINE a == <<FEND, "x00">>
           z == <<FEND>>
           m == a \o x
           n == Len(x)
<1>1. /\ a \in Seq(Byte) /\ Len(a) = 2 /\ a[1] = FEND /\ a[2] = "x00"
      /\ z \in Seq(Byte) /\ Len(z) = 1 /\ z[1] = FEND /\ w = m \o z
  BY DEF Byte, FEND
<1> HIDE DEF a, z
<1>2. m \in Seq(Byte) /\ Joins(m, a, x)
  BY <1>1, Joined
<1> HIDE DEF m
<1>3. w \in Seq(Byte) /\ Joins(w, m, z)
  BY <1>1, <1>2, Joined
<1>4. /\ n \in Nat /\ Len(m) = 2 + n /\ m[1] = FEND /\ m[2] = "x00"
      /\ \A o \in 1..n : m[2 + o] = x[o]
  BY <1>1, <1>2 DEF Joins
<1>5. /\ Len(w) = 2 + n + 1 /\ w[2 + n + 1] = FEND
      /\ \A i \in 1..(2 + n) : w[i] = m[i]
  BY <1>1, <1>3, <1>4 DEF Joins
<1> HIDE DEF n
<1>6. 2 + n + 1 = n + 3 /\ 1 \in 1..(2 + n) /\ 2 \in 1..(2 + n)
      /\ \A o \in 1..n : o + 2 = 2 + o /\ 2 + o \in 1..(2 + n)
  BY <1>4
<1>7. \A o \in 1..n : w[o + 2] = x[o]
  BY <1>4, <1>5, <1>6
<1> QED BY <1>3, <1>4, <1>5, <1>6, <1>7 DEF n

\* Where the bytes of a payload end in its frame, e[k] being the first k escaped.
Place(e, k) == IF k = 0 THEN 1 ELSE Len(e[k - 1]) + 2

Placed(w, p, e, n) ==
    /\ Place(e, 0) = 1 /\ Place(e, 1) = 2 /\ Place(e, n + 1) = Len(e[n]) + 2
    /\ \A k \in 0..(n + 1) : Place(e, k) \in Nat /\ Place(e, k) <= Place(e, n + 1)
    /\ \A k \in 1..n : Coded(w, Place(e, k), Place(e, k + 1), p[k])

\* Each byte of a payload has its place in the frame, in order.
LEMMA PayloadFramed ==
  ASSUME NEW p \in Seq(Byte), NEW n \in Nat, n = Len(p),
         NEW e \in [0..n -> Seq(Byte)],
         e[0] = <<>>, \A i \in 1..n : e[i] = e[i - 1] \o Escape(p[i]),
         NEW w, \A o \in 1..Len(e[n]) : w[o + 2] = e[n][o]
  PROVE  Placed(w, p, e, n)
<1> DEFINE g == [i \in 1..n |-> Escape(p[i])]
           L(k) == Len(e[k])
<1>1. \A i \in 1..n : p[i] \in Byte
  BY ElementOfSeq
<1>2. \A i \in 1..n : g[i] = Escape(p[i]) /\ g[i] \in Seq(Byte) /\ e[i] = e[i - 1] \o g[i]
  BY <1>1, EscapesAreBytes
<1> HIDE DEF g
<1>3. \A k \in 0..n : Begins(e[k], e[n])
  <2>1. \A i \in 0..n : \A k \in 0..i : Begins(e[k], e[i])
    BY <1>2, Stages
  <2> QED BY <2>1
<1>4. \A k \in 0..n : L(k) \in Nat /\ L(k) <= L(n) /\ \A o \in 1..L(k) : e[n][o] = e[k][o]
  BY <1>3, LenProperties DEF Begins
<1>5. L(0) = 0
  OBVIOUS
<1>6. \A o \in 1..L(n) : w[o + 2] = e[n][o]
  OBVIOUS
<1>7. ASSUME NEW k \in 1..n PROVE Coded(w, L(k - 1) + 2, L(k) + 2, p[k])
  <2>1. k - 1 \in 0..n /\ k \in 0..n
    OBVIOUS
  <2>2. Coded(e[k], L(k - 1), L(k), p[k])
    BY <1>1, <1>2, <2>1, OneEscape
  <2> HIDE DEF L
  <2>3. L(k - 1) \in Nat /\ L(k) \in Nat /\ L(n) \in Nat /\ L(k) <= L(n)
    BY <1>4, <2>1
  <2>4. \A o \in 1..L(k) : w[o + 2] = e[k][o]
    BY <1>4, <1>6, <2>1, <2>3
  <2> QED BY ZenonT(30), <2>2, <2>3, <2>4, Shifted
<1> HIDE DEF L
<1>8. \A k \in 1..(n + 1) : Place(e, k) = L(k - 1) + 2
  BY DEF Place, L
<1>9. Place(e, 0) = 1
  BY DEF Place
<1>10. 1 \in 1..(n + 1) /\ 1 - 1 = 0 /\ n + 1 \in 1..(n + 1) /\ n + 1 - 1 = n /\ n \in 0..n
  OBVIOUS
<1>11. Place(e, 1) = 2 /\ Place(e, n + 1) = L(n) + 2
  BY <1>5, <1>8, <1>10
<1>12. ASSUME NEW k \in 0..(n + 1) PROVE Place(e, k) \in Nat /\ Place(e, k) <= Place(e, n + 1)
  <2>1. CASE k = 0
    BY <1>4, <1>9, <1>10, <1>11, <2>1
  <2>2. CASE k \in 1..(n + 1)
    <3>1. k - 1 \in 0..n
      BY <2>2
    <3>2. L(k - 1) \in Nat /\ L(k - 1) <= L(n) /\ L(n) \in Nat
      BY <1>4, <1>10, <3>1
    <3> QED BY <1>8, <1>11, <2>2, <3>2
  <2> QED BY <2>1, <2>2
<1>13. ASSUME NEW k \in 1..n PROVE Coded(w, Place(e, k), Place(e, k + 1), p[k])
  <2>1. k \in 1..(n + 1) /\ k + 1 \in 1..(n + 1) /\ k + 1 - 1 = k
    OBVIOUS
  <2> QED BY <1>7, <1>8, <2>1
<1> QED BY <1>9, <1>11, <1>12, <1>13 DEF L, Placed

\* What encode_data of kiss/codec.rs writes holds the payload.
LEMMA DataFramed ==
  ASSUME NEW p \in Seq(Byte)
  PROVE  \E q : Framed(EncodeDataFrame(p), <<"x00">> \o p, q)
<1> DEFINE n == Len(p)
           c == <<"x00">> \o p
           w == EncodeDataFrame(p)
<1>1. PICK e \in [0..n -> Seq(Byte)] :
        /\ e[0] = <<>> /\ \A i \in 1..n : e[i] = e[i - 1] \o Escape(p[i])
        /\ w = <<FEND, "x00">> \o e[n] \o <<FEND>>
  BY Escapes
<1>2. n \in Nat /\ n = Len(p)
  BY LenProperties
<1>2a. n \in 0..n
  BY <1>2
<1> HIDE DEF w
<1>3. /\ c \in Seq(Byte) /\ c # <<>> /\ Len(c) = n + 1
      /\ c[1] = "x00" /\ \A k \in 1..n : c[k + 1] = p[k]
  BY Commanded
<1> HIDE DEF c, n
<1>4. e[n] \in Seq(Byte)
  BY <1>1, <1>2a
<1>5. /\ w \in Seq(Byte) /\ Len(e[n]) \in Nat /\ Len(w) = Len(e[n]) + 3
      /\ w[1] = FEND /\ w[2] = "x00" /\ w[Len(w)] = FEND
      /\ \A o \in 1..Len(e[n]) : w[o + 2] = e[n][o]
  BY <1>1, <1>4, Delimited
<1> DEFINE q == [k \in 0..(n + 1) |-> Place(e, k)]
           P(k) == Place(e, k)
<1>6. /\ P(0) = 1 /\ P(1) = 2 /\ P(n + 1) = Len(e[n]) + 2
      /\ \A k \in 0..(n + 1) : P(k) \in Nat /\ P(k) <= P(n + 1)
      /\ \A k \in 1..n : Coded(w, P(k), P(k + 1), p[k])
  <2>1. Placed(w, p, e, n)
    BY <1>1, <1>2, <1>5, PayloadFramed
  <2> QED BY <2>1 DEF Placed
<1> HIDE DEF P
<1>7. \A k \in 0..(n + 1) : q[k] = P(k)
  BY DEF P
<1>8. q \in [0..(n + 1) -> Nat] /\ q[0] = 1 /\ \A k \in 0..(n + 1) : q[k] <= q[n + 1]
  <2>1. q = [k \in 0..(n + 1) |-> q[k]]
    OBVIOUS
  <2> HIDE DEF q
  <2> QED BY <1>2, <1>6, <1>7, <2>1
<1> HIDE DEF q
<1>9. Len(w) = q[n + 1] + 1
  BY <1>2, <1>5, <1>6, <1>7
<1>10. ASSUME NEW k \in 1..(n + 1) PROVE Coded(w, q[k - 1], q[k], c[k])
  <2>1. CASE k = 1
    <3>1. q[1 - 1] = 1 /\ q[1] = 1 + 1 /\ "x00" \notin {FEND, FESC}
      BY <1>2, <1>6, <1>7 DEF FEND, FESC
    <3> QED BY <1>3, <1>5, <2>1, <3>1 DEF Coded
  <2>2. CASE k # 1
    <3> DEFINE j == k - 1
    <3>1. j \in 1..n /\ j + 1 = k /\ j \in 0..(n + 1) /\ k \in 0..(n + 1)
      BY <1>2, <2>2
    <3> HIDE DEF j
    <3>2. c[k] = p[j] /\ Coded(w, P(j), P(k), p[j]) /\ q[j] = P(j) /\ q[k] = P(k)
      BY <1>3, <1>6, <1>7, <3>1
    <3>3. k - 1 = j
      BY DEF j
    <3> QED BY <3>2, <3>3
  <2> QED BY <2>1, <2>2
<1>11. Framed(w, c, q)
  BY <1>3, <1>5, <1>8, <1>9, <1>10 DEF Framed
<1> QED BY <1>11 DEF w, c

-----------------------------------------------------------------------------
(* The script on the wire. *)

\* What the frame of an item holds, its command byte first.
Content(item) ==
    IF item.kind = "param" THEN <<"x01", "x00">>
    ELSE <<"x00">> \o (IF item.kind = "empty" THEN <<>> ELSE item.payload)

Items == [kind : {"noise", "param", "empty", "data"}, payload : Seq(Byte)]

\* A parameter frame, which the bridge ignores.
LEMMA ParamFramed == \E q : Framed(<<FEND, "x01", "x00", FEND>>, <<"x01", "x00">>, q)
<1> DEFINE w == <<FEND, "x01", "x00", FEND>>
           c == <<"x01", "x00">>
           q == [k \in 0..2 |-> k + 1]
<1>1. /\ w \in Seq(Byte) /\ Len(w) = 4 /\ w[1] = FEND /\ w[2] = "x01" /\ w[3] = "x00" /\ w[4] = FEND
      /\ c \in Seq(Byte) /\ Len(c) = 2 /\ c[1] = "x01" /\ c[2] = "x00" /\ c # <<>>
  BY DEF Byte, FEND
<1>2. /\ q \in [0..2 -> Nat] /\ q[0] = 1 /\ q[1] = 2 /\ q[2] = 3
      /\ \A k \in 0..2 : q[k] <= q[2]
  OBVIOUS
<1> HIDE DEF w, c, q
<1>3. Coded(w, q[0], q[1], c[1]) /\ Coded(w, q[1], q[2], c[2])
  <2>1. "x01" \notin {FEND, FESC} /\ "x00" \notin {FEND, FESC}
    BY DEF FEND, FESC
  <2> QED BY <1>1, <1>2, <2>1 DEF Coded
<1>4. \A k \in 1..2 : Coded(w, q[k - 1], q[k], c[k])
  <2>1. \A k \in 1..2 : (k = 1 \/ k = 2) /\ 1 - 1 = 0 /\ 2 - 1 = 1
    OBVIOUS
  <2> QED BY <1>3, <2>1
<1>5. Framed(w, c, q)
  BY <1>1, <1>2, <1>4 DEF Framed
<1> QED BY <1>5 DEF w, c

\* Every item of a script is noise or a frame.
LEMMA ItemFramed ==
  ASSUME NEW item \in Items, item.kind # "noise"
  PROVE  \E q : Framed(Wire(item), Content(item), q)
<1>1. CASE item.kind = "param"
  BY <1>1, ParamFramed DEF Wire, Content
<1>2. CASE item.kind = "empty"
  <2>1. \E q : Framed(EncodeDataFrame(<<>>), <<"x00">> \o <<>>, q)
    <3>1. <<>> \in Seq(Byte)
      OBVIOUS
    <3> QED BY <3>1, DataFramed
  <2>2. Wire(item) = EncodeDataFrame(<<>>) /\ Content(item) = <<"x00">> \o <<>>
    BY <1>2 DEF Wire, Content
  <2> QED BY <2>1, <2>2
<1>3. CASE item.kind = "data"
  <2>1. item.payload \in Seq(Byte)
    BY DEF Items
  <2>2. \E q : Framed(EncodeDataFrame(item.payload), <<"x00">> \o item.payload, q)
    BY <2>1, DataFramed
  <2>3. Wire(item) = EncodeDataFrame(item.payload) /\ Content(item) = <<"x00">> \o item.payload
    BY <1>3 DEF Wire, Content
  <2> QED BY <2>2, <2>3
<1> QED BY <1>1, <1>2, <1>3 DEF Items

\* Of the items that are frames, those of data are transmitted, as they are.
LEMMA ItemTaken ==
  ASSUME NEW item \in Items, item.kind # "noise", item.kind = "data" => item.payload # <<>>
  PROVE  LET frame == TakeFrame(Content(item))
         IN  /\ Transmits(frame) <=> item.kind = "data"
             /\ item.kind = "data" => frame.data = item.payload
<1> DEFINE p == IF item.kind = "empty" THEN <<>> ELSE item.payload
<1>1. CASE item.kind = "param"
  <2>1. Head(Content(item)) = "x01"
    BY <1>1 DEF Content
  <2>2. TakeFrame(Content(item)).cmd = "x01"
    BY <2>1 DEF TakeFrame
  <2> QED BY <1>1, <2>2 DEF Transmits, IsData, FEND
<1>2. CASE item.kind # "param"
  <2> DEFINE c == <<"x00">> \o p
  <2>1. p \in Seq(Byte) /\ Content(item) = c
    BY <1>2 DEF Items, Content
  <2> HIDE DEF p
  <2>2. /\ c \in Seq(Byte) /\ c # <<>> /\ Len(p) \in Nat /\ Len(c) = Len(p) + 1
        /\ c[1] = "x00" /\ \A k \in 1..Len(p) : c[k + 1] = p[k]
    BY <2>1, Commanded
  <2> HIDE DEF c
  <2>3. Head(c) = "x00" /\ Tail(c) \in Seq(Byte) /\ Len(Tail(c)) = Len(p)
    BY <2>2
  <2>4. \A k \in 1..Len(p) : Tail(c)[k] = c[k + 1]
    BY <2>2
  <2>5. Tail(c) = p
    BY <2>1, <2>2, <2>3, <2>4, SeqEqual
  <2>6. TakeFrame(c).cmd = "x00" /\ TakeFrame(c).data = p
    BY <2>3, <2>5 DEF TakeFrame
  <2>7. Transmits(TakeFrame(c)) <=> p # <<>>
    BY <2>6 DEF Transmits, IsData
  <2>8. /\ item.kind = "data" => p = item.payload
        /\ p # <<>> <=> item.kind = "data"
    BY <1>2 DEF p, Items
  <2> QED BY <2>1, <2>6, <2>7, <2>8
<1> QED BY <1>1, <1>2

Total == Len(Script)
\* What the script is made of.
LEMMA TheItems ==
  /\ Total \in Nat
  /\ \A i \in 1..Total : /\ Script[i] \in Items
                         /\ Script[i].kind = "noise" => i = 1
                         /\ Script[i].kind = "data" => Script[i].payload # <<>>
BY ScriptOfItems, ElementOfSeq, LenProperties DEF Items, Total

\* What is written to the socket is bytes.
LEMMA WireBytes ==
  ASSUME NEW item \in Items
  PROVE  Wire(item) \in Seq(Byte) /\ Len(Wire(item)) \in Nat \ {0}
<1>1. CASE item.kind = "noise"
  BY <1>1 DEF Wire, Byte, TFEND
<1>2. CASE item.kind # "noise"
  <2>1. PICK q : Framed(Wire(item), Content(item), q)
    BY <1>2, ItemFramed
  <2> DEFINE w == Wire(item)
             c == Content(item)
  <2> HIDE DEF w, c
  <2>2. w \in Seq(Byte) /\ c \in Seq(Byte) /\ q \in [0..Len(c) -> Nat] /\ Len(w) = q[Len(c)] + 1
    BY <2>1 DEF Framed, w, c
  <2>3. Len(c) \in 0..Len(c)
    BY <2>2
  <2>4. Len(w) \in Nat \ {0}
    BY <2>2, <2>3
  <2> QED BY <2>2, <2>4 DEF w
<1> QED BY <1>1, <1>2

\* The stream, item by item.
LEMMA StreamRuns ==
  /\ Stream \in [0..Total -> Seq(Byte)] /\ Stream[0] = <<>>
  /\ \A i \in 1..Total : Stream[i] = Stream[i - 1] \o Wire(Script[i])
<1> DEFINE Strings == Seq(Byte)
           next == [i \in Nat |-> [x \in Strings |->
                      IF i \in 1..Total THEN x \o Wire(Script[i]) ELSE x]]
           Solves(f) == f = [i \in 0..Total |-> IF i = 0 THEN <<>> ELSE f[i - 1] \o Wire(Script[i])]
<1>1. Total \in Nat /\ \A i \in 1..Total : Wire(Script[i]) \in Seq(Byte)
  BY TheItems, WireBytes
<1>2. <<>> \in Strings /\ next \in Steps(Strings)
  BY <1>1, ConcatProperties, EmptySeq DEF Steps
<1>3. \A x \in Strings, i \in 1..Total : next[i][x] = x \o Wire(Script[i])
  <2> HIDE DEF Strings
  <2> QED BY <1>1
<1>4. Stream = CHOOSE f : Solves(f)
  BY DEF Stream, Total
<1> HIDE DEF Strings, next
<1>5. PICK f : Runs(f, Strings, <<>>, next, Total)
  BY <1>1, <1>2, Iterates
<1>6. Solves(f)
  <2>1. ASSUME NEW i \in 1..Total PROVE next[i][f[i - 1]] = f[i - 1] \o Wire(Script[i])
    <3>1. i - 1 \in 0..Total
      BY <1>1
    <3>2. f[i - 1] \in Strings
      BY <1>5, <3>1 DEF Runs
    <3> QED BY <1>3, <3>2
  <2>2. ASSUME NEW i \in 0..Total PROVE f[i] = IF i = 0 THEN <<>> ELSE f[i - 1] \o Wire(Script[i])
    <3>1. CASE i = 0
      BY <1>5, <3>1 DEF Runs
    <3>2. CASE i \in 1..Total
      BY <1>5, <2>1, <3>2 DEF Runs
    <3> QED BY <1>1, <3>1, <3>2
  <2>3. f = [i \in 0..Total |-> f[i]]
    BY <1>5 DEF Runs
  <2> QED BY <2>2, <2>3, Zenon
<1>7. Solves(Stream)
  <2> HIDE DEF Solves
  <2> QED BY <1>4, <1>6
<1> DEFINE V(i) == IF i = 0 THEN <<>> ELSE Stream[i - 1] \o Wire(Script[i])
<1>a. Stream = [i \in 0..Total |-> V(i)]
  BY <1>7
<1> HIDE DEF V
<1>8. Stream[0] = <<>> /\ \A i \in 1..Total : Stream[i] = Stream[i - 1] \o Wire(Script[i])
  <2>1. \A i \in 0..Total : Stream[i] = V(i)
    BY <1>a
  <2>2. V(0) = <<>> /\ 0 \in 0..Total
    BY <1>1 DEF V
  <2>3. ASSUME NEW i \in 1..Total PROVE Stream[i] = Stream[i - 1] \o Wire(Script[i])
    <3>1. i \in 0..Total /\ i # 0
      BY <1>1
    <3>2. V(i) = Stream[i - 1] \o Wire(Script[i])
      BY <3>1 DEF V
    <3> QED BY <2>1, <3>1, <3>2
  <2> QED BY <2>1, <2>2, <2>3
<1>9. Stream \in [0..Total -> Strings]
  <2>1. Stream = [i \in 0..Total |-> Stream[i]]
    BY <1>a
  <2>2. \A i \in 1..Total : Stream[i - 1] \in Strings => Stream[i] = next[i][Stream[i - 1]]
    BY <1>3, <1>8
  <2>3. \A i \in 0..Total : Stream[i] \in Strings
    <3>1. Follows(Stream, Strings, <<>>, next, Total)
      BY <1>1, <1>8, <2>2 DEF Follows
    <3> QED BY <1>5, <3>1, Same
  <2> QED BY <2>1, <2>3
<1> QED BY <1>8, <1>9 DEF Strings

\* Where item i ends on the wire.
EndOf(i) == Len(Stream[i])
WireOf(i) == Wire(Script[i])

\* Each item has its place on the wire.
LEMMA OnTheWire ==
  /\ Total \in Nat /\ EndOf(0) = 0 /\ \A i \in 0..Total : EndOf(i) \in Nat
  /\ Bytes \in Seq(Byte) /\ Len(Bytes) = EndOf(Total)
  /\ \A i \in 1..Total : EndOf(i) = EndOf(i - 1) + Len(WireOf(i)) /\ Len(WireOf(i)) \in Nat \ {0}
  /\ \A i \in 0..Total : \A k \in 0..i : EndOf(k) <= EndOf(i)
  /\ \A i \in 1..Total : \A j \in 1..Len(WireOf(i)) : Bytes[EndOf(i - 1) + j] = WireOf(i)[j]
<1>1. Total \in Nat
  BY TheItems
<1>2. \A i \in 1..Total : WireOf(i) \in Seq(Byte) /\ Len(WireOf(i)) \in Nat \ {0}
  BY TheItems, WireBytes DEF WireOf
<1>3. /\ Stream \in [0..Total -> Seq(Byte)] /\ Stream[0] = <<>>
      /\ \A i \in 1..Total : Stream[i] = Stream[i - 1] \o WireOf(i)
  BY StreamRuns DEF WireOf
<1> DEFINE g == [i \in 1..Total |-> WireOf(i)]
<1>4. \A i \in 1..Total : g[i] \in Seq(Byte) /\ Stream[i] = Stream[i - 1] \o g[i]
  BY <1>2, <1>3
<1> HIDE DEF g
<1>5. \A i \in 0..Total : \A k \in 0..i : Begins(Stream[k], Stream[i])
  BY <1>1, <1>3, <1>4, Stages
<1>6. \A i \in 0..Total : Stream[i] \in Seq(Byte) /\ EndOf(i) \in Nat
  BY <1>3, LenProperties DEF EndOf
<1>7. EndOf(0) = 0
  BY <1>3 DEF EndOf
<1>8. \A i \in 0..Total : \A k \in 0..i : EndOf(k) <= EndOf(i)
  BY <1>5 DEF Begins, EndOf
<1>9. Total \in 0..Total /\ Bytes = Stream[Total]
  BY <1>1 DEF Bytes, Total
<1>10. ASSUME NEW i \in 1..Total
       PROVE  /\ EndOf(i) = EndOf(i - 1) + Len(WireOf(i))
              /\ \A j \in 1..Len(WireOf(i)) : Bytes[EndOf(i - 1) + j] = WireOf(i)[j]
  <2>1. i \in 0..Total /\ i - 1 \in 0..Total /\ i \in 0..Total
    BY <1>1
  <2>2. Joins(Stream[i], Stream[i - 1], WireOf(i))
    BY <1>2, <1>3, <1>6, <2>1, Joined
  <2>3. /\ EndOf(i) = EndOf(i - 1) + Len(WireOf(i))
        /\ \A j \in 1..Len(WireOf(i)) : Stream[i][EndOf(i - 1) + j] = WireOf(i)[j]
    BY <2>2 DEF Joins, EndOf
  <2>4. Begins(Stream[i], Bytes)
    BY <1>5, <1>9, <2>1
  <2>5. \A o \in 1..EndOf(i) : Bytes[o] = Stream[i][o]
    BY <2>4 DEF Begins, EndOf
  <2>6. ASSUME NEW j \in 1..Len(WireOf(i)) PROVE Bytes[EndOf(i - 1) + j] = WireOf(i)[j]
    <3>1. EndOf(i - 1) + j \in 1..EndOf(i)
      BY <1>2, <1>6, <2>1, <2>3
    <3> QED BY <2>3, <2>5, <3>1
  <2> QED BY <2>3, <2>6
<1>11. Len(Bytes) = EndOf(Total) /\ Bytes \in Seq(Byte)
  BY <1>6, <1>9 DEF EndOf
<1> QED BY <1>1, <1>2, <1>6, <1>7, <1>8, <1>10, <1>11

-----------------------------------------------------------------------------
(* What the script has for the air. *)

Decoders == [buf : Seq(Byte), inFrame : BOOLEAN, escaped : BOOLEAN]
Texts == Seq(Seq(Byte))

\* The payloads of the script, item by item.
LEMMA WrittenRuns ==
  /\ Written \in [0..Total -> Texts] /\ Written[0] = <<>>
  /\ \A i \in 1..Total : Written[i] = IF Script[i].kind = "data"
                                      THEN Append(Written[i - 1], Script[i].payload)
                                      ELSE Written[i - 1]
<1> DEFINE Adds(i, x) == IF Script[i].kind = "data" THEN Append(x, Script[i].payload) ELSE x
           next == [i \in Nat |-> [x \in Texts |-> IF i \in 1..Total THEN Adds(i, x) ELSE x]]
           Solves(f) == f = [i \in 0..Total |-> IF i = 0 THEN <<>>
                               ELSE IF Script[i].kind = "data"
                                    THEN Append(f[i - 1], Script[i].payload) ELSE f[i - 1]]
<1>1. Total \in Nat /\ \A i \in 1..Total : Script[i].payload \in Seq(Byte)
  BY TheItems DEF Items
<1>2. <<>> \in Texts /\ \A x \in Texts, y \in Seq(Byte) : Append(x, y) \in Texts
  BY AppendProperties, EmptySeq DEF Texts
<1>3. Written = CHOOSE f : Solves(f)
  BY DEF Written, Total
<1>4. next \in Steps(Texts)
  BY <1>1, <1>2 DEF Steps
<1>5. \A x \in Texts, i \in 1..Total : next[i][x] = Adds(i, x)
  BY <1>1
<1> HIDE DEF next
<1>6. PICK f : Runs(f, Texts, <<>>, next, Total)
  BY <1>1, <1>2, <1>4, Iterates
<1>7. Solves(f)
  <2>1. ASSUME NEW i \in 1..Total PROVE next[i][f[i - 1]] = Adds(i, f[i - 1])
    <3>1. i - 1 \in 0..Total
      BY <1>1
    <3>2. f[i - 1] \in Texts
      BY <1>6, <3>1 DEF Runs
    <3> QED BY <1>5, <3>2
  <2>2. ASSUME NEW i \in 0..Total PROVE f[i] = IF i = 0 THEN <<>> ELSE Adds(i, f[i - 1])
    <3> HIDE DEF Adds
    <3>1. CASE i = 0
      BY <1>6, <3>1 DEF Runs
    <3>2. CASE i \in 1..Total
      BY <1>6, <2>1, <3>2 DEF Runs
    <3> QED BY <1>1, <3>1, <3>2
  <2>3. f = [i \in 0..Total |-> f[i]]
    BY <1>6 DEF Runs
  <2> QED BY <2>2, <2>3, Zenon
<1>8. Solves(Written)
  <2> HIDE DEF Solves
  <2> QED BY <1>3, <1>7
<1> DEFINE V(i) == IF i = 0 THEN <<>> ELSE Adds(i, Written[i - 1])
<1>9. Written = [i \in 0..Total |-> V(i)]
  BY <1>8
<1> HIDE DEF V
<1>10. \A i \in 0..Total : Written[i] = V(i)
  BY <1>9
<1>11. Written[0] = <<>>
  <2>1. V(0) = <<>> /\ 0 \in 0..Total
    BY <1>1 DEF V
  <2> QED BY <1>10, <2>1
<1>12. ASSUME NEW i \in 1..Total PROVE Written[i] = Adds(i, Written[i - 1])
  <2>1. i \in 0..Total /\ i # 0
    BY <1>1
  <2>2. V(i) = Adds(i, Written[i - 1])
    BY <2>1 DEF V
  <2> HIDE DEF Adds
  <2> QED BY <1>10, <2>1, <2>2
<1>13. Written \in [0..Total -> Texts]
  <2>1. Written = [i \in 0..Total |-> Written[i]]
    BY <1>9
  <2> HIDE DEF Adds
  <2>2. \A i \in 1..Total : Written[i - 1] \in Texts => Written[i] = next[i][Written[i - 1]]
    BY <1>5, <1>12
  <2>3. \A i \in 0..Total : Written[i] \in Texts
    <3>1. Follows(Written, Texts, <<>>, next, Total)
      BY <1>1, <1>11, <2>2 DEF Follows
    <3> QED BY <1>6, <3>1, Same
  <2> QED BY <2>1, <2>3
<1> QED BY <1>11, <1>12, <1>13

\* Up to the end of item i + 1, what is wholly there is the first i items.
Before(i, r) == i \in 0..Total /\ r \in Nat /\ EndOf(i) <= r /\ (i < Total => r < EndOf(i + 1))

\* Between the ends of two items, what is wholly there is the items up to the first.
LEMMA WithinItems ==
  ASSUME NEW i, NEW r, Before(i, r)
  PROVE  Within(r) = Written[i]
<1> DEFINE S == {j \in 0..Total : EndOf(j) <= r}
<1>1. Total \in Nat /\ i \in 0..Total /\ r \in Nat /\ \A j \in 0..Total : EndOf(j) \in Nat
  BY OnTheWire DEF Before
<1>2. ASSUME NEW j \in 0..Total PROVE EndOf(j) <= r <=> j <= i
  <2>1. CASE j <= i
    <3>1. EndOf(j) <= EndOf(i)
      BY <1>1, <2>1, OnTheWire
    <3> QED BY <1>1, <2>1, <3>1 DEF Before
  <2>2. CASE ~(j <= i)
    <3>1. i < Total /\ i + 1 \in 0..j /\ i + 1 \in 0..Total
      BY <1>1, <2>2
    <3>2. EndOf(i + 1) <= EndOf(j)
      BY <3>1, OnTheWire
    <3>3. r < EndOf(i + 1)
      BY <3>1 DEF Before
    <3>4. r < EndOf(j)
      <4> DEFINE a == EndOf(i + 1)
      <4>1. a \in Nat /\ EndOf(j) \in Nat /\ a <= EndOf(j) /\ r < a
        BY <1>1, <3>1, <3>2, <3>3
      <4> HIDE DEF a, EndOf
      <4> QED BY <1>1, <4>1
    <3> QED BY <1>1, <2>2, <3>4
  <2> QED BY <2>1, <2>2
<1>3. S = 0..i
  BY <1>1, <1>2
<1>4. Max(S) = i
  <2> HIDE DEF S
  <2>1. i \in S /\ \A j \in S : i >= j /\ j \in Nat
    BY <1>1, <1>3
  <2>2. \A x \in S : (\A y \in S : x >= y) => x = i
    BY <1>1, <2>1
  <2> QED BY <2>1, <2>2 DEF Max
<1>5. Within(r) = Written[Max(S)]
  BY DEF Within, Total, EndOf
<1> QED BY <1>4, <1>5

-----------------------------------------------------------------------------
(* The decoder, byte by byte. *)

Inner(i) == Content(Script[i])
Noise(i) == Script[i].kind = "noise"
Data(i) == Script[i].kind = "data"
Frame(i, q) == i \in 1..Total /\ ~Noise(i) /\ Framed(WireOf(i), Inner(i), q)

\* The decoder d after r bytes of the wire: between two items, in the noise,
\* in a frame, or in a frame after an escape.
Clear(d, r, i) ==
    /\ i \in 0..Total /\ r = EndOf(i) /\ d.buf = <<>> /\ ~d.escaped /\ (i = 0 => ~d.inFrame)
Quiet(d, r) == 1 \in 1..Total /\ Noise(1) /\ r < EndOf(1) /\ d = NewDecoder
Inside(d, r, i, q) ==
    /\ Frame(i, q) /\ d.inFrame /\ ~d.escaped /\ Begins(d.buf, Inner(i))
    /\ r = EndOf(i - 1) + q[Len(d.buf)]
Escaping(d, r, i, q) ==
    /\ Frame(i, q) /\ d.inFrame /\ d.escaped /\ Begins(d.buf, Inner(i))
    /\ \E k \in 1..Len(Inner(i)) :
          /\ Len(d.buf) = k - 1 /\ q[k] = q[k - 1] + 2 /\ r = EndOf(i - 1) + q[k - 1] + 1
          /\ WireOf(i)[q[k]] \in {TFEND, TFESC} /\ Unescape(WireOf(i)[q[k]]) = Inner(i)[k]
At(d, r) ==
    /\ d \in Decoders /\ r \in Nat
    /\ \/ \E i : Clear(d, r, i)
       \/ Quiet(d, r)
       \/ \E i, q : Inside(d, r, i, q) \/ Escaping(d, r, i, q)

\* What byte r + 1 makes of the decoder, and what it adds to what is wholly there.
Decoded(d, b, r) ==
    /\ At(NextState(d, b), r + 1)
    /\ Within(r + 1) = IF Completes(d, b) /\ Transmits(TakeFrame(d.buf))
                       THEN Append(Within(r), TakeFrame(d.buf).data) ELSE Within(r)

\* The bytes of the model, and that the special ones differ.
LEMMA Reserved ==
  /\ Byte = {FEND, FESC, TFEND, TFESC, "x00", "x01"}
  /\ FEND # FESC /\ TFEND \notin {FEND, FESC} /\ TFESC \notin {FEND, FESC}
  /\ "x00" \notin {FEND, FESC}
BY DEF Byte, FEND, FESC, TFEND, TFESC

\* What is wholly there grows by no more than the item that ends.
LEMMA WithinSame ==
  ASSUME NEW i \in 1..Total, NEW r \in Nat, EndOf(i - 1) <= r, r + 1 < EndOf(i)
  PROVE  Within(r + 1) = Within(r)
<1> DEFINE j == i - 1
<1>1. Total \in Nat /\ j \in 0..Total /\ j + 1 = i /\ EndOf(j) \in Nat /\ EndOf(i) \in Nat
  BY OnTheWire
<1>2. EndOf(j) <= r /\ r + 1 < EndOf(i)
  OBVIOUS
<1> HIDE DEF j
<1>3. r < EndOf(i) /\ EndOf(j) <= r + 1 /\ r + 1 \in Nat
  <2> HIDE DEF EndOf
  <2> QED BY <1>1, <1>2
<1>4. Before(j, r) /\ Before(j, r + 1)
  BY <1>1, <1>2, <1>3 DEF Before
<1> QED BY <1>4, WithinItems

\* What is wholly there when the next item has ended.
LEMMA WithinMore ==
  ASSUME NEW i \in 1..Total, NEW r \in Nat, EndOf(i - 1) <= r, r + 1 = EndOf(i)
  PROVE  Within(r + 1) = IF Data(i) THEN Append(Within(r), Script[i].payload) ELSE Within(r)
<1> DEFINE j == i - 1
<1>1. /\ Total \in Nat /\ j \in 0..Total /\ i \in 0..Total /\ j + 1 = i
      /\ EndOf(j) \in Nat /\ EndOf(i) \in Nat
  BY OnTheWire
<1>2. EndOf(j) <= r /\ r + 1 = EndOf(i)
  OBVIOUS
<1>3. Written[i] = IF Data(i) THEN Append(Written[j], Script[i].payload) ELSE Written[j]
  BY WrittenRuns DEF Data
<1>4. i < Total => EndOf(i) < EndOf(i + 1)
  <2> SUFFICES ASSUME i < Total PROVE EndOf(i) < EndOf(i + 1)
    OBVIOUS
  <2> DEFINE k == i + 1
  <2>1. k \in 1..Total /\ k - 1 = i
    BY <1>1
  <2> HIDE DEF k
  <2>2. EndOf(k) = EndOf(i) + Len(WireOf(k)) /\ Len(WireOf(k)) \in Nat \ {0}
    BY <2>1, OnTheWire
  <2>3. EndOf(i) < EndOf(k)
    <3> HIDE DEF EndOf, WireOf
    <3> QED BY <1>1, <2>2
  <2> QED BY <2>3 DEF k
<1> HIDE DEF j
<1>5. r < EndOf(i) /\ EndOf(i) <= r + 1 /\ r + 1 \in Nat /\ (i < Total => r + 1 < EndOf(i + 1))
  <2> HIDE DEF EndOf
  <2> QED BY <1>1, <1>2, <1>4
<1>6. Before(j, r) /\ Before(i, r + 1)
  BY <1>1, <1>2, <1>5 DEF Before
<1> QED BY <1>3, <1>6, WithinItems

\* What the decoder does with a byte, case by case.
LEMMA AfterByte ==
  ASSUME NEW d \in Decoders, NEW b
  PROVE  LET e == NextState(d, b)
         IN  /\ b = FEND => e = [buf |-> <<>>, inFrame |-> TRUE, escaped |-> FALSE]
             /\ b = FESC /\ d.inFrame => e = [d EXCEPT !.escaped = TRUE]
             /\ b \notin {FEND, FESC} /\ d.inFrame =>
                   e = [d EXCEPT !.buf = Append(@, IF d.escaped THEN Unescape(b) ELSE b),
                                 !.escaped = FALSE]
             /\ b # FEND /\ ~d.inFrame => e = d
<1>1. b = FEND => NextState(d, b) = [buf |-> <<>>, inFrame |-> TRUE, escaped |-> FALSE]
  BY Reserved DEF NextState
<1>2. b = FESC /\ d.inFrame => NextState(d, b) = [d EXCEPT !.escaped = TRUE]
  BY Reserved DEF NextState
<1>3. b \notin {FEND, FESC} /\ d.inFrame =>
        NextState(d, b) = [d EXCEPT !.buf = Append(@, IF d.escaped THEN Unescape(b) ELSE b),
                                    !.escaped = FALSE]
  BY DEF NextState
<1>4. b # FEND /\ ~d.inFrame => NextState(d, b) = d
  BY DEF NextState
<1> QED BY <1>1, <1>2, <1>3, <1>4

\* A byte takes a decoder to a decoder.
LEMMA Moves ==
  ASSUME NEW d \in Decoders, NEW b \in Byte
  PROVE  NextState(d, b) \in Decoders
<1> DEFINE x == IF d.escaped THEN Unescape(b) ELSE b
<1>1. /\ d = [buf |-> d.buf, inFrame |-> d.inFrame, escaped |-> d.escaped]
      /\ d.buf \in Seq(Byte) /\ d.inFrame \in BOOLEAN /\ d.escaped \in BOOLEAN
  BY DEF Decoders
<1>2. x \in Byte
  BY Reserved DEF Unescape
<1> HIDE DEF x
<1>3. Append(d.buf, x) \in Seq(Byte) /\ <<>> \in Seq(Byte)
  BY <1>1, <1>2
<1>4. \/ NextState(d, b) = [buf |-> <<>>, inFrame |-> TRUE, escaped |-> FALSE]
      \/ NextState(d, b) = [d EXCEPT !.escaped = TRUE]
      \/ NextState(d, b) = [d EXCEPT !.buf = Append(@, x), !.escaped = FALSE]
      \/ NextState(d, b) = d
  BY AfterByte DEF x
<1>5. \A s \in Seq(Byte), f, e \in BOOLEAN : [buf |-> s, inFrame |-> f, escaped |-> e] \in Decoders
  BY DEF Decoders
<1> QED BY <1>1, <1>3, <1>4, <1>5

\* A byte of noise before the first delimiter.
LEMMA NoiseByte ==
  ASSUME NEW d, NEW r \in Nat, Quiet(d, r)
  PROVE  Decoded(d, Bytes[r + 1], r)
<1>1. WireOf(1) = <<"x00", TFEND>> /\ 1 \in 1..Total
  BY DEF Quiet, Noise, WireOf, Wire
<1>2. 1 - 1 = 0 /\ Len(WireOf(1)) = 2 /\ WireOf(1)[1] = "x00" /\ WireOf(1)[2] = TFEND
  BY <1>1
<1>3. EndOf(0) = 0 /\ EndOf(1) = 2 /\ Bytes[0 + 1] = "x00" /\ Bytes[0 + 2] = TFEND
  <2>1. EndOf(0) = 0 /\ EndOf(1) = EndOf(1 - 1) + Len(WireOf(1))
        /\ \A j \in 1..Len(WireOf(1)) : Bytes[EndOf(1 - 1) + j] = WireOf(1)[j]
    BY <1>1, OnTheWire
  <2> HIDE DEF EndOf, WireOf
  <2> QED BY <1>2, <2>1
<1>4. (r = 0 \/ r = 1) /\ Bytes[r + 1] \notin {FEND, FESC} /\ Bytes[r + 1] \in Byte
  BY <1>3, Reserved DEF Quiet
<1>5. NextState(d, Bytes[r + 1]) = d /\ ~Completes(d, Bytes[r + 1]) /\ d = NewDecoder
  BY <1>4 DEF Quiet, NextState, Completes, NewDecoder
<1>6. /\ d \in Decoders /\ d.buf = <<>> /\ ~d.escaped /\ ~d.inFrame
  BY <1>5 DEF NewDecoder, Decoders
<1>7. At(d, r + 1) /\ Within(r + 1) = Within(r)
  <2>1. CASE r = 0
    <3>1. Quiet(d, r + 1)
      BY <1>3, <2>1 DEF Quiet
    <3>2. Within(r + 1) = Within(r)
      BY <1>1, <1>2, <1>3, <2>1, WithinSame
    <3> QED BY <1>6, <3>1, <3>2 DEF At
  <2>2. CASE r = 1
    <3>1. Clear(d, r + 1, 1)
      BY <1>1, <1>3, <1>6, <2>2 DEF Clear
    <3>2. Within(r + 1) = Within(r)
      BY <1>1, <1>2, <1>3, <2>2, WithinMore DEF Quiet, Noise, Data
    <3> QED BY <1>6, <3>1, <3>2 DEF At
  <2> QED BY <1>4, <2>1, <2>2
<1> QED BY <1>5, <1>7 DEF Decoded

\* Frame i from place base on.
FrameFrom(base, end, w, c, q, n) ==
    /\ base \in Nat /\ end = base + q[n] + 1 /\ n \in Nat \ {0} /\ n = Len(c)
    /\ c \in Seq(Byte) /\ w \in Seq(Byte)
    /\ \A k \in 0..n : q[k] \in Nat /\ q[k] <= q[n]
    /\ q[0] = 1 /\ \A k \in 1..n : Coded(w, q[k - 1], q[k], c[k])
    /\ Bytes[base + 1] = FEND /\ Bytes[end] = FEND
    /\ \A j \in Nat : 0 < j /\ j <= q[n] => Bytes[base + j] = w[j]

\* The places of a frame of the script, counted from the start of the wire.
LEMMA FrameThere ==
  ASSUME NEW i, NEW q, Frame(i, q)
  PROVE  FrameFrom(EndOf(i - 1), EndOf(i), WireOf(i), Inner(i), q, Len(Inner(i)))
<1> DEFINE base == EndOf(i - 1)
           end == EndOf(i)
           w == WireOf(i)
           c == Inner(i)
           n == Len(c)
<1>1. i \in 1..Total /\ Framed(w, c, q)
  BY DEF Frame
<1>2. /\ base \in Nat /\ end = base + Len(w)
      /\ \A j \in 1..Len(w) : Bytes[base + j] = w[j]
  <2>1. i - 1 \in 0..Total
    BY <1>1, OnTheWire
  <2> QED BY <1>1, <2>1, OnTheWire
<1> HIDE DEF base, end, w, c
<1>3. c \in Seq(Byte) /\ c # <<>> /\ n \in Nat \ {0}
  <2>1. c \in Seq(Byte) /\ c # <<>>
    BY <1>1 DEF Framed
  <2> QED BY <2>1
<1>4. /\ w \in Seq(Byte) /\ q \in [0..n -> Nat] /\ q[0] = 1 /\ Len(w) = q[n] + 1
      /\ \A k \in 0..n : q[k] <= q[n]
      /\ w[1] = FEND /\ w[Len(w)] = FEND
      /\ \A k \in 1..n : Coded(w, q[k - 1], q[k], c[k])
  BY <1>1 DEF Framed
<1> HIDE DEF n
<1>5. n \in 0..n /\ q[n] \in Nat
  BY <1>3, <1>4
<1>6. 1 \in 1..Len(w) /\ Len(w) \in 1..Len(w) /\ base + Len(w) = base + q[n] + 1
  BY <1>2, <1>4, <1>5
<1>7. end = base + q[n] + 1
  BY <1>2, <1>6
<1>8. Bytes[base + 1] = FEND
  BY <1>2, <1>4, <1>6
<1>9. Bytes[end] = FEND
  BY <1>2, <1>4, <1>6
<1>10. \A j \in Nat : 0 < j /\ j <= q[n] => Bytes[base + j] = w[j]
  BY <1>2, <1>4, <1>5
<1>11. \A k \in 0..n : q[k] \in Nat /\ q[k] <= q[n]
  BY <1>4
<1>12. n = Len(c)
  BY DEF n
<1>13. FrameFrom(base, end, w, c, q, n)
  BY <1>2, <1>3, <1>4, <1>7, <1>8, <1>9, <1>10, <1>11, <1>12 DEF FrameFrom
<1> QED BY <1>13 DEF base, end, w, c, n

\* The first byte of a frame.
LEMMA FirstByte ==
  ASSUME NEW d \in Decoders, NEW r \in Nat, NEW i, Clear(d, r, i - 1), NEW q, Frame(i, q)
  PROVE  Decoded(d, Bytes[r + 1], r)
<1> DEFINE base == EndOf(i - 1)
           end == EndOf(i)
           c == Inner(i)
           n == Len(c)
           e == NextState(d, Bytes[r + 1])
<1>1. FrameFrom(base, end, WireOf(i), c, q, n) /\ r = base /\ d.buf = <<>> /\ i \in 1..Total
  BY FrameThere DEF Clear, Frame
<1>2. Bytes[r + 1] = FEND
  BY <1>1 DEF FrameFrom
<1>3. e = [buf |-> <<>>, inFrame |-> TRUE, escaped |-> FALSE] /\ ~Completes(d, Bytes[r + 1])
  BY <1>1, <1>2, AfterByte DEF Completes
<1>4. e \in Decoders
  BY <1>3 DEF Decoders
<1>5. e.buf = <<>> /\ e.inFrame /\ ~e.escaped
  BY <1>3
<1> HIDE DEF e
<1>6. Begins(e.buf, c) /\ Len(e.buf) = 0
  <2>1. Len(e.buf) = 0 /\ Len(c) \in Nat
    BY <1>1, <1>5 DEF FrameFrom
  <2> QED BY <2>1 DEF Begins
<1>7. Inside(e, r + 1, i, q)
  <2>1. r + 1 = base + q[0]
    BY <1>1 DEF FrameFrom
  <2> QED BY <1>5, <1>6, <2>1 DEF Inside
<1>8. Within(r + 1) = Within(r)
  <2> HIDE DEF base, end, c, n
  <2>1. /\ base \in Nat /\ end = base + q[n] + 1 /\ n \in Nat
        /\ \A k \in 0..n : q[k] \in Nat /\ q[k] <= q[n]
        /\ q[0] = 1
    BY <1>1 DEF FrameFrom
  <2>2. 0 \in 0..n /\ n \in 0..n
    BY <2>1
  <2>3. 1 <= q[n] /\ q[n] \in Nat
    BY <2>1, <2>2
  <2>4. base <= r /\ r + 1 < end
    BY <1>1, <2>1, <2>3
  <2> QED BY <1>1, <2>4, WithinSame DEF base, end
<1>9. At(e, r + 1)
  BY <1>4, <1>7 DEF At
<1> QED BY <1>3, <1>8, <1>9 DEF Decoded, e

\* One more byte of what a frame holds.
LEMMA Buffered ==
  ASSUME NEW s \in Seq(Byte), NEW c \in Seq(Byte), Begins(s, c), Len(s) < Len(c)
  PROVE  LET t == Append(s, c[Len(s) + 1])
         IN  t \in Seq(Byte) /\ Begins(t, c) /\ Len(t) = Len(s) + 1
<1> DEFINE m == Len(s)
           t == Append(s, c[m + 1])
<1>1. m \in Nat /\ m < Len(c) /\ Len(c) \in Nat
  OBVIOUS
<1>2. c[m + 1] \in Byte
  BY <1>1
<1>3. t \in Seq(Byte) /\ Len(t) = m + 1 /\ t[m + 1] = c[m + 1] /\ \A o \in 1..m : t[o] = s[o]
  BY <1>2
<1>4. \A o \in 1..m : c[o] = s[o]
  BY DEF Begins
<1> HIDE DEF t, m
<1>5. ASSUME NEW o \in 1..(m + 1) PROVE c[o] = t[o]
  BY <1>1, <1>3, <1>4
<1>6. Begins(t, c)
  BY <1>1, <1>3, <1>5 DEF Begins
<1> QED BY <1>3, <1>6 DEF t, m

\* A byte of a frame that does not end it.
LEMMA MidFrame ==
  ASSUME NEW d, NEW r \in Nat, NEW i \in 1..Total, EndOf(i - 1) <= r, r + 1 < EndOf(i),
         Bytes[r + 1] # FEND, At(NextState(d, Bytes[r + 1]), r + 1)
  PROVE  Decoded(d, Bytes[r + 1], r)
BY WithinSame DEF Decoded, Completes

\* The delimiter that ends a frame gives it, or nothing.
LEMMA LastByte ==
  ASSUME NEW d \in Decoders, NEW r \in Nat, NEW i, NEW q, Inside(d, r, i, q),
         Len(d.buf) = Len(Inner(i))
  PROVE  Decoded(d, Bytes[r + 1], r)
<1> DEFINE base == EndOf(i - 1)
           end == EndOf(i)
           c == Inner(i)
           n == Len(c)
           e == NextState(d, Bytes[r + 1])
<1>1. /\ FrameFrom(base, end, WireOf(i), c, q, n) /\ r = base + q[Len(d.buf)]
      /\ d.inFrame /\ ~d.escaped /\ Begins(d.buf, c) /\ i \in 1..Total /\ ~Noise(i)
  BY FrameThere DEF Inside, Frame
<1>2. d.buf = c
  <2>1. d.buf \in Seq(Byte) /\ c \in Seq(Byte) /\ Len(d.buf) = Len(c)
    BY <1>1 DEF Decoders, FrameFrom
  <2>2. \A o \in 1..Len(d.buf) : d.buf[o] = c[o]
    BY <1>1 DEF Begins
  <2> HIDE DEF c
  <2> QED BY <2>1, <2>2, SeqEqual
<1>3. base \in Nat /\ q[n] \in Nat /\ n \in Nat \ {0} /\ end = base + q[n] + 1 /\ Bytes[end] = FEND
  <2> HIDE DEF base, end, c, n
  <2>1. n \in 0..n
    BY <1>1 DEF FrameFrom
  <2> QED BY <1>1, <2>1 DEF FrameFrom
<1>4. r = base + q[n]
  BY <1>1
<1>5. r + 1 = end /\ base <= r
  <2> HIDE DEF base, end, n
  <2> QED BY <1>3, <1>4
<1>6. Bytes[r + 1] = FEND /\ d.buf # <<>>
  <2>1. c # <<>>
    BY <1>3
  <2> QED BY <1>2, <1>3, <1>5, <2>1
<1>7. e = [buf |-> <<>>, inFrame |-> TRUE, escaped |-> FALSE] /\ Completes(d, Bytes[r + 1])
  BY <1>1, <1>6, AfterByte DEF Completes
<1>8. At(e, r + 1)
  <2>1. e \in Decoders /\ e.buf = <<>> /\ ~e.escaped
    BY <1>7 DEF Decoders
  <2>2. i \in 0..Total /\ i # 0
    BY <1>1, OnTheWire
  <2> HIDE DEF e
  <2>3. Clear(e, r + 1, i)
    BY <1>5, <2>1, <2>2 DEF Clear
  <2> QED BY <2>1, <2>3 DEF At
<1>9. Within(r + 1) = IF Data(i) THEN Append(Within(r), Script[i].payload) ELSE Within(r)
  BY <1>1, <1>5, WithinMore
<1>10. /\ Transmits(TakeFrame(d.buf)) <=> Data(i)
       /\ Data(i) => TakeFrame(d.buf).data = Script[i].payload
  <2>1. Script[i] \in Items /\ Script[i].kind # "noise" /\ (Data(i) => Script[i].payload # <<>>)
    BY <1>1, TheItems DEF Noise, Data
  <2> QED BY <1>2, <2>1, ItemTaken DEF Inner, Data
<1> HIDE DEF e
<1> QED BY <1>7, <1>8, <1>9, <1>10 DEF Decoded, e

\* The places of a byte that stands for itself, and of an escape.
LEMMA PlainPlace ==
  ASSUME NEW base \in Nat, NEW x \in Nat, NEW y, NEW z \in Nat, NEW r, NEW end,
         y <= z, end = base + z + 1, r = base + x, y = x + 1
  PROVE  r + 1 = base + y /\ y \in Nat /\ 0 < y /\ base <= r /\ r + 1 < end
OBVIOUS

LEMMA EscapedPlace ==
  ASSUME NEW base \in Nat, NEW x \in Nat, NEW y, NEW z \in Nat, NEW r, NEW end,
         y <= z, end = base + z + 1, r = base + x + 1, y = x + 2
  PROVE  r + 1 = base + y /\ y \in Nat /\ 0 < y /\ base <= r /\ r + 1 < end
OBVIOUS

\* Byte k of what a frame holds, after the first m.
NextFrom(base, end, w, c, q, n, s, m, k) ==
    /\ base \in Nat /\ q[m] \in Nat /\ q[n] \in Nat /\ q[k] <= q[n]
    /\ end = base + q[n] + 1 /\ k \in 1..n /\ k - 1 = m /\ n = Len(c)
    /\ Coded(w, q[m], q[k], c[k])
    /\ \A j \in Nat : 0 < j /\ j <= q[n] => Bytes[base + j] = w[j]
    /\ Append(s, c[k]) \in Seq(Byte) /\ Begins(Append(s, c[k]), c) /\ Len(Append(s, c[k])) = k

\* The place after the next byte of a frame.
LEMMA NextPlace ==
  ASSUME NEW base, NEW end, NEW w, NEW c, NEW q, NEW n, FrameFrom(base, end, w, c, q, n),
         NEW s \in Seq(Byte), Begins(s, c), NEW m, m = Len(s), m # n, NEW k, k = m + 1
  PROVE  NextFrom(base, end, w, c, q, n, s, m, k)
<1>1. n \in Nat /\ n = Len(c) /\ c \in Seq(Byte) /\ m \in Nat /\ m <= n
  BY LenProperties DEF FrameFrom, Begins
<1>2. k \in 1..n /\ k - 1 = m /\ m \in 0..n /\ n \in 0..n /\ k \in 0..n /\ m < n
  BY <1>1
<1>3. LET t == Append(s, c[k])
      IN  t \in Seq(Byte) /\ Begins(t, c) /\ Len(t) = k
  BY <1>1, <1>2, Buffered
<1>4. Coded(w, q[m], q[k], c[k])
  BY <1>2 DEF FrameFrom
<1>5. /\ base \in Nat /\ q[m] \in Nat /\ q[n] \in Nat /\ q[k] <= q[n]
      /\ end = base + q[n] + 1
  BY <1>2 DEF FrameFrom
<1>6. \A j \in Nat : 0 < j /\ j <= q[n] => Bytes[base + j] = w[j]
  BY DEF FrameFrom
<1> QED BY <1>1, <1>2, <1>3, <1>4, <1>5, <1>6 DEF NextFrom

\* A byte that stands for itself is buffered.
LEMMA PlainByte ==
  ASSUME NEW d \in Decoders, NEW r \in Nat, NEW i, NEW q, Inside(d, r, i, q),
         Len(d.buf) # Len(Inner(i))
  PROVE  Decoded(d, Bytes[r + 1], r)
<1> DEFINE base == EndOf(i - 1)
           end == EndOf(i)
           w == WireOf(i)
           c == Inner(i)
           n == Len(c)
           m == Len(d.buf)
           k == m + 1
           b == Bytes[r + 1]
           e == NextState(d, b)
           x == q[m]
           y == q[k]
           z == q[n]
<1>1. /\ FrameFrom(base, end, w, c, q, n) /\ r = base + x
      /\ d.inFrame /\ ~d.escaped /\ Begins(d.buf, c) /\ i \in 1..Total /\ Frame(i, q)
  BY FrameThere DEF Inside, Frame
<1>2. d.buf \in Seq(Byte) /\ m # n /\ m = Len(d.buf) /\ k = m + 1
  BY DEF Decoders
<1>3. d = [buf |-> d.buf, inFrame |-> d.inFrame, escaped |-> d.escaped]
  BY DEF Decoders
<1> HIDE DEF base, end, w, c, n, m, e, k, b
<1>4. /\ base \in Nat /\ x \in Nat /\ z \in Nat /\ y <= z
      /\ end = base + z + 1 /\ k \in 1..n /\ k - 1 = m /\ n = Len(c)
      /\ Coded(w, x, y, c[k])
      /\ \A j \in Nat : 0 < j /\ j <= z => Bytes[base + j] = w[j]
      /\ LET t == Append(d.buf, c[k])
         IN  t \in Seq(Byte) /\ Begins(t, c) /\ Len(t) = k
  <2>1. NextFrom(base, end, w, c, q, n, d.buf, m, k)
    BY <1>1, <1>2, NextPlace
  <2> QED BY <2>1 DEF NextFrom
<1> HIDE DEF x, y, z
<1>5. CASE y = x + 1 /\ w[y] = c[k] /\ c[k] \notin {FEND, FESC}
  <2>1. r + 1 = base + y /\ y \in Nat /\ 0 < y /\ base <= r /\ r + 1 < end
    BY <1>1, <1>4, <1>5, PlainPlace
  <2>2. b = c[k]
    BY <1>4, <1>5, <2>1 DEF b
  <2>3. e = [d EXCEPT !.buf = Append(@, c[k]), !.escaped = FALSE]
    BY <1>1, <1>5, <2>2, AfterByte DEF e
  <2>4. e.buf = Append(d.buf, c[k]) /\ e.inFrame /\ ~e.escaped /\ e \in Decoders
    BY <1>1, <1>3, <1>4, <2>3 DEF Decoders
  <2>5. Inside(e, r + 1, i, q)
    BY <1>1, <1>4, <2>1, <2>4 DEF Inside, base, c, y
  <2>6. At(e, r + 1) /\ b # FEND
    BY <1>5, <2>2, <2>4, <2>5 DEF At
  <2> QED BY <1>1, <2>1, <2>6, MidFrame DEF base, end, b, e
<1>6. CASE /\ y = x + 2 /\ w[y - 1] = FESC
           /\ w[y] \in {TFEND, TFESC} /\ Unescape(w[y]) = c[k]
  <2>1. /\ r + 1 = base + x + 1 /\ r + 1 = base + (y - 1) /\ y - 1 \in Nat
        /\ 0 < y - 1 /\ y - 1 <= z /\ base <= r /\ r + 1 < end
    <3>1. /\ base \in Nat /\ x \in Nat /\ z \in Nat /\ y <= z
          /\ end = base + z + 1 /\ r = base + x /\ y = x + 2
      BY <1>1, <1>4, <1>6
    <3> QED BY <3>1
  <2>2. b = FESC
    BY <1>4, <1>6, <2>1 DEF b
  <2>3. e = [d EXCEPT !.escaped = TRUE]
    BY <1>1, <2>2, AfterByte DEF e
  <2>4. e.buf = d.buf /\ e.inFrame /\ e.escaped /\ e \in Decoders
    BY <1>1, <1>3, <2>3 DEF Decoders
  <2>5. Escaping(e, r + 1, i, q)
    <3>1. /\ Len(e.buf) = k - 1 /\ q[k] = q[k - 1] + 2 /\ r + 1 = base + q[k - 1] + 1
          /\ w[q[k]] \in {TFEND, TFESC} /\ Unescape(w[q[k]]) = c[k]
      BY <1>4, <1>6, <2>1, <2>4 DEF m, x, y
    <3> QED BY <1>1, <1>4, <2>4, <3>1 DEF Escaping, base, c, w
  <2>6. At(e, r + 1) /\ b # FEND
    BY <2>2, <2>4, <2>5, Reserved DEF At
  <2> QED BY <1>1, <2>1, <2>6, MidFrame DEF base, end, b, e
<1> QED BY <1>4, <1>5, <1>6 DEF Coded

\* An escape and the byte after it are buffered as one.
LEMMA EscapedByte ==
  ASSUME NEW d \in Decoders, NEW r \in Nat, NEW i, NEW q, Escaping(d, r, i, q)
  PROVE  Decoded(d, Bytes[r + 1], r)
<1> DEFINE base == EndOf(i - 1)
           end == EndOf(i)
           w == WireOf(i)
           c == Inner(i)
           n == Len(c)
           m == Len(d.buf)
           k == m + 1
           b == Bytes[r + 1]
           e == NextState(d, b)
           x == q[m]
           y == q[k]
           z == q[n]
<1>1. /\ FrameFrom(base, end, w, c, q, n)
      /\ d.inFrame /\ d.escaped /\ Begins(d.buf, c) /\ i \in 1..Total /\ Frame(i, q)
  BY FrameThere DEF Escaping, Frame
<1>2. d.buf \in Seq(Byte) /\ m \in Nat /\ m = Len(d.buf)
  BY DEF Decoders
<1>3. d = [buf |-> d.buf, inFrame |-> d.inFrame, escaped |-> d.escaped]
  BY DEF Decoders
<1>4. PICK h \in 1..n :
        /\ m = h - 1 /\ q[h] = q[h - 1] + 2 /\ r = base + q[h - 1] + 1
        /\ w[q[h]] \in {TFEND, TFESC} /\ Unescape(w[q[h]]) = c[h]
  BY DEF Escaping
<1>5. h = k /\ h - 1 = m /\ m # n /\ k = m + 1
  <2> HIDE DEF m, n
  <2> QED BY <1>2, <1>4
<1> HIDE DEF base, end, w, c, n, m, e, k, b
<1>6. /\ y = x + 2 /\ r = base + x + 1
      /\ w[y] \in {TFEND, TFESC} /\ Unescape(w[y]) = c[k]
  BY <1>4, <1>5
<1>7. /\ base \in Nat /\ x \in Nat /\ z \in Nat /\ y <= z
      /\ end = base + z + 1
      /\ \A j \in Nat : 0 < j /\ j <= z => Bytes[base + j] = w[j]
      /\ LET t == Append(d.buf, c[k])
         IN  t \in Seq(Byte) /\ Begins(t, c) /\ Len(t) = k
  <2>1. NextFrom(base, end, w, c, q, n, d.buf, m, k)
    BY <1>1, <1>2, <1>5, NextPlace
  <2> QED BY <2>1 DEF NextFrom
<1> HIDE DEF x, y, z
<1>8. r + 1 = base + y /\ y \in Nat /\ 0 < y /\ base <= r /\ r + 1 < end
  BY <1>6, <1>7, EscapedPlace
<1>9. b = w[y]
  BY <1>7, <1>8 DEF b
<1>10. b \notin {FEND, FESC} /\ Unescape(b) = c[k]
  BY <1>6, <1>9, Reserved
<1>11. e = [d EXCEPT !.buf = Append(@, c[k]), !.escaped = FALSE]
  BY <1>1, <1>10, AfterByte DEF e
<1>12. e.buf = Append(d.buf, c[k]) /\ e.inFrame /\ ~e.escaped /\ e \in Decoders
  BY <1>1, <1>3, <1>7, <1>11 DEF Decoders
<1>13. Inside(e, r + 1, i, q)
  BY <1>1, <1>7, <1>8, <1>12 DEF Inside, base, c, y
<1>14. At(e, r + 1) /\ b # FEND
  BY <1>10, <1>12, <1>13 DEF At
<1> QED BY <1>1, <1>8, <1>14, MidFrame DEF base, end, b, e

\* One byte of the wire.
LEMMA OneByte ==
  ASSUME NEW d, NEW r, At(d, r), r < Len(Bytes)
  PROVE  Decoded(d, Bytes[r + 1], r)
<1>1. d \in Decoders /\ r \in Nat
  BY DEF At
<1>2. ASSUME NEW i, Clear(d, r, i) PROVE Decoded(d, Bytes[r + 1], r)
  <2>1. i \in 0..Total /\ Total \in Nat /\ r = EndOf(i) /\ Len(Bytes) = EndOf(Total)
    BY <1>2, OnTheWire DEF Clear
  <2>2. i # Total
    BY <2>1, <1>1
  <2> DEFINE j == i + 1
  <2>3. j \in 1..Total /\ j - 1 = i
    BY <2>1, <2>2
  <2> HIDE DEF j
  <2>4. CASE Noise(j)
    <3>1. j = 1 /\ i = 0
      BY <2>3, <2>4, TheItems DEF Noise
    <3>2. d = NewDecoder
      BY <1>1, <1>2, <3>1 DEF Clear, NewDecoder, Decoders
    <3>3. r < EndOf(1)
      <4>1. EndOf(1) = EndOf(1 - 1) + Len(WireOf(1)) /\ Len(WireOf(1)) \in Nat \ {0} /\ EndOf(0) = 0
        BY <2>3, <3>1, OnTheWire
      <4> HIDE DEF EndOf, WireOf
      <4> QED BY <2>1, <3>1, <4>1
    <3>4. Quiet(d, r)
      BY <2>3, <2>4, <3>1, <3>2, <3>3 DEF Quiet
    <3> QED BY <1>1, <3>4, NoiseByte
  <2>5. CASE ~Noise(j)
    <3>1. PICK q : Framed(WireOf(j), Inner(j), q)
      BY <2>3, <2>5, TheItems, ItemFramed DEF Noise, WireOf, Inner
    <3>2. Frame(j, q) /\ Clear(d, r, j - 1)
      BY <1>2, <2>3, <2>5, <3>1 DEF Frame
    <3> QED BY <1>1, <3>2, FirstByte
  <2> QED BY <2>4, <2>5
<1>3. ASSUME NEW i, NEW q, Inside(d, r, i, q) PROVE Decoded(d, Bytes[r + 1], r)
  BY <1>1, <1>3, LastByte, PlainByte
<1> QED BY <1>1, <1>2, <1>3, NoiseByte, EscapedByte DEF At

-----------------------------------------------------------------------------
(* What a run of decoded frames has for the air. *)

KissFrames == [cmd : Byte, data : Seq(Byte)]

\* A frame's share of the air.
Adds(frame, x) == IF Transmits(frame) THEN Append(x, frame.data) ELSE x
Gathers(fs, u, n) ==
    /\ u \in [0..n -> Texts] /\ u[0] = <<>>
    /\ \A i \in 1..n : u[i] = Adds(fs[i], u[i - 1])

\* What a frame adds is payloads.
LEMMA AddsText ==
  ASSUME NEW frame \in KissFrames, NEW x \in Texts
  PROVE  Adds(frame, x) \in Texts
BY AppendProperties DEF Adds, KissFrames, Texts

\* What is gathered of frames, frame by frame.
LEMMA PayloadsRuns ==
  ASSUME NEW fs \in Seq(KissFrames)
  PROVE  \E u : Gathers(fs, u, Len(fs)) /\ Payloads(fs) = u[Len(fs)]
<1> DEFINE n == Len(fs)
           next == [i \in Nat |-> [x \in Texts |-> IF i \in 1..n THEN Adds(fs[i], x) ELSE x]]
           Solves(f) == f = [i \in 0..n |-> IF i = 0 THEN <<>>
                               ELSE IF Transmits(fs[i]) THEN Append(f[i - 1], fs[i].data)
                                    ELSE f[i - 1]]
           u == CHOOSE f : Solves(f)
<1>1. n \in Nat /\ \A i \in 1..n : fs[i] \in KissFrames
  BY LenProperties, ElementOfSeq
<1>2. <<>> \in Texts
  BY EmptySeq DEF Texts
<1>3. Payloads(fs) = u[n]
  BY DEF Payloads
<1>4. next \in Steps(Texts)
  BY <1>1, AddsText DEF Steps
<1>5. \A x \in Texts, i \in 1..n : next[i][x] = Adds(fs[i], x)
  BY <1>1
<1> HIDE DEF n, next
<1>6. PICK f : Runs(f, Texts, <<>>, next, n)
  BY <1>1, <1>2, <1>4, Iterates
<1>7. Solves(f)
  <2>1. ASSUME NEW i \in 1..n PROVE next[i][f[i - 1]] = Adds(fs[i], f[i - 1])
    <3>1. i - 1 \in 0..n
      BY <1>1
    <3>2. f[i - 1] \in Texts
      BY <1>6, <3>1 DEF Runs
    <3> QED BY <1>5, <3>2
  <2>2. ASSUME NEW i \in 0..n PROVE f[i] = IF i = 0 THEN <<>> ELSE Adds(fs[i], f[i - 1])
    <3>1. CASE i = 0
      BY <1>6, <3>1 DEF Runs
    <3>2. CASE i \in 1..n
      BY <1>6, <2>1, <3>2 DEF Runs
    <3> QED BY <1>1, <3>1, <3>2
  <2>3. f = [i \in 0..n |-> f[i]]
    BY <1>6 DEF Runs
  <2> QED BY <2>2, <2>3, Zenon DEF Adds
<1>8. Solves(u)
  <2> HIDE DEF Solves
  <2> QED BY <1>7
<1> HIDE DEF u
<1> DEFINE V(i) == IF i = 0 THEN <<>> ELSE Adds(fs[i], u[i - 1])
<1>9. u = [i \in 0..n |-> V(i)]
  BY <1>8 DEF Adds
<1> HIDE DEF V
<1>10. \A i \in 0..n : u[i] = V(i)
  BY <1>9
<1>11. u[0] = <<>>
  <2>1. V(0) = <<>> /\ 0 \in 0..n
    BY <1>1 DEF V
  <2> QED BY <1>10, <2>1
<1>12. ASSUME NEW i \in 1..n PROVE u[i] = Adds(fs[i], u[i - 1])
  <2>1. i \in 0..n /\ i # 0
    BY <1>1
  <2>2. V(i) = Adds(fs[i], u[i - 1])
    BY <2>1 DEF V
  <2> QED BY <1>10, <2>1, <2>2
<1>13. u \in [0..n -> Texts]
  <2>1. u = [i \in 0..n |-> u[i]]
    BY <1>9
  <2>2. \A i \in 1..n : u[i - 1] \in Texts => u[i] = next[i][u[i - 1]]
    BY <1>5, <1>12
  <2>3. \A i \in 0..n : u[i] \in Texts
    <3>1. Follows(u, Texts, <<>>, next, n)
      BY <1>1, <1>11, <2>2 DEF Follows
    <3> QED BY <1>6, <3>1, Same
  <2> QED BY <2>1, <2>3
<1>14. Gathers(fs, u, n)
  BY <1>11, <1>12, <1>13 DEF Gathers
<1> QED BY <1>3, <1>14 DEF n

\* Two runs of frames that begin alike gather alike.
LEMMA GatherAlike ==
  ASSUME NEW n \in Nat, NEW fs, NEW gs, NEW u, NEW v,
         \A i \in 1..n : /\ u[i] = Adds(fs[i], u[i - 1]) /\ v[i] = Adds(gs[i], v[i - 1])
                         /\ fs[i] = gs[i],
         u[0] = v[0]
  PROVE  u[n] = v[n]
<1> DEFINE T == {i \in Nat : i <= n => u[i] = v[i]}
<1>1. 0 \in T
  OBVIOUS
<1>2. ASSUME NEW i \in T PROVE i + 1 \in T
  <2>1. i \in Nat /\ (i <= n => u[i] = v[i])
    BY <1>2
  <2> HIDE DEF T
  <2> DEFINE j == i + 1
  <2>2. j \in Nat /\ j - 1 = i /\ (j <= n => j \in 1..n /\ i <= n)
    BY <2>1
  <2> HIDE DEF j
  <2>3. j <= n => u[j] = v[j]
    BY <2>1, <2>2
  <2>4. j \in T
    BY <2>2, <2>3 DEF T
  <2> QED BY <2>4 DEF j
<1>3. T = Nat
  <2> HIDE DEF T
  <2>1. T \in SUBSET Nat
    BY DEF T
  <2> QED BY <1>1, <1>2, <2>1, Induct
<1>4. n \in T
  <2> HIDE DEF T
  <2> QED BY <1>3
<1> QED BY <1>4

LEMMA PayloadsNone == Payloads(<<>>) = <<>>
<1>1. PICK u : Gathers(<<>>, u, Len(<<>>)) /\ Payloads(<<>>) = u[Len(<<>>)]
  <2>1. <<>> \in Seq(KissFrames)
    OBVIOUS
  <2> QED BY <2>1, PayloadsRuns
<1>2. Len(<<>>) = 0
  OBVIOUS
<1> QED BY <1>1, <1>2 DEF Gathers

\* What is gathered is payloads.
LEMMA PayloadsText ==
  ASSUME NEW fs \in Seq(KissFrames)
  PROVE  Payloads(fs) \in Texts
<1> DEFINE n == Len(fs)
<1>1. PICK u : Gathers(fs, u, n) /\ Payloads(fs) = u[n]
  BY PayloadsRuns
<1>2. n \in 0..n
  BY LenProperties
<1> HIDE DEF n
<1> QED BY <1>1, <1>2 DEF Gathers

\* One frame more.
LEMMA PayloadsMore ==
  ASSUME NEW fs \in Seq(KissFrames), NEW frame \in KissFrames
  PROVE  /\ Append(fs, frame) \in Seq(KissFrames)
         /\ Payloads(Append(fs, frame)) = Adds(frame, Payloads(fs))
<1> DEFINE n == Len(fs)
           gs == Append(fs, frame)
           m == Len(gs)
<1>1. /\ n \in Nat /\ gs \in Seq(KissFrames) /\ m = n + 1 /\ gs[m] = frame
      /\ \A i \in 1..n : gs[i] = fs[i]
  OBVIOUS
<1>2. PICK u : Gathers(fs, u, n) /\ Payloads(fs) = u[n]
  BY PayloadsRuns
<1> HIDE DEF gs
<1>3. PICK v : Gathers(gs, v, m) /\ Payloads(gs) = v[m]
  BY <1>1, PayloadsRuns
<1> HIDE DEF n, m
<1>4. u[n] = v[n]
  <2>1. \A i \in 1..n : i \in 1..m
    BY <1>1
  <2>2. \A i \in 1..n : /\ u[i] = Adds(fs[i], u[i - 1]) /\ v[i] = Adds(gs[i], v[i - 1])
                        /\ fs[i] = gs[i]
    BY <1>1, <1>2, <1>3, <2>1 DEF Gathers
  <2>3. u[0] = v[0]
    BY <1>2, <1>3 DEF Gathers
  <2> QED BY <1>1, <2>2, <2>3, GatherAlike
<1>5. v[m] = Adds(frame, v[n])
  <2>1. m \in 1..m /\ m - 1 = n
    BY <1>1
  <2> QED BY <1>1, <1>3, <2>1 DEF Gathers
<1> QED BY <1>1, <1>2, <1>3, <1>4, <1>5 DEF gs

\* What one frame adds comes after what is there.
LEMMA AddsAfter ==
  ASSUME NEW frame \in KissFrames, NEW x \in Texts, NEW y \in Texts
  PROVE  Adds(frame, x \o y) = x \o Adds(frame, y)
<1>1. CASE Transmits(frame)
  <2> DEFINE z == <<frame.data>>
  <2>1. z \in Texts
    BY DEF KissFrames, Texts
  <2>2. x \o y \in Texts
    BY ConcatProperties DEF Texts
  <2>3. Append(x \o y, frame.data) = (x \o y) \o z /\ Append(y, frame.data) = y \o z
    BY <2>2, AppendIsConcat DEF KissFrames, Texts
  <2> HIDE DEF z
  <2>4. (x \o y) \o z = x \o (y \o z)
    BY <2>1, ConcatAssociative DEF Texts
  <2> QED BY <1>1, <2>3, <2>4 DEF Adds
<1>2. CASE ~Transmits(frame)
  BY <1>2 DEF Adds
<1> QED BY <1>1, <1>2

\* What is gathered of a run of frames is what its first has and what the others have.
LEMMA PayloadsFirst ==
  ASSUME NEW fs \in Seq(KissFrames), fs # <<>>
  PROVE  /\ Head(fs) \in KissFrames /\ Tail(fs) \in Seq(KissFrames)
         /\ Adds(Head(fs), <<>>) \in Texts
         /\ Payloads(fs) = Adds(Head(fs), <<>>) \o Payloads(Tail(fs))
<1> DEFINE gs == Tail(fs)
           n == Len(gs)
           m == Len(fs)
           x == Adds(Head(fs), <<>>)
<1>1. /\ Head(fs) \in KissFrames /\ gs \in Seq(KissFrames) /\ m = n + 1 /\ n \in Nat
      /\ fs[1] = Head(fs) /\ \A i \in 1..n : gs[i] = fs[i + 1]
  BY HeadTailProperties, LenProperties
<1>2. x \in Texts
  BY <1>1, AddsText, EmptySeq DEF Texts
<1>3. PICK u : Gathers(fs, u, m) /\ Payloads(fs) = u[m]
  BY PayloadsRuns
<1> HIDE DEF gs, x
<1>4. PICK v : Gathers(gs, v, n) /\ Payloads(gs) = v[n]
  BY <1>1, PayloadsRuns
<1> HIDE DEF n, m
<1> DEFINE T == {i \in Nat : i <= n => u[i + 1] = x \o v[i]}
<1>5. 0 \in T
  <2>1. u[1] = Adds(fs[1], u[1 - 1]) /\ u[0] = <<>>
    <3>1. 1 \in 1..m
      BY <1>1
    <3> QED BY <1>3, <3>1 DEF Gathers
  <2>2. u[1] = x
    BY <1>1, <2>1 DEF x
  <2>3. v[0] = <<>> /\ x \o <<>> = x
    BY <1>2, <1>4, ConcatEmptySeq DEF Gathers, Texts
  <2> DEFINE one == 0 + 1
  <2>4. one = 1
    OBVIOUS
  <2> HIDE DEF one
  <2>5. u[one] = x \o v[0]
    BY <2>2, <2>3, <2>4
  <2> QED BY <2>5 DEF one
<1>6. ASSUME NEW i \in T PROVE i + 1 \in T
  <2>1. i \in Nat /\ (i <= n => u[i + 1] = x \o v[i])
    BY <1>6
  <2> HIDE DEF T
  <2> DEFINE j == i + 1
             k == j + 1
  <2>2. /\ j \in Nat /\ j - 1 = i /\ k - 1 = j
        /\ j <= n => j \in 1..n /\ i \in 0..n /\ i <= n /\ k \in 1..m
    BY <1>1, <2>1
  <2>3. u[j] = u[i + 1] /\ gs[j] = gs[i + 1] /\ (j <= n => gs[j] = fs[k])
    BY <1>1, <2>2
  <2> HIDE DEF k
  <2>4. ASSUME j <= n PROVE u[k] = x \o v[j]
    <3>1. u[k] = Adds(fs[k], u[j]) /\ v[j] = Adds(gs[j], v[i]) /\ v[i] \in Texts
      <4> HIDE DEF j
      <4> QED BY <1>3, <1>4, <2>2, <2>4 DEF Gathers
    <3>2. u[j] = x \o v[i] /\ gs[j] = fs[k] /\ gs[j] \in KissFrames
      <4>1. gs[j] \in KissFrames
        <5> HIDE DEF j
        <5> QED BY <1>1, <2>2, <2>4, ElementOfSeq DEF n
      <4> QED BY <2>1, <2>2, <2>3, <2>4, <4>1
    <3> HIDE DEF j
    <3>3. Adds(gs[j], x \o v[i]) = x \o Adds(gs[j], v[i])
      BY <1>2, <3>1, <3>2, AddsAfter
    <3> QED BY <3>1, <3>2, <3>3
  <2> QED BY <2>2, <2>4 DEF T, k
<1>7. T = Nat
  <2> HIDE DEF T
  <2>1. T \in SUBSET Nat
    BY DEF T
  <2> QED BY <1>5, <1>6, <2>1, Induct
<1>8. n \in T
  <2> HIDE DEF T
  <2> QED BY <1>1, <1>7
<1>9. u[n + 1] = x \o v[n]
  BY <1>8
<1> QED BY <1>1, <1>2, <1>3, <1>4, <1>9 DEF x, gs

-----------------------------------------------------------------------------
(* The decoder over a chunk. *)

Pushes == [decoder : Decoders, frames : Seq(KissFrames)]

\* A byte takes a push to a push.
LEMMA PushOne ==
  ASSUME NEW p \in Pushes, NEW b \in Byte
  PROVE  PushByte(p, b) \in Pushes
<1>1. p.decoder \in Decoders /\ p.frames \in Seq(KissFrames)
  BY DEF Pushes
<1>2. NextState(p.decoder, b) \in Decoders
  BY <1>1, Moves
<1>3. Completes(p.decoder, b) => TakeFrame(p.decoder.buf) \in KissFrames
  <2> SUFFICES ASSUME p.decoder.buf # <<>> PROVE TakeFrame(p.decoder.buf) \in KissFrames
    BY DEF Completes
  <2> DEFINE s == p.decoder.buf
  <2>1. s \in Seq(Byte)
    BY <1>1 DEF Decoders
  <2>2. Head(s) \in Byte /\ Tail(s) \in Seq(Byte)
    BY <2>1, HeadTailProperties
  <2> QED BY <2>2 DEF TakeFrame, KissFrames
<1>4. Completes(p.decoder, b) => Append(p.frames, TakeFrame(p.decoder.buf)) \in Seq(KissFrames)
  BY <1>1, <1>3, AppendProperties
<1> HIDE DEF Pushes
<1> QED BY <1>1, <1>2, <1>4 DEF PushByte, Pushes

\* Byte after byte of a chunk.
LEMMA PushRuns ==
  ASSUME NEW d \in Decoders, NEW s \in Seq(Byte)
  PROVE  \E u : /\ u \in [0..Len(s) -> Pushes] /\ u[0] = [decoder |-> d, frames |-> <<>>]
                /\ \A i \in 1..Len(s) : u[i] = PushByte(u[i - 1], s[i])
                /\ Push(d, s) = u[Len(s)]
<1> DEFINE n == Len(s)
           first == [decoder |-> d, frames |-> <<>>]
           next == [i \in Nat |-> [x \in Pushes |-> IF i \in 1..n THEN PushByte(x, s[i]) ELSE x]]
           Solves(f) == f = [i \in 0..n |-> IF i = 0 THEN first ELSE PushByte(f[i - 1], s[i])]
           u == CHOOSE f : Solves(f)
<1>1. n \in Nat /\ \A i \in 1..n : s[i] \in Byte
  BY LenProperties, ElementOfSeq
<1>2. first \in Pushes
  BY EmptySeq DEF Pushes
<1>3. Push(d, s) = u[n]
  BY DEF Push
<1>4. next \in Steps(Pushes)
  BY <1>1, PushOne DEF Steps
<1>5. \A x \in Pushes, i \in 1..n : next[i][x] = PushByte(x, s[i])
  BY <1>1
<1> HIDE DEF n, next, first
<1>6. PICK f : Runs(f, Pushes, first, next, n)
  BY <1>1, <1>2, <1>4, Iterates
<1>7. Solves(f)
  <2>1. ASSUME NEW i \in 1..n PROVE next[i][f[i - 1]] = PushByte(f[i - 1], s[i])
    <3>1. i - 1 \in 0..n
      BY <1>1
    <3>2. f[i - 1] \in Pushes
      BY <1>6, <3>1 DEF Runs
    <3> QED BY <1>5, <3>2
  <2>2. ASSUME NEW i \in 0..n PROVE f[i] = IF i = 0 THEN first ELSE PushByte(f[i - 1], s[i])
    <3>1. CASE i = 0
      BY <1>6, <3>1 DEF Runs
    <3>2. CASE i \in 1..n
      BY <1>6, <2>1, <3>2 DEF Runs
    <3> QED BY <1>1, <3>1, <3>2
  <2>3. f = [i \in 0..n |-> f[i]]
    BY <1>6 DEF Runs
  <2> QED BY <2>2, <2>3, Zenon
<1>8. Solves(u)
  <2> HIDE DEF Solves
  <2> QED BY <1>7
<1> HIDE DEF u
<1> DEFINE V(i) == IF i = 0 THEN first ELSE PushByte(u[i - 1], s[i])
<1>9. u = [i \in 0..n |-> V(i)]
  BY <1>8
<1> HIDE DEF V
<1>10. \A i \in 0..n : u[i] = V(i)
  BY <1>9
<1>11. u[0] = first
  <2>1. V(0) = first /\ 0 \in 0..n
    BY <1>1 DEF V
  <2> QED BY <1>10, <2>1
<1>12. ASSUME NEW i \in 1..n PROVE u[i] = PushByte(u[i - 1], s[i])
  <2>1. i \in 0..n /\ i # 0
    BY <1>1
  <2>2. V(i) = PushByte(u[i - 1], s[i])
    BY <2>1 DEF V
  <2> QED BY <1>10, <2>1, <2>2
<1>13. u \in [0..n -> Pushes]
  <2>1. u = [i \in 0..n |-> u[i]]
    BY <1>9
  <2>2. \A i \in 1..n : u[i - 1] \in Pushes => u[i] = next[i][u[i - 1]]
    BY <1>5, <1>12
  <2>3. \A i \in 0..n : u[i] \in Pushes
    <3>1. Follows(u, Pushes, first, next, n)
      BY <1>1, <1>11, <2>2 DEF Follows
    <3> QED BY <1>6, <3>1, Same
  <2> QED BY <2>1, <2>3
<1> QED BY <1>3, <1>11, <1>12, <1>13 DEF n, first

\* What is wholly there is payloads.
LEMMA WithinText == ASSUME NEW d, NEW r, At(d, r), r <= Len(Bytes) PROVE Within(r) \in Texts
<1>1. /\ r \in Nat /\ Total \in Nat /\ Len(Bytes) = EndOf(Total) /\ EndOf(0) = 0
      /\ \A i \in 0..Total : EndOf(i) \in Nat
  BY OnTheWire DEF At
<1> DEFINE S == {i \in 0..Total : EndOf(i) <= r}
<1>2. S # {} /\ S \subseteq 0..Total /\ IsFiniteSet(S)
  <2>1. 0 \in S
    BY <1>1
  <2>2. IsFiniteSet(0..Total)
    BY <1>1, FS_Interval
  <2> QED BY <2>1, <2>2, FS_Subset
<1>3. Max(S) \in S
  <2> DEFINE R == {Total - i : i \in S}
  <2>1. R \in SUBSET Nat /\ R # {}
    BY <1>1, <1>2
  <2>2. PICK k \in R : \A m \in R : k <= m
    <3> HIDE DEF R, S
    <3> QED BY <2>1, Least
  <2> HIDE DEF S
  <2>3. PICK top \in S : k = Total - top
    BY <2>2
  <2>4. \A i \in S : top >= i
    <3> SUFFICES ASSUME NEW i \in S PROVE top >= i
      OBVIOUS
    <3>1. Total - i \in R
      OBVIOUS
    <3>2. Total - top <= Total - i
      <4> HIDE DEF R
      <4> QED BY <2>2, <2>3, <3>1
    <3>3. top \in Nat /\ i \in Nat
      BY <1>1, <1>2, <2>3
    <3> QED BY <1>1, <3>2, <3>3
  <2> HIDE DEF R
  <2> QED BY <2>3, <2>4 DEF Max
<1>4. Within(r) = Written[Max(S)]
  BY DEF Within, Total, EndOf
<1> HIDE DEF S
<1> QED BY <1>2, <1>3, <1>4, WrittenRuns

\* A chunk, whatever its length.
LEMMA OneChunk ==
  ASSUME NEW d, NEW r, At(d, r), NEW n \in Nat, r + n <= Len(Bytes),
         NEW p, p = Push(d, SubSeq(Bytes, r + 1, r + n))
  PROVE  /\ At(p.decoder, r + n) /\ p.frames \in Seq(KissFrames)
         /\ Within(r + n) = Within(r) \o Payloads(p.frames)
<1> DEFINE s == SubSeq(Bytes, r + 1, r + n)
<1>1. d \in Decoders /\ r \in Nat /\ Bytes \in Seq(Byte) /\ Len(Bytes) \in Nat
  BY OnTheWire, LenProperties DEF At
<1>2. s \in Seq(Byte) /\ Len(s) = n /\ \A i \in 1..n : s[i] = Bytes[r + i]
  <2>1. \A i \in (r + 1)..(r + n) : Bytes[i] \in Byte
    BY <1>1, ElementOfSeq
  <2>2. /\ s \in Seq(Byte) /\ Len(s) = IF r + 1 <= r + n THEN r + n - (r + 1) + 1 ELSE 0
        /\ \A i \in 1..(r + n - (r + 1) + 1) : s[i] = Bytes[r + 1 + i - 1]
    BY <1>1, <2>1, SubSeqProperties
  <2> HIDE DEF s
  <2>3. r + n - (r + 1) + 1 = n /\ \A i \in 1..n : r + 1 + i - 1 = r + i
    BY <1>1
  <2>4. Len(s) = n
    BY <1>1, <2>2
  <2>5. \A i \in 1..n : s[i] = Bytes[r + i]
    <3> SUFFICES ASSUME NEW i \in 1..n PROVE s[i] = Bytes[r + i]
      OBVIOUS
    <3> DEFINE j == r + 1 + i - 1
               k == r + i
               m == r + n - (r + 1) + 1
    <3>1. j = k /\ m = n
      BY <1>1
    <3>2. s[i] = Bytes[j]
      BY <2>2, <3>1
    <3> HIDE DEF j, k
    <3>3. s[i] = Bytes[k]
      BY <3>1, <3>2
    <3> QED BY <3>3 DEF k
  <2> QED BY <2>2, <2>4, <2>5
<1>3. p = Push(d, s)
  OBVIOUS
<1> HIDE DEF s
<1>4. PICK u : /\ u \in [0..n -> Pushes] /\ u[0] = [decoder |-> d, frames |-> <<>>]
               /\ \A i \in 1..n : u[i] = PushByte(u[i - 1], s[i])
               /\ p = u[n]
  BY <1>1, <1>2, <1>3, PushRuns
<1> DEFINE Good(i) == /\ At(u[i].decoder, r + i)
                      /\ Within(r + i) = Within(r) \o Payloads(u[i].frames)
           T == {i \in Nat : i <= n => Good(i)}
<1>5. Within(r) \in Texts
  BY <1>1, WithinText
<1>6. Good(0)
  <2>1. r + 0 = r /\ u[0].decoder = d /\ u[0].frames = <<>>
    BY <1>1, <1>4
  <2>2. Within(r) \o <<>> = Within(r)
    BY <1>5, ConcatEmptySeq DEF Texts
  <2> QED BY <2>1, <2>2, PayloadsNone
<1>7. ASSUME NEW i \in Nat, i + 1 <= n, Good(i) PROVE Good(i + 1)
  <2> DEFINE j == i + 1
             x == r + i
             b == Bytes[x + 1]
             e == u[i].decoder
             fs == u[i].frames
  <2>1. /\ i \in 0..n /\ j \in 1..n /\ j - 1 = i /\ x \in Nat /\ r + j = x + 1 /\ x < Len(Bytes)
        /\ x + 1 \in 1..Len(Bytes)
    BY <1>1, <1>7
  <2>2. u[i] \in Pushes
    BY <1>4, <2>1
  <2>3. e \in Decoders /\ fs \in Seq(KissFrames) /\ b \in Byte
    BY <1>1, <2>1, <2>2, ElementOfSeq DEF Pushes
  <2>4. At(e, x) /\ Within(x) = Within(r) \o Payloads(fs)
    BY <1>7
  <2> DEFINE y == r + j
  <2>5. y = x + 1 /\ s[j] = Bytes[y]
    BY <1>2, <2>1
  <2> HIDE DEF j, x, y
  <2>6. u[j] = PushByte(u[i], b)
    BY <1>4, <2>1, <2>5
  <2>7. Decoded(e, b, x)
    BY <2>1, <2>4, OneByte
  <2>8. u[j].decoder = NextState(e, b)
        /\ u[j].frames = IF Completes(e, b) THEN Append(fs, TakeFrame(e.buf)) ELSE fs
    BY <2>6 DEF PushByte
  <2> HIDE DEF b, e, fs
  <2>9. At(u[j].decoder, y)
    BY <2>5, <2>7, <2>8 DEF Decoded
  <2>10. Within(y) = Within(r) \o Payloads(u[j].frames)
    <3>1. CASE Completes(e, b)
      <4> DEFINE f == TakeFrame(e.buf)
      <4>1. f \in KissFrames
        <5>1. e.buf \in Seq(Byte) /\ e.buf # <<>>
          BY <2>3, <3>1 DEF Decoders, Completes
        <5>2. Head(e.buf) \in Byte /\ Tail(e.buf) \in Seq(Byte)
          BY <5>1, HeadTailProperties
        <5> QED BY <5>2 DEF TakeFrame, KissFrames
      <4>2. Within(y) = Adds(f, Within(x))
        BY <2>5, <2>7, <3>1 DEF Decoded, Adds
      <4>3. u[j].frames = Append(fs, f)
        BY <2>8, <3>1
      <4> HIDE DEF f
      <4>4. Payloads(u[j].frames) = Adds(f, Payloads(fs))
        BY <2>3, <4>1, <4>3, PayloadsMore
      <4>5. Adds(f, Within(r) \o Payloads(fs)) = Within(r) \o Adds(f, Payloads(fs))
        BY <1>5, <2>3, <4>1, PayloadsText, AddsAfter
      <4> QED BY <2>4, <4>2, <4>4, <4>5
    <3>2. CASE ~Completes(e, b)
      <4>1. Within(y) = Within(x) /\ u[j].frames = fs
        BY <2>5, <2>7, <2>8, <3>2 DEF Decoded
      <4> QED BY <2>4, <4>1
    <3> QED BY <3>1, <3>2
  <2>11. Good(j)
    BY <2>9, <2>10 DEF y
  <2> QED BY <2>11 DEF j
<1>8. T = Nat
  <2> HIDE DEF Good
  <2>1. 0 \in T
    BY <1>6
  <2>2. ASSUME NEW i \in T PROVE i + 1 \in T
    <3>1. i \in Nat /\ (i <= n => Good(i))
      BY <2>2
    <3>2. i + 1 <= n => Good(i + 1)
      BY <1>7, <3>1
    <3> HIDE DEF T
    <3> QED BY <3>1, <3>2 DEF T
  <2>3. T \in SUBSET Nat
    OBVIOUS
  <2> HIDE DEF T
  <2> QED BY <2>1, <2>2, <2>3, Induct
<1>9. Good(n)
  <2>1. n \in T
    <3> HIDE DEF T, Good
    <3> QED BY <1>8
  <2> HIDE DEF Good
  <2> QED BY <2>1
<1>10. p.frames \in Seq(KissFrames)
  <2>1. n \in 0..n
    OBVIOUS
  <2>2. p \in Pushes
    BY <1>4, <2>1
  <2> QED BY <2>2 DEF Pushes
<1> QED BY <1>4, <1>9, <1>10

-----------------------------------------------------------------------------
(* What the reader offers. *)

\* A connection has read and offered what it should have.
Reading(k) ==
    /\ At(k.decoder, k.read) /\ k.read <= Len(Bytes)
    /\ k.todo \in Seq(KissFrames) /\ k.offered \in Texts
    /\ k.offered \o Payloads(k.todo) = Within(k.read)

Reads == \A h \in Client : Reading(conn[h])

\* Before the first byte.
LEMMA NothingRead ==
  ASSUME NEW k, k.read = 0, k.decoder = NewDecoder, k.todo = <<>>, k.offered = <<>>
  PROVE  Reading(k)
<1>1. At(NewDecoder, 0)
  <2>1. 0 \in 0..Total /\ EndOf(0) = 0
    BY OnTheWire
  <2>2. Clear(NewDecoder, 0, 0)
    BY <2>1 DEF Clear, NewDecoder
  <2>3. NewDecoder \in Decoders
    BY EmptySeq DEF NewDecoder, Decoders
  <2> QED BY <2>2, <2>3 DEF At
<1>2. Within(0) = <<>>
  <2>1. Total \in Nat /\ 0 \in 0..Total /\ EndOf(0) = 0
    BY OnTheWire
  <2>2. 0 < Total => 0 < EndOf(0 + 1)
    <3> SUFFICES ASSUME 0 < Total PROVE 0 < EndOf(1)
      OBVIOUS
    <3>1. 1 \in 1..Total
      BY <2>1
    <3>2. EndOf(1) = EndOf(1 - 1) + Len(WireOf(1)) /\ Len(WireOf(1)) \in Nat \ {0}
      BY <3>1, OnTheWire
    <3> HIDE DEF EndOf, WireOf
    <3> QED BY <2>1, <3>2
  <2>3. Before(0, 0)
    BY <2>1, <2>2 DEF Before
  <2> QED BY <2>3, WithinItems, WrittenRuns
<1>3. 0 <= Len(Bytes) /\ <<>> \in Seq(KissFrames) /\ <<>> \in Texts /\ <<>> \o <<>> = <<>>
  <2>1. Len(Bytes) \in Nat
    BY OnTheWire, LenProperties
  <2>2. <<>> \in Texts /\ <<>> \o <<>> = <<>>
    BY EmptySeq, ConcatEmptySeq DEF Texts
  <2>3. <<>> \in Seq(KissFrames)
    BY EmptySeq
  <2> QED BY <2>1, <2>2, <2>3
<1>4. k.offered \o Payloads(k.todo) = Within(k.read)
  BY <1>2, <1>3, PayloadsNone
<1> QED BY <1>1, <1>3, <1>4 DEF Reading

\* A connection that keeps these fields goes on as it was.
LEMMA ReadsAlike ==
  ASSUME NEW j, NEW k, Reading(j), k.decoder = j.decoder, k.read = j.read,
         k.todo = j.todo, k.offered = j.offered
  PROVE  Reading(k)
BY DEF Reading

\* A step of one connection that leaves it reading well.
LEMMA OneReads ==
  ASSUME Sent, Reads, NEW h \in Client, NEW k, conn' = [conn EXCEPT ![h] = k], Reading(k)
  PROVE  Reads'
<1>1. \A g \in Client : conn'[g] = IF g = h THEN k ELSE conn[g]
  BY DEF Sent
<1>2. ASSUME NEW g \in Client PROVE Reading(conn'[g])
  BY <1>1 DEF Reads
<1>3. ASSUME NEW g \in Client PROVE Reading(conn[g])'
  BY <1>2 DEF Reading
<1> QED BY <1>3 DEF Reads

\* The reader takes a chunk.
LEMMA ReadReads == ASSUME Sent, Reads, NEW h \in Client, Read(h) PROVE Reads'
<1>1. PICK n \in ReadSizes :
        /\ conn[h].read + n <= Len(Bytes)
        /\ LET pushed == Push(conn[h].decoder, SubSeq(Bytes, conn[h].read + 1, conn[h].read + n))
           IN  conn' = [conn EXCEPT ![h].read = @ + n, ![h].decoder = pushed.decoder,
                                    ![h].todo = pushed.frames]
  BY DEF Read
<1> DEFINE r == conn[h].read
           p == Push(conn[h].decoder, SubSeq(Bytes, r + 1, r + n))
           k == conn'[h]
<1>2. /\ conn' = [conn EXCEPT ![h] = k]
      /\ k.read = r + n /\ k.decoder = p.decoder /\ k.todo = p.frames
      /\ k.offered = conn[h].offered
  <2>1. Record(conn[h]) /\ conn \in [Client -> {conn[g] : g \in Client}]
    BY DEF Sent
  <2> DEFINE d == p.decoder
             f == p.frames
  <2>2. conn' = [conn EXCEPT ![h].read = @ + n, ![h].decoder = d, ![h].todo = f]
    BY <1>1
  <2> HIDE DEF d, f
  <2>3. /\ conn' = [conn EXCEPT ![h] = k]
        /\ k.read = r + n /\ k.decoder = d /\ k.todo = f /\ k.offered = conn[h].offered
    BY <2>1, <2>2 DEF Record, Fields
  <2> QED BY <2>3 DEF d, f
<1>3. Reading(conn[h]) /\ conn[h].todo = <<>> /\ n \in Nat
  BY SizesAreNumbers DEF Reads, Read
<1>4. At(p.decoder, r + n) /\ p.frames \in Seq(KissFrames)
      /\ Within(r + n) = Within(r) \o Payloads(p.frames)
  <2> DEFINE d == conn[h].decoder
  <2>1. At(d, r) /\ r + n <= Len(Bytes) /\ p = Push(d, SubSeq(Bytes, r + 1, r + n))
    BY <1>1, <1>3 DEF Reading
  <2> HIDE DEF d, r, p
  <2> QED BY <1>3, <2>1, OneChunk
<1>5. conn[h].offered = Within(r) /\ conn[h].offered \in Texts
  BY <1>3, PayloadsNone, ConcatEmptySeq DEF Reading, Texts
<1> HIDE DEF p, k
<1>6. Reading(k)
  BY <1>1, <1>2, <1>4, <1>5 DEF Reading
<1> QED BY <1>2, <1>6, OneReads

LEMMA TextsJoin == \A x, y, z \in Texts : (x \o y) \o z = x \o (y \o z)
BY ConcatAssociative DEF Texts

\* The reader offers a frame to the core.
LEMMA OfferReads == ASSUME Sent, Reads, NEW h \in Client, Offer(h) PROVE Reads'
<1> DEFINE s == conn[h].todo
           o == conn[h].offered
           k == conn'[h]
<1>1. /\ conn' = [conn EXCEPT ![h] = k]
      /\ k.read = conn[h].read /\ k.decoder = conn[h].decoder /\ k.todo = Tail(s)
      /\ k.offered = Adds(Head(s), o)
  <2>1. Record(conn[h]) /\ conn \in [Client -> {conn[g] : g \in Client}]
    BY DEF Sent
  <2>2. PICK w : conn' = [conn EXCEPT ![h].todo = Tail(@), ![h].waiting = w,
                                ![h].offered = IF Transmits(Head(s))
                                               THEN Append(@, Head(s).data) ELSE @]
    BY Zenon DEF Offer
  <2> QED BY <2>1, <2>2 DEF Record, Fields, Adds
<1>2. Reading(conn[h]) /\ s # <<>>
  BY DEF Reads, Offer
<1> HIDE DEF k
<1>3. s \in Seq(KissFrames) /\ o \in Texts /\ o \o Payloads(s) = Within(conn[h].read)
  BY <1>2 DEF Reading
<1> HIDE DEF s, o
<1> DEFINE f == Head(s)
           gs == Tail(s)
<1>4. /\ f \in KissFrames /\ gs \in Seq(KissFrames) /\ Adds(f, <<>>) \in Texts
      /\ Payloads(s) = Adds(f, <<>>) \o Payloads(gs)
  BY <1>2, <1>3, PayloadsFirst
<1> HIDE DEF f, gs
<1>5. Adds(f, o) = o \o Adds(f, <<>>) /\ Adds(f, o) \in Texts
  <2>1. <<>> \in Texts /\ o \o <<>> = o
    BY <1>3, EmptySeq, ConcatEmptySeq DEF Texts
  <2>2. Adds(f, o \o <<>>) = o \o Adds(f, <<>>)
    BY <1>3, <1>4, <2>1, AddsAfter
  <2>3. Adds(f, o) \in Texts
    BY <1>3, <1>4, AddsText
  <2> QED BY <2>1, <2>2, <2>3
<1>6. Adds(f, o) \o Payloads(gs) = Within(conn[h].read)
  <2>1. Payloads(gs) \in Texts
    BY <1>4, PayloadsText
  <2>2. (o \o Adds(f, <<>>)) \o Payloads(gs) = o \o (Adds(f, <<>>) \o Payloads(gs))
    <3> DEFINE x == Adds(f, <<>>)
               y == Payloads(gs)
    <3>1. o \in Texts /\ x \in Texts /\ y \in Texts
      BY <1>3, <1>4, <2>1
    <3> HIDE DEF x, y
    <3>2. (o \o x) \o y = o \o (x \o y)
      BY <3>1, TextsJoin
    <3> QED BY <3>2 DEF x, y
  <2> QED BY <1>3, <1>4, <1>5, <2>2
<1>7. Reading(k)
  BY <1>1, <1>2, <1>4, <1>5, <1>6 DEF Reading, f, gs
<1> QED BY <1>1, <1>7, OneReads

\* The other steps leave the reader alone, or close it.
LEMMA OthersRead ==
  ASSUME Reads, \A h \in Client : \/ /\ conn'[h].decoder = conn[h].decoder
                                     /\ conn'[h].read = conn[h].read
                                     /\ conn'[h].todo = conn[h].todo
                                     /\ conn'[h].offered = conn[h].offered
                                  \/ Reading(conn'[h])
  PROVE  Reads'
<1>1. ASSUME NEW h \in Client PROVE Reading(conn'[h])
  BY ReadsAlike DEF Reads
<1>2. ASSUME NEW h \in Client PROVE Reading(conn[h])'
  BY <1>1 DEF Reading
<1> QED BY <1>2 DEF Reads

\* Every step of the bridge.
LEMMA ReadsStep == ASSUME Sent, Reads, [Next]_vars PROVE Reads'
<1>0. conn = [h \in Client |-> conn[h]] /\ \A h \in Client : Record(conn[h])
  BY DEF Sent
<1>1. ASSUME NEW h \in Client, Accept(h) PROVE Reads'
  <2>1. PICK l \in Bound : conn' = [conn EXCEPT ![h].st = "open", ![h].of = l]
    BY <1>1 DEF Accept
  <2>2. \A g \in Client : /\ conn'[g].decoder = conn[g].decoder /\ conn'[g].read = conn[g].read
                          /\ conn'[g].todo = conn[g].todo /\ conn'[g].offered = conn[g].offered
    BY <1>0, <2>1 DEF Record, Fields
  <2> QED BY <2>2, OthersRead
<1>2. ASSUME NEW h \in Client, Subscribe(h) PROVE Reads'
  <2>1. conn' = [conn EXCEPT ![h].from = Len(air), ![h].next = Len(air) + 1]
    BY <1>2 DEF Subscribe
  <2>2. \A g \in Client : /\ conn'[g].decoder = conn[g].decoder /\ conn'[g].read = conn[g].read
                          /\ conn'[g].todo = conn[g].todo /\ conn'[g].offered = conn[g].offered
    BY <1>0, <2>1 DEF Record, Fields
  <2> QED BY <2>2, OthersRead
<1>3. ASSUME NEW h \in Client, Forward(h) PROVE Reads'
  <2>1. PICK n, f : conn' = [conn EXCEPT ![h].next = n, ![h].forwarded = f]
    BY <1>3, Zenon DEF Forward
  <2>2. \A g \in Client : /\ conn'[g].decoder = conn[g].decoder /\ conn'[g].read = conn[g].read
                          /\ conn'[g].todo = conn[g].todo /\ conn'[g].offered = conn[g].offered
    BY <1>0, <2>1 DEF Record, Fields
  <2> QED BY <2>2, OthersRead
<1>4. ASSUME NEW h \in Client, conn' = Closed(h) PROVE Reads'
  <2> DEFINE k == [NoConnection EXCEPT !.st = "closed", !.of = conn[h].of]
  <2>1. conn' = [conn EXCEPT ![h] = k]
    BY <1>4 DEF Closed
  <2>2. k.read = 0 /\ k.decoder = NewDecoder /\ k.todo = <<>> /\ k.offered = <<>>
    BY DEF NoConnection
  <2> HIDE DEF k
  <2>3. Reading(k)
    BY <2>2, NothingRead
  <2> QED BY <2>1, <2>3, OneReads
<1>5. CASE UNCHANGED conn
  BY <1>5, OthersRead
<1>6. ASSUME NEW l \in Listener, EndListener(l) PROVE Reads'
  <2>1. conn' = [h \in Client |-> IF conn[h].st = "open" /\ conn[h].of = l
                                  THEN [conn[h] EXCEPT !.st = "aborted"] ELSE conn[h]]
    BY <1>6 DEF EndListener
  <2>2. \A g \in Client : /\ conn'[g].decoder = conn[g].decoder /\ conn'[g].read = conn[g].read
                          /\ conn'[g].todo = conn[g].todo /\ conn'[g].offered = conn[g].offered
    BY <1>0, <2>1 DEF Record, Fields
  <2> QED BY <2>2, OthersRead
<1>7. CASE Serve
  <2>1. conn' = [h \in Client |-> IF h = Head(queue)
                                  THEN [conn[h] EXCEPT !.waiting = FALSE] ELSE conn[h]]
    BY <1>7 DEF Serve
  <2>2. \A g \in Client : /\ conn'[g].decoder = conn[g].decoder /\ conn'[g].read = conn[g].read
                          /\ conn'[g].todo = conn[g].todo /\ conn'[g].offered = conn[g].offered
    BY <1>0, <2>1 DEF Record, Fields
  <2> QED BY <2>2, OthersRead
<1>8. ASSUME NEW h \in Client, Lagged(h) \/ HostGone(h) \/ DropConnection(h) PROVE Reads'
  BY <1>4, <1>8 DEF Lagged, HostGone, DropConnection
<1> QED BY <1>1, <1>2, <1>3, <1>5, <1>6, <1>7, <1>8, ReadReads, OfferReads
        DEF Next, vars, OtherCommand, Publish

\* No connection is open at first.
LEMMA ReadsInit == Init => Reads
<1>1. Init => \A h \in Client : conn[h] = NoConnection
  BY DEF Init
<1>2. /\ NoConnection.read = 0 /\ NoConnection.decoder = NewDecoder
      /\ NoConnection.todo = <<>> /\ NoConnection.offered = <<>>
  BY DEF NoConnection
<1>3. Reading(NoConnection)
  BY <1>2, NothingRead
<1> QED BY <1>1, <1>3 DEF Reads

\* However TCP cuts what a host writes, and whatever the core's queue refuses,
\* what the reader offers, with what it still has to offer, is the data frames
\* whose last byte has arrived, each once and in order (KissDecoder::push in
\* kiss/codec.rs, bridge_connection in kiss/listener.rs).
THEOREM HostHeardInOrder == Spec => []HostFramesInOrder
<1>1. Sent /\ Reads /\ [Next]_vars => (Sent /\ Reads)'
  BY SentStep, ReadsStep
<1>2. Init => Sent /\ Reads
  BY SentInit, ReadsInit
<1>3. Reads => HostFramesInOrder
  BY DEF Reads, Reading, HostFramesInOrder
<1> QED BY <1>1, <1>2, <1>3, PTL DEF Spec
=============================================================================
