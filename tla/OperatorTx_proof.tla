-------------------------- MODULE OperatorTx_proof --------------------------
(***************************************************************************)
(* Proofs about OperatorTx: its types, that nothing given up is sent, and  *)
(* what an undisturbed client does: each message once, the rig given back. *)
(***************************************************************************)
EXTENDS OperatorTx, SequenceTheorems, TLAPS

-----------------------------------------------------------------------------
(* Bags, as far as calls and answers need them. *)

Copies(e, B) == IF BagIn(e, B) THEN B[e] ELSE 0

\* A message more in a bag.
LEMMA BagAdd ==
  ASSUME NEW B, IsABag(B), NEW x, NEW C, C = B (+) SetToBag({x})
  PROVE  /\ IsABag(C)
         /\ BagIn(x, C) /\ Copies(x, C) = Copies(x, B) + 1
         /\ \A e : e # x => (BagIn(e, C) <=> BagIn(e, B)) /\ Copies(e, C) = Copies(e, B)
         /\ BagToSet(C) = BagToSet(B) \cup {x}
<1>1. C = [e \in DOMAIN B \cup {x} |->
             (IF e \in DOMAIN B THEN B[e] ELSE 0) + (IF e \in {x} THEN 1 ELSE 0)]
  BY DEF (+), SetToBag
<1>2. DOMAIN C = DOMAIN B \cup {x}
  BY <1>1
<1>3. B \in [DOMAIN B -> {n \in Nat : n > 0}]
  BY DEF IsABag
<1>4. \A e \in DOMAIN C : C[e] \in Nat /\ C[e] > 0
  BY <1>1, <1>2, <1>3
<1>5. IsABag(C)
  <2>1. C = [e \in DOMAIN C |-> C[e]]
    BY <1>1, <1>2
  <2> QED BY <2>1, <1>4 DEF IsABag
<1>6. BagIn(x, C) /\ \A e : e # x => (BagIn(e, C) <=> BagIn(e, B))
  BY <1>2 DEF BagIn, BagToSet
<1>7. Copies(x, C) = Copies(x, B) + 1 /\ \A e : e # x => Copies(e, C) = Copies(e, B)
  BY <1>1, <1>2, <1>3 DEF Copies, BagIn, BagToSet
<1> QED BY <1>2, <1>5, <1>6, <1>7 DEF BagToSet

\* A message less in a bag that holds it.
LEMMA BagRemove ==
  ASSUME NEW B, IsABag(B), NEW x, BagIn(x, B), NEW C, C = B (-) SetToBag({x})
  PROVE  /\ IsABag(C)
         /\ BagToSet(C) \subseteq BagToSet(B)
         /\ \A e : Copies(e, C) = Copies(e, B) - (IF e = x THEN 1 ELSE 0)
         /\ \A e : e # x => (BagIn(e, C) <=> BagIn(e, B))
<1> DEFINE D == [e \in DOMAIN B |-> IF e \in {x} THEN B[e] - 1 ELSE B[e]]
<1>1. C = [e \in {d \in DOMAIN D : D[d] > 0} |-> D[e]]
  BY DEF (-), SetToBag
<1>2. B \in [DOMAIN B -> {n \in Nat : n > 0}] /\ x \in DOMAIN B
  BY DEF IsABag, BagIn, BagToSet
<1>3. \A e \in DOMAIN B : D[e] = B[e] - (IF e = x THEN 1 ELSE 0) /\ D[e] \in Nat
  BY <1>2
<1>4. DOMAIN C = {d \in DOMAIN B : D[d] > 0} /\ \A e \in DOMAIN C : C[e] = D[e]
  BY <1>1
<1>5. IsABag(C)
  BY <1>1, <1>3, <1>4 DEF IsABag
<1> HIDE DEF D
<1>6. \A e : Copies(e, C) = Copies(e, B) - (IF e = x THEN 1 ELSE 0)
  BY <1>2, <1>3, <1>4 DEF Copies, BagIn, BagToSet
<1>7. \A e : e # x => (BagIn(e, C) <=> BagIn(e, B))
  BY <1>2, <1>3, <1>4 DEF BagIn, BagToSet
<1> QED BY <1>4, <1>5, <1>6, <1>7 DEF BagToSet

\* What a bag holds it holds at least once.
LEMMA BagCopies ==
  ASSUME NEW B, IsABag(B)
  PROVE  \A e : Copies(e, B) \in Nat /\ (BagIn(e, B) <=> Copies(e, B) > 0)
<1>1. B \in [DOMAIN B -> {n \in Nat : n > 0}]
  BY DEF IsABag
<1> QED BY <1>1 DEF Copies, BagIn, BagToSet

-----------------------------------------------------------------------------
(* Types. *)

Requests == {RpcAcquire, RpcRelease} \cup {RpcTransmit(p) : p \in 0 .. MaxSends}

LEMMA TypeInit == Init => TypeOK
<1> SUFFICES ASSUME Init PROVE TypeOK
  OBVIOUS
<1>1. IsABag(EmptyBag) /\ BagToSet(EmptyBag) = {}
  BY DEF EmptyBag, SetToBag, IsABag, BagToSet
<1>2. issued \in Seq(0 .. MaxSends) /\ jobs \in Seq({Us}) /\ stream \in Seq(Others \cup {Us})
  BY DEF Init
<1>3. holder \in [{Rig} -> Others \cup {Us, NoChannel}]
  BY DEF Init
<1>7. {open, disturbed} \subseteq BOOLEAN /\ phase \in {"idle", "acquiring", "transmitting"}
  BY DEF Init
<1>4. /\ payload \in 0 .. MaxSends /\ entered \in 0 .. MaxSends
      /\ foreign \in 0 .. MaxForeign /\ lost \in 0 .. MaxLost
  BY OperatorBounds DEF Init
<1>5. calls = EmptyBag /\ answers = EmptyBag
  BY DEF Init
<1> HIDE DEF Init
<1>6. /\ IsABag(calls) /\ IsABag(answers)
      /\ BagToSet(calls) \subseteq {RpcAcquire, RpcRelease} \cup {RpcTransmit(p) : p \in 0 .. MaxSends}
      /\ BagToSet(answers) \subseteq BOOLEAN
  BY <1>1, <1>5
<1> QED BY <1>2, <1>3, <1>4, <1>6, <1>7 DEF TypeOK

\* A call more or less is still a bag of requests.
LEMMA CallTypes ==
  ASSUME TypeOK, NEW c \in Requests
  PROVE  /\ Call(c) => IsABag(calls') /\ BagToSet(calls') \subseteq Requests
         /\ BagIn(c, calls) /\ calls' = calls (-) SetToBag({c})
              => IsABag(calls') /\ BagToSet(calls') \subseteq Requests
<1>1. IsABag(calls) /\ BagToSet(calls) \subseteq Requests
  BY DEF TypeOK, Requests
<1>2. ASSUME Call(c) PROVE IsABag(calls') /\ BagToSet(calls') = BagToSet(calls) \cup {c}
  <2>1. calls' = calls (+) SetToBag({c})
    BY <1>2 DEF Call
  <2> QED BY ONLY <1>1, <2>1, BagAdd
<1>3. ASSUME BagIn(c, calls), calls' = calls (-) SetToBag({c})
      PROVE  IsABag(calls') /\ BagToSet(calls') \subseteq BagToSet(calls)
  BY ONLY <1>1, <1>3, BagRemove
<1> QED BY <1>1, <1>2, <1>3

\* The steps of the screen.
LEMMA ScreenTypes ==
  ASSUME TypeOK,
         \/ Enter \/ Complete \/ Watchdog \/ Halt \/ Leave \/ Reopen
         \/ \E granted \in BOOLEAN : Answer(granted)
  PROVE  TypeOK'
<1> USE OperatorBounds
<1>1. RpcAcquire \in Requests /\ RpcRelease \in Requests /\ RpcTransmit(payload) \in Requests
  BY DEF Requests, TypeOK
<1>2. /\ Call(RpcAcquire) => IsABag(calls') /\ BagToSet(calls') \subseteq Requests
      /\ Call(RpcRelease) => IsABag(calls') /\ BagToSet(calls') \subseteq Requests
      /\ Call(RpcTransmit(payload)) => IsABag(calls') /\ BagToSet(calls') \subseteq Requests
  BY <1>1, CallTypes
<1>3. IsABag(calls) /\ BagToSet(calls) \subseteq Requests
  BY DEF TypeOK, Requests
<1>4. Reset => phase' = "idle" /\ payload' = 0 /\ payload' \in 0 .. MaxSends
  BY DEF Reset
<1> HIDE DEF Requests
<1>5. CASE Enter
  BY <1>5, <1>2 DEF Enter, TypeOK, daemon, budget, Requests
<1>6. CASE Complete
  BY <1>6, <1>2, <1>3, <1>4 DEF Complete, TypeOK, daemon, budget, Requests
<1>7. CASE Watchdog \/ Halt
  BY <1>7, <1>2, <1>4 DEF Watchdog, Halt, GiveUp, TypeOK, daemon, budget, Requests
<1>8. CASE Leave \/ Reopen
  BY <1>8, <1>2, <1>3, <1>4 DEF Leave, Reopen, TypeOK, daemon, budget, Requests
<1>9. ASSUME NEW granted \in BOOLEAN, Answer(granted) PROVE TypeOK'
  <2>1. IsABag(answers') /\ BagToSet(answers') \subseteq BOOLEAN
    BY <1>9, BagRemove DEF Answer, TypeOK
  <2>2. /\ IsABag(calls') /\ BagToSet(calls') \subseteq Requests
        /\ phase' \in {"idle", "acquiring", "transmitting"}
        /\ payload' \in 0 .. MaxSends
        /\ issued' \in Seq(0 .. MaxSends)
    <3>1. /\ issued \in Seq(0 .. MaxSends) /\ Append(issued, payload) \in Seq(0 .. MaxSends)
          /\ phase \in {"idle", "acquiring", "transmitting"} /\ payload \in 0 .. MaxSends
      BY DEF TypeOK
    <3> QED BY <1>9, <1>2, <1>3, <1>4, <3>1 DEF Answer
  <2> QED BY <1>9, <2>1, <2>2 DEF Answer, TypeOK, daemon, budget, Requests
<1> QED BY <1>5, <1>6, <1>7, <1>8, <1>9

\* The steps of the daemon and of the other channels.
LEMMA DaemonTypes ==
  ASSUME TypeOK,
         \/ \E c \in BagToSet(calls) : CallServed(c) \/ CallFailed(c)
         \/ JobDone \/ JobsDropped \/ EventsLost
         \/ \E o \in Others : OtherLease(o) \/ OtherCompletes(o)
  PROVE  TypeOK'
<1> USE OperatorBounds
<1>1. ASSUME NEW ch \in Others \cup {Us}
      PROVE  /\ Acquire(holder, Rig, ch) \in [{Rig} -> Others \cup {Us, NoChannel}]
             /\ Release(holder, Rig, ch) \in [{Rig} -> Others \cup {Us, NoChannel}]
  BY DEF TypeOK, Acquire, Release
<1>2. ASSUME NEW c \in BagToSet(calls), CallServed(c) \/ CallFailed(c) PROVE TypeOK'
  <2>1. c \in Requests
    BY <1>2 DEF TypeOK, Requests
  <2>2. IsABag(calls') /\ BagToSet(calls') \subseteq Requests
    BY <1>2, <2>1, CallTypes DEF CallServed, CallFailed
  <2>3. c.op \in {"acquire", "release", "transmit"}
    BY <2>1 DEF Requests, RpcAcquire, RpcRelease, RpcTransmit
  <2>4. /\ holder' \in [{Rig} -> Others \cup {Us, NoChannel}]
        /\ jobs' \in Seq({Us})
    <3>1. jobs \in Seq({Us}) /\ Append(jobs, Us) \in Seq({Us})
      BY DEF TypeOK
    <3>2. holder \in [{Rig} -> Others \cup {Us, NoChannel}]
      BY DEF TypeOK
    <3>3. ASSUME Serve(c) PROVE /\ holder' \in [{Rig} -> Others \cup {Us, NoChannel}]
                                /\ jobs' \in Seq({Us})
      <4>1. jobs' \in Seq({Us})
        BY <3>1, <3>3 DEF Serve
      <4>2. holder' \in [{Rig} -> Others \cup {Us, NoChannel}]
        BY <1>1, <2>3, <3>2, <3>3 DEF Serve
      <4> QED BY <4>1, <4>2
    <3>4. Serve(c) \/ UNCHANGED <<holder, jobs>>
      BY <1>2 DEF CallServed, CallFailed, daemon
    <3> QED BY <3>1, <3>2, <3>3, <3>4
  <2>5. IsABag(answers') /\ BagToSet(answers') \subseteq BOOLEAN
    <3>1. Grants \in BOOLEAN
      BY DEF Grants
    <3>2. /\ IsABag(answers (+) SetToBag({Grants}))
          /\ BagToSet(answers (+) SetToBag({Grants})) = BagToSet(answers) \cup {Grants}
      BY BagAdd DEF TypeOK
    <3> QED BY <1>2, <3>1, <3>2 DEF CallServed, CallFailed, TypeOK
  <2>6. foreign' \in 0 .. MaxForeign /\ lost' \in 0 .. MaxLost
    BY <1>2 DEF CallServed, CallFailed, TypeOK, budget
  <2>7. {open', disturbed'} \subseteq BOOLEAN
    BY <1>2 DEF CallServed, CallFailed, TypeOK, screen
  <2>8. UNCHANGED <<phase, payload, stream, entered, issued>>
    BY <1>2 DEF CallServed, CallFailed, screen
  <2> QED BY <2>2, <2>4, <2>5, <2>6, <2>7, <2>8 DEF TypeOK, Requests
<1>3. CASE JobDone \/ JobsDropped \/ EventsLost
  <2>1. jobs' \in Seq({Us}) /\ stream' \in Seq(Others \cup {Us})
    <3>1. /\ jobs \in Seq({Us}) /\ stream \in Seq(Others \cup {Us})
          /\ <<>> \in Seq({Us}) /\ <<>> \in Seq(Others \cup {Us})
          /\ Append(stream, Us) \in Seq(Others \cup {Us})
          /\ jobs # <<>> => Tail(jobs) \in Seq({Us})
      BY DEF TypeOK
    <3> QED BY <1>3, <3>1 DEF JobDone, JobsDropped, EventsLost, daemon
  <2>2. foreign' \in 0 .. MaxForeign /\ lost' \in 0 .. MaxLost
    BY <1>3 DEF JobDone, JobsDropped, EventsLost, TypeOK, budget
  <2>3. {open', disturbed'} \subseteq BOOLEAN
    BY <1>3 DEF JobDone, JobsDropped, EventsLost, TypeOK, screen
  <2>4. UNCHANGED <<phase, payload, calls, answers, holder, entered, issued>>
    BY <1>3 DEF JobDone, JobsDropped, EventsLost, screen, daemon
  <2> QED BY <2>1, <2>2, <2>3, <2>4 DEF TypeOK
<1>4. ASSUME NEW o \in Others, OtherLease(o) \/ OtherCompletes(o) PROVE TypeOK'
  <2>1. holder' \in [{Rig} -> Others \cup {Us, NoChannel}]
    BY <1>1, <1>4 DEF OtherLease, OtherCompletes, TypeOK, daemon
  <2>2. stream' \in Seq(Others \cup {Us})
    <3>1. stream \in Seq(Others \cup {Us}) /\ Append(stream, o) \in Seq(Others \cup {Us})
      BY DEF TypeOK
    <3> QED BY <1>4, <3>1 DEF OtherLease, OtherCompletes
  <2> QED BY SMTT(20), <1>4, <2>1, <2>2 DEF OtherLease, OtherCompletes, TypeOK, screen, daemon, budget
<1> QED BY <1>2, <1>3, <1>4

LEMMA TypeStep == TypeOK /\ [Next]_vars => TypeOK'
<1>1. TypeOK /\ UNCHANGED vars => TypeOK'
  BY DEF TypeOK, vars, screen, daemon, budget
<1> QED BY <1>1, ScreenTypes, DaemonTypes DEF Next

\* The variables keep their types: every call and answer on its way is one the
\* client and the daemon know, whoever lost what.
THEOREM ClientTypes == Spec => []TypeOK
BY TypeInit, TypeStep, PTL DEF Spec

-----------------------------------------------------------------------------
(* Nothing stale. *)

\* A payload is kept only for the active send, and it is the last one entered;
\* a screen that was left has no send.
Fresh ==
    /\ payload # 0 => payload = entered /\ Active
    /\ ~open => phase = "idle"

LEMMA FreshInit == Init => Fresh
BY DEF Init, Fresh

LEMMA FreshStep == TypeOK /\ Fresh /\ [Next]_vars => Fresh'
<1> SUFFICES ASSUME TypeOK, Fresh, [Next]_vars PROVE Fresh'
  OBVIOUS
<1>1. ASSUME UNCHANGED <<screen, entered>> PROVE Fresh'
  BY <1>1 DEF Fresh, Active, screen
<1>2. CASE Enter
  BY <1>2 DEF Enter, Fresh, Active
<1>3. ASSUME Reset, open' = open \/ open' \in BOOLEAN PROVE Fresh'
  BY <1>3 DEF Reset, Fresh, Active
<1>4. CASE Complete
  BY <1>1, <1>3, <1>4 DEF Complete, screen
<1>5. CASE Watchdog \/ Halt
  BY <1>3, <1>5 DEF Watchdog, Halt, GiveUp
<1>6. CASE Leave \/ Reopen
  BY <1>3, <1>6 DEF Leave, Reopen
<1>7. ASSUME NEW granted \in BOOLEAN, Answer(granted) PROVE Fresh'
  BY <1>1, <1>3, <1>7 DEF Answer, Fresh, Active, screen
<1>8. ASSUME NEW c \in BagToSet(calls), CallServed(c) \/ CallFailed(c) PROVE Fresh'
  BY <1>1, <1>8 DEF CallServed, CallFailed
<1>9. CASE JobDone \/ JobsDropped \/ EventsLost
  BY <1>1, <1>9 DEF JobDone, JobsDropped, EventsLost
<1>10. ASSUME NEW o \in Others, OtherLease(o) \/ OtherCompletes(o) PROVE Fresh'
  BY <1>1, <1>10 DEF OtherLease, OtherCompletes
<1>11. CASE UNCHANGED vars
  BY <1>1, <1>11 DEF vars
<1> QED BY <1>2, <1>4, <1>5, <1>6, <1>7, <1>8, <1>9, <1>10, <1>11 DEF Next

\* What a step issues, it issues of the send that is active.
LEMMA IssueStep ==
  ASSUME TypeOK, Fresh, [Next]_vars
  PROVE  \A i \in DOMAIN issued' \ DOMAIN issued :
             issued'[i] # 0 => issued'[i] = entered /\ Active /\ issued'[i] = payload
<1>1. ASSUME issued' = issued PROVE DOMAIN issued' \ DOMAIN issued = {}
  BY <1>1
<1>2. ASSUME NEW granted \in BOOLEAN, Answer(granted), issued' # issued
      PROVE  \A i \in DOMAIN issued' \ DOMAIN issued : issued'[i] = payload
  <2>1. issued' = Append(issued, payload)
    BY <1>2 DEF Answer
  <2>2. issued \in Seq(0 .. MaxSends)
    BY DEF TypeOK
  <2> QED BY <2>1, <2>2
<1>3. \/ issued' = issued
      \/ \E granted \in BOOLEAN : Answer(granted)
  BY DEF Next, vars, Enter, Complete, Watchdog, Halt, GiveUp, Leave, Reopen, CallServed,
         CallFailed, JobDone, JobsDropped, EventsLost, OtherLease, OtherCompletes
<1> QED BY <1>1, <1>2, <1>3 DEF Fresh

\* Once a message is given up or complete no Transmit carries it: a Transmit has
\* the payload of the active send, the last message entered, or an empty one.
THEOREM ClientNothingStale == Spec => NothingStale
<1>1. Spec => [](TypeOK /\ Fresh)
  BY TypeInit, TypeStep, FreshInit, FreshStep, PTL DEF Spec
<1>2. TypeOK /\ Fresh /\ [Next]_vars =>
        [\A i \in DOMAIN issued' \ DOMAIN issued :
             issued'[i] # 0 => issued'[i] = entered /\ Active /\ issued'[i] = payload]_vars
  BY IssueStep
<1> QED BY <1>1, <1>2, PTL DEF Spec, NothingStale

-----------------------------------------------------------------------------
(* The undisturbed client. *)

\* The two answers to an acquire.
Yes == TRUE
No == FALSE

\* The acquires not yet answered, each a call or the answer to it.
Asking == Copies(RpcAcquire, calls) + Copies(Yes, answers) + Copies(No, answers)

\* The one Transmit of a send is a call, then a job, then an event.
NoCall == \A p \in 0 .. MaxSends : ~BagIn(RpcTransmit(p), calls)
NoEvent == \A i \in DOMAIN stream : stream[i] # Us
OneCall ==
    /\ Copies(RpcTransmit(payload), calls) <= 1
    /\ \A p \in 0 .. MaxSends : p # payload => ~BagIn(RpcTransmit(p), calls)
OneEvent == \A i, j \in DOMAIN stream : stream[i] = Us /\ stream[j] = Us => i = j
NoTransmit == NoCall /\ jobs = <<>> /\ NoEvent
OneTransmit ==
    \/ OneCall /\ jobs = <<>> /\ NoEvent
    \/ NoCall /\ jobs = <<Us>> /\ NoEvent
    \/ NoCall /\ jobs = <<>> /\ OneEvent

\* Idle, acquiring and transmitting, as the client and the daemon see them.
Stage ==
    /\ phase = "idle" => Asking = 0 /\ NoTransmit
    /\ phase = "acquiring" => Asking = 1 /\ NoTransmit /\ payload = entered /\ payload # 0
    /\ phase = "transmitting" => Asking = 0 /\ OneTransmit

\* The messages issued so far, the one being acquired for still to come.
Ledger ==
    /\ \A i \in DOMAIN issued : issued[i] # 0 /\ issued[i] <= entered
    /\ \A i, j \in DOMAIN issued : i < j => issued[i] < issued[j]
    /\ phase = "acquiring" => \A i \in DOMAIN issued : issued[i] < entered

\* A lease of ours is in use or on its way back; a refusal was not ours.
LeaseOwed ==
    /\ holder[Rig] = Us => Active \/ BagIn(RpcRelease, calls)
    /\ BagIn(No, answers) => holder[Rig] # Us

Undisturbed == ~disturbed => Stage /\ Ledger /\ LeaseOwed

LEMMA UndisturbedInit == Init => Undisturbed
<1> SUFFICES ASSUME Init PROVE Stage /\ Ledger /\ LeaseOwed
  BY DEF Undisturbed
<1>1. \A e : ~BagIn(e, EmptyBag) /\ Copies(e, EmptyBag) = 0
  BY DEF EmptyBag, SetToBag, BagIn, BagToSet, Copies
<1>2. calls = EmptyBag /\ answers = EmptyBag
  BY DEF Init
<1>3. /\ Copies(RpcAcquire, calls) = 0 /\ Copies(Yes, answers) = 0
      /\ Copies(No, answers) = 0
  BY <1>1, <1>2
<1>7. Asking = 0
  BY ONLY <1>3 DEF Asking
<1>8. NoTransmit
  BY <1>1, <1>2 DEF Init, NoTransmit, NoCall, NoEvent
<1>4. Stage
  BY <1>7, <1>8 DEF Init, Stage
<1>5. Ledger
  BY DEF Init, Ledger
<1>6. LeaseOwed
  BY <1>1, <1>2, OperatorBounds DEF Init, LeaseOwed
<1> QED BY <1>4, <1>5, <1>6

\* Requests of different kinds, and Transmits of different payloads, differ.
LEMMA Distinct ==
  /\ RpcAcquire # RpcRelease
  /\ \A p : RpcTransmit(p) # RpcAcquire /\ RpcTransmit(p) # RpcRelease
  /\ \A p, q : RpcTransmit(p) = RpcTransmit(q) => p = q
BY DEF RpcAcquire, RpcRelease, RpcTransmit

\* How a call or an answer, one more or one less, changes what is counted.
LEMMA CallMore ==
  ASSUME TypeOK, NEW c, Call(c)
  PROVE  /\ \A e : BagIn(e, calls') <=> BagIn(e, calls) \/ e = c
         /\ \A e : e # c => Copies(e, calls') = Copies(e, calls)
         /\ Copies(c, calls') = Copies(c, calls) + 1
<1>1. IsABag(calls)
  BY DEF TypeOK
<1>2. calls' = calls (+) SetToBag({c})
  BY DEF Call
<1>3. /\ IsABag(calls')
      /\ BagIn(c, calls') /\ Copies(c, calls') = Copies(c, calls) + 1
      /\ \A e : e # c => (BagIn(e, calls') <=> BagIn(e, calls)) /\ Copies(e, calls') = Copies(e, calls)
      /\ BagToSet(calls') = BagToSet(calls) \cup {c}
  BY ONLY <1>1, <1>2, BagAdd
<1>4. \A e : Copies(e, calls) \in Nat
  BY ONLY <1>1, BagCopies
<1> QED BY ONLY <1>3, <1>4

LEMMA CallLess ==
  ASSUME TypeOK, NEW c, BagIn(c, calls), calls' = calls (-) SetToBag({c})
  PROVE  /\ \A e : e # c => (BagIn(e, calls') <=> BagIn(e, calls))
         /\ \A e : e # c => Copies(e, calls') = Copies(e, calls)
         /\ Copies(c, calls') = Copies(c, calls) - 1
         /\ BagIn(c, calls') <=> Copies(c, calls') > 0
         /\ \A e : BagIn(e, calls') => BagIn(e, calls)
<1>1. IsABag(calls)
  BY DEF TypeOK
<1>2. /\ IsABag(calls')
      /\ \A e : Copies(e, calls') = Copies(e, calls) - (IF e = c THEN 1 ELSE 0)
      /\ \A e : e # c => (BagIn(e, calls') <=> BagIn(e, calls))
  BY ONLY <1>1, BagIn(c, calls), calls' = calls (-) SetToBag({c}), BagRemove
<1>3. \A e : Copies(e, calls) \in Nat
  BY ONLY <1>1, BagCopies
<1>4. BagIn(c, calls') <=> Copies(c, calls') > 0
  BY ONLY <1>2, BagCopies
<1>5. BagIn(c, calls)
  OBVIOUS
<1> QED BY ONLY <1>2, <1>3, <1>4, <1>5

LEMMA AnswerLess ==
  ASSUME TypeOK, NEW b, BagIn(b, answers), answers' = answers (-) SetToBag({b})
  PROVE  /\ \A e : e # b => Copies(e, answers') = Copies(e, answers)
         /\ Copies(b, answers') = Copies(b, answers) - 1
<1>1. IsABag(answers)
  BY DEF TypeOK
<1>2. \A e : Copies(e, answers') = Copies(e, answers) - (IF e = b THEN 1 ELSE 0)
  BY ONLY <1>1, BagIn(b, answers), answers' = answers (-) SetToBag({b}), BagRemove
<1>3. \A e : Copies(e, answers) \in Nat
  BY ONLY <1>1, BagCopies
<1> QED BY ONLY <1>2, <1>3

LEMMA AnswerMore ==
  ASSUME TypeOK, NEW b, answers' = answers (+) SetToBag({b})
  PROVE  /\ \A e : e # b => Copies(e, answers') = Copies(e, answers)
         /\ Copies(b, answers') = Copies(b, answers) + 1
<1>1. IsABag(answers)
  BY DEF TypeOK
<1>2. /\ IsABag(answers')
      /\ BagIn(b, answers') /\ Copies(b, answers') = Copies(b, answers) + 1
      /\ \A e : e # b => (BagIn(e, answers') <=> BagIn(e, answers)) /\ Copies(e, answers') = Copies(e, answers)
      /\ BagToSet(answers') = BagToSet(answers) \cup {b}
  BY ONLY <1>1, answers' = answers (+) SetToBag({b}), BagAdd
<1>3. \A e : Copies(e, answers) \in Nat
  BY ONLY <1>1, BagCopies
<1> QED BY ONLY <1>2, <1>3

\* What is counted are numbers, and what is on its way is counted.
LEMMA Counted ==
  ASSUME TypeOK
  PROVE  /\ \A e : Copies(e, calls) \in Nat /\ (BagIn(e, calls) <=> Copies(e, calls) > 0)
         /\ \A e : Copies(e, answers) \in Nat /\ (BagIn(e, answers) <=> Copies(e, answers) > 0)
<1>1. IsABag(calls) /\ IsABag(answers)
  BY DEF TypeOK
<1> QED BY ONLY <1>1, BagCopies

LEMMA AskingNone ==
  ASSUME TypeOK, Asking = 0
  PROVE  ~BagIn(RpcAcquire, calls) /\ ~BagIn(Yes, answers) /\ ~BagIn(No, answers)
<1>1. /\ Copies(RpcAcquire, calls) \in Nat /\ Copies(Yes, answers) \in Nat
      /\ Copies(No, answers) \in Nat
      /\ BagIn(RpcAcquire, calls) <=> Copies(RpcAcquire, calls) > 0
      /\ BagIn(Yes, answers) <=> Copies(Yes, answers) > 0
      /\ BagIn(No, answers) <=> Copies(No, answers) > 0
  BY Counted
<1>2. /\ Copies(RpcAcquire, calls) = 0 /\ Copies(Yes, answers) = 0
      /\ Copies(No, answers) = 0
  BY ONLY <1>1, Asking = 0 DEF Asking
<1> QED BY <1>1, <1>2

\* Enter: the first and only acquire of the new send.
LEMMA EnterUndisturbed ==
  ASSUME TypeOK, Stage, Ledger, LeaseOwed, Enter
  PROVE  Stage' /\ Ledger' /\ LeaseOwed'
<1>1. /\ phase = "idle" /\ phase' = "acquiring" /\ payload' = entered' /\ entered' = entered + 1
      /\ UNCHANGED <<answers, stream, jobs, holder, issued>>
      /\ Call(RpcAcquire)
  BY DEF Enter, Active, daemon
<1>2. entered \in Nat
  BY DEF TypeOK
<1>3. /\ \A e : BagIn(e, calls') <=> BagIn(e, calls) \/ e = RpcAcquire
      /\ Copies(RpcAcquire, calls') = Copies(RpcAcquire, calls) + 1
  BY <1>1, CallMore
<1>4. Asking = 0 /\ NoTransmit
  BY <1>1 DEF Stage
<1>5. Asking' = 1
  <2>1. Copies(RpcAcquire, calls) \in Nat /\ Copies(Yes, answers) \in Nat
        /\ Copies(No, answers) \in Nat
    BY Counted
  <2>2. Copies(Yes, answers)' = Copies(Yes, answers)
        /\ Copies(No, answers)' = Copies(No, answers)
    BY ONLY <1>1
  <2> QED BY ONLY <1>3, <1>4, <2>1, <2>2 DEF Asking
<1>6. NoTransmit'
  BY <1>1, <1>3, <1>4, Distinct DEF NoTransmit, NoCall, NoEvent
<1>7. Stage'
  BY <1>1, <1>2, <1>5, <1>6 DEF Stage
<1>8. Ledger'
  <2>1. issued \in Seq(0 .. MaxSends)
    BY DEF TypeOK
  <2>2. \A i \in DOMAIN issued : issued[i] \in 0 .. MaxSends
    BY ONLY <2>1, ElementOfSeq, LenProperties
  <2> QED BY <1>1, <1>2, <2>2 DEF Ledger
<1>10. LeaseOwed'
  BY <1>1 DEF LeaseOwed, Active
<1> QED BY <1>7, <1>8, <1>10

\* Answer: it is the only one, and the screen that asked takes it.
LEMMA AnswerUndisturbed ==
  ASSUME TypeOK, Fresh, Stage, Ledger, LeaseOwed, NEW b \in {Yes, No}, Answer(b)
  PROVE  Stage' /\ Ledger' /\ LeaseOwed'
<1>0. Yes = TRUE /\ No = FALSE /\ Yes # No
  BY DEF Yes, No
<1>1. /\ BagIn(b, answers) /\ answers' = answers (-) SetToBag({b})
      /\ UNCHANGED <<open, stream, jobs, holder, entered>>
  BY DEF Answer, daemon
<1>2. /\ Copies(RpcAcquire, calls) \in Nat /\ Copies(Yes, answers) \in Nat
      /\ Copies(No, answers) \in Nat /\ Copies(b, answers) > 0
  BY <1>1, Counted
<1>3. Asking # 0
  <2>1. Copies(Yes, answers) > 0 \/ Copies(No, answers) > 0
    BY <1>2
  <2>2. Copies(RpcAcquire, calls) + Copies(Yes, answers) + Copies(No, answers) > 0
    BY ONLY <1>2, <2>1
  <2> QED BY ONLY <2>2 DEF Asking
<1>4. phase = "acquiring" /\ open /\ Asking = 1 /\ NoTransmit /\ payload = entered /\ payload # 0
  BY <1>3 DEF Stage, Fresh, TypeOK
<1>5. Copies(b, answers') = Copies(b, answers) - 1
      /\ \A e : e # b => Copies(e, answers') = Copies(e, answers)
  BY ONLY TypeOK, <1>1, AnswerLess
<1>6. Copies(Yes, answers') = 0 /\ Copies(No, answers') = 0 /\ Copies(RpcAcquire, calls) = 0
  <2>1. Asking = 1
    BY <1>4
  <2>2. CASE b = Yes
    <3>1. /\ Copies(Yes, answers') = Copies(Yes, answers) - 1 /\ Copies(Yes, answers) > 0
          /\ Copies(No, answers') = Copies(No, answers)
      BY <1>0, <1>2, <1>5, <2>2
    <3> QED BY ONLY <1>2, <2>1, <3>1 DEF Asking
  <2>3. CASE b = No
    <3>1. /\ Copies(No, answers') = Copies(No, answers) - 1 /\ Copies(No, answers) > 0
          /\ Copies(Yes, answers') = Copies(Yes, answers)
      BY <1>0, <1>2, <1>5, <2>3
    <3> QED BY ONLY <1>2, <2>1, <3>1 DEF Asking
  <2> QED BY <2>2, <2>3
<1>7. ~BagIn(No, answers')
  <2>1. IsABag(answers) /\ IsABag(answers')
    BY ONLY <1>1, TypeOK, BagRemove DEF TypeOK
  <2>2. BagIn(No, answers') <=> Copies(No, answers') > 0
    BY ONLY <2>1, BagCopies
  <2> QED BY ONLY <1>6, <2>2
<1>8. CASE b = Yes
  <2>1. /\ phase' = "transmitting" /\ Call(RpcTransmit(payload))
        /\ issued' = Append(issued, payload) /\ payload' = payload
    BY <1>0, <1>4, <1>8 DEF Answer
  <2>2. /\ \A e : BagIn(e, calls') <=> BagIn(e, calls) \/ e = RpcTransmit(payload)
        /\ \A e : e # RpcTransmit(payload) => Copies(e, calls') = Copies(e, calls)
        /\ Copies(RpcTransmit(payload), calls') = Copies(RpcTransmit(payload), calls) + 1
    BY <2>1, CallMore
  <2>3. payload \in 0 .. MaxSends
    BY DEF TypeOK
  <2>4. ~BagIn(RpcTransmit(payload), calls)
    BY <1>4, <2>3 DEF NoTransmit, NoCall
  <2>5. Copies(RpcTransmit(payload), calls) = 0
    BY <2>4 DEF Copies
  <2>6. OneTransmit'
    <3>1. Copies(RpcTransmit(payload'), calls') <= 1
      BY ONLY <2>1, <2>2, <2>5
    <3>2. \A p \in 0 .. MaxSends : p # payload' => ~BagIn(RpcTransmit(p), calls')
      BY <1>4, <2>1, <2>2, Distinct DEF NoTransmit, NoCall
    <3>3. OneCall'
      BY <3>1, <3>2 DEF OneCall
    <3> QED BY <1>1, <1>4, <3>3 DEF OneTransmit, NoTransmit, NoEvent
  <2>7. Copies(RpcAcquire, calls') = 0
    BY <1>6, <2>2, Distinct
  <2>8. Asking' = 0
    BY ONLY <1>6, <2>7 DEF Asking
  <2>9. Stage'
    BY <2>1, <2>6, <2>8 DEF Stage
  <2>10. Ledger'
    <3>1. issued \in Seq(0 .. MaxSends) /\ entered \in Nat
      BY DEF TypeOK
    <3>2. /\ Len(issued) \in Nat /\ DOMAIN issued = 1 .. Len(issued)
          /\ \A i \in DOMAIN issued : issued[i] \in 0 .. MaxSends
      BY ONLY <3>1, ElementOfSeq, LenProperties
    <3>3. /\ DOMAIN issued' = 1 .. Len(issued) + 1
          /\ \A i \in 1 .. Len(issued) : issued'[i] = issued[i]
          /\ issued'[Len(issued) + 1] = payload
      BY ONLY <3>1, <3>2, <2>1, <2>3
    <3>4. \A i \in DOMAIN issued : issued[i] # 0 /\ issued[i] < entered
      BY <1>4 DEF Ledger
    <3>5. \A i \in DOMAIN issued' : issued'[i] # 0 /\ issued'[i] <= entered'
      BY ONLY <1>1, <1>4, <3>1, <3>2, <3>3, <3>4
    <3>6. \A i, j \in DOMAIN issued' : i < j => issued'[i] < issued'[j]
      <4>1. SUFFICES ASSUME NEW i \in DOMAIN issued', NEW j \in DOMAIN issued', i < j
                     PROVE  issued'[i] < issued'[j]
        OBVIOUS
      <4>2. CASE j = Len(issued) + 1
        BY ONLY <1>4, <3>2, <3>3, <3>4, <4>1, <4>2
      <4>3. CASE j # Len(issued) + 1
        BY ONLY Ledger, <3>2, <3>3, <4>1, <4>3 DEF Ledger
      <4> QED BY <4>2, <4>3
    <3> QED BY <2>1, <3>5, <3>6 DEF Ledger
  <2>11. LeaseOwed'
    BY <1>7, <2>1 DEF LeaseOwed, Active
  <2> QED BY <2>9, <2>10, <2>11
<1>9. CASE b = No
  <2>1. phase' = "idle" /\ UNCHANGED <<calls, issued>>
    BY <1>0, <1>4, <1>9 DEF Answer, Reset
  <2>2. Copies(RpcAcquire, calls') = 0
    BY <1>6, <2>1
  <2>3. Asking' = 0
    BY ONLY <1>6, <2>2 DEF Asking
  <2>4. NoTransmit'
    BY <1>1, <1>4, <2>1 DEF NoTransmit, NoCall, NoEvent
  <2>5. Ledger'
    BY <1>1, <2>1 DEF Ledger
  <2>6. holder'[Rig] # Us
    BY <1>1, <1>9 DEF LeaseOwed
  <2> QED BY <1>7, <2>1, <2>3, <2>4, <2>5, <2>6 DEF Stage, LeaseOwed
<1> QED BY <1>8, <1>9

\* Complete: it is our transmission's, and the lease goes back.
LEMMA CompleteUndisturbed ==
  ASSUME TypeOK, Stage, Ledger, LeaseOwed, Complete, ~disturbed'
  PROVE  Stage' /\ Ledger' /\ LeaseOwed'
<1>1. stream # <<>> /\ stream' = Tail(stream) /\ stream \in Seq(Others \cup {Us})
  BY DEF Complete, TypeOK
<1>2. /\ 1 \in DOMAIN stream /\ Head(stream) = stream[1]
      /\ \A i \in DOMAIN stream' : i + 1 \in DOMAIN stream /\ stream'[i] = stream[i + 1]
  BY <1>1
<1>3. UNCHANGED <<answers, jobs, holder, entered, issued>>
  BY DEF Complete, daemon
<1>4. NoEvent => NoEvent'
  BY <1>2 DEF NoEvent
<1>5. CASE open /\ Active
  <2>1. phase' = "idle" /\ Call(RpcRelease) /\ stream[1] = Us
    BY <1>2, <1>5 DEF Complete, Reset
  <2>2. ~NoEvent
    BY <1>2, <2>1 DEF NoEvent
  <2>3. Asking = 0 /\ NoCall /\ jobs = <<>> /\ OneEvent
    BY <1>5, <2>2 DEF Stage, NoTransmit, OneTransmit, Active, TypeOK
  <2>4. NoEvent'
    <3>1. SUFFICES ASSUME NEW i \in DOMAIN stream' PROVE stream'[i] # Us
      BY DEF NoEvent
    <3>2. i \in Nat /\ i > 0
      BY <1>1, <3>1
    <3> QED BY <1>2, <2>1, <2>3, <3>2 DEF OneEvent
  <2>5. /\ \A e : BagIn(e, calls') <=> BagIn(e, calls) \/ e = RpcRelease
        /\ \A e : e # RpcRelease => Copies(e, calls') = Copies(e, calls)
    BY <2>1, CallMore
  <2>6. NoTransmit'
    BY <1>3, <2>3, <2>4, <2>5, Distinct DEF NoTransmit, NoCall
  <2>7. Copies(RpcAcquire, calls') = Copies(RpcAcquire, calls)
    BY <2>5, Distinct
  <2>8. Asking' = 0
    BY <1>3, <2>3, <2>7 DEF Asking
  <2>9. Ledger'
    BY <1>3, <2>1 DEF Ledger
  <2>10. LeaseOwed'
    BY <1>3, <2>5 DEF LeaseOwed
  <2> QED BY <2>1, <2>6, <2>8, <2>9, <2>10 DEF Stage
<1>6. CASE ~(open /\ Active)
  <2>1. UNCHANGED <<phase, payload, calls>>
    BY <1>6 DEF Complete
  <2>2. NoCall' = NoCall /\ Asking' = Asking
    BY <1>3, <2>1 DEF NoCall, Asking
  <2>3. OneEvent => OneEvent'
    <3>1. \A i \in DOMAIN stream' : i \in Nat
      BY <1>1
    <3> QED BY <1>2, <3>1 DEF OneEvent
  <2>4. NoTransmit => NoTransmit'
    BY <1>3, <1>4, <2>2 DEF NoTransmit
  <2>5. OneTransmit => OneTransmit'
    BY <1>3, <1>4, <2>1, <2>2, <2>3 DEF OneTransmit, OneCall
  <2>6. Stage'
    BY <1>3, <2>1, <2>2, <2>4, <2>5 DEF Stage
  <2>7. Ledger' /\ LeaseOwed'
    BY <1>3, <2>1 DEF Ledger, LeaseOwed, Active
  <2> QED BY <2>6, <2>7
<1> QED BY <1>5, <1>6

\* CallServed, the acquire: its answer takes its place.
LEMMA AcquireUndisturbed ==
  ASSUME TypeOK, Stage, Ledger, LeaseOwed, CallServed(RpcAcquire)
  PROVE  Stage' /\ Ledger' /\ LeaseOwed'
<1>0. Yes = TRUE /\ No = FALSE /\ Yes # No
  BY DEF Yes, No
<1>1. /\ BagIn(RpcAcquire, calls) /\ calls' = calls (-) SetToBag({RpcAcquire})
      /\ UNCHANGED <<open, phase, payload, stream, entered, issued>>
  BY DEF CallServed, screen
<1>2. holder' = Acquire(holder, Rig, Us) /\ jobs' = jobs
  BY DEF CallServed, Serve, RpcAcquire
<1>3. answers' = answers (+) SetToBag({Grants})
  BY DEF CallServed, RpcAcquire
<1>4. Grants \in {Yes, No}
  <2>1. Grants \in BOOLEAN
    BY DEF Grants
  <2>2. Yes = TRUE /\ No = FALSE
    BY DEF Yes, No
  <2> QED BY ONLY <2>1, <2>2
<1>5. /\ Copies(RpcAcquire, calls) \in Nat /\ Copies(Yes, answers) \in Nat
      /\ Copies(No, answers) \in Nat /\ Copies(RpcAcquire, calls) > 0
  BY <1>1, Counted
<1>6. Copies(RpcAcquire, calls) + Copies(Yes, answers) + Copies(No, answers) > 0
  BY ONLY <1>5
<1>7. Asking > 0
  BY ONLY <1>6 DEF Asking
<1>8. phase = "acquiring" /\ Asking = 1 /\ NoTransmit /\ payload = entered /\ payload # 0
  BY <1>7 DEF Stage, TypeOK
<1>9. /\ Copies(RpcAcquire, calls') = Copies(RpcAcquire, calls) - 1
      /\ \A e : BagIn(e, calls') => BagIn(e, calls)
  BY ONLY TypeOK, <1>1, CallLess
<1>10. /\ Copies(Grants, answers') = Copies(Grants, answers) + 1
       /\ \A e : e # Grants => Copies(e, answers') = Copies(e, answers)
  BY ONLY TypeOK, <1>3, AnswerMore
<1>11. Copies(No, answers) = 0
  BY ONLY <1>5, <1>8 DEF Asking
<1>12. Asking' = 1 /\ (Grants = Yes => Copies(No, answers') = 0)
  <2>1. CASE Grants = Yes
    <3>1. /\ Copies(Yes, answers') = Copies(Yes, answers) + 1
          /\ Copies(No, answers') = Copies(No, answers)
      BY <1>0, <1>10, <2>1
    <3>2. Asking = 1
      BY <1>8
    <3>3. Asking' = 1
      BY ONLY <1>5, <1>9, <3>1, <3>2 DEF Asking
    <3> QED BY <1>11, <3>1, <3>3
  <2>2. CASE Grants = No
    <3>1. /\ Copies(No, answers') = Copies(No, answers) + 1
          /\ Copies(Yes, answers') = Copies(Yes, answers)
      BY <1>0, <1>10, <2>2
    <3>2. Asking = 1
      BY <1>8
    <3>3. Asking' = 1
      BY ONLY <1>5, <1>9, <3>1, <3>2 DEF Asking
    <3> QED BY <1>0, <2>2, <3>3
  <2> QED BY <1>4, <2>1, <2>2
<1>13. NoTransmit'
  BY <1>1, <1>2, <1>8, <1>9 DEF NoTransmit, NoCall, NoEvent
<1>14. Stage'
  BY <1>1, <1>8, <1>12, <1>13 DEF Stage
<1>15. Ledger'
  BY <1>1 DEF Ledger
<1>16. BagIn(No, answers') => holder'[Rig] # Us
  <2>1. SUFFICES ASSUME BagIn(No, answers') PROVE holder'[Rig] # Us
    OBVIOUS
  <2>2. IsABag(answers')
    <3>1. IsABag(answers)
      BY DEF TypeOK
    <3> QED BY ONLY <1>3, <3>1, BagAdd
  <2>3. Copies(No, answers') > 0
    BY ONLY <2>1, <2>2, BagCopies
  <2>4. Grants = No
    BY <1>4, <1>12, <2>3
  <2>5. holder[Rig] \notin {NoChannel, Us}
    BY <1>0, <2>4 DEF Grants
  <2> QED BY <1>2, <2>5 DEF Acquire, TypeOK
<1>17. LeaseOwed'
  BY <1>1, <1>8, <1>16 DEF LeaseOwed, Active
<1> QED BY <1>14, <1>15, <1>17

\* CallServed, the release: the lease is not ours afterwards.
LEMMA ReleaseUndisturbed ==
  ASSUME TypeOK, Stage, Ledger, LeaseOwed, CallServed(RpcRelease)
  PROVE  Stage' /\ Ledger' /\ LeaseOwed'
<1>1. /\ BagIn(RpcRelease, calls) /\ calls' = calls (-) SetToBag({RpcRelease})
      /\ UNCHANGED <<open, phase, payload, stream, entered, issued>>
  BY DEF CallServed, screen
<1>2. holder' = Release(holder, Rig, Us) /\ jobs' = jobs /\ answers' = answers
  BY DEF CallServed, Serve, RpcRelease
<1>3. /\ \A e : e # RpcRelease => (BagIn(e, calls') <=> BagIn(e, calls))
      /\ \A e : e # RpcRelease => Copies(e, calls') = Copies(e, calls)
  BY ONLY TypeOK, <1>1, CallLess
<1>4. Copies(RpcAcquire, calls') = Copies(RpcAcquire, calls)
  BY <1>3, Distinct
<1>5. Asking' = Asking
  BY ONLY <1>2, <1>4 DEF Asking
<1>6. NoTransmit' = NoTransmit
  BY <1>1, <1>2, <1>3, Distinct DEF NoTransmit, NoCall, NoEvent
<1>7. OneCall' = OneCall /\ NoCall' = NoCall
  BY <1>1, <1>3, Distinct DEF OneCall, NoCall
<1>8. OneTransmit' = OneTransmit
  BY <1>1, <1>2, <1>7 DEF OneTransmit, NoEvent, OneEvent
<1>9. Stage'
  BY <1>1, <1>5, <1>6, <1>8 DEF Stage
<1>10. Ledger'
  BY <1>1 DEF Ledger
<1>11. holder'[Rig] # Us
  BY <1>2, OperatorBounds DEF Release, TypeOK
<1> QED BY <1>9, <1>10, <1>11 DEF LeaseOwed

\* CallServed, the Transmit: the call becomes a job.
LEMMA TransmitUndisturbed ==
  ASSUME TypeOK, Stage, Ledger, LeaseOwed, NEW p \in 0 .. MaxSends, CallServed(RpcTransmit(p))
  PROVE  Stage' /\ Ledger' /\ LeaseOwed'
<1>1. /\ BagIn(RpcTransmit(p), calls) /\ calls' = calls (-) SetToBag({RpcTransmit(p)})
      /\ UNCHANGED <<open, phase, payload, stream, entered, issued>>
  BY DEF CallServed, screen
<1>2. holder' = holder /\ jobs' = Append(jobs, Us) /\ answers' = answers
  BY DEF CallServed, Serve, RpcTransmit
<1>3. /\ \A e : e # RpcTransmit(p) => (BagIn(e, calls') <=> BagIn(e, calls))
      /\ \A e : e # RpcTransmit(p) => Copies(e, calls') = Copies(e, calls)
      /\ Copies(RpcTransmit(p), calls') = Copies(RpcTransmit(p), calls) - 1
      /\ BagIn(RpcTransmit(p), calls') <=> Copies(RpcTransmit(p), calls') > 0
  BY ONLY TypeOK, <1>1, CallLess
<1>4. ~NoCall
  BY <1>1 DEF NoCall
<1>5. phase = "transmitting" /\ Asking = 0 /\ OneCall /\ jobs = <<>> /\ NoEvent
  BY <1>4 DEF Stage, NoTransmit, OneTransmit, TypeOK
<1>6. p = payload
  BY <1>1, <1>5 DEF OneCall
<1>7. ~BagIn(RpcTransmit(p), calls')
  <2>1. Copies(RpcTransmit(p), calls) <= 1 /\ Copies(RpcTransmit(p), calls) \in Nat
    BY <1>5, <1>6, Counted DEF OneCall
  <2> QED BY ONLY <1>3, <2>1
<1>8. NoCall'
  BY <1>3, <1>5, <1>6, <1>7, Distinct DEF OneCall, NoCall
<1>9. OneTransmit'
  BY <1>1, <1>2, <1>5, <1>8 DEF OneTransmit, NoEvent
<1>10. Copies(RpcAcquire, calls') = Copies(RpcAcquire, calls)
  BY <1>3, Distinct
<1>11. Asking' = 0
  BY <1>2, <1>5, <1>10 DEF Asking
<1>12. Stage'
  BY <1>1, <1>5, <1>9, <1>11 DEF Stage
<1>13. Ledger'
  BY <1>1 DEF Ledger
<1>14. LeaseOwed'
  BY <1>1, <1>2, <1>5 DEF LeaseOwed, Active
<1> QED BY <1>12, <1>13, <1>14

\* JobDone: the job becomes an event.
LEMMA JobUndisturbed ==
  ASSUME TypeOK, Stage, Ledger, LeaseOwed, JobDone
  PROVE  Stage' /\ Ledger' /\ LeaseOwed'
<1>1. /\ jobs # <<>> /\ jobs' = Tail(jobs) /\ stream' = Append(stream, Us)
      /\ UNCHANGED <<open, phase, payload, calls, answers, holder, entered, issued>>
  BY DEF JobDone, screen
<1>2. phase = "transmitting" /\ Asking = 0 /\ NoCall /\ jobs = <<Us>> /\ NoEvent
  BY <1>1 DEF Stage, NoTransmit, OneTransmit, TypeOK
<1>3. stream \in Seq(Others \cup {Us})
  BY DEF TypeOK
<1>4. OneEvent'
  <2>1. \A i \in DOMAIN stream' : stream'[i] = Us => i = Len(stream) + 1
    BY <1>1, <1>2, <1>3 DEF NoEvent
  <2> QED BY <2>1 DEF OneEvent
<1>5. jobs' = <<>>
  BY <1>1, <1>2
<1>6. OneTransmit'
  BY <1>1, <1>2, <1>4, <1>5 DEF OneTransmit, NoCall
<1>7. Stage'
  BY <1>1, <1>2, <1>6 DEF Stage, Asking
<1> QED BY <1>1, <1>7 DEF Ledger, LeaseOwed, Active

\* The other channels: they take no lease of ours and announce nothing of ours.
LEMMA OthersUndisturbed ==
  ASSUME TypeOK, Stage, Ledger, LeaseOwed, NEW o \in Others, OtherLease(o) \/ OtherCompletes(o)
  PROVE  Stage' /\ Ledger' /\ LeaseOwed'
<1>1. UNCHANGED <<open, phase, payload, calls, answers, jobs, entered, issued>>
  BY DEF OtherLease, OtherCompletes, screen, daemon
<1>2. o # Us
  BY OperatorBounds
<1>3. stream \in Seq(Others \cup {Us}) /\ (stream' = stream \/ stream' = Append(stream, o))
  BY DEF TypeOK, OtherLease, OtherCompletes
<1>4. \A i \in DOMAIN stream' : stream'[i] = Us => i \in DOMAIN stream /\ stream[i] = Us
  BY <1>2, <1>3
<1>5. (NoEvent => NoEvent') /\ (OneEvent => OneEvent')
  BY <1>4 DEF NoEvent, OneEvent
<1>6. (NoTransmit => NoTransmit') /\ (OneTransmit => OneTransmit')
  BY <1>1, <1>5 DEF NoTransmit, OneTransmit, NoCall, OneCall
<1>7. Stage'
  BY <1>1, <1>6 DEF Stage, Asking
<1>8. holder'[Rig] = Us => holder[Rig] = Us
  BY <1>2, OperatorBounds DEF OtherLease, OtherCompletes, daemon, Acquire, Release, TypeOK
<1> QED BY <1>1, <1>7, <1>8 DEF Ledger, LeaseOwed, Active

LEMMA UndisturbedStep == TypeOK /\ Fresh /\ Undisturbed /\ [Next]_vars => Undisturbed'
<1> SUFFICES ASSUME TypeOK, Fresh, Undisturbed, [Next]_vars, ~disturbed'
             PROVE  Stage' /\ Ledger' /\ LeaseOwed'
  BY DEF Undisturbed
<1>1. ~disturbed
  BY DEF Next, vars, Enter, Complete, Watchdog, Halt, GiveUp, Leave, Reopen, Answer, CallServed,
         CallFailed, JobDone, JobsDropped, EventsLost, OtherLease, OtherCompletes
<1>2. Stage /\ Ledger /\ LeaseOwed
  BY <1>1 DEF Undisturbed
<1>3. CASE Enter
  BY <1>2, <1>3, EnterUndisturbed
<1>4. CASE Complete
  BY <1>2, <1>4, CompleteUndisturbed
<1>5. CASE \E granted \in BOOLEAN : Answer(granted)
  <2>1. Yes = TRUE /\ No = FALSE
    BY DEF Yes, No
  <2>2. PICK b \in {Yes, No} : Answer(b)
    BY <1>5, <2>1
  <2> QED BY <1>2, <2>2, AnswerUndisturbed
<1>6. CASE \E c \in BagToSet(calls) : CallServed(c)
  <2>1. PICK c \in BagToSet(calls) : CallServed(c)
    BY <1>6
  <2>2. c \in {RpcAcquire, RpcRelease} \cup {RpcTransmit(p) : p \in 0 .. MaxSends}
    BY <2>1 DEF TypeOK
  <2>3. CASE c = RpcAcquire
    BY <1>2, <2>1, <2>3, AcquireUndisturbed
  <2>4. CASE c = RpcRelease
    BY <1>2, <2>1, <2>4, ReleaseUndisturbed
  <2>5. CASE \E p \in 0 .. MaxSends : c = RpcTransmit(p)
    BY <1>2, <2>1, <2>5, TransmitUndisturbed
  <2> QED BY <2>2, <2>3, <2>4, <2>5
<1>7. CASE JobDone
  BY <1>2, <1>7, JobUndisturbed
<1>8. CASE \E o \in Others : OtherLease(o) \/ OtherCompletes(o)
  BY <1>2, <1>8, OthersUndisturbed
<1>9. CASE Leave \/ Reopen
  <2>1. phase = "idle"
    BY <1>9 DEF Leave, Reopen, Active, Fresh, TypeOK
  <2>2. /\ phase' = "idle"
        /\ UNCHANGED <<calls, answers, stream, jobs, holder, entered, issued>>
    BY <1>9, <2>1 DEF Leave, Reopen, Reset, Active, daemon
  <2>3. NoTransmit' = NoTransmit /\ Asking' = Asking
    BY <2>2 DEF NoTransmit, NoCall, NoEvent, Asking
  <2>4. Stage'
    BY <1>2, <2>1, <2>2, <2>3 DEF Stage
  <2> QED BY <1>2, <2>1, <2>2, <2>4 DEF Ledger, LeaseOwed, Active
<1>10. ~(Watchdog \/ Halt \/ JobsDropped \/ EventsLost) /\ \A c : ~CallFailed(c)
  BY DEF Watchdog, Halt, GiveUp, JobsDropped, EventsLost, CallFailed
<1>11. CASE UNCHANGED vars
  BY <1>2, <1>11 DEF vars, screen, daemon, Stage, Ledger, LeaseOwed, Asking, NoTransmit, NoCall,
                     NoEvent, OneTransmit, OneCall, OneEvent, Active
<1> QED BY <1>3, <1>4, <1>5, <1>6, <1>7, <1>8, <1>9, <1>10, <1>11 DEF Next

LEMMA UndisturbedAlways == Spec => []Undisturbed
BY TypeInit, TypeStep, FreshInit, FreshStep, UndisturbedInit, UndisturbedStep, PTL DEF Spec

\* While nothing cuts across a send, each message is issued once and in order:
\* a send has one acquire, one answer and one Transmit, in whatever order the
\* calls are carried out.
THEOREM ClientIssuesOnceInOrder == Spec => []IssuedOnceInOrder
<1>1. Undisturbed => IssuedOnceInOrder
  BY DEF Undisturbed, Ledger, IssuedOnceInOrder
<1> QED BY <1>1, UndisturbedAlways, PTL

\* ... and at rest the rig is not leased to us: the lease is in use by the send
\* that acquired it, or a release is on its way.
THEOREM ClientQuietMeansReleased == Spec => []QuietMeansReleased
<1>1. ~BagIn(RpcRelease, EmptyBag)
  BY DEF EmptyBag, SetToBag, BagIn, BagToSet
<1>2. Undisturbed => QuietMeansReleased
  BY <1>1 DEF Undisturbed, LeaseOwed, QuietMeansReleased
<1> QED BY <1>2, UndisturbedAlways, PTL
=============================================================================
