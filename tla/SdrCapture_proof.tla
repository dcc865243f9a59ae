-------------------------- MODULE SdrCapture_proof --------------------------
(***************************************************************************)
(* Proofs about SdrCapture: its types and the bounds of its queues, what   *)
(* an overrun drops, and that a change reaches chain and dongle whatever   *)
(* stores, reconnects and blocks come between, all but a rate stored while *)
(* one is being sent.                                                      *)
(***************************************************************************)
EXTENDS SdrCapture, SequenceTheorems, FiniteSetTheorems, TLAPS

-----------------------------------------------------------------------------
(* The program of the core thread, and the types of all but the queues. *)

Phases == {"spawned", "built", "read", "reconcile", "retune", "apply",
           "command", "demodulate", "backoff", "publish", "ended"}
Cells == [center : Int, offset : Int, rate : Rates]

\* What a command has still to store: the rest of a tune or of a new rate.
TuneStores(c, o) == << <<"center", c>>, <<"bump", 0>>, <<"offset", o>>, <<"bump", 0>> >>
RateStores(r) == << <<"rate", r>>, <<"bump", 0>> >>

\* A command under way, and the frequency it leads to: a plan splits the one
\* asked for in two, and nothing else moves either part.
OnTarget == wanted # 0 => cell.center + cell.offset = wanted
Program ==
    \/ OnTarget /\ setter = <<>>
    \/ OnTarget /\ setter = << <<"bump", 0>> >>
    \/ OnTarget /\ \E r \in Rates : setter = RateStores(r)
    \/ \E c, o \in Int :
          /\ c + o = wanted
          /\ \/ setter = TuneStores(c, o)
             \/ cell.center = c /\ setter = Tail(TuneStores(c, o))
             \/ cell.center = c /\ setter = Tail(Tail(TuneStores(c, o)))

\* The cell holds a store whose bump is still to come.
Announcing == setter # <<>> /\ Head(setter)[1] = "bump"

Flags == slipped \in BOOLEAN /\ linkUp \in BOOLEAN /\ held \in BOOLEAN

Fields ==
    /\ changes \in 0 .. MaxChanges
    /\ cell \in Cells
    /\ generation \in Nat /\ seenGen \in 0 .. generation
    /\ startGen \in 0 .. seenGen
    /\ wanted \in Freqs \cup {0}
    /\ pc \in Phases
    /\ chain \in [offset : Int, rate : Rates \cup {0}]
    /\ dongle \in [center : Int, rate : Rates] 
    /\ lastRate \in Rates /\ rateRead \in Rates
    /\ Flags
    /\ drops \in 0 .. MaxDrops

\* What is left of a command, store by store.
LEMMA Programs ==
  ASSUME NEW c \in Int, NEW o \in Int, NEW r \in Rates
  PROVE  /\ Tail(TuneStores(c, o)) = << <<"bump", 0>>, <<"offset", o>>, <<"bump", 0>> >>
         /\ Tail(Tail(TuneStores(c, o))) = << <<"offset", o>>, <<"bump", 0>> >>
         /\ Tail(Tail(Tail(TuneStores(c, o)))) = << <<"bump", 0>> >>
         /\ Tail(RateStores(r)) = << <<"bump", 0>> >>
         /\ Tail(<< <<"bump", 0>> >>) = <<>>
BY DEF TuneStores, RateStores

\* A store changes one field.
LEMMA CellStores ==
  ASSUME cell \in Cells, NEW v, NEW r
  PROVE  /\ [cell EXCEPT !["center"] = v] = [center |-> v, offset |-> cell.offset, rate |-> cell.rate]
         /\ [cell EXCEPT !["offset"] = v] = [center |-> cell.center, offset |-> v, rate |-> cell.rate]
         /\ [cell EXCEPT !["rate"] = r] = [center |-> cell.center, offset |-> cell.offset, rate |-> r]
<1>1. cell = [center |-> cell.center, offset |-> cell.offset, rate |-> cell.rate]
  BY DEF Cells
<1> DEFINE a == cell.center
           b == cell.offset
           d == cell.rate
<1> HIDE DEF a, b, d
<1>2. cell = [center |-> a, offset |-> b, rate |-> d]
  BY <1>1 DEF a, b, d
<1>3. [cell EXCEPT !["center"] = v] = [center |-> v, offset |-> b, rate |-> d]
  BY ONLY <1>2
<1>4. [cell EXCEPT !["offset"] = v] = [center |-> a, offset |-> v, rate |-> d]
  BY ONLY <1>2
<1>5. [cell EXCEPT !["rate"] = r] = [center |-> a, offset |-> b, rate |-> r]
  BY ONLY <1>2
<1> QED BY <1>3, <1>4, <1>5 DEF a, b, d

\* The two halves of a plan make the target.
LEMMA Plan ==
  ASSUME cell \in Cells, CaptureBounds, NEW f \in Freqs
  PROVE  LET plan == PlanTune(cell.center, cell.rate, f)
         IN  plan.center \in Int /\ plan.offset \in Int /\ plan.center + plan.offset = f
<1>1. f \in Int /\ cell.center \in Int /\ cell.rate \in Int
  <2>1. cell.center \in Int /\ cell.rate \in Rates
    BY DEF Cells
  <2>2. f \in Int
    BY DEF CaptureBounds
  <2>3. \A r \in Rates : r \in Int
    BY DEF CaptureBounds
  <2>4. cell.rate \in Int
    BY ONLY <2>1, <2>3, Zenon
  <2> QED BY <2>1, <2>2, <2>4
<1>2. cell.rate \div 4 \in Int
  BY <1>1
<1>3. /\ f - cell.rate \div 4 \in Int /\ (f - cell.rate \div 4) + cell.rate \div 4 = f
      /\ f - cell.center \in Int /\ cell.center + (f - cell.center) = f
  BY ONLY <1>1, <1>2
<1>4. CASE cell.center # 0 /\ 10 * Distance(f, cell.center) <= 4 * cell.rate
  <2>1. PlanTune(cell.center, cell.rate, f) = [center |-> cell.center, offset |-> f - cell.center]
    BY <1>4 DEF PlanTune
  <2> QED BY <1>1, <1>3, <2>1
<1>5. CASE ~(cell.center # 0 /\ 10 * Distance(f, cell.center) <= 4 * cell.rate)
  <2>1. PlanTune(cell.center, cell.rate, f) =
          [center |-> f - cell.rate \div 4, offset |-> cell.rate \div 4]
    BY <1>5 DEF PlanTune
  <2> QED BY <1>2, <1>3, <2>1
<1> QED BY <1>4, <1>5

\* A step of the core thread: a bump announces the store before it, a store
\* is followed by its bump, and the target is kept.
LEMMA Stores ==
  ASSUME Program, Fields, CaptureBounds, SetterStep
  PROVE  /\ Program'
         /\ cell' \in Cells
         /\ \/ /\ generation' = generation + 1 /\ cell' = cell
               /\ Announcing /\ ~Announcing'
            \/ /\ generation' = generation
               /\ Announcing' /\ ~Announcing
<1> USE DEF TuneStores, RateStores
<1>0. /\ setter # <<>> /\ setter' = Tail(setter) /\ wanted' = wanted
      /\ Head(setter)[1] = "bump" => generation' = generation + 1 /\ cell' = cell
      /\ Head(setter)[1] # "bump" =>
            /\ generation' = generation
            /\ cell' = [cell EXCEPT ![Head(setter)[1]] = Head(setter)[2]]
      /\ cell \in Cells
  BY DEF SetterStep, Fields
<1>1. CASE OnTarget /\ setter = << <<"bump", 0>> >>
  <2>1. setter' = <<>> /\ Head(setter)[1] = "bump"
    BY <1>0, <1>1
  <2> QED BY <1>0, <1>1, <2>1 DEF Program, Announcing, OnTarget
<1>2. CASE OnTarget /\ \E r \in Rates : setter = RateStores(r)
  <2> PICK r \in Rates : setter = RateStores(r)
    BY <1>2
  <2>1. Head(setter)[1] = "rate" /\ Head(setter)[2] = r /\ setter' = << <<"bump", 0>> >> /\ Head(setter')[1] = "bump"
    BY <1>0
  <2>2. cell' = [cell EXCEPT !["rate"] = r] /\ generation' = generation
    BY <1>0, <2>1
  <2>3. cell' = [center |-> cell.center, offset |-> cell.offset, rate |-> r]
    BY ONLY <1>0, <2>2, CellStores
  <2>4. cell'.center = cell.center /\ cell'.offset = cell.offset /\ cell' \in Cells
    BY <1>0, <2>3 DEF Cells
  <2>5. OnTarget'
    BY <1>0, <1>2, <2>4 DEF OnTarget
  <2> QED BY <2>1, <2>2, <2>4, <2>5 DEF Program, Announcing
<1>3. ASSUME NEW c \in Int, NEW o \in Int, c + o = wanted, setter = TuneStores(c, o)
      PROVE  Program' /\ cell' \in Cells /\ generation' = generation /\ Announcing' /\ ~Announcing
  <2>1. Head(setter)[1] = "center" /\ Head(setter)[2] = c /\ Head(setter')[1] = "bump" /\ setter' # <<>>
        /\ setter' = Tail(TuneStores(c, o))
    BY <1>0, <1>3
  <2>2. cell' = [cell EXCEPT !["center"] = c] /\ generation' = generation
    BY <1>0, <2>1
  <2>3. cell' = [center |-> c, offset |-> cell.offset, rate |-> cell.rate]
    BY ONLY <1>0, <1>3, <2>2, CellStores
  <2>4. cell'.center = c /\ cell' \in Cells
    BY <1>0, <2>3 DEF Cells
  <2>5. Program'
    BY <1>0, <1>3, <2>1, <2>4 DEF Program
  <2> QED BY <2>1, <2>2, <2>4, <2>5 DEF Announcing
<1>4. ASSUME NEW c \in Int, NEW o \in Int, c + o = wanted, cell.center = c,
             setter = Tail(TuneStores(c, o))
      PROVE  Program' /\ cell' = cell /\ generation' = generation + 1 /\ ~Announcing' /\ Announcing
  <2>1. Head(setter)[1] = "bump" /\ setter' = Tail(Tail(TuneStores(c, o))) /\ Head(setter')[1] = "offset"
    BY <1>0, <1>4
  <2>2. Program'
    BY <1>0, <1>4, <2>1 DEF Program
  <2> QED BY <1>0, <2>1, <2>2 DEF Announcing
<1>5. ASSUME NEW c \in Int, NEW o \in Int, c + o = wanted, cell.center = c,
             setter = Tail(Tail(TuneStores(c, o)))
      PROVE  Program' /\ cell' \in Cells /\ generation' = generation /\ Announcing' /\ ~Announcing
  <2>1. Head(setter)[1] = "offset" /\ Head(setter)[2] = o /\ setter' = << <<"bump", 0>> >> /\ Head(setter')[1] = "bump"
    BY <1>0, <1>5
  <2>2. cell' = [cell EXCEPT !["offset"] = o] /\ generation' = generation
    BY <1>0, <2>1
  <2>3. cell' = [center |-> cell.center, offset |-> o, rate |-> cell.rate]
    BY ONLY <1>0, <1>5, <2>2, CellStores
  <2>4. cell'.center = c /\ cell'.offset = o /\ cell' \in Cells
    BY <1>0, <1>5, <2>3 DEF Cells
  <2>5. OnTarget'
    BY <1>0, <1>5, <2>4 DEF OnTarget
  <2> QED BY <2>1, <2>2, <2>4, <2>5 DEF Program, Announcing
<1> QED BY <1>0, <1>1, <1>2, <1>3, <1>4, <1>5 DEF Program

\* A command begins.
LEMMA Commands ==
  ASSUME Program, Fields, CaptureBounds, SetSdrTune \/ ConfigureSdr
  PROVE  Program' /\ ~Announcing /\ ~Announcing' /\ wanted' \in Freqs \cup {0}
<1>1. CASE SetSdrTune
  <2>1. PICK f \in Freqs :
          /\ setter' = TuneStores(PlanTune(cell.center, cell.rate, f).center,
                                  PlanTune(cell.center, cell.rate, f).offset)
          /\ wanted' = f
    BY <1>1 DEF SetSdrTune, TuneStores
  <2>2. Program'
    BY <2>1, Plan DEF Program, Fields
  <2> QED BY <1>1, <2>1, <2>2 DEF Announcing, SetSdrTune, TuneStores
<1>2. CASE ConfigureSdr
  <2>1. setter = <<>> /\ UNCHANGED <<cell, wanted>> /\ \E r \in Rates : setter' = RateStores(r)
    BY <1>2 DEF ConfigureSdr, RateStores
  <2>2. OnTarget
    BY <2>1 DEF Program, TuneStores, RateStores
  <2> QED BY <2>1, <2>2 DEF Program, OnTarget, Announcing, RateStores, Fields
<1> QED BY <1>1, <1>2

\* Commands and their stores.
LEMMA CommandFields ==
  ASSUME Program, Fields, CaptureBounds, SetSdrTune \/ ConfigureSdr \/ SetterStep
  PROVE  Program' /\ Fields'
<1>1. UNCHANGED <<pc, chain, seenGen, startGen, dongle, lastRate, rateRead, linkUp, drops, held>>
  BY DEF SetSdrTune, ConfigureSdr, SetterStep, chainVars, linkVars
<1>4. Flags'
  BY DEF Fields, Flags, SetSdrTune, ConfigureSdr, SetterStep, linkVars
<1>2. CASE SetSdrTune \/ ConfigureSdr
  <2>1. changes' \in 0 .. MaxChanges /\ UNCHANGED <<cell, generation>>
    BY <1>2 DEF SetSdrTune, ConfigureSdr, Fields, CaptureBounds
  <2> QED BY <1>1, <1>2, <1>4, <2>1, Commands DEF Fields
<1>3. CASE SetterStep
  <2>1. UNCHANGED <<changes, wanted>>
    BY <1>3 DEF SetterStep
  <2>2. cell' \in Cells /\ generation' \in Nat /\ generation' >= generation
    BY <1>3, Stores DEF Fields
  <2> QED BY <1>1, <1>3, <1>4, <2>1, <2>2, Stores DEF Fields
<1> QED BY <1>2, <1>3

\* Every other step leaves the core's side alone.
LEMMA Others ==
  ASSUME [Next]_vars
  PROVE  SetSdrTune \/ ConfigureSdr \/ SetterStep \/ UNCHANGED coreVars
BY DEF Next, ThreadStep, ReadBlock, BuildChain, ReadGeneration, ReadFails, Handshake,
       Publish, Reconcile, Retune, ReadRate, SendHardware, NoAudio, Deliver, ConsumerGone, LinkDrops,
       Receive, DropHandle, vars

LEMMA FieldsStep ==
  ASSUME Program, Fields, CaptureBounds, [Next]_vars
  PROVE  Program' /\ Fields'
<1>1. CASE SetSdrTune \/ ConfigureSdr \/ SetterStep
  BY <1>1, CommandFields
<1>2. CASE ~(SetSdrTune \/ ConfigureSdr \/ SetterStep)
  <2>1. UNCHANGED coreVars
    BY <1>2, Others
  <2>2. Program'
    BY <2>1 DEF coreVars, Program, OnTarget
  <2>3. seenGen' \in 0 .. generation /\ startGen' \in 0 .. seenGen'
    <3>1. \/ seenGen' = seenGen /\ startGen' = startGen
          \/ seenGen' = generation /\ startGen' \in {startGen, generation}
      BY <1>2 DEF Next, ThreadStep, ReadBlock, BuildChain, ReadGeneration, ReadFails, Handshake,
                  Publish, Reconcile, Retune, ReadRate, SendHardware, NoAudio, Deliver, ConsumerGone,
                  LinkDrops, Receive, DropHandle, vars, chainVars
    <3> QED BY <3>1 DEF Fields
  <2>9. pc' \in Phases
    BY <1>2 DEF Fields, Phases, Next, ThreadStep, ReadBlock, BuildChain,
                ReadGeneration, ReadFails, Handshake, Publish, Reconcile, Retune,
                ReadRate, SendHardware, NoAudio, Deliver, ConsumerGone, End, LinkDrops, Receive,
                DropHandle, vars, linkVars
  <2>11. Flags'
    BY <1>2 DEF Fields, Flags, Next, ThreadStep, ReadBlock, BuildChain,
                ReadGeneration, ReadFails, Handshake, Publish, Reconcile, Retune,
                ReadRate, SendHardware, NoAudio, Deliver, ConsumerGone, End, LinkDrops, Receive,
                DropHandle, vars, linkVars
  <2>10. drops' \in 0 .. MaxDrops
    <3>1. drops' = drops \/ (drops < MaxDrops /\ drops' = drops + 1)
      BY <1>2 DEF Next, ThreadStep, ReadBlock, BuildChain, ReadGeneration, ReadFails, Handshake,
                  Publish, Reconcile, Retune, ReadRate, SendHardware, NoAudio, Deliver, ConsumerGone,
                  LinkDrops, Receive, DropHandle, vars, linkVars
    <3> QED BY <3>1 DEF Fields, CaptureBounds
  <2>4. cell.offset \in Int /\ cell.center \in Int /\ cell.rate \in Rates
        /\ dongle.rate \in Rates
    BY DEF Fields, Cells
  <2>5. \/ chain' = chain
        \/ chain' = [offset |-> cell.offset, rate |-> cell.rate]
    BY <1>2 DEF Next, ThreadStep, ReadBlock, BuildChain, ReadGeneration, ReadFails, Handshake,
                Publish, Reconcile, Retune, ReadRate, SendHardware, NoAudio, Deliver, ConsumerGone,
                LinkDrops, Receive, DropHandle, vars, chainVars
  <2>6. /\ \/ dongle' = dongle
           \/ \E r \in {cell.rate, dongle.rate} : dongle' = [center |-> cell.center, rate |-> r]
        /\ lastRate' \in {lastRate, rateRead, cell.rate}
        /\ rateRead' \in {rateRead, cell.rate}
    BY <1>2 DEF Next, ThreadStep, ReadBlock, BuildChain, ReadGeneration, ReadFails, Handshake,
                Publish, Reconcile, Retune, ReadRate, SendHardware, NoAudio, Deliver, ConsumerGone,
                LinkDrops, Receive, DropHandle, vars, linkVars
  <2>7. chain' \in [offset : Int, rate : Rates \cup {0}]
    BY <2>4, <2>5 DEF Fields
  <2>8. dongle' \in [center : Int, rate : Rates] /\ lastRate' \in Rates
        /\ rateRead' \in Rates
    BY <2>4, <2>6 DEF Fields
  <2> QED BY <2>1, <2>2, <2>3, <2>7, <2>8, <2>9, <2>10, <2>11 DEF Fields, coreVars
<1> QED BY <1>1, <1>2

LEMMA FieldsInit == Init => Program /\ Fields
<1> SUFFICES ASSUME Init PROVE Program /\ Fields
  OBVIOUS
<1>1. Fields
  <2>1. Flags
    BY DEF Init, Flags
  <2>2. /\ changes = 0 /\ generation = 0 /\ seenGen = 0 /\ startGen = 0 /\ wanted = 0
        /\ drops = 0 /\ pc = "spawned"
    BY DEF Init
  <2>3. /\ cell = [center |-> 0, offset |-> 0, rate |-> InitialRate]
        /\ chain = [offset |-> 0, rate |-> 0]
        /\ dongle = [center |-> 0, rate |-> InitialRate]
        /\ lastRate = InitialRate /\ rateRead = InitialRate
    BY DEF Init
  <2> QED BY <2>1, <2>2, <2>3, CaptureBounds DEF CaptureBounds, Fields, Phases, Cells
<1>2. Program
  BY DEF Init, Program, OnTarget
<1> QED BY <1>1, <1>2

-----------------------------------------------------------------------------
(* The queues.  What is staged is always the newest audio without a hole,  *)
(* so the chunks up to Passed have left the backlog: each was delivered or *)
(* is counted as dropped.                                                  *)

Passed == produced - Len(backlog)
Missing == (1 .. Passed) \ (heard \cup ToSet(chan))

Queues ==
    /\ produced \in Nat /\ dropped \in Nat
    /\ chan \in Seq(Nat) /\ Len(chan) <= Depth
    /\ backlog \in Seq(Nat) /\ Len(backlog) <= Depth /\ Len(backlog) <= produced
Staged == \A i \in 1 .. Len(backlog) : backlog[i] = Passed + i
Delivered ==
    /\ heard \subseteq 1 .. Passed
    /\ \A i \in 1 .. Len(chan) : chan[i] \in 1 .. Passed
    /\ \A i, j \in 1 .. Len(chan) : i < j => chan[i] < chan[j]
    /\ \A h \in heard, i \in 1 .. Len(chan) : h < chan[i]
Counted ==
    /\ Cardinality(Missing) = dropped
    /\ \A l \in Missing : l <= produced - Depth

\* Of a capture whose handle is gone, what was under way is lost uncounted.
Audio == Queues /\ Staged /\ Delivered /\ (held => Counted)

\* A block is read only while another may be produced; the thread ends only
\* when the handle is gone.
Room ==
    /\ dropped <= Passed
    /\ produced <= MaxBlocks
    /\ held /\ pc \in {"reconcile", "retune", "apply", "command", "demodulate"} =>
          produced < MaxBlocks
    /\ pc = "ended" => ~held

LEMMA Chunks ==
  ASSUME NEW S, NEW s \in Seq(S)
  PROVE  ToSet(s) = {s[i] : i \in 1 .. Len(s)} /\ Len(s) \in Nat
BY DEF ToSet

\* Deliver on the sequences: what is sent, and what of the rest is kept.
LEMMA DeliverSeqs ==
  ASSUME Queues, CaptureBounds, Deliver
  PROVE  \E k \in 0 .. Len(backlog) + 1, d \in {0, 1} :
           LET staged == Append(backlog, produced + 1)
           IN  /\ chan' \in Seq(Nat) /\ Len(chan') = Len(chan) + k /\ Len(chan') <= Depth
               /\ \A i \in 1 .. Len(chan) : chan'[i] = chan[i]
               /\ \A i \in 1 .. k : chan'[Len(chan) + i] = staged[i]
               /\ backlog' \in Seq(Nat) /\ Len(backlog') = Len(backlog) + 1 - k - d
               /\ Len(backlog') <= Depth
               /\ \A i \in 1 .. Len(backlog') : backlog'[i] = staged[k + d + i]
               /\ d = 1 => k = 0 /\ Len(backlog) = Depth
               /\ dropped' = dropped + d
<1> DEFINE staged == Append(backlog, produced + 1)
           room == Depth - Len(chan)
           sent == IF Len(staged) < room THEN Len(staged) ELSE room
           rest == SubSeq(staged, sent + 1, Len(staged))
           moved == SubSeq(staged, 1, sent)
           kept == Trim(rest)
           d == IF Len(rest) > Depth THEN 1 ELSE 0
<1>0. Depth \in Nat /\ Depth >= 1
  BY DEF CaptureBounds
<1>1. staged \in Seq(Nat) /\ Len(staged) = Len(backlog) + 1 /\ Len(backlog) \in Nat /\ Len(chan) \in Nat
  BY AppendProperties, LenProperties DEF Queues
<1>2. chan' = chan \o moved /\ backlog' = kept /\ dropped' = dropped + Len(rest) - Len(kept)
  BY DEF Deliver
<1> HIDE DEF staged
<1>3. sent \in Nat /\ sent <= Len(staged) /\ sent <= room /\ (sent < Len(staged) => sent = room)
  BY <1>0, <1>1 DEF Queues
<1> HIDE DEF sent
<1>4. moved \in Seq(Nat) /\ Len(moved) = sent /\ \A i \in 1 .. sent : moved[i] = staged[i]
  BY <1>1, <1>3, SubSeqProperties
<1>5. /\ rest \in Seq(Nat) /\ Len(rest) = Len(staged) - sent
      /\ \A i \in 1 .. Len(staged) - sent : rest[i] = staged[sent + i]
  <2>1. CASE sent = Len(staged)
    BY <1>1, <1>3, <2>1, SubSeqProperties
  <2>2. CASE sent < Len(staged)
    BY <1>1, <1>3, <2>2, SubSeqProperties
  <2>3. sent = Len(staged) \/ sent < Len(staged)
    BY ONLY <1>1, <1>3
  <2> QED BY <2>1, <2>2, <2>3
<1> HIDE DEF moved, rest
<1>6. /\ chan \o moved \in Seq(Nat) /\ Len(chan \o moved) = Len(chan) + sent
      /\ \A i \in 1 .. Len(chan) : (chan \o moved)[i] = chan[i]
      /\ \A i \in 1 .. sent : (chan \o moved)[Len(chan) + i] = staged[i]
  <2>1. /\ chan \o moved \in Seq(Nat) /\ Len(chan \o moved) = Len(chan) + Len(moved)
        /\ \A i \in 1 .. Len(chan) + Len(moved) :
              (chan \o moved)[i] = IF i <= Len(chan) THEN chan[i] ELSE moved[i - Len(chan)]
    BY <1>4, ConcatProperties DEF Queues
  <2>2. ASSUME NEW i \in 1 .. Len(chan) PROVE (chan \o moved)[i] = chan[i]
    BY <1>1, <1>3, <1>4, <2>1
  <2>3. ASSUME NEW i \in 1 .. sent PROVE (chan \o moved)[Len(chan) + i] = staged[i]
    <3>1. Len(chan) + i \in 1 .. Len(chan) + Len(moved) /\ ~(Len(chan) + i <= Len(chan))
          /\ Len(chan) + i - Len(chan) = i
      BY <1>1, <1>3, <1>4
    <3> QED BY <1>4, <2>1, <3>1
  <2> QED BY <1>4, <2>1, <2>2, <2>3
<1>7. Len(rest) > Depth => sent = 0 /\ Len(backlog) = Depth /\ Len(rest) = Depth + 1
  <2>1. Len(backlog) <= Depth
    BY DEF Queues
  <2>2. Len(rest) = Len(backlog) + 1 - sent
    BY ONLY <1>1, <1>3, <1>5
  <2> QED BY ONLY <1>0, <1>1, <1>3, <2>1, <2>2
<1>8. /\ kept \in Seq(Nat) /\ Len(kept) = Len(rest) - d /\ Len(kept) <= Depth
      /\ \A i \in 1 .. Len(kept) : kept[i] = rest[d + i]
  <2>1. CASE Len(rest) > Depth
    <3>1. d = 1 /\ Len(rest) = Depth + 1
      BY <1>7, <2>1
    <3>2. kept = SubSeq(rest, 2, Len(rest))
      BY <1>0, <2>1, <3>1 DEF Trim
    <3> QED BY SMTT(20), <1>0, <1>5, <3>1, <3>2, SubSeqProperties
  <2>2. CASE ~(Len(rest) > Depth)
    <3>1. d = 0 /\ kept = rest
      BY <2>2 DEF Trim
    <3> QED BY <1>0, <1>1, <1>3, <1>5, <2>2, <3>1
  <2> QED BY <2>1, <2>2
<1>9. d \in {0, 1}
  OBVIOUS
<1> HIDE DEF kept, d
<1>10. ASSUME NEW i \in 1 .. Len(kept)
       PROVE kept[i] = staged[sent + d + i]
  <2>1. d + i \in 1 .. Len(staged) - sent /\ Len(kept) \in Nat
    <3>1. Len(kept) = Len(staged) - sent - d
      BY <1>5, <1>8
    <3> QED BY <1>1, <1>3, <1>9, <3>1
  <2>2. kept[i] = staged[sent + (d + i)]
    BY <1>5, <1>8, <2>1
  <2>3. sent + (d + i) = sent + d + i
    BY <1>3, <1>9, <2>1
  <2> QED BY <2>2, <2>3
<1>11. sent \in 0 .. Len(backlog) + 1
  BY <1>1, <1>3
<1>12. /\ Len(kept) = Len(backlog) + 1 - sent - d
       /\ dropped' = dropped + d /\ Len(chan) + sent <= Depth
  BY <1>0, <1>1, <1>2, <1>3, <1>5, <1>8, <1>9 DEF Queues
<1>13. d = 1 => sent = 0 /\ Len(backlog) = Depth
  BY <1>7 DEF d
<1> WITNESS sent \in 0 .. Len(backlog) + 1, d \in {0, 1}
<1> QED BY <1>2, <1>6, <1>8, <1>10, <1>12, <1>13 DEF staged

LEMMA DeliverAudio ==
  ASSUME Audio, Room, CaptureBounds, Deliver
  PROVE  Audio' /\ Room'
<1> USE DEF Audio
<1>0. Depth \in Nat /\ Depth >= 1 /\ MaxBlocks \in Nat
  BY DEF CaptureBounds
<1>1. PICK k \in 0 .. Len(backlog) + 1, d \in {0, 1} :
           LET staged == Append(backlog, produced + 1)
           IN  /\ chan' \in Seq(Nat) /\ Len(chan') = Len(chan) + k /\ Len(chan') <= Depth
               /\ \A i \in 1 .. Len(chan) : chan'[i] = chan[i]
               /\ \A i \in 1 .. k : chan'[Len(chan) + i] = staged[i]
               /\ backlog' \in Seq(Nat) /\ Len(backlog') = Len(backlog) + 1 - k - d
               /\ Len(backlog') <= Depth
               /\ \A i \in 1 .. Len(backlog') : backlog'[i] = staged[k + d + i]
               /\ d = 1 => k = 0 /\ Len(backlog) = Depth
               /\ dropped' = dropped + d
  BY DeliverSeqs
<1>2. /\ produced' = produced + 1 /\ heard' = heard /\ held /\ held'
      /\ pc = "demodulate" /\ pc' = "read"
  BY DEF Deliver
<1>3. /\ produced \in Nat /\ dropped \in Nat /\ Len(backlog) \in Nat /\ Len(chan) \in Nat
      /\ Len(backlog) <= produced /\ Len(backlog') \in Nat /\ Len(chan') \in Nat /\ k \in Nat
      /\ Len(backlog) <= Depth
  BY <1>1, LenProperties DEF Queues
<1>4. Passed \in Nat /\ Passed' = Passed + k + d
  BY <1>1, <1>2, <1>3 DEF Passed
<1>15. /\ \A x \in 1 .. Passed : x \in 1 .. Passed' /\ x \in Nat /\ x <= Passed
       /\ \A i \in 1 .. k : Passed + i \in 1 .. Passed'
  BY <1>3, <1>4
<1>5. ASSUME NEW i \in 1 .. Len(backlog) + 1
      PROVE  Append(backlog, produced + 1)[i] = Passed + i
  <2>1. CASE i \in 1 .. Len(backlog)
    BY <1>3, <2>1, AppendProperties DEF Staged, Queues
  <2>2. CASE i = Len(backlog) + 1
    <3>1. Append(backlog, produced + 1)[i] = produced + 1
      BY <2>2, AppendProperties DEF Queues
    <3> QED BY <1>3, <2>2, <3>1 DEF Passed
  <2> QED BY <1>3, <2>1, <2>2
<1>6. Queues'
  BY <1>1, <1>2, <1>3 DEF Queues
<1>7. Staged'
  <2> SUFFICES ASSUME NEW i \in 1 .. Len(backlog') PROVE backlog'[i] = Passed' + i
    BY DEF Staged
  <2>1. k + d + i \in 1 .. Len(backlog) + 1
    BY <1>1, <1>3
  <2>2. backlog'[i] = Passed + (k + d + i)
    BY <1>1, <1>5, <2>1
  <2> QED BY <1>3, <1>4, <2>2
<1>8. /\ \A i \in 1 .. Len(chan) : chan'[i] = chan[i] /\ chan'[i] \in 1 .. Passed
      /\ \A i \in 1 .. k : chan'[Len(chan) + i] = Passed + i
  <2>1. \A i \in 1 .. Len(chan) : chan'[i] = chan[i]
    BY <1>1
  <2>2. \A i \in 1 .. k : i \in 1 .. Len(backlog) + 1
    BY <1>3
  <2>3. \A i \in 1 .. k : chan'[Len(chan) + i] = Append(backlog, produced + 1)[i]
    BY <1>1
  <2> QED BY <1>5, <2>1, <2>2, <2>3 DEF Delivered
<1>9. ASSUME NEW i \in 1 .. Len(chan')
      PROVE  \/ i \in 1 .. Len(chan) /\ chan'[i] = chan[i] /\ chan'[i] \in 1 .. Passed
             \/ /\ i > Len(chan) /\ i - Len(chan) \in 1 .. k
                /\ chan'[i] = Passed + (i - Len(chan))
  <2>1. CASE i <= Len(chan)
    BY <1>3, <1>8, <2>1
  <2>2. CASE i > Len(chan)
    <3>1. i - Len(chan) \in 1 .. k /\ Len(chan) + (i - Len(chan)) = i
      BY <1>1, <1>3, <2>2
    <3> QED BY <1>8, <2>2, <3>1
  <2> QED BY <1>3, <2>1, <2>2
<1>10. Delivered'
  <2>1. heard' \subseteq 1 .. Passed' /\ \A h \in heard : h \in Nat /\ h <= Passed
    BY <1>2, <1>15 DEF Delivered
  <2>2. \A i \in 1 .. Len(chan') : chan'[i] \in 1 .. Passed'
    BY <1>9, <1>15
  <2>3. ASSUME NEW i \in 1 .. Len(chan'), NEW j \in 1 .. Len(chan'), i < j
        PROVE  chan'[i] < chan'[j]
    <3>1. CASE j \in 1 .. Len(chan)
      <4>1. i \in 1 .. Len(chan) /\ chan'[i] = chan[i] /\ chan'[j] = chan[j]
        BY <1>3, <1>8, <2>3, <3>1
      <4> QED BY <2>3, <3>1, <4>1 DEF Delivered
    <3>2. CASE j \notin 1 .. Len(chan)
      <4>1. j - Len(chan) \in 1 .. k /\ chan'[j] = Passed + (j - Len(chan))
        BY <1>9, <3>2
      <4>2. \/ chan'[i] \in 1 .. Passed
            \/ i - Len(chan) \in 1 .. k /\ chan'[i] = Passed + (i - Len(chan))
        BY <1>9
      <4> QED BY SMTT(20), <1>3, <1>4, <2>3, <4>1, <4>2
    <3> QED BY <3>1, <3>2
  <2>4. ASSUME NEW h \in heard', NEW i \in 1 .. Len(chan')
        PROVE  h < chan'[i]
    <3>1. CASE i \in 1 .. Len(chan)
      BY <1>2, <1>8, <3>1 DEF Delivered
    <3>2. CASE i \notin 1 .. Len(chan)
      BY <1>2, <1>3, <1>4, <1>9, <2>1, <3>2
    <3> QED BY <3>1, <3>2
  <2> QED BY <2>1, <2>2, <2>3, <2>4 DEF Delivered
<1>11. /\ \A x \in ToSet(chan') : x \in ToSet(chan) \/ x \in Passed + 1 .. Passed + k
       /\ \A x \in ToSet(chan) : x \in ToSet(chan')
       /\ \A x \in Passed + 1 .. Passed + k : x \in ToSet(chan')
       /\ \A x \in ToSet(chan) : x \in 1 .. Passed
  <2>0. chan \in Seq(Nat) /\ chan' \in Seq(Nat)
    BY <1>1 DEF Queues
  <2>1. /\ ToSet(chan) = {chan[i] : i \in 1 .. Len(chan)}
        /\ ToSet(chan') = {chan'[i] : i \in 1 .. Len(chan')}
    BY ONLY <2>0, Chunks
  <2>2. ASSUME NEW x \in Passed + 1 .. Passed + k
        PROVE  \E i \in 1 .. Len(chan') : x = chan'[i]
    <3>1. x - Passed \in 1 .. k /\ Passed + (x - Passed) = x
      BY <1>3, <1>4
    <3>2. Len(chan') = Len(chan) + k
      BY <1>1
    <3>3. Len(chan) + (x - Passed) \in 1 .. Len(chan')
      BY <1>3, <3>1, <3>2
    <3> QED BY <1>8, <3>1, <3>3
  <2>3. ASSUME NEW i \in 1 .. Len(chan')
        PROVE  chan'[i] \in ToSet(chan) \/ chan'[i] \in Passed + 1 .. Passed + k
    <3>1. CASE i \in 1 .. Len(chan) /\ chan'[i] = chan[i]
      BY <2>1, <3>1
    <3>2. CASE i - Len(chan) \in 1 .. k /\ chan'[i] = Passed + (i - Len(chan))
      BY <1>3, <1>4, <3>2
    <3> QED BY <1>9, <3>1, <3>2
  <2>4. \A i \in 1 .. Len(chan) : i \in 1 .. Len(chan') /\ chan'[i] = chan[i]
    BY <1>1, <1>3, <1>8
  <2>5. \A x \in ToSet(chan') : \E i \in 1 .. Len(chan') : x = chan'[i]
    BY <2>1
  <2>6. \A i \in 1 .. Len(chan') : chan'[i] \in ToSet(chan')
    BY <2>1
  <2>7. \A x \in ToSet(chan) : \E i \in 1 .. Len(chan) : x = chan[i]
    BY <2>1
  <2>8. \A x \in ToSet(chan') : x \in ToSet(chan) \/ x \in Passed + 1 .. Passed + k
    BY ONLY <2>3, <2>5
  <2>9. \A x \in ToSet(chan) : x \in ToSet(chan') /\ x \in 1 .. Passed
    BY ONLY <1>8, <2>4, <2>6, <2>7
  <2>10. \A x \in Passed + 1 .. Passed + k : x \in ToSet(chan')
    BY ONLY <2>2, <2>6
  <2> QED BY ONLY <2>8, <2>9, <2>10
<1>12. heard \subseteq 1 .. Passed
  BY DEF Delivered
<1>13. Counted'
  <2>1. Counted
    BY <1>2
  <2>2. CASE d = 0
    <3>1. Passed' = Passed + k
      BY <1>3, <1>4, <2>2
    <3>2. Missing' = Missing
      BY <1>2, <1>3, <1>4, <1>11, <1>12, <3>1 DEF Missing
    <3>3. \A l \in Missing : l \in Nat
      BY DEF Missing
    <3> QED BY <1>0, <1>1, <1>2, <1>3, <2>1, <2>2, <3>2, <3>3 DEF Counted
  <2>3. CASE d = 1
    <3>1. k = 0 /\ Len(backlog) = Depth /\ Passed' = Passed + 1
      BY <1>1, <1>3, <1>4, <2>3
    <3>2. Missing' = Missing \cup {Passed + 1}
      BY <1>2, <1>3, <1>4, <1>11, <1>12, <3>1 DEF Missing
    <3>3. Passed + 1 \notin Missing /\ \A l \in Missing : l \in Nat
      BY <1>4 DEF Missing
    <3>4. IsFiniteSet(Missing)
      <4>1. IsFiniteSet(1 .. Passed)
        BY <1>4, FS_Interval
      <4> QED BY <4>1, FS_Subset DEF Missing
    <3>5. Cardinality(Missing') = dropped + 1
      BY <2>1, <3>2, <3>3, <3>4, FS_AddElement DEF Counted
    <3>6. Passed + 1 <= produced' - Depth
      BY <1>0, <1>2, <1>3, <3>1 DEF Passed
    <3> QED BY <1>0, <1>1, <1>2, <1>3, <2>1, <2>3, <3>2, <3>3, <3>5, <3>6 DEF Counted
  <2> QED BY <2>2, <2>3
<1>14. Room'
  BY <1>0, <1>1, <1>2, <1>3, <1>4 DEF Room
<1> QED BY <1>6, <1>7, <1>10, <1>13, <1>14

LEMMA ReceiveAudio ==
  ASSUME Audio, Room, CaptureBounds, Receive
  PROVE  Audio' /\ Room'
<1> USE DEF Audio
<1>1. /\ chan # <<>> /\ heard' = heard \cup {chan[1]} /\ chan' = Tail(chan)
      /\ held /\ held' /\ UNCHANGED <<produced, backlog, dropped, pc>>
  BY DEF Receive
<1>2. /\ Len(chan) \in Nat /\ Len(chan) >= 1 /\ chan' \in Seq(Nat)
      /\ Len(chan') = Len(chan) - 1
      /\ \A i \in 1 .. Len(chan) - 1 : chan'[i] = chan[i + 1]
  BY <1>1, HeadTailProperties, EmptySeq, LenProperties DEF Queues
<1>3. Passed' = Passed
  BY <1>1 DEF Passed
<1>4. Queues' /\ Staged' /\ Room'
  BY <1>1, <1>2, <1>3 DEF Queues, Staged, Room, CaptureBounds
<1>5. \A i \in 1 .. Len(chan') : i + 1 \in 1 .. Len(chan) /\ chan'[i] = chan[i + 1] /\ 1 < i + 1
  BY <1>2
<1>6. 1 \in 1 .. Len(chan)
  BY <1>2
<1>7. Delivered'
  <2>1. heard' \subseteq 1 .. Passed'
    BY <1>1, <1>3, <1>6 DEF Delivered
  <2>2. \A i \in 1 .. Len(chan') : chan'[i] \in 1 .. Passed'
    BY <1>3, <1>5 DEF Delivered
  <2>3. ASSUME NEW i \in 1 .. Len(chan'), NEW j \in 1 .. Len(chan'), i < j
        PROVE  chan'[i] < chan'[j]
    <3>1. i + 1 < j + 1
      BY <2>3
    <3> QED BY <1>5, <3>1 DEF Delivered
  <2>4. ASSUME NEW h \in heard', NEW i \in 1 .. Len(chan')
        PROVE  h < chan'[i]
    BY <1>1, <1>5, <1>6 DEF Delivered
  <2> QED BY <2>1, <2>2, <2>3, <2>4 DEF Delivered
<1>8. Missing' = Missing
  <2>0. chan \in Seq(Nat) /\ chan' \in Seq(Nat)
    BY <1>2 DEF Queues
  <2>1. /\ ToSet(chan) = {chan[i] : i \in 1 .. Len(chan)}
        /\ ToSet(chan') = {chan'[i] : i \in 1 .. Len(chan')}
    BY ONLY <2>0, Chunks
  <2>2. ASSUME NEW i \in 1 .. Len(chan)
        PROVE  chan[i] = chan[1] \/ \E j \in 1 .. Len(chan') : chan[i] = chan'[j]
    <3>1. CASE i = 1
      BY <3>1
    <3>2. CASE i # 1
      <4>1. i - 1 \in 1 .. Len(chan') /\ i - 1 + 1 = i
        BY <1>2, <3>2
      <4> QED BY <1>5, <4>1
    <3> QED BY <3>1, <3>2
  <2>3. heard' \cup ToSet(chan') = heard \cup ToSet(chan)
    BY <1>1, <1>5, <1>6, <2>1, <2>2
  <2> QED BY <1>3, <2>3 DEF Missing
<1> QED BY <1>1, <1>4, <1>7, <1>8 DEF Counted

LEMMA EndAudio ==
  ASSUME Audio, Room, ConsumerGone
  PROVE  Audio' /\ Room'
<1>1. /\ ~held /\ ~held' /\ backlog' = <<>> /\ pc' = "ended"
      /\ UNCHANGED <<produced, dropped, chan, heard>>
  BY DEF ConsumerGone, End
<1>2. /\ produced \in Nat /\ Len(backlog) \in Nat /\ Len(backlog) <= produced
      /\ Len(chan) \in Nat /\ Len(backlog') = 0 /\ backlog' \in Seq(Nat)
  BY <1>1, LenProperties, EmptySeq DEF Audio, Queues
<1>3. Passed \in Nat /\ Passed' = produced /\ Passed <= Passed'
  BY <1>1, <1>2 DEF Passed
<1>4. Delivered'
  BY <1>1, <1>2, <1>3 DEF Audio, Delivered
<1>5. Queues' /\ Staged'
  BY <1>1, <1>2, CaptureBounds DEF Audio, Queues, Staged
<1>6. Room'
  BY <1>1, <1>2, <1>3 DEF Room, Audio, Queues
<1> QED BY <1>1, <1>4, <1>5, <1>6 DEF Audio

LEMMA DropAudio ==
  ASSUME Audio, Room, CaptureBounds, DropHandle
  PROVE  Audio' /\ Room'
<1>1. /\ ~held' /\ chan' = <<>> /\ UNCHANGED <<produced, backlog, dropped, heard, pc>>
  BY DEF DropHandle
<1>2. chan' \in Seq(Nat) /\ Len(chan') = 0 /\ Passed' = Passed
  BY <1>1 DEF Passed
<1> QED BY <1>1, <1>2 DEF Audio, Queues, Staged, Delivered, Room, CaptureBounds

\* Every other step leaves the queues alone.
LEMMA KeepsAudio ==
  ASSUME Audio, Room, [Next]_vars, ~Deliver, ~Receive, ~ConsumerGone, ~DropHandle
  PROVE  Audio' /\ Room'
<1>1. /\ UNCHANGED <<produced, backlog, dropped, chan, heard, held>>
      /\ pc' # "ended" \/ pc = "ended"
      /\ \/ pc' \notin {"reconcile", "retune", "apply", "command", "demodulate"}
         \/ pc \in {"reconcile", "retune", "apply", "command", "demodulate"}
         \/ produced < MaxBlocks \/ ~held
  <2> USE DEF vars, audioVars
  <2>1. CASE SetSdrTune \/ ConfigureSdr \/ SetterStep \/ LinkDrops \/ UNCHANGED vars
    BY <2>1 DEF SetSdrTune, ConfigureSdr, SetterStep, LinkDrops
  <2>2. CASE ReadBlock \/ Handshake \/ BuildChain \/ ReadGeneration \/ ReadFails
    BY <2>2 DEF ReadBlock, Handshake, BuildChain, ReadGeneration, ReadFails
  <2>3. CASE Publish \/ Reconcile \/ Retune \/ ReadRate \/ SendHardware \/ NoAudio
    BY <2>3 DEF Publish, Reconcile, Retune, ReadRate, SendHardware, NoAudio
  <2> QED BY <2>1, <2>2, <2>3 DEF Next, ThreadStep
<1>2. Passed' = Passed /\ Missing' = Missing
  BY <1>1 DEF Passed, Missing
<1> QED BY <1>1, <1>2 DEF Audio, Queues, Staged, Delivered, Counted, Room

LEMMA AudioStep ==
  ASSUME Audio, Room, [Next]_vars
  PROVE  Audio' /\ Room'
BY CaptureBounds, DeliverAudio, ReceiveAudio, EndAudio, DropAudio, KeepsAudio

LEMMA AudioInit == Init => Audio /\ Room
<1> SUFFICES ASSUME Init PROVE Audio /\ Room
  OBVIOUS
<1>1. /\ produced = 0 /\ backlog = <<>> /\ dropped = 0 /\ chan = <<>> /\ heard = {}
      /\ pc = "spawned" /\ Len(backlog) = 0 /\ Len(chan) = 0
      /\ backlog \in Seq(Nat) /\ chan \in Seq(Nat)
  BY DEF Init
<1>2. Passed = 0
  <2>1. produced = 0 /\ Len(backlog) = 0
    BY <1>1
  <2> QED BY ONLY <2>1 DEF Passed
<1>4. Missing = {}
  <2>1. 1 .. 0 = {}
    OBVIOUS
  <2> QED BY <1>2, <2>1 DEF Missing
<1>3. Cardinality(Missing) = 0
  BY <1>4, FS_EmptySet
<1> QED BY <1>1, <1>2, <1>3, <1>4, CaptureBounds DEF Audio, Queues, Staged, Delivered, Counted, Room

\* However slowly the worker takes its audio, it gets the chunks in order and
\* once; those missing are the ones counted, and the newest Depth never are
\* (deliver_audio in audio/sdr/pipeline.rs).
THEOREM OverrunIsCounted == Spec => []OldestDroppedAndCounted
<1>1. Audio => OldestDroppedAndCounted
  <2> SUFFICES ASSUME Audio, held PROVE OldestDroppedAndCounted
    BY DEF OldestDroppedAndCounted
  <2> DEFINE kept == chan \o backlog
  <2>1. /\ chan \in Seq(Nat) /\ backlog \in Seq(Nat) /\ produced \in Nat
        /\ Len(chan) \in Nat /\ Len(backlog) \in Nat /\ Len(backlog) <= produced
        /\ Passed \in Nat /\ produced = Passed + Len(backlog)
    BY LenProperties DEF Audio, Queues, Passed
  <2>2. /\ kept \in Seq(Nat) /\ Len(kept) = Len(chan) + Len(backlog)
        /\ \A i \in 1 .. Len(chan) + Len(backlog) :
              kept[i] = IF i <= Len(chan) THEN chan[i] ELSE backlog[i - Len(chan)]
    BY <2>1, ConcatProperties
  <2> HIDE DEF kept
  <2>3. ASSUME NEW i \in 1 .. Len(kept)
        PROVE  \/ i \in 1 .. Len(chan) /\ kept[i] = chan[i] /\ kept[i] \in 1 .. Passed
               \/ /\ i - Len(chan) \in 1 .. Len(backlog)
                  /\ kept[i] = Passed + (i - Len(chan))
    <3>1. CASE i <= Len(chan)
      <4>1. i \in 1 .. Len(chan) /\ kept[i] = chan[i]
        BY <2>1, <2>2, <3>1
      <4> QED BY <4>1 DEF Audio, Delivered
    <3>2. CASE ~(i <= Len(chan))
      <4>1. i - Len(chan) \in 1 .. Len(backlog) /\ kept[i] = backlog[i - Len(chan)]
        BY <2>1, <2>2, <3>2
      <4> QED BY <4>1 DEF Audio, Staged
    <3> QED BY <3>1, <3>2
  <2>4. ASSUME NEW i \in 1 .. Len(kept) - 1
        PROVE  kept[i] < kept[i + 1]
    <3>1. i \in 1 .. Len(kept) /\ i + 1 \in 1 .. Len(kept)
      BY <2>1, <2>2
    <3>2. CASE i + 1 \in 1 .. Len(chan)
      <4>1. i \in 1 .. Len(chan) /\ kept[i] = chan[i] /\ kept[i + 1] = chan[i + 1] /\ i < i + 1
        BY SMTT(20), <2>1, <2>2, <3>1, <3>2
      <4> QED BY <3>2, <4>1 DEF Audio, Delivered
    <3>3. CASE i + 1 \notin 1 .. Len(chan)
      <4>1. /\ i + 1 - Len(chan) \in 1 .. Len(backlog)
            /\ kept[i + 1] = Passed + (i + 1 - Len(chan))
        BY <2>3, <3>1, <3>3
      <4>2. kept[i] \in 1 .. Passed \/ kept[i] = Passed + (i - Len(chan))
        BY <2>3, <3>1
      <4> QED BY <2>1, <3>1, <4>1, <4>2
    <3> QED BY <3>2, <3>3
  <2>5. ASSUME NEW h \in heard, NEW i \in 1 .. Len(kept)
        PROVE  h < kept[i]
    <3>1. CASE i \in 1 .. Len(chan) /\ kept[i] = chan[i]
      BY <3>1 DEF Audio, Delivered
    <3>2. CASE i - Len(chan) \in 1 .. Len(backlog) /\ kept[i] = Passed + (i - Len(chan))
      <4>1. h \in 1 .. Passed
        BY DEF Audio, Delivered
      <4> QED BY <2>1, <3>2, <4>1
    <3> QED BY <2>3, <3>1, <3>2
  <2>6. (1 .. produced) \ (heard \cup ToSet(kept)) = Missing
    <3>1. /\ ToSet(chan) = {chan[i] : i \in 1 .. Len(chan)}
          /\ ToSet(kept) = {kept[i] : i \in 1 .. Len(kept)}
      BY ONLY <2>1, <2>2, Chunks
    <3>2. \A x \in ToSet(kept) : x \in ToSet(chan) \/ x \in Passed + 1 .. produced
      <4> SUFFICES ASSUME NEW i \in 1 .. Len(kept)
                   PROVE  kept[i] \in ToSet(chan) \/ kept[i] \in Passed + 1 .. produced
        BY <3>1
      <4>1. CASE i \in 1 .. Len(chan) /\ kept[i] = chan[i]
        BY <3>1, <4>1
      <4>2. CASE i - Len(chan) \in 1 .. Len(backlog) /\ kept[i] = Passed + (i - Len(chan))
        BY <2>1, <4>2
      <4> QED BY <2>3, <4>1, <4>2
    <3>3. ASSUME NEW i \in 1 .. Len(chan) PROVE chan[i] \in ToSet(kept)
      <4>1. i \in 1 .. Len(kept) /\ kept[i] = chan[i]
        BY <2>1, <2>2
      <4> QED BY <3>1, <4>1
    <3>4. ASSUME NEW x \in Passed + 1 .. produced PROVE x \in ToSet(kept)
      <4> DEFINE i == Len(chan) + (x - Passed)
      <4>1. i \in 1 .. Len(kept) /\ i - Len(chan) = x - Passed /\ Passed + (x - Passed) = x
            /\ i \notin 1 .. Len(chan)
        BY <2>1, <2>2
      <4> HIDE DEF i
      <4>2. kept[i] = x
        BY <2>3, <4>1
      <4> QED BY <3>1, <4>1, <4>2
    <3>5. \A x \in ToSet(chan) : x \in ToSet(kept)
      BY <3>1, <3>3
    <3> HIDE <3>1
    <3> QED BY <2>1, <3>2, <3>4, <3>5 DEF Missing
  <2> QED BY <2>4, <2>5, <2>6 DEF OldestDroppedAndCounted, Audio, Counted, kept
<1>2. Audio /\ Room /\ [Next]_vars => (Audio /\ Room)'
  BY AudioStep
<1> QED BY <1>1, <1>2, AudioInit, PTL DEF Spec

-----------------------------------------------------------------------------
(* Types, and changes. *)

\* Every variable keeps its type: a command's stores are those it planned,
\* the queues their bounds, and the thread's generation is never ahead of the
\* cell's.
THEOREM SdrTypes == Spec => []TypeOK
<1>1. Program /\ Fields /\ Audio /\ Room => TypeOK
  <2> SUFFICES ASSUME Program, Fields, Audio, Room PROVE TypeOK
    OBVIOUS
  <2>1. setter \in Seq({"center", "offset", "rate", "bump"} \X Int)
    <3> DEFINE S == {"center", "offset", "rate", "bump"} \X Int
    <3>1. Rates \subseteq Int
      BY CaptureBounds DEF CaptureBounds
    <3>2. << <<"bump", 0>> >> \in Seq(S)
      OBVIOUS
    <3>3. \A r \in Rates : RateStores(r) \in Seq(S)
      BY <3>1 DEF RateStores
    <3>4. \A c, o \in Int : TuneStores(c, o) \in Seq(S) /\ TuneStores(c, o) # <<>>
      BY DEF TuneStores
    <3>5. \A c, o \in Int :
             << <<"bump", 0>>, <<"offset", o>>, <<"bump", 0>> >> \in Seq(S)
      OBVIOUS
    <3>6. \A o \in Int : << <<"offset", o>>, <<"bump", 0>> >> \in Seq(S)
      OBVIOUS
    <3>7. \A c, o \in Int : /\ Tail(TuneStores(c, o)) \in Seq(S)
                            /\ Tail(Tail(TuneStores(c, o))) \in Seq(S)
      BY <3>5, <3>6, Programs, CaptureBounds DEF CaptureBounds
    <3>8. <<>> \in Seq(S)
      OBVIOUS
    <3> HIDE DEF S
    <3> QED BY <3>2, <3>3, <3>4, <3>7, <3>8 DEF Program, S
  <2>2. /\ Len(backlog) \in Nat /\ Len(backlog) <= produced /\ produced \in Nat
        /\ dropped \in Nat
    BY LenProperties DEF Audio, Queues
  <2>3. produced \in 0 .. MaxBlocks /\ dropped \in 0 .. produced /\ heard \subseteq 1 .. produced
    BY <2>2, CaptureBounds DEF CaptureBounds, Audio, Delivered, Room, Passed
  <2>4. Len(backlog) <= Depth /\ Len(chan) <= Depth
    BY DEF Audio, Queues
  <2> QED BY <2>1, <2>3, <2>4 DEF TypeOK, Fields, Flags, Cells, Phases
<1>2. Audio /\ Room /\ [Next]_vars => (Audio /\ Room)'
  BY AudioStep
<1>3. Program /\ Fields /\ [Next]_vars => (Program /\ Fields)'
  BY FieldsStep, CaptureBounds
<1> QED BY <1>1, <1>2, <1>3, AudioInit, FieldsInit, PTL DEF Spec

\* The thread has seen the newest announcement since it began, and no store
\* awaits its own.
Followed == seenGen = generation /\ generation # startGen /\ ~Announcing

\* Then the chain is the cell's from the retune on ...
ChainFollows ==
    Followed /\ pc \notin {"spawned", "built", "retune", "ended"} =>
        chain = [offset |-> cell.offset, rate |-> cell.rate]

\* ... and so is the dongle, unless a dead link took the command nowhere: then
\* the handshake of the reconnect programs it.
DongleFollows ==
    Followed /\ (pc = "publish" \/ (pc \in {"read", "reconcile", "demodulate"} /\ linkUp)) =>
        dongle.center = cell.center

\* Whatever was stored before the last bump is applied after it.
LEMMA FollowsStep ==
  ASSUME Program, Fields, CaptureBounds, ChainFollows, DongleFollows, [Next]_vars
  PROVE  ChainFollows' /\ DongleFollows'
<1>0. generation \in Nat /\ seenGen \in 0 .. generation /\ startGen \in 0 .. seenGen
  BY DEF Fields
<1>1. CASE SetSdrTune \/ ConfigureSdr \/ SetterStep
  <2>1. UNCHANGED <<pc, chain, seenGen, startGen, dongle, linkUp>>
    BY <1>1 DEF SetSdrTune, ConfigureSdr, SetterStep, chainVars, linkVars
  <2>2. CASE SetSdrTune \/ ConfigureSdr
    <3>1. UNCHANGED <<cell, generation>> /\ ~Announcing
      BY <2>2, Commands DEF SetSdrTune, ConfigureSdr
    <3> QED BY <2>1, <3>1 DEF ChainFollows, DongleFollows, Followed
  <2>3. CASE SetterStep
    <3>1. ~Followed'
      BY <1>0, <2>1, <2>3, Stores DEF Followed
    <3> QED BY <3>1 DEF ChainFollows, DongleFollows
  <2> QED BY <1>1, <2>2, <2>3
<1>2. CASE ~(SetSdrTune \/ ConfigureSdr \/ SetterStep)
  <2>1. UNCHANGED <<cell, generation, Announcing>>
    BY <1>2, Others DEF coreVars, Announcing
  <2>2. CASE BuildChain \/ ReadGeneration
    <3>1. pc' = "built" \/ startGen' = generation'
      BY <2>1, <2>2 DEF BuildChain, ReadGeneration
    <3> QED BY <3>1 DEF ChainFollows, DongleFollows, Followed
  <2>3. CASE ReadBlock \/ ReadFails \/ NoAudio \/ Deliver \/ ConsumerGone
    <3>1. /\ UNCHANGED <<chain, seenGen, startGen, dongle, linkUp>>
          /\ \/ pc \in {"read", "demodulate"} /\ pc' \in {"reconcile", "read", "ended"}
             \/ pc = "read" /\ pc' = "backoff"
      BY <2>3 DEF ReadBlock, ReadFails, NoAudio, Deliver, ConsumerGone, End, chainVars, linkVars
    <3> QED BY <2>1, <3>1 DEF ChainFollows, DongleFollows, Followed
  <2>4. CASE Handshake
    <3>1. /\ UNCHANGED <<chain, seenGen, startGen>> /\ pc = "backoff" /\ pc' = "publish"
          /\ dongle'.center = cell.center
      BY <2>4 DEF Handshake, chainVars
    <3> QED BY <2>1, <3>1 DEF ChainFollows, DongleFollows, Followed
  <2>5. CASE Publish
    <3>1. UNCHANGED <<chain, seenGen, startGen, dongle>> /\ pc = "publish" /\ pc' = "read"
      BY <2>5 DEF Publish, chainVars
    <3> QED BY <2>1, <3>1 DEF ChainFollows, DongleFollows, Followed
  <2>6. CASE Reconcile
    <3>1. /\ UNCHANGED <<chain, startGen, dongle, linkUp>> /\ pc = "reconcile"
          /\ pc' = "retune" \/ (pc' = "demodulate" /\ seenGen = generation /\ seenGen' = seenGen)
      BY <2>6 DEF Reconcile, linkVars
    <3> QED BY <2>1, <3>1 DEF ChainFollows, DongleFollows, Followed
  <2>7. CASE Retune
    <3>1. pc' = "apply" /\ chain' = [offset |-> cell.offset, rate |-> cell.rate]
      BY <2>7 DEF Retune
    <3> QED BY <2>1, <3>1 DEF ChainFollows, DongleFollows, Followed
  <2>8. CASE ReadRate \/ SendHardware
    <3>1. /\ UNCHANGED <<chain, seenGen, startGen, linkUp>>
          /\ \/ pc = "apply" /\ pc' = "command"
             \/ /\ pc = "command" /\ pc' = "demodulate"
                /\ linkUp => dongle'.center = cell.center
      BY <2>8 DEF ReadRate, SendHardware, chainVars
    <3> QED BY <2>1, <3>1 DEF ChainFollows, DongleFollows, Followed
  <2>9. CASE LinkDrops \/ Receive \/ DropHandle \/ UNCHANGED vars
    <3>1. /\ UNCHANGED <<pc, chain, seenGen, startGen, dongle>>
          /\ linkUp' = linkUp \/ ~linkUp'
      BY <2>9 DEF LinkDrops, Receive, DropHandle, vars, chainVars, linkVars
    <3> QED BY <2>1, <3>1 DEF ChainFollows, DongleFollows, Followed
  <2> QED BY <1>2, <2>2, <2>3, <2>4, <2>5, <2>6, <2>7, <2>8, <2>9 DEF Next, ThreadStep
<1> QED BY <1>1, <1>2

\* The rate noted as sent is the dongle's, and that read to be sent the cell's
\* still, unless one was stored in between.
RateNoted ==
    /\ pc = "publish" => dongle.rate = cell.rate \/ slipped
    /\ linkUp /\ pc = "command" =>
          \/ rateRead = lastRate /\ (dongle.rate = lastRate \/ slipped)
          \/ rateRead # lastRate /\ (cell.rate = rateRead \/ slipped)
    /\ linkUp /\ pc \notin {"publish", "command"} => dongle.rate = lastRate \/ slipped

\* Of a change that was seen, the rate is noted.
RateFollows ==
    Followed =>
        /\ pc = "command" => rateRead = cell.rate
        /\ pc \in {"read", "reconcile", "demodulate"} /\ linkUp => lastRate = cell.rate

LEMMA RateNotedStep ==
  ASSUME Program, Fields, CaptureBounds, RateNoted, [Next]_vars
  PROVE  RateNoted'
<1>0. slipped \in BOOLEAN
  BY DEF Fields, Flags
<1>1. CASE SetSdrTune \/ ConfigureSdr
  BY <1>1 DEF SetSdrTune, ConfigureSdr, linkVars, RateNoted
<1>2. CASE SetterStep
  <2>1. UNCHANGED <<pc, dongle, lastRate, rateRead, linkUp>>
        /\ slipped' = (slipped \/ (Head(setter)[1] = "rate" /\ Programming))
    BY <1>2 DEF SetterStep
  <2>2. cell'.rate = cell.rate \/ Head(setter)[1] = "rate"
    <3>1. /\ Head(setter)[1] = "bump" => cell' = cell
          /\ Head(setter)[1] # "bump" => cell' = [cell EXCEPT ![Head(setter)[1]] = Head(setter)[2]]
      BY <1>2 DEF SetterStep
    <3>2. Head(setter)[1] # "bump" /\ Head(setter)[1] # "rate" => cell'.rate = cell.rate
      BY <3>1 DEF Fields, Cells
    <3> QED BY <3>1, <3>2
  <2>3. slipped => slipped'
    BY <1>0, <2>1
  <2>4. Programming => slipped' \/ cell'.rate = cell.rate
    BY <1>0, <2>1, <2>2
  <2> QED BY <2>1, <2>3, <2>4 DEF RateNoted, Programming
<1>3. CASE Handshake
  BY <1>3 DEF Handshake, RateNoted, coreVars
<1>4. CASE Publish
  BY <1>4 DEF Publish, RateNoted
<1>5. CASE ReadRate
  BY <1>0, <1>5 DEF ReadRate, RateNoted, coreVars
<1>6. CASE SendHardware
  <2>1. pc = "command" /\ pc' = "demodulate" /\ linkUp' = linkUp /\ slipped' = slipped
    BY <1>6 DEF SendHardware
  <2>2. linkUp => /\ dongle'.rate = IF lastRate # rateRead THEN cell.rate ELSE dongle.rate
                  /\ lastRate' = rateRead
    BY <1>6 DEF SendHardware
  <2> QED BY <2>1, <2>2 DEF RateNoted
<1>7. CASE ReadBlock \/ ReadFails \/ BuildChain \/ ReadGeneration \/ Reconcile \/ Retune
           \/ NoAudio \/ Deliver \/ ConsumerGone
  <2>1. /\ UNCHANGED <<dongle, lastRate, slipped, linkUp>>
        /\ pc \notin {"publish", "command"} /\ pc' \notin {"publish", "command"}
    BY <1>7 DEF ReadBlock, ReadFails, BuildChain, ReadGeneration, Reconcile, Retune, NoAudio,
                Deliver, ConsumerGone, End, linkVars
  <2> QED BY <2>1 DEF RateNoted
<1>8. CASE LinkDrops \/ Receive \/ DropHandle \/ UNCHANGED vars
  <2>1. /\ UNCHANGED <<pc, cell, dongle, lastRate, rateRead, slipped>>
        /\ linkUp' = linkUp \/ ~linkUp'
    BY <1>8 DEF LinkDrops, Receive, DropHandle, vars, coreVars, linkVars
  <2> QED BY <2>1 DEF RateNoted
<1> QED BY <1>1, <1>2, <1>3, <1>4, <1>5, <1>6, <1>7, <1>8 DEF Next, ThreadStep

LEMMA RateFollowsStep ==
  ASSUME Program, Fields, CaptureBounds, RateFollows, [Next]_vars
  PROVE  RateFollows'
<1>0. generation \in Nat /\ seenGen \in 0 .. generation /\ startGen \in 0 .. seenGen
  BY DEF Fields
<1>1. CASE SetSdrTune \/ ConfigureSdr
  <2>1. UNCHANGED <<pc, seenGen, startGen, lastRate, rateRead, linkUp, cell, generation>>
        /\ ~Announcing
    BY <1>1, Commands DEF SetSdrTune, ConfigureSdr, chainVars, linkVars
  <2> QED BY <2>1 DEF RateFollows, Followed
<1>2. CASE SetterStep
  <2>1. UNCHANGED <<seenGen, startGen>>
    BY <1>2 DEF SetterStep, chainVars
  <2>2. ~Followed'
    BY <1>0, <1>2, <2>1, Stores DEF Followed
  <2> QED BY <2>2 DEF RateFollows
<1>3. CASE ~(SetSdrTune \/ ConfigureSdr \/ SetterStep)
  <2>1. UNCHANGED <<cell, generation, Announcing>>
    BY <1>3, Others DEF coreVars, Announcing
  <2>2. CASE BuildChain \/ ReadGeneration
    <3>1. pc' = "built" \/ startGen' = generation'
      BY <2>1, <2>2 DEF BuildChain, ReadGeneration
    <3> QED BY <3>1 DEF RateFollows, Followed
  <2>3. CASE ReadBlock \/ ReadFails \/ NoAudio \/ Deliver \/ ConsumerGone
    <3>1. /\ UNCHANGED <<seenGen, startGen, lastRate, rateRead, linkUp>>
          /\ \/ pc \in {"read", "demodulate"} /\ pc' \in {"reconcile", "read", "ended"}
             \/ pc = "read" /\ pc' = "backoff"
      BY <2>3 DEF ReadBlock, ReadFails, NoAudio, Deliver, ConsumerGone, End, chainVars, linkVars
    <3> QED BY <2>1, <3>1 DEF RateFollows, Followed
  <2>4. CASE Handshake \/ Publish
    <3>1. pc' = "publish" \/ lastRate' = cell.rate
      BY <2>4 DEF Handshake, Publish
    <3>2. pc' \in {"publish", "read"}
      BY <2>4 DEF Handshake, Publish
    <3> QED BY <2>1, <3>1, <3>2 DEF RateFollows, Followed
  <2>5. CASE Reconcile
    <3>1. /\ UNCHANGED <<startGen, lastRate, linkUp>> /\ pc = "reconcile"
          /\ pc' = "retune" \/ (pc' = "demodulate" /\ seenGen = generation /\ seenGen' = seenGen)
      BY <2>5 DEF Reconcile, linkVars
    <3> QED BY <2>1, <3>1 DEF RateFollows, Followed
  <2>6. CASE Retune
    BY <2>6 DEF Retune, RateFollows
  <2>7. CASE ReadRate \/ SendHardware
    <3>1. /\ UNCHANGED <<seenGen, startGen, linkUp>>
          /\ \/ pc' = "command" /\ rateRead' = cell.rate
             \/ /\ pc = "command" /\ pc' = "demodulate"
                /\ linkUp => lastRate' = rateRead
      BY <2>7 DEF ReadRate, SendHardware, chainVars
    <3> QED BY <2>1, <3>1 DEF RateFollows, Followed
  <2>8. CASE LinkDrops \/ Receive \/ DropHandle \/ UNCHANGED vars
    <3>1. /\ UNCHANGED <<pc, seenGen, startGen, lastRate, rateRead>>
          /\ linkUp' = linkUp \/ ~linkUp'
      BY <2>8 DEF LinkDrops, Receive, DropHandle, vars, chainVars, linkVars
    <3> QED BY <2>1, <3>1 DEF RateFollows, Followed
  <2> QED BY <1>3, <2>2, <2>3, <2>4, <2>5, <2>6, <2>7, <2>8 DEF Next, ThreadStep
<1> QED BY <1>1, <1>2, <1>3

\* A running capture that sees a change makes the whole of it: once the thread
\* has seen the last bump and is past applying it on a standing link, the chain
\* and the dongle's frequency are as the cell says and together on the one last
\* asked for, and the dongle's rate is the cell's unless it was stored between
\* the transport's two reads of it, for any number of commands, blocks and
\* reconnects.
THEOREM ChangesReach == Spec => []ChangesReachCapture
<1> DEFINE Follows == ChainFollows /\ DongleFollows /\ RateNoted /\ RateFollows
<1>1. Init => Follows
  BY DEF Init, ChainFollows, DongleFollows, RateNoted, RateFollows, Followed
<1>2. Program /\ Fields /\ Follows => ChangesReachCapture
  <2> SUFFICES ASSUME Program, Fields, ChainFollows, DongleFollows, RateNoted, RateFollows,
                      Settled, generation # startGen
               PROVE  /\ Tuned
                      /\ wanted # 0 => dongle.center + chain.offset = wanted
    BY DEF ChangesReachCapture
  <2>1. setter = <<>> /\ Followed
    BY DEF Settled, Followed, Announcing
  <2>2. OnTarget
    BY <2>1 DEF Program, TuneStores, RateStores
  <2>3. chain = [offset |-> cell.offset, rate |-> cell.rate] /\ dongle.center = cell.center
    BY <2>1 DEF ChainFollows, DongleFollows, Settled
  <2>4. dongle.rate = cell.rate \/ slipped
    BY <2>1 DEF RateNoted, RateFollows, Settled
  <2> QED BY <2>2, <2>3, <2>4 DEF Tuned, OnTarget
<1>3. Program /\ Fields /\ [Next]_vars => (Program /\ Fields)'
  BY FieldsStep, CaptureBounds
<1>4. Program /\ Fields /\ Follows /\ [Next]_vars => Follows'
  BY FollowsStep, RateNotedStep, RateFollowsStep, CaptureBounds
<1> HIDE DEF Follows
<1> QED BY <1>1, <1>2, <1>3, <1>4, FieldsInit, PTL DEF Spec
=============================================================================
