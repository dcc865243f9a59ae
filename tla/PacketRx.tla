-------------------------------- MODULE PacketRx --------------------------------
(***************************************************************************)
(* The AFSK 1200 packet modem from the bytes of a frame to the frames of   *)
(* the receiver (dsp/src/modes/afsk1200.rs): the modulator puts flags,     *)
(* HDLC frame and flags on the air as line levels; each lane of the        *)
(* receiving ensemble samples levels with its own slicer and bit clock,    *)
(* deframes its buffer at every octet, and the lanes' frames are           *)
(* deduplicated by content and time (dsp/src/ensemble.rs).                 *)
(*                                                                         *)
(* Time is counted in bits. Filters and slicers are abstracted to what a   *)
(* lane gets out of them: a level per bit, which may be wrong. While there *)
(* was no signal to lock to, the clocks ran free, so the buffers that the  *)
(* lanes start with differ in length.                                      *)
(***************************************************************************)
EXTENDS Hdlc

CONSTANTS
    Payload,          \* contents of frames, as bits
    Lanes,            \* how many lanes the ensemble has
    PreambleFlags,    \* PREAMBLE_FLAGS
    PostambleFlags,   \* POSTAMBLE_FLAGS
    MaxLevels,        \* MAX_LEVELS
    Window,           \* the deduplication window, in bits
    Noise,            \* what may be heard between transmissions, as levels
    Idle,             \* how many levels of silence a lane may hold at first
    FlipAt,           \* the places, counted from the end, where a level may be wrong
    MaxSent,          \* bound: frames sent
    MaxNoise,         \* bound: stretches of noise
    MaxFlips          \* bound: wrong levels

ASSUME PacketRxAssumption ==
    /\ {Lanes, PreambleFlags, PostambleFlags, MaxLevels, Window} \subseteq Nat \ {0}
    /\ {MaxSent, MaxNoise, MaxFlips} \subseteq Nat
    /\ MaxLevels % 16 = 0 /\ Idle \subseteq 0..MaxLevels
    /\ FlipAt \subseteq Nat \ {0}

Lane == 1..Lanes

VARIABLES
    air,        \* levels on the air that were not heard yet
    burst,      \* whether they are a frame that was sent, or noise
    sent,       \* per frame sent: its payload, and the lanes that heard all of it right
    levels,     \* per lane, BitAssembler.levels
    heard,      \* sample_index, in bits
    seen,       \* DedupWindow.seen: payload and offset
    latest,     \* DedupWindow.latest
    frames,     \* frames the demodulator returned: payload and offset
    noises, flips
vars == <<air, burst, sent, levels, heard, seen, latest, frames, noises, flips>>

Init ==
    /\ air = <<>> /\ burst = FALSE /\ sent = <<>> /\ frames = <<>>
    /\ levels \in [Lane -> {[i \in 1..n |-> 1] : n \in Idle}]
    /\ heard = 0 /\ seen = {} /\ latest = 0
    /\ noises = 0 /\ flips = 0
-----------------------------------------------------------------------------
(* The sender. *)

PreambleBits(n) == [i \in 1..(8 * n) |-> Flag[((i - 1) % 8) + 1]]

Modulate(p) ==
    NrziEncode(PreambleBits(PreambleFlags) \o HdlcFrame(p) \o PreambleBits(PostambleFlags))

Transmit(p) ==
    /\ air = <<>> /\ Len(sent) < MaxSent
    /\ air' = Modulate(p) /\ burst' = TRUE
    /\ sent' = Append(sent, [payload |-> p, intact |-> Lane])
    /\ UNCHANGED <<levels, heard, seen, latest, frames, noises, flips>>

Disturb(noise) ==
    /\ air = <<>> /\ noises < MaxNoise
    /\ air' = noise /\ burst' = FALSE
    /\ noises' = noises + 1
    /\ UNCHANGED <<sent, levels, heard, seen, latest, frames, flips>>
-----------------------------------------------------------------------------
(* The receiver. *)

(* Mutant: cuts the buffer down to a quarter.                              *)
BoundedToQuarter(buf) ==
    IF Len(buf) > MaxLevels
    THEN SubSeq(buf, Len(buf) - MaxLevels \div 4 + 1, Len(buf)) ELSE buf

Bounded(buf) ==
    IF Len(buf) > MaxLevels
    THEN SubSeq(buf, Len(buf) - MaxLevels \div 2 + 1, Len(buf)) ELSE buf

(* BitAssembler::push for a sampled level: look for frames at each octet,  *)
(* forget the buffer once one is found.                                    *)
Assemble(buf) ==
    LET found == IF Len(buf) % 8 = 0 THEN HdlcDeframe(NrziDecode(buf)) ELSE <<>>
    IN  [buf |-> IF found # <<>> THEN <<>>
                 ELSE IF Len(buf) % 8 = 0 THEN Bounded(buf) ELSE buf,
         found |-> found]

Near(a, b) == a <= b + Window /\ b <= a + Window

(* Mutant: only frames of the same instant are copies of each other.       *)
AdmitUnlessSimultaneous(r, payload, at) ==
    LET entry == [payload |-> payload, at |-> at]
    IN  [r EXCEPT !.latest = IF at > @ THEN at ELSE @,
                  !.seen = @ \union {entry},
                  !.out = IF entry \in r.seen THEN @ ELSE Append(@, entry)]

(* DedupWindow::admit *)
Admit(r, payload, at) ==
    LET known == \E s \in r.seen : s.payload = payload /\ Near(s.at, at)
        entry == [payload |-> payload, at |-> at]
    IN  [r EXCEPT !.latest = IF at > @ THEN at ELSE @,
                  !.seen = IF known THEN @ ELSE @ \union {entry},
                  !.out = IF known THEN @ ELSE Append(@, entry)]

AdmitAll(r, found, at) ==
    LET upTo[i \in 0..Len(found)] ==
            IF i = 0 THEN r ELSE Admit(upTo[i - 1], found[i], at)
    IN  upTo[Len(found)]

PushLevel(r, l, level, at) ==
    LET a == Assemble(Append(r.levels[l], level))
    IN  AdmitAll([r EXCEPT !.levels[l] = a.buf], a.found, at)

Prune(records, cutoff) == {s \in records : s.at + Window >= cutoff}

(* Afsk1200Ensemble::feed for the samples of one bit: each lane in turn.   *)
Feed(heardBy) ==
    LET at == heard + 1
        upTo[l \in 0..Lanes] ==
            IF l = 0 THEN [levels |-> levels, seen |-> seen, latest |-> latest, out |-> frames]
            ELSE PushLevel(upTo[l - 1], l, heardBy[l], at)
        r == upTo[Lanes]
    IN  /\ levels' = r.levels
        /\ latest' = r.latest
        /\ seen' = r.seen
        /\ frames' = r.out
        /\ heard' = at
        /\ air' = Tail(air)

Hear ==
    /\ air # <<>>
    /\ Feed([l \in Lane |-> air[1]])
    /\ UNCHANGED <<burst, sent, noises, flips>>

(* The level comes out wrong in the lanes of hit.                          *)
HearFlipped(hit) ==
    /\ burst /\ flips < MaxFlips /\ Len(air) \in FlipAt
    /\ Feed([l \in Lane |-> IF l \in hit THEN 1 - air[1] ELSE air[1]])
    /\ sent' = [sent EXCEPT ![Len(sent)].intact = @ \ hit]
    /\ flips' = flips + 1
    /\ UNCHANGED <<burst, noises>>

(* A chunk of the capture may end anywhere; feed then forgets the records  *)
(* that fell out of the window. prune_to_latest.                           *)
EndChunk ==
    /\ seen' = Prune(seen, latest)
    /\ seen' # seen
    /\ UNCHANGED <<air, burst, sent, levels, heard, latest, frames, noises, flips>>

Next ==
    \/ \E p \in Payload : Transmit(p)
    \/ \E noise \in Noise : Disturb(noise)
    \/ Hear
    \/ \E hit \in SUBSET Lane \ {{}} : HearFlipped(hit)
    \/ EndChunk

Spec == Init /\ [][Next]_vars
-----------------------------------------------------------------------------
SentCopies(p) == Cardinality({i \in DOMAIN sent : sent[i].payload = p})
IntactCopies(p) == Cardinality({i \in DOMAIN sent : sent[i].payload = p /\ sent[i].intact # {}})
Received(p) == Cardinality({i \in DOMAIN frames : frames[i].payload = p})

(* Nothing is made up: whatever the damage (a level flipped inside a flag  *)
(* or a stuffed run, a buffer cut in the middle of a frame, two bursts run *)
(* together), a frame that comes out was sent. hdlc_deframe, finish_frame. *)
ReceivedWasSent == \A i \in DOMAIN frames : SentCopies(frames[i].payload) > 0

(* One lane that hears a burst undamaged is enough, if the frame fits what *)
(* a cut leaves of a buffer: at its end the frame is out, whatever of the  *)
(* noise there is here the buffers held before, wherever in the octet the  *)
(* lane's count was, and also when the same frame was sent before.         *)
(* BitAssembler::push, Afsk1200Ensemble::feed, DedupWindow::admit.         *)
IntactReceived == air = <<>> => \A p \in Payload : Received(p) >= IntactCopies(p)

(* Two deliveries of one content are further apart than the window, over   *)
(* all lanes and chunk boundaries. DedupWindow::admit and prune.           *)
CloseCopiesMerged ==
    \A i, j \in DOMAIN frames :
        i < j /\ frames[i].payload = frames[j].payload => ~Near(frames[i].at, frames[j].at)
=============================================================================
