----------------------------- MODULE AdsbDemod -----------------------------
(***************************************************************************)
(* The Mode S demodulator of an ADS-B channel (demod2400.rs) and its       *)
(* roster of addresses heard in the clear (roster.rs), fed in pieces.      *)
(*                                                                         *)
(* Of a sample counts what slicing gives when it is taken for the start of *)
(* a preamble: nothing if the preamble tests reject it, or one slice per   *)
(* phase that is tried, in the order they are tried.  A slice is its       *)
(* format, the address in it (for an overlaid format the residual, which   *)
(* is the address if the slice is good), what is wrong with it, and what a *)
(* squitter says.                                                          *)
(***************************************************************************)
EXTENDS Integers, Sequences, SequencesExt, FiniteSets

CONSTANTS
    Signals,     \* sequences of samples, each a sequence of slices
    ChunkSizes,  \* samples per feed
    Guard,       \* samples held back, GUARD in the code
    Short, Long, \* samples a short and a long frame reach
    RosterCap    \* ROSTER_CAP, 4096 in the code

ASSUME GuardCoversFrame == 0 < Short /\ Short <= Long /\ Long <= Guard
ASSUME CapHoldsOne == RosterCap \in Nat \ {0}
ASSUME SampleCounts == {Guard, Short, Long} \cup ChunkSizes \subseteq Nat
ASSUME SignalsAreSequences ==
    \A s \in Signals : Len(s) \in Nat /\ s = [i \in 1..Len(s) |-> s[i]]

VARIABLES
    signal,   \* what is received, from the first sample on
    fed,      \* how many samples of it the demodulator got
    base,     \* how many of them it is done with
    order,    \* the roster, oldest address first
    frames,   \* what it emitted, with the position in the stream
    flushed,  \* the capture has ended and the rest was scanned
    cut       \* what the zeros behind the end did to a slice that needed them

demodVars == <<signal, fed, base, order, frames, flushed, cut>>

-----------------------------------------------------------------------------

InTheClear == {"adsb", "tisb"}

\* DF0, 4 and 5, and DF16, 20 and 21.
Overlaid == {"overlaid", "longoverlaid"}

\* candidate_msg_bits: how far a slice of this format reaches.
Span(slice) ==
    IF slice.df \in InTheClear \union {"longoverlaid"} THEN Long ELSE Short

\* Accepted or not, and how good: 0 is rejected.
Score(slice, known) ==
    CASE slice.df \in InTheClear /\ slice.damage = "none" ->
            IF known THEN 1800 ELSE 1400
      [] slice.df \in InTheClear /\ slice.damage = "single" ->
            IF known THEN 900 ELSE 700
      [] slice.df = "allcall" /\ slice.damage = "none" ->
            IF known THEN 1600 ELSE 750
      [] slice.df = "allcall" /\ slice.damage = "iid" /\ known -> 1000
      [] slice.df = "allcall" /\ slice.damage = "single" /\ known -> 900
      [] slice.df \in Overlaid /\ slice.damage = "none" /\ known -> 1000
      [] OTHER -> 0

\* Mutant: whatever is accepted with an address in the clear seeds the roster.
SeedsRepaired(slice) == slice.df \in InTheClear \union {"allcall"}

\* A frame that proves its address.
Seeds(slice) == slice.df \in {"adsb", "allcall"} /\ slice.damage = "none"

Note(roster, icao) ==
    IF icao \in ToSet(roster)
    THEN LET pos == CHOOSE i \in DOMAIN roster : roster[i] = icao
         IN  Append(RemoveAt(roster, pos), icao)
    ELSE Append(IF Len(roster) = RosterCap THEN Tail(roster) ELSE roster, icao)

\* The slices at position i; one that reaches behind end is damaged there.
Slices(i, end, damage) ==
    [k \in DOMAIN signal[i] |->
        LET slice == signal[i][k]
        IN  IF i + Span(slice) - 1 <= end \/ slice.damage = "more"
            THEN slice
            ELSE [slice EXCEPT !.damage = damage]]

\* The slice with the highest score, the first of them; 0 if none is accepted.
Best(slices, heard) ==
    LET score(k) == Score(slices[k], slices[k].icao \in heard)
        best == {k \in DOMAIN slices :
                    /\ score(k) > 0
                    /\ \A j \in DOMAIN slices :
                          score(j) <= score(k) /\ (j < k => score(j) < score(k))}
    IN  IF best = {} THEN 0 ELSE CHOOSE k \in best : TRUE

\* One position of the scan; an accepted frame is skipped over.
At(scan, i, end, damage) ==
    LET slices == Slices(i, end, damage)
        best == Best(slices, ToSet(scan.order))
    IN  IF i < scan.next \/ best = 0 THEN scan
        ELSE [next |-> i + Span(slices[best]),
              order |-> IF Seeds(slices[best])
                        THEN Note(scan.order, slices[best].icao)
                        ELSE scan.order,
              frames |-> Append(scan.frames, [slice |-> slices[best], at |-> i])]

\* scan_buf over the positions base + 1 to base + stop of a buffer up to end.
Scan(stop, end, damage) ==
    LET upTo[k \in 0..stop] ==
            IF k = 0 THEN [next |-> base + 1, order |-> order, frames |-> frames]
            ELSE At(upTo[k - 1], base + k, end, damage)
    IN  upTo[stop]

Larger(a, b) == IF a < b THEN b ELSE a

-----------------------------------------------------------------------------

DemodInit ==
    /\ signal \in Signals
    /\ fed = 0 /\ base = 0
    /\ order = <<>>
    /\ frames = <<>>
    /\ flushed = FALSE
    /\ cut = "none"

\* Mutant: the samples of a frame that ends behind the scan are scanned again.
FeedForgetsEnd(n) ==
    /\ ~flushed
    /\ fed + n <= Len(signal)
    /\ fed' = fed + n
    /\ LET stop == Larger(0, fed' - base - Guard)
           scan == Scan(stop, fed', "more")
       IN  /\ base' = base + stop
           /\ order' = scan.order
           /\ frames' = scan.frames
    /\ UNCHANGED <<signal, flushed, cut>>

\* feed: a slice from a scanned position ends before the samples do.
Feed(n) ==
    /\ ~flushed
    /\ fed + n <= Len(signal)
    /\ fed' = fed + n
    /\ LET stop == Larger(0, fed' - base - Guard)
           scan == Scan(stop, fed', "more")
       IN  /\ base' = Larger(base + stop, scan.next - 1)
           /\ order' = scan.order
           /\ frames' = scan.frames
    /\ UNCHANGED <<signal, flushed, cut>>

\* The next n samples never come: what reached into them goes on with those
\* behind.
Lose(n) ==
    /\ ~flushed
    /\ fed + n <= Len(signal)
    /\ \E damage \in {"none", "single", "more"} :
          signal' = [i \in 1..(Len(signal) - n) |->
                        IF i <= fed THEN Slices(i, fed, damage) ELSE signal[i + n]]
    /\ UNCHANGED <<fed, base, order, frames, flushed, cut>>

Flush ==
    /\ ~flushed
    /\ fed = Len(signal)
    /\ flushed' = TRUE
    /\ cut' \in {"none", "single", "more"}
    /\ LET scan == Scan(fed - base, fed, cut')
       IN  /\ order' = scan.order
           /\ frames' = scan.frames
    /\ base' = fed
    /\ UNCHANGED <<signal, fed>>

-----------------------------------------------------------------------------

\* An undamaged squitter, or an undamaged reply that carries its address in the
\* clear.
Proof(slice) == slice.df \in {"adsb", "allcall"} /\ slice.damage = "none"

\* The addresses proved by the first n frames that fewer than RosterCap other
\* addresses have been proved after.
Noted(n) == {k \in 1..n : Proof(frames[k].slice)}

KnownAfter(n) ==
    {frames[k].slice.icao : k \in
        {k \in Noted(n) :
            Cardinality({frames[j].slice.icao : j \in
                {j \in Noted(n) : j > k}} \ {frames[k].slice.icao}) < RosterCap}}

\* The slice accepted at position i by a receiver that has heard n frames.
Heard(i, n) ==
    LET slices == Slices(i, Len(signal), cut)
        best == Best(slices, KnownAfter(n))
    IN  IF best = 0 THEN {} ELSE {slices[best]}

\* The first position behind the first n frames.
Behind(n) == IF n = 0 THEN 1 ELSE frames[n].at + Span(frames[n].slice)

\* However the samples are cut into chunks: behind each frame the next is the
\* first that is acceptable to a receiver which knows the addresses proved most
\* recently, and up to where the demodulator is, none has been passed over
\* (demod2400.rs: a frame that straddles a chunk boundary is not lost).
HeardInTurn ==
    /\ \A k \in DOMAIN frames :
          /\ frames[k].at >= Behind(k - 1)
          /\ Heard(frames[k].at, k - 1) = {frames[k].slice}
          /\ \A i \in Behind(k - 1)..(frames[k].at - 1) : Heard(i, k - 1) = {}
    /\ \A i \in Behind(Len(frames))..base : Heard(i, Len(frames)) = {}

\* A frame whose parity does not vouch for its address by itself is emitted
\* only if the same address was proved before, and fewer than RosterCap others
\* since (roster.rs).
NothingInvented ==
    \A k \in DOMAIN frames :
        \/ frames[k].slice.df \in InTheClear
        \/ frames[k].slice.df = "allcall" /\ frames[k].slice.damage = "none"
        \/ frames[k].slice.icao \in KnownAfter(k - 1)

=============================================================================
