---------------------------------- MODULE Hdlc ----------------------------------
(***************************************************************************)
(* The link layer of the packet modem, bit by bit: HDLC framing with the   *)
(* X.25 check sequence (dsp/src/framing/hdlc.rs, dsp/src/fec/crc.rs) and   *)
(* NRZI line levels (dsp/src/fec/nrzi.rs). A payload is the sequence of    *)
(* the bits of its octets in the order of the wire, least significant      *)
(* first, so that octets need not be taken apart and put together again.   *)
(***************************************************************************)
EXTENDS Naturals, Sequences, FiniteSets

Bit == {0, 1}
Flag == <<0, 1, 1, 1, 1, 1, 1, 0>>

(* The reflected register of CRC-16/X.25 as the set of its one bits: it    *)
(* starts full, and the generator x^16 + x^12 + x^5 + 1 feeds back into    *)
(* bits 15, 10 and 3.                                                      *)
Taps == {15, 10, 3}
Shift(reg, b) ==
    LET moved == {k - 1 : k \in reg \ {0}}
    IN  IF (0 \in reg) = (b = 1) THEN moved
                                 ELSE (moved \ Taps) \union (Taps \ moved)

Fcs(payload) ==
    LET reg[i \in 0..Len(payload)] ==
            IF i = 0 THEN 0..15 ELSE Shift(reg[i - 1], payload[i])
    IN  [k \in 1..16 |-> IF k - 1 \in reg[Len(payload)] THEN 0 ELSE 1]

(* hdlc_frame: a zero after every fifth one in a row, flags around it.     *)
Stuff(s, b) ==
    IF b = 1 /\ s.ones = 4
    THEN [bits |-> s.bits \o <<1, 0>>, ones |-> 0]
    ELSE [bits |-> Append(s.bits, b), ones |-> IF b = 1 THEN s.ones + 1 ELSE 0]

HdlcFrame(payload) ==
    LET data == payload \o Fcs(payload)
        st[i \in 0..Len(data)] ==
            IF i = 0 THEN [bits |-> Flag, ones |-> 0] ELSE Stuff(st[i - 1], data[i])
    IN  st[Len(data)].bits \o Flag

(* Mutant: the check sequence is not compared.                             *)
FinishFrameUnchecked(collected) ==
    LET n == (Len(collected) \div 8) * 8
    IN  IF n >= 24 THEN <<SubSeq(collected, 1, n - 16)>> ELSE <<>>

(* finish_frame: the whole octets collected; none or one payload.          *)
FinishFrame(collected) ==
    LET n == (Len(collected) \div 8) * 8
        payload == SubSeq(collected, 1, n - 16)
    IN  IF n >= 24 /\ Fcs(payload) = SubSeq(collected, n - 15, n)
        THEN <<payload>> ELSE <<>>

(* hdlc_deframe, one bit. A flag closes what was collected since the one    *)
(* before it and opens the next frame. Nothing else delimits: the first    *)
(* seven bits of a flag are collected before it is recognised. A zero      *)
(* after five ones was stuffed. The ones are counted in eight bits.        *)
IsFlagEnd(bits, i) == i >= 8 /\ SubSeq(bits, i - 7, i) = Flag

Closing(scan) ==
    LET n == Len(scan.payload)
    IN  IF scan.collecting /\ n >= 7 THEN FinishFrame(SubSeq(scan.payload, 1, n - 7)) ELSE <<>>

Stuffed(scan, b) == scan.ones = 5 /\ b = 0

DeframeBit(scan, bits, i) ==
    IF IsFlagEnd(bits, i)
    THEN [collecting |-> TRUE, ones |-> 0, payload |-> <<>>,
          frames |-> scan.frames \o Closing(scan)]
    ELSE [scan EXCEPT
            !.payload = IF scan.collecting /\ ~Stuffed(scan, bits[i]) THEN Append(@, bits[i]) ELSE @,
            !.ones = IF scan.collecting /\ bits[i] = 1 THEN (@ + 1) % 256 ELSE 0]

Idling == [collecting |-> FALSE, ones |-> 0, payload |-> <<>>, frames |-> <<>>]

HdlcDeframe(bits) ==
    LET scan[i \in 0..Len(bits)] ==
            IF i = 0 THEN Idling ELSE DeframeBit(scan[i - 1], bits, i)
    IN  scan[Len(bits)].frames

(* NRZI: a zero changes the level, a one keeps it; before the first bit    *)
(* either side assumes level 0.                                            *)
NrziEncode(bits) ==
    [i \in 1..Len(bits) |-> Cardinality({k \in 1..i : bits[k] = 0}) % 2]

NrziDecode(levels) ==
    [i \in 1..Len(levels) |->
        IF levels[i] = (IF i = 1 THEN 0 ELSE levels[i - 1]) THEN 1 ELSE 0]
=============================================================================
