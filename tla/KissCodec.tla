-------------------------------- MODULE KissCodec --------------------------------
(***************************************************************************)
(* KISS framing (kiss/codec.rs): the encoder of a data frame and the       *)
(* decoder, which keeps its state between the chunks that a socket hands   *)
(* it. Bytes are told apart as far as the codec does: the four that KISS   *)
(* reserves, "x00", which as a command byte means data, and "x01", which   *)
(* as a command byte is a parameter.                                       *)
(***************************************************************************)
EXTENDS Naturals, Sequences

FEND == "FEND"
FESC == "FESC"
TFEND == "TFEND"
TFESC == "TFESC"
Byte == {FEND, FESC, TFEND, TFESC, "x00", "x01"}

(* encode_data_frame *)
Escape(b) ==
    CASE b = FEND -> <<FESC, TFEND>>
      [] b = FESC -> <<FESC, TFESC>>
      [] OTHER -> <<b>>

EncodeDataFrame(payload) ==
    LET escaped[i \in 0..Len(payload)] ==
            IF i = 0 THEN <<>> ELSE escaped[i - 1] \o Escape(payload[i])
    IN  <<FEND, "x00">> \o escaped[Len(payload)] \o <<FEND>>

(* KissDecoder: bytes of the frame in hand, whether there is one, whether  *)
(* the last byte was an escape.                                            *)
NewDecoder == [buf |-> <<>>, inFrame |-> FALSE, escaped |-> FALSE]

Unescape(b) == CASE b = TFEND -> FEND [] b = TFESC -> FESC [] OTHER -> b

(* take_frame and KissFrame::is_data: the low half of the command byte is  *)
(* the command, and it is 0 for 0x00 and for 0xC0.                         *)
TakeFrame(buf) == [cmd |-> Head(buf), data |-> Tail(buf)]
IsData(frame) == frame.cmd \in {"x00", FEND}

(* One byte of KissDecoder::push.                                          *)
NextState(d, b) ==
    CASE b = FEND -> [buf |-> <<>>, inFrame |-> TRUE, escaped |-> FALSE]
      [] b = FESC /\ d.inFrame -> [d EXCEPT !.escaped = TRUE]
      [] b # FEND /\ b # FESC /\ d.inFrame ->
            [d EXCEPT !.buf = Append(@, IF d.escaped THEN Unescape(b) ELSE b),
                      !.escaped = FALSE]
      [] OTHER -> d

Completes(d, b) == b = FEND /\ d.inFrame /\ d.buf # <<>>

(* KissDecoder::push over a chunk, byte by byte: the decoder after it and  *)
(* the frames that it completed.                                           *)
PushByte(run, b) ==
    [decoder |-> NextState(run.decoder, b),
     frames |-> IF Completes(run.decoder, b)
                THEN Append(run.frames, TakeFrame(run.decoder.buf)) ELSE run.frames]

Push(d, bytes) ==
    LET run[i \in 0..Len(bytes)] ==
            IF i = 0 THEN [decoder |-> d, frames |-> <<>>] ELSE PushByte(run[i - 1], bytes[i])
    IN  run[Len(bytes)]
=============================================================================
