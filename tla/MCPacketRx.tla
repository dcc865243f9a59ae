------------------------------- MODULE MCPacketRx -------------------------------
EXTENDS PacketRx

Octet(b) == [i \in 1..8 |-> (b \div 2^(i - 1)) % 2]
(* 0x7E looks like a flag and is stuffed; 0xFF is stuffed as well.         *)
Payloads == {Octet(126), Octet(255)}

(* A flag with garbage after it, and most of a flag.                       *)
Noises == {NrziEncode(Flag \o <<1, 0, 0, 1, 1>>), NrziEncode(<<0, 1, 1, 1, 1, 1, 1>>)}
=============================================================================
