---------------------------- MODULE MCRxBinding ----------------------------
(* A client that leaves the rate to the daemon, a local USB SDR, which is   *)
(* exclusive, and a sound card that receives and transmits; ADS-B and a    *)
(* mode of audio.                                                          *)
EXTENDS RxBinding

CONSTANTS usb, card, ft8, adsb

MCDevices == {usb, card}
MCExclusive == {usb}
MCTxDevices == {card}
MCSdrs == {usb}
MCModes == {ft8, adsb}
MCRates == {0}
=============================================================================
