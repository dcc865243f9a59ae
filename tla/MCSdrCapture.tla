---------------------------- MODULE MCSdrCapture ----------------------------
(* An instance of SdrCapture for TLC. *)
EXTENDS SdrCapture

\* Two targets in one band of the narrower rate, and one outside of both.
Targets == {50, 52, 90}
Bands == {20, 40}
=============================================================================
