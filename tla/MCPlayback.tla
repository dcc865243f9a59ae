----------------------------- MODULE MCPlayback -----------------------------
(* An instance of Playback for TLC. *)
EXTENDS Playback

\* An empty burst, one in a single callback, one in two.
Bursts == 0 .. 2
=============================================================================
