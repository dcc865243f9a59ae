------------------------------ MODULE MCTxPath ------------------------------
(* Instances of TxPath for TLC. *)
EXTENDS TxService, TLC

CONSTANTS a, b  \* sound devices

\* One radio on device a.
OneRig == {[rx |-> a, tx |-> a]}
\* One radio, whose receive side is on a sound device of its own.
SplitRig == {[rx |-> b, tx |-> a]}
Symmetric == Permutations(Worker) \cup Permutations(Channel)
=============================================================================
