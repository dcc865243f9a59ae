--------------------------- MODULE RxTxInterlock ---------------------------
(***************************************************************************)
(* The per-rig RX/TX interlock (ptt/interlock.rs): a count per DeviceId of *)
(* the keys in force on it.  The code keeps a map without zero entries;    *)
(* here the map is total and an absent entry is 0.  Every method runs      *)
(* under one mutex, so each is one indivisible update of the map.          *)
(***************************************************************************)
LOCAL INSTANCE Integers

\* Mutant: a flag instead of a count.
BeginTxFlag(keyed, dev) == [keyed EXCEPT ![dev] = 1]

BeginTx(keyed, dev) == [keyed EXCEPT ![dev] = @ + 1]

\* Mutant: not saturating.
EndTxBelowZero(keyed, dev) == [keyed EXCEPT ![dev] = @ - 1]

\* Saturating: an end without a begin leaves 0.
EndTx(keyed, dev) == [keyed EXCEPT ![dev] = IF @ = 0 THEN 0 ELSE @ - 1]

IsMuted(keyed, dev) == keyed[dev] > 0
=============================================================================
