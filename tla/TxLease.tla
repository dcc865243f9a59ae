------------------------------ MODULE TxLease ------------------------------
(***************************************************************************)
(* The exclusive TX lease of a rig (ptt/lease.rs): at most one holder per  *)
(* DeviceId, under one mutex.  An absent map entry is NoChannel.           *)
(***************************************************************************)
CONSTANT NoChannel

\* Idempotent for the holder; refused, with the map unchanged, for another.
Acquire(holder, dev, ch) ==
    [holder EXCEPT ![dev] = IF @ = NoChannel THEN ch ELSE @]

Release(holder, dev, ch) ==
    [holder EXCEPT ![dev] = IF @ = ch THEN NoChannel ELSE @]

MayTransmit(holder, dev, ch) == holder[dev] \in {NoChannel, ch}

\* Every lease of the channels in chs, whatever rig it is on.
ReleaseAll(holder, chs) ==
    [dev \in DOMAIN holder |->
        IF holder[dev] \in chs THEN NoChannel ELSE holder[dev]]
=============================================================================
