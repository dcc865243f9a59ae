------------------------------- MODULE TxJobs -------------------------------
(***************************************************************************)
(* What the daemon promises of a transmission (proto and grpc-api.md): ids *)
(* are handed out in order; one that is accepted waits until it is put on  *)
(* the air, once, and is over after that; one that waits may be dropped,   *)
(* with the worker that carries it; nothing that is over comes back.       *)
(***************************************************************************)
EXTENDS Integers

CONSTANT MaxId
VARIABLE status

Id == 1 .. MaxId

Init == status = [i \in Id |-> "new"]

\* The id a client gets next.
IsNext(i) == status[i] = "new" /\ \A j \in Id : j < i => status[j] # "new"

\* A client's call: refused, queued, or served while the client waits.
Take ==
    \E i \in Id, s \in {"refused", "waiting", "onAir", "over"} :
        IsNext(i) /\ status' = [status EXCEPT ![i] = s]

\* It goes on the air, or cannot be encoded and is over at once.
Serve ==
    \E i \in Id, s \in {"onAir", "over"} :
        status[i] = "waiting" /\ status' = [status EXCEPT ![i] = s]

Finish ==
    \E i \in Id : status[i] = "onAir" /\ status' = [status EXCEPT ![i] = "over"]

\* A worker ends with what waits for it.
Drop ==
    \E lost \in SUBSET {i \in Id : status[i] = "waiting"} :
        /\ lost # {}
        /\ status' = [i \in Id |-> IF i \in lost THEN "dropped" ELSE status[i]]

Next == Take \/ Serve \/ Finish \/ Drop

Spec == Init /\ [][Next]_status
=============================================================================
