----------------------------- MODULE TxService -----------------------------
(***************************************************************************)
(* TxPath keeps the promise of TxJobs: every step of the threads, the core *)
(* and the hardware moves the transmissions as TxJobs allows, or not.      *)
(***************************************************************************)
EXTENDS TxPath

Last(s) == s[Len(s)]

\* The ids that wait at a worker, or are on its air.
AtWorkers == UNION {Jobs(w) : w \in Worker}

\* What has become of id i, from where the program keeps it.
JobStatus(i) ==
    CASE log[i] # <<>> /\ Last(log[i]) = "Complete" -> "over"
      [] log[i] # <<>> /\ Last(log[i]) # "Complete" -> "onAir"
      [] log[i] = <<>> /\ i \in AtWorkers            -> "waiting"
      [] log[i] = <<>> /\ i \in accepted \ AtWorkers -> "dropped"
      [] log[i] = <<>> /\ i < nextTx /\ i \notin accepted \cup AtWorkers
                                                    -> "refused"
      [] OTHER                                      -> "new"

Service == INSTANCE TxJobs WITH MaxId <- MaxTx,
                                status <- [i \in TxId |-> JobStatus(i)]

\* The daemon does with a transmission what its interface promises: ids in
\* order, on the air at most once, nothing back that is over, and nothing
\* dropped but what still waits.
ServicePromise == Service!Spec
=============================================================================
