------------------------------ MODULE KissRegistry ------------------------------
(***************************************************************************)
(* KissRegistry (kiss/listener.rs): the listener of one channel, started,  *)
(* replaced and stopped by gRPC handlers that run concurrently. The map is *)
(* locked for the removal and for the insertion only, so two handlers      *)
(* interleave at every await; a handler whose client hangs up is dropped   *)
(* at an await.                                                            *)
(***************************************************************************)
EXTENDS Naturals

CONSTANTS Caller,     \* handlers of ConfigureKissListener
          Addr,       \* addresses that a request may name
          MaxStarts   \* bound: listeners bound in a behaviour

ASSUME MaxStartsAssumption == MaxStarts \in Nat

Listener == 1..MaxStarts
None == 0

VARIABLES entry,      \* the map: the channel's listener, or None
          listener,   \* each accept task: "unborn", "listening", "aborted", "ended"
          addr,       \* the address each listener was bound to
          call        \* where each handler is and the listener it holds

registryVars == <<entry, listener, addr, call>>

Idle == [pc |-> "idle", start |-> FALSE, holds |-> None]

RegistryInit ==
    /\ entry = None
    /\ listener = [l \in Listener |-> "unborn"]
    /\ addr \in [Listener -> Addr]
    /\ call = [c \in Caller |-> Idle]

\* Listeners that own their socket; those not told to stop.
Bound == {l \in Listener : listener[l] \in {"listening", "aborted"}}
Running == {l \in Listener : listener[l] = "listening"}

\* ConfigureKissListener with enable set, past its checks, or without it.
Begin(c) ==
    /\ call[c].pc = "idle"
    /\ \E start \in BOOLEAN : call' = [call EXCEPT ![c] = [@ EXCEPT !.pc = "stop", !.start = start]]
    /\ UNCHANGED <<entry, listener, addr>>

TakeEntryLate(c) ==     \* mutant: the entry stays until the new one replaces it
    /\ call[c].pc = "stop"
    /\ call' = [call EXCEPT ![c].pc = "await", ![c].holds = entry]
    /\ listener' = IF entry = None THEN listener ELSE [listener EXCEPT ![entry] = "aborted"]
    /\ UNCHANGED <<entry, addr>>

\* stop: the entry is taken out under the lock and its task aborted; the
\* handler then awaits the end of the task.
TakeEntry(c) ==
    /\ call[c].pc = "stop"
    /\ call' = [call EXCEPT ![c].pc = "await", ![c].holds = entry]
    /\ entry' = None
    /\ listener' = IF entry = None THEN listener ELSE [listener EXCEPT ![entry] = "aborted"]
    /\ UNCHANGED addr

\* The removed task has ended: stop is done, start goes on to bind.
Stopped(c) ==
    /\ call[c].pc = "await"
    /\ call[c].holds # None => listener[call[c].holds] = "ended"
    /\ call' = [call EXCEPT ![c] = IF @.start THEN [@ EXCEPT !.pc = "bind", !.holds = None] ELSE Idle]
    /\ UNCHANGED <<entry, listener, addr>>

\* TcpListener::bind, then the accept task is spawned.
Bind(c) ==
    /\ call[c].pc = "bind"
    /\ \E l \in Listener :
         /\ listener[l] = "unborn"
         /\ \A k \in 1..(l - 1) : listener[k] # "unborn"
         /\ \A k \in Bound : addr[k] # addr[l]
         /\ listener' = [listener EXCEPT ![l] = "listening"]
         /\ call' = [call EXCEPT ![c].pc = "insert", ![c].holds = l]
    /\ UNCHANGED <<entry, addr>>

\* The address is taken or cannot be bound: the old listener is gone already.
BindFails(c) ==
    /\ call[c].pc = "bind"
    /\ call' = [call EXCEPT ![c] = Idle]
    /\ UNCHANGED <<entry, listener, addr>>

\* map.insert: a handle that it overwrites is dropped, which detaches its task.
Insert(c) ==
    /\ call[c].pc = "insert"
    /\ entry' = call[c].holds
    /\ call' = [call EXCEPT ![c] = Idle]
    /\ UNCHANGED <<listener, addr>>

\* The client of the call goes away: the handler is dropped at its await, and
\* with it the handle that it holds, but not the task.
Cancel(c) ==
    /\ call[c].pc # "idle"
    /\ call' = [call EXCEPT ![c] = Idle]
    /\ UNCHANGED <<entry, listener, addr>>

\* The runtime drops an aborted accept task, its socket and its JoinSet.
Unwind(l) ==
    /\ listener[l] = "aborted"
    /\ listener' = [listener EXCEPT ![l] = "ended"]
    /\ UNCHANGED <<entry, addr, call>>

HandlerStep(c) ==
    \/ Begin(c) \/ TakeEntry(c) \/ Stopped(c) \/ Bind(c) \/ BindFails(c) \/ Insert(c) \/ Cancel(c)

(* What the map says of the channel is true: the listener it names accepts *)
(* connections. An entry that outlived its listener would be reported as   *)
(* active and be stopped again by the next call.                           *)
EntryIsRunning == entry # None => entry \in Running
=============================================================================
