----------------------------- MODULE OperatorTx -----------------------------
(***************************************************************************)
(* The operate screen of the terminal client and the daemon it drives:     *)
(* lease, Transmit, TransmitComplete, release (internal/app/tx.go,         *)
(* view_operate.go, model.go).                                             *)
(*                                                                         *)
(* Bubble Tea runs each command on a goroutine of its own and its answer   *)
(* comes back as a message, so calls under way are a bag: the daemon takes *)
(* them, and the screen hears the answers, in any order.  The screen on    *)
(* top of the stack gets every message, whoever asked; a screen that was   *)
(* left is gone, and one that is opened anew starts idle.  Messages to     *)
(* send are numbered as the operator enters them, 0 is the empty payload.  *)
(* Time only matters to the watchdog, which may fire at any tick of a      *)
(* transmission: the daemon may be slower than its estimate.               *)
(***************************************************************************)
EXTENDS Naturals, Sequences, Bags

CONSTANTS Us, Others,    \* our channel, the channels that share its rig
          NoChannel,     \* an unleased rig
          Rig,           \* the rig of all of them
          MaxSends,      \* messages the operator enters
          MaxForeign,    \* completions of other channels' transmissions
          MaxLost        \* calls that fail or whose answer is lost

ASSUME OperatorBounds == /\ MaxSends \in Nat /\ MaxForeign \in Nat /\ MaxLost \in Nat
                         /\ NoChannel \notin Others \cup {Us} /\ Us \notin Others

INSTANCE TxLease

VARIABLES open,       \* the operate screen is on top of the stack
          phase,      \* txState.phase
          payload,    \* txState.payload (an image is a payload like another)
          calls,      \* RPCs on their way to the daemon
          answers,    \* AcquireTxLease answers on their way back
          stream,     \* the event stream: TransmitComplete events, oldest first
          holder,     \* the daemon's lease registry
          jobs,       \* accepted and not yet finished by the daemon's TX worker
          \* history, and what the bounds count
          entered,    \* messages entered so far
          issued,     \* payloads of the Transmit calls, in the order of issue
          disturbed,  \* a send was halted, left, timed out or ended by another's
                      \* completion, or a call or a job was lost
          foreign, lost

screen == <<open, phase, payload>>
daemon == <<holder, jobs>>
budget == <<foreign, lost>>
vars == <<screen, calls, answers, stream, daemon, entered, issued, disturbed, budget>>

RpcAcquire == [op |-> "acquire", arg |-> 0]
RpcRelease == [op |-> "release", arg |-> 0]
RpcTransmit(p) == [op |-> "transmit", arg |-> p]
Call(c) == calls' = calls (+) SetToBag({c})
Active == phase # "idle"

\* Mutant: the payload outlives its send.
ResetPhaseOnly == phase' = "idle" /\ UNCHANGED payload

\* txState.reset
Reset == phase' = "idle" /\ payload' = 0

Init ==
    /\ open = TRUE /\ phase = "idle" /\ payload = 0
    /\ calls = EmptyBag /\ answers = EmptyBag /\ stream = <<>>
    /\ holder = [r \in {Rig} |-> NoChannel] /\ jobs = <<>>
    /\ entered = 0 /\ issued = <<>> /\ disturbed = FALSE
    /\ foreign = 0 /\ lost = 0
-----------------------------------------------------------------------------
(* The screen                                                              *)

\* Mutant: no look at the active send.
EnterAnyTime ==
    /\ open /\ entered < MaxSends
    /\ entered' = entered + 1
    /\ phase' = "acquiring" /\ payload' = entered'
    /\ Call(RpcAcquire)
    /\ UNCHANGED <<open, answers, stream, daemon, issued, disturbed, budget>>

\* sendCompose, ft8Send, beaconSend, sendImage: refused while a send is active.
Enter ==
    /\ open /\ ~Active /\ entered < MaxSends
    /\ entered' = entered + 1
    /\ phase' = "acquiring" /\ payload' = entered'
    /\ Call(RpcAcquire)
    /\ UNCHANGED <<open, answers, stream, daemon, issued, disturbed, budget>>

\* A leaseMsg, taken by whatever screen is on top.  It is not asked whether the
\* screen is acquiring.
Answer(granted) ==
    /\ BagIn(granted, answers)
    /\ answers' = answers (-) SetToBag({granted})
    /\ \/ /\ open /\ granted
          /\ phase' = "transmitting"
          /\ Call(RpcTransmit(payload)) /\ issued' = Append(issued, payload)
          /\ UNCHANGED payload
       \/ open /\ ~granted /\ Reset /\ UNCHANGED <<calls, issued>>
       \/ ~open /\ UNCHANGED <<phase, payload, calls, issued>>
    /\ UNCHANGED <<open, stream, daemon, entered, disturbed, budget>>

\* Mutant: the lease is forgotten.
CompleteKeepsLease ==
    /\ stream # <<>>
    /\ stream' = Tail(stream)
    /\ IF open /\ Active THEN Reset /\ disturbed' = (disturbed \/ Head(stream) # Us)
       ELSE UNCHANGED <<phase, payload, disturbed>>
    /\ UNCHANGED <<open, calls, answers, daemon, entered, issued, budget>>

\* A TransmitComplete ends the active send, of whatever channel and id it is.
Complete ==
    /\ stream # <<>>
    /\ stream' = Tail(stream)
    /\ IF open /\ Active THEN /\ Reset /\ Call(RpcRelease)
                              /\ disturbed' = (disturbed \/ Head(stream) # Us)
       ELSE UNCHANGED <<phase, payload, calls, disturbed>>
    /\ UNCHANGED <<open, answers, daemon, entered, issued, budget>>

\* halt and releaseLeaseCmd, the screen staying where it is.
GiveUp ==
    /\ Reset /\ Call(RpcRelease) /\ disturbed' = TRUE
    /\ UNCHANGED <<open, answers, stream, daemon, entered, issued, budget>>

\* Mutant: armed by the wrong phase.
WatchdogBeforeGrant == open /\ phase = "acquiring" /\ GiveUp

Watchdog == open /\ phase = "transmitting" /\ GiveUp

\* ctrl+x
Halt == open /\ Active /\ GiveUp

\* esc
Leave ==
    /\ open /\ open' = FALSE
    /\ Reset
    /\ IF Active THEN Call(RpcRelease) /\ disturbed' = TRUE
                 ELSE UNCHANGED <<calls, disturbed>>
    /\ UNCHANGED <<answers, stream, daemon, entered, issued, budget>>

Reopen ==
    /\ ~open /\ open' = TRUE /\ Reset
    /\ UNCHANGED <<calls, answers, stream, daemon, entered, issued, disturbed, budget>>
-----------------------------------------------------------------------------
(* The daemon                                                              *)

\* One call is carried out.
Grants == holder[Rig] \in {NoChannel, Us}
Serve(c) ==
    /\ holder' = CASE c.op = "acquire"  -> Acquire(holder, Rig, Us)
                   [] c.op = "release"  -> Release(holder, Rig, Us)
                   [] c.op = "transmit" -> holder
    /\ jobs' = IF c.op = "transmit" THEN Append(jobs, Us) ELSE jobs

CallServed(c) ==
    /\ BagIn(c, calls)
    /\ calls' = calls (-) SetToBag({c})
    /\ Serve(c)
    /\ answers' = IF c.op = "acquire" THEN answers (+) SetToBag({Grants}) ELSE answers
    /\ UNCHANGED <<screen, stream, entered, issued, disturbed, budget>>

\* The call is refused, does not get through, or its answer does not: an
\* rpcErrMsg, which the model shows and never hands to the screen.
CallFailed(c) ==
    /\ BagIn(c, calls) /\ lost < MaxLost
    /\ calls' = calls (-) SetToBag({c})
    /\ Serve(c) \/ UNCHANGED daemon
    /\ lost' = lost + 1 /\ disturbed' = TRUE
    /\ UNCHANGED <<screen, answers, stream, entered, issued, foreign>>

\* The TX worker finishes its oldest job, sent or kept off by another's lease.
JobDone ==
    /\ jobs # <<>> /\ jobs' = Tail(jobs)
    /\ stream' = Append(stream, Us)
    /\ UNCHANGED <<screen, calls, answers, holder, entered, issued, disturbed, budget>>

\* The worker is dropped with its queue: nothing is announced.
JobsDropped ==
    /\ jobs # <<>> /\ lost < MaxLost
    /\ jobs' = <<>> /\ lost' = lost + 1 /\ disturbed' = TRUE
    /\ UNCHANGED <<screen, calls, answers, stream, holder, entered, issued, foreign>>

\* The event stream ends or skips: what it carried is never seen.
EventsLost ==
    /\ stream # <<>> /\ lost < MaxLost
    /\ stream' = <<>> /\ lost' = lost + 1 /\ disturbed' = TRUE
    /\ UNCHANGED <<screen, calls, answers, daemon, entered, issued, foreign>>

\* Another channel of the rig takes or gives back the lease; another channel of
\* the daemon ends a transmission, which every subscriber is told.
OtherLease(o) ==
    /\ holder' \in {Acquire(holder, Rig, o), Release(holder, Rig, o)} \ {holder}
    /\ UNCHANGED <<screen, calls, answers, stream, jobs, entered, issued, disturbed, budget>>
OtherCompletes(o) ==
    /\ foreign < MaxForeign /\ foreign' = foreign + 1
    /\ stream' = Append(stream, o)
    /\ UNCHANGED <<screen, calls, answers, daemon, entered, issued, disturbed, lost>>

Next ==
    \/ Enter \/ Complete \/ Watchdog \/ Halt \/ Leave \/ Reopen
    \/ \E granted \in BOOLEAN : Answer(granted)
    \/ \E c \in BagToSet(calls) : CallServed(c) \/ CallFailed(c)
    \/ JobDone \/ JobsDropped \/ EventsLost
    \/ \E o \in Others : OtherLease(o) \/ OtherCompletes(o)

(***************************************************************************)
(* Fairness: the tick comes every second, so a watchdog that may fire does *)
(* (tickCmd re-arms itself); calls end, with an answer or at the deadline  *)
(* of rpcCtx, and the program takes its messages.  Nothing is asked of the *)
(* operator, of the TX worker or of the other channels.                    *)
(***************************************************************************)
Spec == Init /\ [][Next]_vars
Fairness ==
    /\ WF_vars(Watchdog)
    /\ WF_vars(Complete)
    /\ WF_vars(\E granted \in BOOLEAN : Answer(granted))
    /\ WF_vars(\E c \in BagToSet(calls) : CallServed(c))
FairSpec == Spec /\ Fairness
-----------------------------------------------------------------------------
TypeOK ==
    /\ {open, disturbed} \subseteq BOOLEAN /\ phase \in {"idle", "acquiring", "transmitting"}
    /\ payload \in 0..MaxSends /\ entered \in 0..MaxSends
    /\ IsABag(calls) /\ IsABag(answers)
    /\ BagToSet(calls) \subseteq {RpcAcquire, RpcRelease} \cup {RpcTransmit(p) : p \in 0..MaxSends}
    /\ BagToSet(answers) \subseteq BOOLEAN
    /\ holder \in [{Rig} -> Others \cup {Us, NoChannel}]
    /\ issued \in Seq(0..MaxSends) /\ jobs \in Seq({Us}) /\ stream \in Seq(Others \cup {Us})
    /\ foreign \in 0..MaxForeign /\ lost \in 0..MaxLost

\* Once a message is given up (halt, watchdog, esc, refusal) or complete, no
\* Transmit carries it, however late the answers of its calls arrive, and of
\* two messages the earlier is never issued after the later.
NothingStale ==
    [][\A i \in DOMAIN issued' \ DOMAIN issued :
           issued'[i] # 0 => issued'[i] = entered /\ Active /\ issued'[i] = payload]_vars

\* While nothing cuts across a send, each message is issued once, in the order
\* the messages were entered.
IssuedOnceInOrder ==
    ~disturbed => /\ \A i \in DOMAIN issued : issued[i] # 0
                  /\ \A i, j \in DOMAIN issued : i < j => issued[i] < issued[j]

\* ... and when all calls are answered and the screen is idle, the rig is not
\* left leased to us, although the release of one send and the acquire of the
\* next are carried out in either order.
QuietMeansReleased ==
    ~disturbed /\ ~Active /\ calls = EmptyBag /\ answers = EmptyBag /\ jobs = <<>>
        => holder[Rig] # Us

\* Every send ends on the screen.  A transmission does whatever becomes of the
\* daemon's job and of its events, for the watchdog sees to it; a send that
\* still waits for its lease does unless a call or its answer was lost.
SendEnds ==
    /\ phase = "transmitting" ~> phase # "transmitting"
    /\ Active ~> ~Active \/ lost > 0
=============================================================================
