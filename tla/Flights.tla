------------------------------ MODULE Flights ------------------------------
(***************************************************************************)
(* An ADS-B channel from the samples to the flights table of the terminal  *)
(* client: the RX worker (rx_worker.rs) with its demodulator, the reporter *)
(* (core/adsb.rs) that tracks aircraft and reports what has changed, the   *)
(* telemetry ring, and the contacts the client folds the reports into and  *)
(* ages out by itself (aircraft.go, model.go).                             *)
(*                                                                         *)
(* The air goes on at one sample per unit of time.  What is sent is decoded *)
(* some time later, or never: chunks wait in the queue and are dropped from *)
(* it, are muted while the station transmits, and do not come while the     *)
(* link is down; and what a frame may need more samples for is held back.   *)
(***************************************************************************)
EXTENDS AdsbDemod, AircraftTracker

CONSTANTS
    Icao,
    PrunePeriod,  \* one second
    Ring,         \* the telemetry ring's capacity, 256 in the code
    ClientTtl,    \* aircraftTTL
    Gaps,         \* samples lost in one go
    Delays,       \* how long the worker falls behind in one go
    MaxFaults,    \* bounds both, and the restarts of the worker
    NoTrack, NoContact

ASSUME Periods == PrunePeriod \in Nat \ {0} /\ Ring \in Nat \ {0}
ASSUME SameTtl == ClientTtl = Ttl
ASSUME Faults == Gaps \cup Delays \subseteq Nat
\* Halves sent within the window are within reach.
ASSUME ReachCoversWindow == Reach >= PairWindow
ASSUME PlacesAreNumbers == Elsewhere # NoData /\ Elsewhere \notin Int

\* What is left of the reach for the way from the antenna to the tracker.
Margin == Reach - PairWindow

\* DF17 and DF18 of a whole frame are tracked.
Squitters == {"adsb", "tisb"}

\* A place is the moment an aircraft was there.
ASSUME SignalsOfAircraft ==
    \A s \in Signals : \A i \in DOMAIN s : \A k \in DOMAIN s[i] :
        LET x == s[i][k]
        IN  /\ x = [df |-> x.df, icao |-> x.icao, damage |-> x.damage,
                    squitter |-> x.squitter]
            /\ x.icao \in Icao
            /\ x.squitter.kind \in {"ident", "velocity", "position"}
            /\ x.squitter.place = i

VARIABLES
    clock,
    air,        \* how many samples of what was sent have come or are lost
    folded,     \* how many of the frames the reporter has got
    tracks,
    lastPrune,
    detached,   \* the workers told to stop: frames left to fold, and tracks
    telemetry,  \* the ring: reports the client has not received yet
    missed,     \* aircraft whose newest report was overwritten, or followed
                \* by one of a detached worker
    late,       \* aircraft a half of which was decoded after the margin
    contacts,   \* the client's aircraft map
    faults

reporterVars == <<folded, tracks, lastPrune>>
ringVars == <<telemetry, missed>>
vars == <<demodVars, clock, air, reporterVars, detached, ringVars, late,
          contacts, faults>>

-----------------------------------------------------------------------------
(* The RX worker. *)

Report(icao, track) ==
    [icao |-> icao, ident |-> track.ident, place |-> track.place,
     alt |-> track.alt, vel |-> track.vel, messages |-> track.messages]

\* The aircraft a ring holds reports of.
Reported(ring) == {ring[i].icao : i \in 1..Len(ring)}

\* Into the broadcast ring, which overwrites the oldest.
Overwritten(report) ==
    IF Len(telemetry) < Ring THEN {} ELSE {Head(Append(telemetry, report)).icao}

Push(report) ==
    LET all == Append(telemetry, report)
    IN  telemetry' = IF Len(telemetry) < Ring THEN all ELSE Tail(all)

Publish(report) ==
    /\ Push(report)
    /\ missed' = (missed \ {report.icao}) \union
                    (Overwritten(report) \ Reported(telemetry'))

PublishDetached(report) ==
    /\ Push(report)
    /\ missed' = (missed \union {report.icao}) \union
                    (Overwritten(report) \ Reported(telemetry'))

Track(known, icao) == IF known[icao] = NoTrack THEN NewTrack ELSE known[icao]

\* A half that was sent longer than the margin ago.
Late(slice) ==
    IF slice.squitter.kind = "position" /\ clock - slice.squitter.place > Margin
    THEN {slice.icao} ELSE {}

Folding == folded < Len(frames)

\* on_packet for the next frame of the chunk, with the time it is now.
WorkerFolds ==
    /\ Folding /\ ~flushed
    /\ folded' = folded + 1
    /\ LET slice == frames[folded + 1].slice
           a == slice.icao
           before == Track(tracks, a)
       IN  IF slice.df \notin Squitters THEN UNCHANGED <<tracks, ringVars, late>>
           ELSE /\ late' = late \union Late(slice)
                /\ \E after \in Ingested(before, slice.squitter, clock) :
                      /\ tracks' = [tracks EXCEPT ![a] = after]
                      /\ IF ReportableChange(before, after)
                         THEN Publish(Report(a, after))
                         ELSE UNCHANGED ringVars
    /\ UNCHANGED <<demodVars, clock, air, lastPrune, detached, contacts, faults>>

\* A worker that is told to stop folds the chunk it has to its end.
DetachedFolds(i) ==
    /\ detached[i].left # <<>>
    /\ LET old == detached[i]
           slice == Head(old.left).slice
           a == slice.icao
           before == Track(old.tracks, a)
       IN  IF slice.df \notin Squitters
           THEN /\ detached' = [detached EXCEPT ![i].left = Tail(old.left)]
                /\ UNCHANGED <<ringVars, late>>
           ELSE /\ late' = late \union Late(slice)
                /\ \E after \in Ingested(before, slice.squitter, clock) :
                      /\ detached' = [detached EXCEPT ![i] =
                            [left |-> Tail(old.left),
                             tracks |-> [old.tracks EXCEPT ![a] = after]]]
                      /\ IF ReportableChange(before, after)
                         THEN PublishDetached(Report(a, after))
                         ELSE UNCHANGED ringVars
    /\ UNCHANGED <<demodVars, clock, air, reporterVars, contacts, faults>>

PruneDue == ~Folding /\ ~flushed /\ clock - lastPrune >= PrunePeriod

WorkerPrunes ==
    /\ PruneDue
    /\ lastPrune' = clock
    /\ tracks' = [a \in Icao |->
                    IF tracks[a] # NoTrack /\ Stale(tracks[a], clock) THEN NoTrack
                    ELSE tracks[a]]
    /\ UNCHANGED <<demodVars, clock, air, folded, detached, ringVars, late, contacts,
                   faults>>

Older(contact, n) ==
    IF contact = NoContact THEN NoContact
    ELSE [contact EXCEPT !.age = IF @ > ClientTtl THEN @ ELSE @ + n]

Ageing(n) == contacts' = [a \in Icao |-> Older(contacts[a], n)]

Passes(n) == clock' = clock + n /\ Ageing(n)

\* The next n samples were sent, and the time is that or later.
Sent(n) ==
    /\ air' = air + n
    /\ Passes(Larger(clock, air') - clock)

\* A chunk comes.
WorkerFeeds(n) ==
    /\ ~Folding /\ ~PruneDue
    /\ Feed(n)
    /\ Sent(n)
    /\ UNCHANGED <<reporterVars, detached, ringVars, late, faults>>

\* The link is down, or chunks are muted or dropped from the queue.
WorkerMisses(n) ==
    /\ ~Folding /\ ~PruneDue
    /\ faults < MaxFaults
    /\ faults' = faults + 1
    /\ Lose(n)
    /\ Sent(n)
    /\ UNCHANGED <<reporterVars, detached, ringVars, late>>

\* Time passes and nothing is taken from the queue.
WorkerLags(n) ==
    /\ ~flushed
    /\ faults < MaxFaults
    /\ faults' = faults + 1
    /\ Passes(n)
    /\ UNCHANGED <<demodVars, air, reporterVars, detached, ringVars, late>>

\* The capture ends, and the worker with it: what is flushed is not reported.
WorkerEnds ==
    /\ ~Folding
    /\ Flush
    /\ UNCHANGED <<clock, air, reporterVars, detached, ringVars, late, contacts,
                   faults>>

\* The channel is bound again: another worker, with a demodulator and a reporter
\* of its own, for what comes after the last chunk the old one took.
Rebind ==
    /\ ~flushed
    /\ faults < MaxFaults
    /\ faults' = faults + 1
    /\ detached' = Append(detached, [left |-> SubSeq(frames, folded + 1, Len(frames)),
                                     tracks |-> tracks])
    /\ signal' = SubSeq(signal, fed + 1, Len(signal))
    /\ fed' = 0 /\ base' = 0
    /\ order' = <<>> /\ frames' = <<>>
    /\ folded' = 0
    /\ tracks' = [a \in Icao |-> NoTrack]
    /\ lastPrune' = clock
    /\ UNCHANGED <<flushed, cut, clock, air, ringVars, late, contacts>>

-----------------------------------------------------------------------------
(* The client. *)

\* applyAircraft: what a report leaves out is kept.
Shown(contact, report) ==
    [ident |-> IF report.ident \in {NoData, ""} THEN contact.ident
               ELSE report.ident,
     place |-> Known(contact.place, report.place),
     alt |-> Known(contact.alt, report.alt),
     vel |-> Known(contact.vel, report.vel),
     messages |-> IF report.messages > contact.messages THEN report.messages
                  ELSE contact.messages,
     age |-> 0]

Unheard ==
    [ident |-> NoData, place |-> NoData, alt |-> NoData, vel |-> NoData,
     messages |-> 0, age |-> 0]

Receive ==
    /\ telemetry # <<>>
    /\ LET report == Head(telemetry)
       IN  contacts' = [contacts EXCEPT ![report.icao] =
                          Shown(IF @ = NoContact THEN Unheard ELSE @, report)]
    /\ telemetry' = Tail(telemetry)
    /\ UNCHANGED <<demodVars, clock, air, reporterVars, detached, missed, late, faults>>

Expired(a) == contacts[a] # NoContact /\ contacts[a].age > ClientTtl

\* pruneAircraft, on the tick.
Tick ==
    /\ \E a \in Icao : Expired(a)
    /\ contacts' = [a \in Icao |-> IF Expired(a) THEN NoContact ELSE contacts[a]]
    /\ UNCHANGED <<demodVars, clock, air, reporterVars, detached, ringVars, late, faults>>

\* Time passes without a worker.
TimePasses ==
    /\ flushed
    /\ \E a \in Icao : contacts[a] # NoContact /\ ~Expired(a)
    /\ \E n \in Delays : Passes(n)
    /\ UNCHANGED <<demodVars, air, reporterVars, detached, ringVars, late, faults>>

-----------------------------------------------------------------------------

Init ==
    /\ DemodInit
    /\ clock = 0 /\ air = 0
    /\ folded = 0
    /\ tracks = [a \in Icao |-> NoTrack]
    /\ lastPrune = 0
    /\ detached = <<>>
    /\ telemetry = <<>>
    /\ missed = {} /\ late = {}
    /\ contacts = [a \in Icao |-> NoContact]
    /\ faults = 0

Next ==
    \/ \E n \in ChunkSizes : WorkerFeeds(n)
    \/ \E n \in Gaps : WorkerMisses(n)
    \/ \E n \in Delays : WorkerLags(n)
    \/ \E i \in DOMAIN detached : DetachedFolds(i)
    \/ WorkerFolds \/ WorkerPrunes \/ WorkerEnds \/ Rebind
    \/ Receive \/ Tick \/ TimePasses

Spec == Init /\ [][Next]_vars

-----------------------------------------------------------------------------

\* No aircraft is placed, in the daemon or on the screen, where it was at
\* neither of the times its position was sent, unless a half of it was decoded
\* later than the margin: the window is one of decoding, and what is held back,
\* queued or sent around a gap may be as old as the reach leaves room for
\* (tracker.rs CPR_PAIR_WINDOW_MS).
NoGhostPosition ==
    \A a \in Icao \ late :
        /\ tracks[a] # NoTrack => tracks[a].place # Elsewhere
        /\ contacts[a] # NoContact => contacts[a].place # Elsewhere

\* Although reports are sent only of changes, may be lost and may stop at any
\* field, what the client shows of an aircraft is what the daemon knows of it,
\* once the reports of it have been received and unless the ring overwrote the
\* newest of them or a detached worker reported behind it (aircraft.go: fields
\* are merged; tracker.rs reportable_change).
ViewAgrees ==
    \A a \in Icao :
        (tracks[a] # NoTrack /\ contacts[a] # NoContact
         /\ a \notin missed \union Reported(telemetry)) =>
            \A f \in Reportable :
                \/ tracks[a][f] \in {NoData, contacts[a][f]}
                \/ f = "ident" /\ tracks[a][f] = ""

=============================================================================
