-------------------------- MODULE AircraftTracker --------------------------
(***************************************************************************)
(* What becomes of the squitters an ADS-B channel decodes (tracker.rs): a  *)
(* track per aircraft.  A squitter has a kind and a value, which may be    *)
(* missing; of a position, which is sent in halves, it has the half and    *)
(* the place.                                                              *)
(*                                                                         *)
(* A place is where the aircraft was at that moment.  A global CPR         *)
(* solution is the place of the newer half if the halves were sent within  *)
(* Reach of each other, and somewhere else otherwise.                      *)
(***************************************************************************)
EXTENDS Integers

CONSTANTS
    Ttl,         \* DEFAULT_TTL_MS
    PairWindow,  \* CPR_PAIR_WINDOW_MS
    Reach,       \* the time in which no aircraft leaves the zone of a half
    NoData, Elsewhere, NoHalf

ASSUME Windows == Ttl \in Nat /\ PairWindow \in Nat /\ Reach \in Nat

Reportable == {"ident", "place", "alt", "vel"}

NewTrack ==
    [ident |-> NoData, place |-> NoData, alt |-> NoData, vel |-> NoData,
     seen |-> 0, messages |-> 0, even |-> NoHalf, odd |-> NoHalf]

\* A squitter that leaves a value out does not clear what is known of it.
Known(old, value) == IF value = NoData THEN old ELSE value

Within(p, q, distance) == p - q \in -distance..distance

\* Mutant: any two halves are paired.
PairsAny(even, odd) == TRUE

\* The halves were decoded close enough to each other.
Pairs(even, odd) == Within(even.time, odd.time, PairWindow)

\* cpr_decode_airborne: no solution if the halves straddle a zone.  Of halves
\* of the same millisecond the odd one counts as the newer.
Solutions(track) ==
    LET newest == IF track.odd.time >= track.even.time THEN track.odd ELSE track.even
    IN  {track.place,
         IF Within(track.odd.place, track.even.place, Reach) THEN newest.place
         ELSE Elsewhere}

\* AircraftTracker::ingest: what a squitter may make of its track.
Ingested(before, squitter, now) ==
    LET track == [before EXCEPT !.seen = now, !.messages = @ + 1]
        half == [place |-> squitter.place, time |-> now]
        valued == [track EXCEPT !.alt = Known(@, squitter.value)]
        halved == IF squitter.odd THEN [valued EXCEPT !.odd = half]
                  ELSE [valued EXCEPT !.even = half]
    IN  CASE squitter.kind = "ident" ->
                {[track EXCEPT !.ident = squitter.value]}
          [] squitter.kind = "velocity" ->
                {[track EXCEPT !.vel = Known(@, squitter.value)]}
          [] squitter.kind = "position" ->
                IF NoHalf \in {halved.even, halved.odd}
                   \/ ~Pairs(halved.even, halved.odd)
                THEN {halved}
                ELSE {[halved EXCEPT !.place = p] : p \in Solutions(halved)}

\* Mutant: the velocity is forgotten.
ReportableButVelocity(before, after) ==
    \E f \in Reportable \ {"vel"} : before[f] # after[f]

ReportableChange(before, after) == \E f \in Reportable : before[f] # after[f]

Stale(track, now) == now - track.seen > Ttl

=============================================================================
