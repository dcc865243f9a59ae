----------------------------- MODULE MCFlights -----------------------------
(***************************************************************************)
(* Signals for TLC: transmissions next to each other or apart, damaged or  *)
(* not, with a ghost, a slice one sample late that reads as an overlaid    *)
(* format; more aircraft than the roster holds; and the squitters of one   *)
(* aircraft with silence between them.  A sample's place is its position.  *)
(***************************************************************************)
EXTENDS Flights

CONSTANTS a1, a2, a3

Squitter(kind, odd, value) ==
    [kind |-> kind, odd |-> odd, value |-> value, place |-> 0]

Says(df, icao, damage, squitter) ==
    [df |-> df, icao |-> icao, damage |-> damage, squitter |-> squitter]
Slice(df, icao, damage) == Says(df, icao, damage, Squitter("ident", FALSE, "call"))

\* What one transmission slices to, at its preamble.
Menu ==
    {<<Slice("adsb", a, "none")>> : a \in {a1, a2}}
    \union {<<Says("tisb", a2, "none", Squitter("ident", FALSE, ""))>>,
            <<Slice("overlaid", a2, "none")>>,
            <<Slice("longoverlaid", a1, "none")>>,
            <<Slice("allcall", a1, "iid")>>, <<Slice("allcall", a2, "single")>>,
            <<Slice("adsb", a2, "single"), Slice("overlaid", a1, "none")>>,
            <<Slice("adsb", a1, "more"), Slice("adsb", a1, "none")>>}

Ghosts == {<<>>, <<Slice("overlaid", a2, "none")>>}

Silence(n) == [k \in 1..n |-> <<>>]

\* A transmission, its ghost, and silence up to n samples.
Transmission(slices, ghost, n) == <<slices, ghost>> \o Silence(n - 2)

Damaged ==
    {Transmission(x, g, n) \o Transmission(y, <<>>, 3) \o Transmission(z, <<>>, 2) :
        x \in Menu, y \in Menu, g \in Ghosts, n \in {2, 3},
        z \in {<<Slice("adsb", a1, "none")>>, <<Slice("overlaid", a2, "none")>>,
              <<Slice("longoverlaid", a1, "none")>>}}

Crowd ==
    LET clear(a) == <<Slice("allcall", a, "none")>>
        overlaid(a) == <<Slice("overlaid", a, "none")>>
    IN  {Transmission(clear(a1), <<>>, 2) \o Transmission(clear(a2), <<>>, 2) \o Transmission(x, <<>>, 2)
            \o Transmission(y, <<>>, 2) \o Transmission(z, <<>>, 2) :
         x \in {clear(a) : a \in {a1, a2, a3}},
         y \in {clear(a3), clear(a1), overlaid(a1)},
         z \in {overlaid(a1), overlaid(a2)}}

Flight ==
    LET squitters == {Squitter("ident", FALSE, ""), Squitter("ident", FALSE, "call"),
                      Squitter("velocity", FALSE, 1),
                      Squitter("position", TRUE, NoData),
                      Squitter("position", FALSE, 1)}
        sent(s, n) == Transmission(<<Says("adsb", a1, "none", s)>>, <<>>, n)
    IN  {sent(x, 12) \o sent(y, 3) \o sent(z, 3) :
            x \in squitters, y \in squitters, z \in squitters}

Placed(samples) ==
    [i \in DOMAIN samples |->
        [k \in DOMAIN samples[i] |->
            [samples[i][k] EXCEPT !.squitter.place = i]]]

MCSignals == {Placed(s) : s \in Damaged \union Crowd \union Flight}

=============================================================================
