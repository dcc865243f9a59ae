------------------------------ MODULE MCKissBridge ------------------------------
EXTENDS KissBridge

Item(kind, payload) == [kind |-> kind, payload |-> payload]

\* Noise before the first FEND, a payload with both escapes, a parameter
\* frame, an empty frame, a payload that looks like escapes already.
HostScript ==
    << Item("noise", <<>>), Item("data", <<FEND, FESC>>), Item("param", <<>>),
       Item("empty", <<>>), Item("data", <<TFEND>>) >>
=============================================================================
