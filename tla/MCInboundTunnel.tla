--------------------------- MODULE MCInboundTunnel ---------------------------
(* A small instance of InboundTunnel.  The first response declares a length  *)
(* of 2, before a separator that may be cut in two; the second declares no   *)
(* length.                                                                   *)
EXTENDS InboundTunnel

MCISNs      == {SeqMod - 1}
MCResponses == {<<Other, Declares(2)>> \o CrLf2 \o <<Other, Other>>,
                Lf2 \o <<Other, Other>>}
=============================================================================
