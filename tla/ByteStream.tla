----------------------------- MODULE ByteStream -----------------------------
(* What a relay of TCP promises of each direction it carries: the receiver   *)
(* gets the bytes that were sent, in order and each once, and the sender's   *)
(* end of stream is passed on only when it has closed and all of them have   *)
(* arrived.  The relay may break a stream off at any time, which need not    *)
(* look different to the receiver; nothing follows the end.                  *)
(* TcpTunnel implements it for the chip's bytes, and InboundTunnel for the   *)
(* response of the server on the chip.                                       *)
EXTENDS SequencesExt

CONSTANTS Streams, Bytes

VARIABLES
    sent,     \* what the sender has put into each stream
    closed,   \* whether it has said that this was all
    got,      \* what the receiver was given
    end       \* open, ended (passed on), or broken (off by the relay)

vars == <<sent, closed, got, end>>

Init ==
    /\ sent = [s \in Streams |-> <<>>]
    /\ closed = [s \in Streams |-> FALSE]
    /\ got = [s \in Streams |-> <<>>]
    /\ end = [s \in Streams |-> "open"]

Stays(s) ==
    sent'[s] = sent[s] /\ closed'[s] = closed[s]

Sends(s) ==
    /\ ~closed[s]
    /\ sent'[s] \in Seq(Bytes) /\ IsPrefix(sent[s], sent'[s])
    /\ closed'[s] \in BOOLEAN
    /\ got'[s] = got[s] /\ end'[s] = end[s]

Delivers(s) ==
    /\ end[s] = "open"
    /\ got'[s] \in Seq(Bytes)
    /\ IsPrefix(got[s], got'[s]) /\ IsPrefix(got'[s], sent[s])
    /\ \/ end'[s] = "open"
       \/ end'[s] = "ended" /\ closed[s] /\ got'[s] = sent[s]
    /\ Stays(s)

Breaks(s) ==
    end'[s] = "broken" /\ got'[s] = got[s] /\ Stays(s)

Rests(s) ==
    end'[s] = end[s] /\ got'[s] = got[s] /\ Stays(s)

(* Streams are independent: a step of the system may move several of them.   *)
Next == \A s \in Streams : Rests(s) \/ Sends(s) \/ Delivers(s) \/ Breaks(s)

Spec == Init /\ [][Next]_vars
=============================================================================
