------------------------------ MODULE MCTcpNat ------------------------------
(* A small instance of TcpNat: one key, two connection objects, payloads of  *)
(* at most one byte, and any segment at any time, sensible or not.           *)
EXTENDS TcpNatProps, TLC

MCPayloads == {<<>>, <<1>>}
MCISNs     == {SeqMod - 1}

(* The sequence number of a segment of a connection is looked at with data   *)
(* only.                                                                     *)
MCSegments ==
    [flags : {{"SYN"}, {"RST"}}, seq : MCISNs, ack : {0},
     data : {<<>>}]
    \cup [flags : {{"ACK"}, {"ACK", "FIN"}}, seq : {0}, ack : 0..1,
          data : {<<>>}]
    \cup [flags : {{"ACK"}, {"ACK", "FIN"}}, seq : {0, 1}, ack : {0},
          data : {<<1>>}]

MCSymmetry == Permutations(Conns)
=============================================================================
