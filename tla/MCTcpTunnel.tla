----------------------------- MODULE MCTcpTunnel -----------------------------
(* A small instance of TcpTunnel: one key.                                   *)
EXTENDS TcpTunnel, TLC

MCPayloads == {<<>>} \cup {<<b>> : b \in 1..ChipBytes}
MCISNs     == {SeqMod - 1}
MCSymmetry == Permutations(Conns)
=============================================================================
