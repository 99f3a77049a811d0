--------------------------- MODULE MCGatewayServer ---------------------------
(* Two clients: one whose sockets may overlap, one whose sockets do not.     *)
EXTENDS GatewayServer, TLC

CONSTANTS tab, page,             \* clients
          s1, s2, s3, s4         \* sockets

MCClientOf == s1 :> tab @@ s2 :> tab @@ s3 :> page @@ s4 :> page

MCSymmetry == Permutations(Bridges) \cup Permutations({s1, s2})
              \cup Permutations({s3, s4})
=============================================================================
