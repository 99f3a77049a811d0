------------------------------- MODULE MCBridge -------------------------------
(* A small instance of Bridge: two keys, a third that is refused, three      *)
(* flows, and a chip that comes up twice.                                    *)
EXTENDS Bridge
=============================================================================
