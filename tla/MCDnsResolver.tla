---------------------------- MODULE MCDnsResolver ----------------------------
(* A small instance of DnsResolver: two bridges with one handler each, one   *)
(* asking for every name and the other for one of them, over and over.  In   *)
(* initial states of their own, from which nothing happens, it also has the  *)
(* packets of WirePackets.                                                   *)
EXTENDS DnsResolver, WirePackets

CONSTANTS r1, r2, q1, q2,        \* resolvers and handlers
          n2,                    \* the name that both ask for
          public, private        \* addresses

MCResolverOf == [q \in {q1, q2} |-> IF q = q1 THEN r1 ELSE r2]

(* Every name has an address of each kind.                                   *)
MCAnswers == {{public, private}}

MCAsks == [q \in {q1, q2} |-> IF q = q1 THEN Names ELSE {n2}]

mcVars == <<dnsVars, packet>>

MCInit == DnsInit /\ packet \in Packets

MCNext ==
    \/ /\ packet = NoPacket /\ DnsNext /\ UNCHANGED packet
       /\ \A q \in Queries : query'[q].name \in MCAsks[q] \cup {None}
    \/ packet # NoPacket /\ UNCHANGED mcVars

MCSpec == MCInit /\ [][MCNext]_mcVars /\ DnsFairness
=============================================================================
