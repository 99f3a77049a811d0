--------------------------- MODULE InboundTunnel ---------------------------
(* TcpInbound closed by the websocket, which carries frames both ways in     *)
(* order and loses none, and by an HTTP server on the chip, which is not in  *)
(* this repository: it may refuse, stay silent, stop short, abort or send    *)
(* again what it takes to be lost.                                           *)
EXTENDS TcpInbound

CONSTANTS
    ChipISN,         \* the server's initial sequence number
    Responses,       \* what it may answer
    Sizes,           \* the lengths of its segments
    MaxRetransmits,  \* bound: segments it sends again, per request
    MaxQueued,       \* bound: segments on the websocket when it sends
    Faults           \* what may go wrong: "refuse", "short", "abort", "stop"

ASSUME InboundTunnelAssumption ==
    /\ ChipISN \in SeqNums /\ Responses \subseteq Seq(Nat)
    /\ Sizes \subseteq Nat \ {0} /\ MaxRetransmits \in Nat
    /\ MaxQueued \in Nat
    /\ Faults \subseteq {"refuse", "short", "abort", "stop"}

(* A response with its SYN and its FIN is shorter than the sequence space,   *)
(* which the code has at 2^32.                                               *)
ASSUME ResponseAssumption == \A x \in Responses : Len(x) + 2 < SeqMod

(* A server whose lengths are right: no response is complete before its end, *)
(* by the length it declares, or it declares none.                           *)
WellDeclared ==
    \A x \in Responses : \A n \in 1 .. Len(x) :
        http_response_complete(SubSeq(x, 1, n)) => n = Len(x)

VARIABLES
    to_gw,     \* segments on the websocket, chip to gateway
    to_chip,   \* frames on the websocket, gateway to chip
    server     \* the chip's end of each connection

chipVars   == <<to_gw, to_chip, server>>
tunnelVars == <<inVars, chipVars>>

(* st is listen, open, gone (refused or aborted) or reset; response what it  *)
(* has decided to answer, once it has heard the request; next the offset of  *)
(* what it sends next: 0 is the SYN, 1.. the response, and then the FIN.     *)
NewServer == [st |-> "listen", their_isn |-> 0, heard |-> FALSE,
              their_fin |-> FALSE, response |-> <<>>, next |-> 0,
              fin |-> FALSE, unacked |-> {}, retransmits |-> 0]

TunnelInit ==
    /\ InboundInit
    /\ to_gw = <<>> /\ to_chip = <<>>
    /\ server = [r \in Requests |-> NewServer]

-----------------------------------------------------------------------------
One(cond) == IF cond THEN 1 ELSE 0

SeqAt(offset) == seq_add(ChipISN, offset)

(* What the server expects next, for an end v of it.                         *)
Expects(v) == seq_add(v.their_isn, 1 + One(v.their_fin)
                                     + IF v.heard THEN RequestLen ELSE 0)

Part(off, flags, data) == [off |-> off, flags |-> flags, data |-> data]
Span(p) == Len(p.data) + One(p.flags \cap {"SYN", "FIN"} # {})

(* v is the server's end as the segment leaves it.                           *)
PutPart(r, v, p) ==
    to_gw' = Append(to_gw,
        [req |-> r, seg |-> [flags |-> p.flags, seq |-> SeqAt(p.off),
                             ack |-> Expects(v), data |-> p.data]])

Put(r, v, flags) == PutPart(r, v, Part(v.next, flags, <<>>))

(* What the server sends by itself waits for room.  The gateway takes        *)
(* segments one at a time, in order: a longer queue only delays them.        *)
Room == Len(to_gw) < MaxQueued

(* It sends the next part of its stream, and keeps it.                       *)
Send(r, v, flags, data) ==
    LET p == Part(v.next, flags, data)
    IN  /\ server' = [server EXCEPT ![r] =
             [v EXCEPT !.next = @ + Span(p), !.unacked = @ \cup {p},
                       !.fin = "FIN" \in flags]]
        /\ PutPart(r, v, p)

Remaining(r) == Len(server[r].response) - (server[r].next - 1)

CanSend(r) ==
    server[r].st = "open" /\ server[r].heard /\ ~server[r].fin /\ Room

(* The next n bytes, with the FIN on the last of them or not.                *)
ServerSends(r) ==
    /\ CanSend(r)
    /\ \E n \in Sizes :
         /\ n <= Remaining(r)
         /\ \E flags \in {{"ACK"}} \cup
                         IF n = Remaining(r) THEN {{"ACK", "FIN"}} ELSE {} :
              Send(r, server[r], flags,
                   SubSeq(server[r].response, server[r].next,
                          server[r].next + n - 1))
    /\ UNCHANGED <<inVars, to_chip>>

ServerFinishes(r) ==
    /\ CanSend(r) /\ (Remaining(r) = 0 \/ "short" \in Faults)
    /\ Send(r, server[r], {"ACK", "FIN"}, <<>>)
    /\ UNCHANGED <<inVars, to_chip>>

(* The retransmission timer: the oldest part that is not acknowledged.       *)
ServerRetransmits(r) ==
    /\ server[r].st = "open"
    /\ server[r].retransmits < MaxRetransmits /\ Room
    /\ \E p \in server[r].unacked :
         /\ \A q \in server[r].unacked : p.off <= q.off
         /\ PutPart(r, server[r], p)
    /\ server' = [server EXCEPT ![r].retransmits = @ + 1]
    /\ UNCHANGED <<inVars, to_chip>>

ServerAborts(r) ==
    /\ "abort" \in Faults /\ server[r].st = "open" /\ Room
    /\ server' = [server EXCEPT ![r].st = "gone"]
    /\ Put(r, server[r], {"RST"})
    /\ UNCHANGED <<inVars, to_chip>>

-----------------------------------------------------------------------------
(* The server takes the oldest frame, f.                                     *)

Listens(r, f) ==
    /\ server[r].st = "listen" /\ f.flags = {"SYN"}
    /\ LET v == [server[r] EXCEPT !.st = "open", !.their_isn = f.seq]
       IN  \/ Send(r, v, {"SYN", "ACK"}, <<>>)
           \/ /\ "refuse" \in Faults
              /\ server' = [server EXCEPT ![r].st = "gone"]
              /\ Put(r, v, {"RST", "ACK"})

(* Both streams are over and acknowledged.                                   *)
Over(v) == v.fin /\ v.their_fin /\ v.unacked = {}

IsReset(r, f) ==
    /\ server[r].st = "open" /\ "RST" \in f.flags
    /\ server' = [server EXCEPT ![r].st =
         IF f.seq = Expects(server[r]) /\ ~Over(server[r])
         THEN "reset" ELSE @]
    /\ UNCHANGED to_gw

StillUnacked(v, f) ==
    LET Covered(p) == \E o \in p.off + Span(p) .. v.next : f.ack = SeqAt(o)
    IN  {p \in v.unacked : ~Covered(p)}

(* An acknowledgement, the request, or the end of the gateway's stream; a    *)
(* FIN is acknowledged, the request by the response.                         *)
Takes(r, f) ==
    /\ server[r].st = "open" /\ "RST" \notin f.flags
    /\ \E response \in Responses :
         LET v    == server[r]
             next == f.seq = Expects(v)
             hear == next /\ f.len > 0 /\ ~v.heard
             w    == [v EXCEPT
                        !.unacked = StillUnacked(v, f),
                        !.heard = @ \/ hear,
                        !.response = IF hear THEN response ELSE @,
                        !.their_fin = @ \/ (next /\ "FIN" \in f.flags)]
         IN  /\ server' = [server EXCEPT ![r] = w]
             /\ IF "FIN" \in f.flags THEN Put(r, w, {"ACK"})
                ELSE UNCHANGED to_gw

(* A frame for a connection it no longer has.                                *)
Refuses(r, f) ==
    /\ server[r].st \in {"gone", "reset"}
    /\ IF "RST" \in f.flags THEN UNCHANGED to_gw ELSE Put(r, server[r], {"RST"})
    /\ UNCHANGED server

ServerReceives ==
    /\ to_chip # <<>>
    /\ to_chip' = Tail(to_chip)
    /\ LET f == Head(to_chip)
       IN  \/ Listens(f.req, f) \/ IsReset(f.req, f) \/ Takes(f.req, f)
           \/ Refuses(f.req, f)
    /\ UNCHANGED inVars

-----------------------------------------------------------------------------
(* The gateway.                                                              *)
GwReceives ==
    /\ to_gw # <<>>
    /\ deliver_packet_out(Head(to_gw).req, Head(to_gw).seg)
    /\ to_gw' = Tail(to_gw)
    /\ to_chip' = to_chip \o out'
    /\ UNCHANGED server

Emits(A) == A /\ to_chip' = to_chip \o out' /\ UNCHANGED <<to_gw, server>>

(* 5 s are longer than a segment takes: none of r is under way by then.      *)
Quiescent(r) ==
    /\ handler.req # r
    /\ \A i \in DOMAIN to_gw : to_gw[i].req # r
    /\ \A i \in DOMAIN to_chip : to_chip[i].req # r

TunnelNext ==
    \/ \E r \in Requests : \/ ServerSends(r) \/ ServerFinishes(r)
                           \/ ServerRetransmits(r) \/ ServerAborts(r)
    \/ ServerReceives
    \/ GwReceives
    \/ Emits(HandlerRuns)
    \/ \E r \in Requests :
         \/ Emits(http_into_chip(r) \/ TaskRuns(r) \/ DeadlinePasses(r))
         \/ Quiescent(r) /\ Emits(Forgets(r))
    \/ "stop" \in Faults /\ Emits(stop \/ shutdown)

TunnelSpec == TunnelInit /\ [][TunnelNext]_tunnelVars

(* The event loop runs the task of a request and its timers; nothing is      *)
(* asked of the chip, the handler or the websocket.                          *)
LiveSpec ==
    /\ TunnelSpec
    /\ \A r \in Requests :
         /\ WF_tunnelVars(Emits(TaskRuns(r)))
         /\ WF_tunnelVars(Emits(DeadlinePasses(r)))

-----------------------------------------------------------------------------
SentBytes(r) ==
    SubSeq(server[r].response, 1, server[r].next - 1 - One(server[r].fin))

(* The response of each request as a ByteStream into rx.                     *)
Response == INSTANCE ByteStream WITH
    Streams <- Requests, Bytes <- Nat,
    sent    <- [r \in Requests |-> SentBytes(r)],
    closed  <- [r \in Requests |-> server[r].fin],
    got     <- [r \in Requests |-> conn[r].rx],
    end     <- [r \in Requests |-> IF conn[r].reset THEN "broken"
                                   ELSE IF conn[r].finished THEN "ended"
                                   ELSE "open"]

(* A response is collected in order, each byte once, and finished is set     *)
(* without reset only when all that the server sent has been collected       *)
(* (tcp_inbound.py:137-156).                                                 *)
ResponseIsAStream == Response!Spec

(* A request that ends by Content-Length has the whole response, however it  *)
(* was cut into segments (tcp_inbound.py:271-291).                           *)
CompleteIsWhole ==
    \A r \in Requests :
        task[r].how = "complete" => conn[r].rx = server[r].response

(* When the server has nothing left that is not acknowledged, all it has     *)
(* sent was collected: no byte is lost by an ACK that runs ahead of rx       *)
(* (tcp_inbound.py:139-147, 226-229).                                        *)
AckedIsCollected ==
    \A r \in Requests :
        server[r].unacked = {} => Len(SentBytes(r)) <= Len(conn[r].rx)

(* No wakeup is lost: a request that waits with a complete response has been *)
(* or is about to be told (tcp_inbound.py:143-144, 191-200).                 *)
CompleteIsTold ==
    \A r \in Requests :
        task[r].pc = "wait" /\ http_response_complete(conn[r].rx) =>
            \/ conn[r].data_event
            \/ handler.pc = "data_acked" /\ handler.req = r

(* A request that ended by the server's FIN leaves nothing half open: by the *)
(* time it is forgotten the server, unless it has given up, has the FIN of   *)
(* the gateway and an acknowledgement of its own, and was never reset        *)
(* (tcp_inbound.py:149-156, 206-213).                                        *)
FinishedIsClosed ==
    \A r \in Requests :
        task[r].how = "fin" /\ ~conn[r].reset /\ task[r].pc = "gone"
        /\ bridge = "running" => server[r].st = "gone" \/ Over(server[r])

(* "a RST crashes blocking-socket sketches with ECONNRESET" (tcp_inbound.py: *)
(* 206-210): whatever the server still sends, and however the request ended, *)
(* it is not reset while the connection is kept in TIME_WAIT.                *)
LateIsAbsorbed ==
    \A r \in Requests : server[r].st = "reset" => task[r].pc = "gone"

(* "chip FIN (or Content-Length satisfied)" ... "we ACK + FIN" (tcp_inbound. *)
(* py:24-26): when a complete request is forgotten, the server, unless it    *)
(* has given up, has been sent the gateway's FIN.                            *)
CompleteIsClosed ==
    \A r \in Requests :
        task[r].how = "complete" /\ task[r].pc = "gone"
        /\ server[r].st = "open" /\ bridge = "running" => server[r].their_fin

(* A request returns, whatever the chip and the handler do: a deadline or a  *)
(* timeout ends what nothing else does (tcp_inbound.py:176-203).             *)
RequestReturns ==
    \A r \in Requests : task[r].pc = "arp" ~> task[r].pc \in {"over", "gone"}
=============================================================================
