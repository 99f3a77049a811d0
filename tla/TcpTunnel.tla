------------------------------ MODULE TcpTunnel ------------------------------
(* TcpNat closed by the two ends it serves: the websocket, which carries     *)
(* Ethernet frames both ways in order and loses none, and the chip's TCP     *)
(* (lwIP), which is not in this repository and is modelled from what         *)
(* tcp_nat.py expects of it: it opens each key once, numbers its bytes from  *)
(* the SYN on, takes only the next segment it expects, keeps a segment until *)
(* it is acknowledged and may send it again.                                 *)
(*                                                                           *)
(* A chip stream is given by offsets: 0 is the SYN, 1.. the bytes, and the   *)
(* FIN comes after the last byte.                                            *)
EXTENDS TcpNatProps

CONSTANTS
    ChipISN,         \* the chip's initial sequence number
    ChipBytes,       \* bound: bytes the sketch sends on a connection
    MaxRetransmits,  \* bound: segments a chip sends again, per key
    MaxQueued,       \* bound: segments on the websocket when the chip sends
    Coalesce,        \* whether a FIN may share a segment with the last bytes
    Faults           \* what may go wrong: "refuse", "reset", "abort", "stop"

(* The segments the chip may send carry a byte at most; a FIN comes with one *)
(* only where that is allowed.                                               *)
ChipSegments ==
    {s \in [flags : SUBSET Flags, seq : SeqNums, ack : SeqNums,
            data : {<<>>} \cup {<<b>> : b \in 1..ChipBytes}] :
       "FIN" \in s.flags /\ s.data # <<>> => Coalesce}

ASSUME TunnelAssumption ==
    /\ Segments = ChipSegments
    /\ ChipISN \in SeqNums /\ ChipBytes \in 0..MaxBytes
    /\ MaxRetransmits \in Nat /\ MaxQueued \in Nat /\ Coalesce \in BOOLEAN
    /\ Faults \subseteq {"refuse", "reset", "abort", "stop"}

VARIABLES
    to_gw,     \* segments on the websocket, chip to gateway
    to_chip,   \* frames on the websocket, gateway to chip
    chip       \* the chip's end of each key

chipVars   == <<to_gw, to_chip, chip>>
tunnelVars == <<vars, chipVars>>

(* st is closed, syn_sent, open or gone (aborted or reset); next is the next *)
(* offset to send, unacked what may be sent again, fin whether a FIN was     *)
(* sent; received, their_fin and their_isn are what came of the other side.  *)
NewChip == [st |-> "closed", next |-> 0, unacked |-> {}, fin |-> FALSE,
            received |-> <<>>, their_fin |-> FALSE, their_isn |-> 0,
            retransmits |-> 0]

TunnelInit ==
    /\ Init
    /\ to_gw = <<>> /\ to_chip = <<>>
    /\ chip = [k \in Keys |-> NewChip]

-----------------------------------------------------------------------------
One(cond) == IF cond THEN 1 ELSE 0

SeqAt(offset) == seq_add(ChipISN, offset)

(* What the chip expects next of the gateway.                                *)
Expects(k) == seq_add(chip[k].their_isn,
                      1 + Len(chip[k].received) + One(chip[k].their_fin))

(* A part of the chip's stream covers the offsets off .. off + Span - 1.     *)
Part(off, flags, data) == [off |-> off, flags |-> flags, data |-> data]
Span(p) == Len(p.data) + One(p.flags \cap {"SYN", "FIN"} # {})

PutPart(k, p, ack) ==
    to_gw' = Append(to_gw,
        [key |-> k, seg |-> [flags |-> p.flags, seq |-> SeqAt(p.off),
                             ack |-> IF "ACK" \in p.flags THEN ack ELSE 0,
                             data |-> p.data]])

(* A segment that takes no room in the stream.                               *)
Put(k, flags, ack) == PutPart(k, Part(chip[k].next, flags, <<>>), ack)

(* What the chip sends by itself waits for room.  The gateway takes segments *)
(* one at a time, in order: a longer queue only delays them.                 *)
Room == Len(to_gw) < MaxQueued

(* The chip sends the next part of its stream, and keeps it.                 *)
Send(k, flags, data) ==
    LET p == Part(chip[k].next, flags, data)
    IN  /\ Room
        /\ chip' = [chip EXCEPT ![k].next = @ + Span(p),
                                ![k].unacked = @ \cup {p},
                                ![k].fin = "FIN" \in flags,
                                ![k].st = IF @ = "open" THEN @ ELSE "syn_sent"]
        /\ PutPart(k, p, Expects(k))
        /\ UNCHANGED <<vars, to_chip>>

ChipOpens(k) == chip[k].st = "closed" /\ Send(k, {"SYN"}, <<>>)

CanSend(k) == chip[k].st = "open" /\ ~chip[k].fin

(* The bytes are their own offsets.                                          *)
NextByte(k) == {<<b>> : b \in {chip[k].next} \cap 1..ChipBytes}

ChipSendsByte(k) ==
    CanSend(k) /\ \E data \in NextByte(k) : Send(k, {"ACK"}, data)

ChipFinishes(k) ==
    /\ CanSend(k)
    /\ \E data \in {<<>>} \cup (IF Coalesce THEN NextByte(k) ELSE {}) :
         Send(k, {"ACK", "FIN"}, data)

(* The retransmission timer: the oldest part that is not acknowledged.       *)
ChipRetransmits(k) ==
    /\ chip[k].st \in {"syn_sent", "open"}
    /\ chip[k].retransmits < MaxRetransmits /\ Room
    /\ \E p \in chip[k].unacked :
         /\ \A q \in chip[k].unacked : p.off <= q.off
         /\ PutPart(k, p, Expects(k))
    /\ chip' = [chip EXCEPT ![k].retransmits = @ + 1]
    /\ UNCHANGED <<vars, to_chip>>

ChipAborts(k) ==
    /\ "abort" \in Faults /\ chip[k].st \in {"syn_sent", "open"} /\ Room
    /\ chip' = [chip EXCEPT ![k].st = "gone"]
    /\ Put(k, {"RST"}, 0)
    /\ UNCHANGED <<vars, to_chip>>

-----------------------------------------------------------------------------
(* The chip takes the oldest frame, f.                                       *)

(* What f leaves unacknowledged.                                             *)
StillUnacked(k, f) ==
    LET Covered(p) ==
          \E o \in p.off + Span(p) .. chip[k].next : f.ack = SeqAt(o)
    IN  {p \in chip[k].unacked : ~Covered(p)}

(* Both streams are over and acknowledged: TIME_WAIT.                        *)
Over(k) == chip[k].fin /\ chip[k].their_fin /\ chip[k].unacked = {}

ChipHandshake(k, f) ==
    /\ chip[k].st = "syn_sent" /\ f.flags = {"SYN", "ACK"}
    /\ chip' = [chip EXCEPT ![k].st = "open", ![k].unacked = {},
                            ![k].their_isn = f.seq]
    /\ Put(k, {"ACK"}, seq_add(f.seq, 1))

(* A reset counts when it answers the SYN or is the next thing expected.     *)
ChipIsReset(k, f) ==
    /\ chip[k].st \in {"syn_sent", "open"} /\ "RST" \in f.flags
    /\ chip' = [chip EXCEPT ![k].st =
         IF @ = "syn_sent" \/ (f.seq = Expects(k) /\ ~Over(k))
         THEN "gone" ELSE @]
    /\ UNCHANGED to_gw

(* The next bytes, or the end of stream, are taken; anything but a pure ACK  *)
(* is acknowledged.                                                          *)
ChipTakes(k, f) ==
    LET next == f.seq = Expects(k)
        fin  == "FIN" \in f.flags
        pure == f.flags = {"ACK"} /\ f.data = <<>>
    IN  /\ chip[k].st = "open" /\ "RST" \notin f.flags
        /\ chip' = [chip EXCEPT
             ![k].unacked = StillUnacked(k, f),
             ![k].received = IF next THEN @ \o f.data ELSE @,
             ![k].their_fin = @ \/ (next /\ fin)]
        /\ IF pure THEN UNCHANGED to_gw
           ELSE Put(k, {"ACK"}, IF next
                    THEN seq_add(f.seq, Len(f.data) + One(fin)) ELSE Expects(k))

(* A frame for a connection the chip does not have.                          *)
ChipRefuses(k, f) ==
    /\ \/ chip[k].st \in {"closed", "gone"}
       \/ chip[k].st = "syn_sent" /\ f.flags \cap {"RST", "SYN"} = {}
    /\ IF "RST" \in f.flags THEN UNCHANGED to_gw ELSE Put(k, {"RST"}, 0)
    /\ UNCHANGED chip

ChipReceives ==
    /\ to_chip # <<>>
    /\ to_chip' = Tail(to_chip)
    /\ LET f == Head(to_chip)
           k == f.key
       IN  \/ ChipHandshake(k, f) \/ ChipIsReset(k, f) \/ ChipTakes(k, f)
           \/ ChipRefuses(k, f)
    /\ UNCHANGED vars

ChipStep ==
    \/ ChipReceives
    \/ \E k \in Keys : ChipOpens(k) \/ ChipSendsByte(k) \/ ChipFinishes(k)
                       \/ ChipRetransmits(k) \/ ChipAborts(k)

-----------------------------------------------------------------------------
(* The gateway; what it injects goes on the websocket.                       *)
GwReceives(h) ==
    /\ to_gw # <<>>
    /\ \/ handle_chip_segment(h, Head(to_gw).key, Head(to_gw).seg)
       \/ ~running /\ handler[h].pc = "idle" /\ UNCHANGED vars
    /\ to_gw' = Tail(to_gw)
    /\ to_chip' = to_chip \o out'
    /\ UNCHANGED chip

Emits(A) == A /\ to_chip' = to_chip \o out' /\ UNCHANGED <<to_gw, chip>>

HostFails(c) ==
    \/ "refuse" \in Faults /\ (HostRefuses(c) \/ AttemptTimesOut(c))
    \/ /\ "reset" \in Faults
       /\ \/ FlushFailed(c) \/ \E o \in Starters : PumpRaises(c, o)
          \/ \E h \in Handlers : handler[h].conn = c /\ DrainFailed(h)

PumpRuns(c, o) ==
    PumpStarts(c, o) \/ PumpSent(c, o) \/ PumpFinSent(c, o) \/ PumpReset(c, o)

GwRuns ==
    \/ \E h \in Handlers :
         \/ GraceOpened(h) \/ GraceRefused(h) \/ GraceOver(h) \/ SynAnswered(h)
         \/ Drained(h) \/ DataAcked(h) \/ FinAcked(h) \/ HandlerReset(h)
         \/ shutdown(h)
    \/ \E c \in Conns :
         \/ DeferredStarts(c) \/ DeferredCancelled(c) \/ DeferredFails(c)
         \/ DeferredAttaches(c) \/ Flushed(c) \/ DeferredReset(c)
    \/ \E c \in Conns, o \in Starters : PumpRuns(c, o)

HostRuns ==
    \/ \E c \in Conns : HostAnswers(c)
    \/ \E c \in Conns, o \in Starters :
         PumpEof(c, o) \/ \E n \in ReadSizes : PumpReads(c, o, n)

TunnelNext ==
    \/ ChipStep
    \/ \E h \in Handlers : GwReceives(h)
    \/ Emits(GwRuns)
    \/ Emits(HostRuns)
    \/ \E c \in Conns : Emits(HostFails(c))
    \/ "stop" \in Faults /\ Emits(\E h \in Handlers : stop(h))

TunnelSpec == TunnelInit /\ [][TunnelNext]_tunnelVars

(* Every task that can run does, in the end; the wires deliver; a dial ends, *)
(* its attempts being timed.                                                 *)
GatewayFairness ==
    /\ WF_tunnelVars(ChipReceives)
    /\ \A h \in Handlers :
         /\ WF_tunnelVars(GwReceives(h))
         /\ WF_tunnelVars(Emits(HandlerStep(h)))
    /\ \A c \in Conns :
         /\ WF_tunnelVars(Emits(DialStep(c)))
         /\ WF_tunnelVars(Emits(DeferredStep(c)))
         /\ \A o \in Starters : WF_tunnelVars(Emits(PumpRuns(c, o)))

(* Both ends finish: the sketch closes its socket, and the host its own.     *)
EndsFinish ==
    /\ \A k \in Keys : WF_tunnelVars(ChipFinishes(k))
    /\ \A c \in Conns, o \in Starters : WF_tunnelVars(Emits(PumpEof(c, o)))

LiveSpec == TunnelSpec /\ GatewayFairness /\ EndsFinish

-----------------------------------------------------------------------------
Count(n) == [i \in 1..n |-> i]

(* How many bytes the chip has put on connection k.                          *)
BytesSent(k) ==
    IF chip[k].next = 0 THEN 0 ELSE chip[k].next - 1 - One(chip[k].fin)

(* The chip's bytes as a ByteStream per connection, the host socket being    *)
(* the receiver's end.  A socket that the gateway closes before write_eof is *)
(* a stream broken off, whatever the host makes of it: to the host the close *)
(* is an end of stream as well, and EndIsWhole below says when it is whole.  *)
Upstream == INSTANCE ByteStream WITH
    Streams <- Conns, Bytes <- Nat,
    sent    <- [c \in Conns |-> IF key[c] = None THEN <<>>
                                ELSE Count(BytesSent(key[c]))],
    closed  <- [c \in Conns |-> key[c] # None /\ chip[key[c]].fin],
    got     <- written,
    end     <- [c \in Conns |-> CASE host[c] = "eof"    -> "ended"
                                  [] host[c] = "closed" -> "broken"
                                  [] OTHER              -> "open"]

(* The chip's bytes reach the host in order, each once, none that was not    *)
(* sent, and write_eof comes after all of them: retransmissions, held bytes  *)
(* and suspended drains notwithstanding (lines 397-432, 324-339).            *)
UpstreamIsAStream == Upstream!Spec

(* The host has all of the bytes the chip will ever send on c.               *)
HasAll(c) ==
    chip[key[c]].fin /\ written[c] = Count(BytesSent(key[c]))

(* The chip gives up, or the gateway's RST is going out.                     *)
ChipIsAborting(c) ==
    to_gw # <<>> /\ Head(to_gw).key = key[c] /\ "RST" \in Head(to_gw).seg.flags

IsResetting(c) ==
    \/ deferred[c] = "rst" \/ \E o \in Starters : pump[c][o] = "rst"
    \/ \E h \in Handlers : handler[h].pc = "rst" /\ handler[h].conn = c

(* A host cannot tell write_eof from close: either is a clean end of stream  *)
(* (lines 426-427, 339, 581-583).  It comes with all of the chip's bytes,    *)
(* and is cut short only by an abort of the chip, a reset by the gateway, a  *)
(* stop of the bridge, or once the host has ended its own stream.            *)
EndIsWhole ==
    [][\A c \in Conns :
         host[c] \in {"none", "open"} /\ host'[c] \in {"eof", "closed"} =>
            \/ HasAll(c)'
            \/ /\ host'[c] = "closed"
               /\ \/ ChipIsAborting(c) \/ IsResetting(c) \/ ~running
                  \/ at_eof[c]]_tunnelVars

(* An acknowledged byte was given to the host or is held for it: the         *)
(* "proper seq/ack accounting" and "half-close handling (FIN from either     *)
(* side)" of tcp_nat.py:8-9, seen from the chip.                             *)
AckedIsTaken ==
    \A k \in Keys : \A b \in 1 .. BytesSent(k) :
        \/ \E p \in chip[k].unacked :
             \E j \in DOMAIN p.data : b = p.data[j]
        \/ \E c \in Conns :
             key[c] = k /\ b <= Len(written[c]) + Len(pending_payload[c])

(* "Connections whose host-side socket is still being opened" (tcp_nat.py:   *)
(* 157): a key is in _connecting only while its dial goes on or somebody     *)
(* still waits for the outcome.  "Torn down while we were still dialling"    *)
(* (line 306): a socket that the dial opens then has somebody to close it.   *)
DialsAreWaitedFor ==
    /\ \A k \in connecting : \E c \in Conns :
         key[c] = k /\ (dial[c] = "dialling" \/ AwaitsDial(c))
    /\ \A c \in Conns : dial[c] = "opened" => AwaitsDial(c)

(* Every SYN is answered, by a SYN+ACK or by a RST (lines 210-293), unless   *)
(* the bridge is stopped.                                                    *)
SynIsAnswered ==
    \A k \in Keys :
        chip[k].st = "syn_sent" ~> chip[k].st # "syn_sent" \/ ~running

(* Once both ends have finished, every connection leaves the table and its   *)
(* host socket is closed: "we just GC once both sides have FIN'd" (line 31). *)
ConnectionsEnd ==
    \A k \in Keys : conns[k] # None ~>
        conns[k] = None /\ \A c \in Conns : host[c] \in {"none", "closed"}

(* What was read of the host reaches the chip, unless the chip gives up or   *)
(* the bridge is stopped (lines 461-487).                                    *)
DownstreamArrives ==
    \A k \in Keys, c \in Conns, n \in 1..MaxBytes :
        key[c] = k /\ fetched[c] = n ~>
            Len(chip[k].received) >= n \/ chip[k].st = "gone" \/ ~running
=============================================================================
