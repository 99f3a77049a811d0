--------------------------- MODULE TcpTunnelProofs ---------------------------
(* What the NAT does for a chip that follows the protocol, over a websocket  *)
(* that keeps the order: the tunnel's steps are steps of the NAT, so that    *)
(* all that TcpNatProofs says holds of it; no socket is lost and none is     *)
(* left by a stop; and the host gets the chip's bytes as a ByteStream.       *)
EXTENDS TcpTunnel, TcpNatProofs

-----------------------------------------------------------------------------
(* Types of the wires and of the chip.                                       *)

ByteOrNone == {<<>>} \cup {<<b>> : b \in 1..ChipBytes}

PartType ==
    {p \in [off : Nat, flags : SUBSET Flags, data : ByteOrNone] :
       "FIN" \in p.flags /\ p.data # <<>> => Coalesce}

ChipType ==
    [st : {"closed", "syn_sent", "open", "gone"}, next : Nat,
     unacked : SUBSET PartType, fin : BOOLEAN, received : Seq(Nat),
     their_fin : BOOLEAN, their_isn : SeqNums, retransmits : Nat]

OnWire    == [key : Keys, seg : ChipSegments]

WireInv ==
    /\ to_gw \in Seq(OnWire) /\ to_chip \in Seq(WireFrame)
    /\ chip \in [Keys -> ChipType] /\ out \in Seq(WireFrame)

TunnelInv == WaitInv /\ WireInv

-----------------------------------------------------------------------------
(* The chip puts segments on the wire that it may send.                      *)

(* A segment of k that carries p comes last on the wire.                     *)
PutsLast(k, p) ==
    \E w \in OnWire : /\ to_gw' = Append(to_gw, w) /\ w.key = k
                      /\ w.seg.flags = p.flags /\ w.seg.data = p.data
                      /\ w.seg.seq = SeqAt(p.off)

(* A part of the chip's stream goes out as a segment of the protocol.        *)
LEMMA PutPartTyped ==
  ASSUME WireInv, NEW k \in Keys, NEW p \in PartType, NEW ack \in SeqNums,
         PutPart(k, p, ack)
  PROVE  to_gw' \in Seq(OnWire) /\ PutsLast(k, p)
<1> DEFINE s == [flags |-> p.flags, seq |-> SeqAt(p.off),
                 ack |-> IF "ACK" \in p.flags THEN ack ELSE 0, data |-> p.data]
<1>1. ChipISN \in Int /\ 0 \in SeqNums
  BY TunnelAssumption, SeqNumsAreInts
<1>2. p.off \in Int /\ p.flags \in SUBSET Flags /\ p.data \in ByteOrNone
      /\ ("FIN" \in p.flags /\ p.data # <<>> => Coalesce)
  BY DEF PartType
<1>3. SeqAt(p.off) \in SeqNums
  BY <1>1, <1>2, SeqAddTyped DEF SeqAt
<1>4. s \in ChipSegments
  BY <1>1, <1>2, <1>3 DEF ChipSegments, ByteOrNone
<1>5. [key |-> k, seg |-> s] \in OnWire
  BY <1>4 DEF OnWire
<1>6. to_gw' = Append(to_gw, [key |-> k, seg |-> s])
  BY DEF PutPart
<1>7. to_gw \in Seq(OnWire)
  BY DEF WireInv
<1> HIDE DEF s
<1>8. to_gw' \in Seq(OnWire)
  BY <1>5, <1>6, <1>7
<1>9. s.flags = p.flags /\ s.data = p.data /\ s.seq = SeqAt(p.off)
  BY DEF s
<1> QED
  BY <1>5, <1>6, <1>8, <1>9 DEF PutsLast

(* A part that carries no byte is a part.                                    *)
LEMMA PlainPart ==
  ASSUME NEW off \in Nat, NEW flags \in SUBSET Flags
  PROVE  /\ Part(off, flags, <<>>) \in PartType
         /\ Part(off, flags, <<>>).flags = flags
         /\ Part(off, flags, <<>>).data = <<>>
         /\ Part(off, flags, <<>>).off = off
BY DEF Part, PartType, ByteOrNone

(* What the chip expects next is a sequence number.                          *)
LEMMA ExpectsTyped ==
  ASSUME WireInv, NEW k \in Keys
  PROVE  Expects(k) \in SeqNums
<1>1. chip[k].their_isn \in SeqNums /\ Len(chip[k].received) \in Nat
  BY DEF WireInv, ChipType
<1>2. One(chip[k].their_fin) \in Nat
  BY DEF One
<1>3. chip[k].their_isn \in Int
  BY <1>1, SeqNumsAreInts
<1>4. 1 + Len(chip[k].received) + One(chip[k].their_fin) \in Int
  BY <1>1, <1>2
<1> QED
  BY <1>3, <1>4, SeqAddTyped DEF Expects

(* The chip's end of key k becomes z; the others stay.                       *)
Becomes(k, z) == z \in ChipType /\ chip' = [chip EXCEPT ![k] = z]

(* The chip's connection of one key changes, and no other.                   *)
LEMMA BecomesTyped ==
  ASSUME WireInv, NEW k \in Keys, NEW z, Becomes(k, z)
  PROVE  /\ chip' \in [Keys -> ChipType] /\ chip'[k] = z
         /\ \A j \in Keys \ {k} : chip'[j] = chip[j]
BY DEF WireInv, Becomes

(* The chip sends the next part of its stream.                               *)
LEMMA SendTyped ==
  ASSUME WireInv, NEW k \in Keys, NEW flags \in SUBSET Flags,
         NEW data \in ByteOrNone, "FIN" \in flags /\ data # <<>> => Coalesce,
         Send(k, flags, data),
         NEW p, p = Part(chip[k].next, flags, data)
  PROVE  /\ WireInv' /\ PutsLast(k, p) /\ p \in PartType
         /\ p.flags = flags /\ p.data = data /\ p.off = chip[k].next
         /\ \E z : /\ Becomes(k, z)
                   /\ z.next = chip[k].next + Span(p)
                   /\ z.unacked = chip[k].unacked \cup {p}
                   /\ z.fin <=> "FIN" \in flags
                   /\ z.st = IF chip[k].st = "open" THEN "open" ELSE "syn_sent"
<1>1. chip[k] \in ChipType
  BY DEF WireInv
<1>2. chip[k].next \in Nat /\ chip[k].unacked \in SUBSET PartType
  BY <1>1 DEF ChipType
<1>3. p \in PartType /\ p.flags = flags /\ p.data = data /\ p.off = chip[k].next
  BY <1>2 DEF Part, PartType
<1>4. Span(p) \in Nat
  BY <1>3 DEF Span, One, ByteOrNone
<1>5. to_gw' \in Seq(OnWire) /\ PutsLast(k, p)
  BY <1>3, ExpectsTyped, PutPartTyped DEF Send
<1>6. PICK n \in Nat : n = chip[k].next + Span(p)
  BY <1>2, <1>4
<1>7. PICK u \in SUBSET PartType : u = chip[k].unacked \cup {p}
  BY <1>2, <1>3
<1>13. PICK f \in BOOLEAN : f <=> "FIN" \in flags
  OBVIOUS
<1>14. PICK st \in {"closed", "syn_sent", "open", "gone"} :
         st = IF chip[k].st = "open" THEN "open" ELSE "syn_sent"
  OBVIOUS
<1>15. PICK z :
         z = [chip[k] EXCEPT !.next = n, !.unacked = u, !.fin = f, !.st = st]
  OBVIOUS
<1>16. chip' = [chip EXCEPT ![k] = z]
  BY <1>1, <1>6, <1>7, <1>13, <1>14, <1>15 DEF Send, WireInv, ChipType
<1>8. z \in ChipType /\ z.next = n /\ z.unacked = u /\ z.fin = f /\ z.st = st
  BY <1>1, <1>15 DEF ChipType
<1>9. Becomes(k, z)
  BY <1>8, <1>16 DEF Becomes
<1>10. UNCHANGED <<out, to_chip>>
  BY DEF Send, vars
<1>11. WireInv'
  BY <1>5, <1>9, <1>10, BecomesTyped DEF WireInv
<1>12. /\ z.next = chip[k].next + Span(p)
       /\ z.unacked = chip[k].unacked \cup {p}
       /\ z.fin <=> "FIN" \in flags
       /\ z.st = IF chip[k].st = "open" THEN "open" ELSE "syn_sent"
  BY <1>6, <1>7, <1>8, <1>13, <1>14
<1> QED
  BY <1>3, <1>5, <1>9, <1>11, <1>12

(* The three ways in which the chip sends something new.                     *)
Sends(k, flags, data) ==
    /\ Send(k, flags, data)
    /\ \/ chip[k].st = "closed" /\ flags = {"SYN"} /\ data = <<>>
       \/ CanSend(k) /\ flags = {"ACK"} /\ data \in NextByte(k)
       \/ /\ CanSend(k) /\ flags = {"ACK", "FIN"}
          /\ data \in {<<>>} \cup (IF Coalesce THEN NextByte(k) ELSE {})

(* What the chip sends by itself: its SYN, a byte, or its FIN.               *)
LEMMA SendKinds ==
  ASSUME WireInv, NEW k \in Keys,
         ChipOpens(k) \/ ChipSendsByte(k) \/ ChipFinishes(k)
  PROVE  \E flags \in SUBSET Flags, data \in ByteOrNone :
           /\ Sends(k, flags, data)
           /\ "FIN" \in flags /\ data # <<>> => Coalesce
<1>1. NextByte(k) \subseteq ByteOrNone /\ <<>> \in ByteOrNone
  BY DEF NextByte, ByteOrNone
<1>2. {"SYN"} \in SUBSET Flags /\ {"ACK"} \in SUBSET Flags
      /\ {"ACK", "FIN"} \in SUBSET Flags
  BY DEF Flags
<1>3. CASE ChipOpens(k)
  BY <1>1, <1>2, <1>3 DEF ChipOpens, Sends
<1>4. CASE ChipSendsByte(k)
  BY <1>1, <1>2, <1>4 DEF ChipSendsByte, Sends
<1>5. CASE ChipFinishes(k)
  <2>1. PICK data \in {<<>>} \cup (IF Coalesce THEN NextByte(k) ELSE {}) :
          CanSend(k) /\ Send(k, {"ACK", "FIN"}, data)
    BY <1>5 DEF ChipFinishes
  <2>2. data # <<>> => Coalesce
    OBVIOUS
  <2>3. data \in ByteOrNone
    BY <1>1
  <2> QED
    BY <1>2, <2>1, <2>2, <2>3 DEF Sends
<1> QED
  BY <1>3, <1>4, <1>5

(* What the chip has sent, and what it has not, stays.                       *)
StreamStays(k, z) == z.next = chip[k].next /\ (z.fin <=> chip[k].fin)

(* The oldest part goes out again.                                           *)
LEMMA RetransmitTyped ==
  ASSUME WireInv, NEW k \in Keys, ChipRetransmits(k)
  PROVE  /\ WireInv'
         /\ \E p \in chip[k].unacked : p \in PartType /\ PutsLast(k, p)
         /\ \E z : /\ Becomes(k, z) /\ StreamStays(k, z)
                   /\ z.st = chip[k].st /\ z.unacked = chip[k].unacked
<1>1. chip[k] \in ChipType
  BY DEF WireInv
<1>2. PICK p \in chip[k].unacked : PutPart(k, p, Expects(k))
  BY DEF ChipRetransmits
<1>3. p \in PartType
  BY <1>1 DEF ChipType
<1>4. to_gw' \in Seq(OnWire) /\ PutsLast(k, p)
  BY <1>2, <1>3, ExpectsTyped, PutPartTyped
<1>5. PICK z : z = [chip[k] EXCEPT !.retransmits = @ + 1]
  OBVIOUS
<1>6. chip' = [chip EXCEPT ![k] = z]
  BY <1>1, <1>5 DEF ChipRetransmits, WireInv
<1>7. z \in ChipType /\ z.st = chip[k].st /\ z.unacked = chip[k].unacked
      /\ StreamStays(k, z)
  BY <1>1, <1>5, SMTT(30) DEF ChipType, StreamStays
<1>8. Becomes(k, z)
  BY <1>6, <1>7 DEF Becomes
<1>9. UNCHANGED <<out, to_chip>>
  BY DEF ChipRetransmits, vars
<1>10. WireInv'
  BY <1>4, <1>8, <1>9, BecomesTyped DEF WireInv
<1> QED
  BY <1>3, <1>4, <1>7, <1>8, <1>10

(* A segment that takes no room: it has neither bytes nor a SYN nor a FIN.   *)
Bare(p) == p \in PartType /\ p.data = <<>> /\ p.flags \in {{"ACK"}, {"RST"}}

(* A bare ACK or RST carries the place the chip's stream has reached.        *)
LEMMA PutBare ==
  ASSUME WireInv, NEW k \in Keys, NEW flags \in {{"ACK"}, {"RST"}},
         NEW ack \in SeqNums, Put(k, flags, ack)
  PROVE  /\ to_gw' \in Seq(OnWire)
         /\ \E p : Bare(p) /\ PutsLast(k, p)
<1>1. chip[k].next \in Nat
  BY DEF WireInv, ChipType
<1>2. flags \in SUBSET Flags
  BY DEF Flags
<1>3. PICK p : p = Part(chip[k].next, flags, <<>>)
  OBVIOUS
<1>4. Bare(p)
  BY <1>1, <1>2, <1>3, PlainPart DEF Bare
<1>5. PutPart(k, p, ack)
  BY <1>3 DEF Put
<1> QED
  BY <1>4, <1>5, PutPartTyped DEF Bare

(* The chip gives a connection up.                                           *)
LEMMA AbortTyped ==
  ASSUME WireInv, NEW k \in Keys, ChipAborts(k)
  PROVE  /\ WireInv' /\ \E p : Bare(p) /\ PutsLast(k, p)
         /\ \E z : /\ Becomes(k, z) /\ StreamStays(k, z)
                   /\ z.st = "gone" /\ z.unacked = chip[k].unacked
<1>1. chip[k] \in ChipType
  BY DEF WireInv
<1>2. to_gw' \in Seq(OnWire) /\ \E p : Bare(p) /\ PutsLast(k, p)
  BY PutBare, SeqNumsAreInts DEF ChipAborts
<1>5. PICK z : z = [chip[k] EXCEPT !.st = "gone"]
  OBVIOUS
<1>6. chip' = [chip EXCEPT ![k] = z]
  BY <1>5 DEF ChipAborts
<1>7. z \in ChipType /\ z.st = "gone" /\ z.unacked = chip[k].unacked
      /\ StreamStays(k, z)
  BY <1>1, <1>5 DEF ChipType, StreamStays
<1>8. Becomes(k, z)
  BY <1>6, <1>7 DEF Becomes
<1>9. UNCHANGED <<out, to_chip>>
  BY DEF ChipAborts, vars
<1>10. WireInv'
  BY <1>2, <1>8, <1>9, BecomesTyped DEF WireInv
<1> QED
  BY <1>2, <1>7, <1>8, <1>10

(* What a frame of the gateway may make of the chip's end of its key.        *)
Reacts(k, z) ==
    /\ Becomes(k, z) /\ StreamStays(k, z)
    /\ \/ z.st = chip[k].st /\ z.unacked = chip[k].unacked
       \/ chip[k].st = "syn_sent" /\ z.st = "open" /\ z.unacked = {}
       \/ /\ chip[k].st \in {"syn_sent", "open"} /\ z.st = "gone"
          /\ z.unacked = chip[k].unacked
       \/ /\ chip[k].st = "open" /\ z.st = "open"
          /\ z.unacked \subseteq chip[k].unacked

(* It answers with a bare segment or not at all.                             *)
Answers(k) == (to_gw' = to_gw) \/ \E p : Bare(p) /\ PutsLast(k, p)

ReactsTo(k) == /\ to_gw' \in Seq(OnWire) /\ Answers(k)
               /\ \E z : Reacts(k, z)

(* The chip's four answers to a frame: to a SYN-ACK,                         *)
LEMMA HandshakeReacts ==
  ASSUME WireInv, NEW k \in Keys, NEW f \in WireFrame, ChipHandshake(k, f)
  PROVE  ReactsTo(k)
<1>1. chip[k] \in ChipType
  BY DEF WireInv
<1>2. f.seq \in Int /\ f.seq \in SeqNums
  BY SeqNumsAreInts DEF WireFrame
<1>3. seq_add(f.seq, 1) \in SeqNums
  BY <1>2, SeqAddTyped
<1>4. to_gw' \in Seq(OnWire) /\ Answers(k)
  BY <1>3, PutBare DEF ChipHandshake, Answers
<1>5. PICK z : z = [chip[k] EXCEPT !.st = "open", !.unacked = {},
                                   !.their_isn = f.seq]
  OBVIOUS
<1>6. chip' = [chip EXCEPT ![k] = z]
  BY <1>1, <1>5 DEF ChipHandshake, WireInv
<1>7. z \in ChipType /\ z.st = "open" /\ z.unacked = {} /\ StreamStays(k, z)
  BY <1>1, <1>2, <1>5 DEF ChipType, StreamStays
<1>8. Becomes(k, z)
  BY <1>6, <1>7 DEF Becomes
<1>9. chip[k].st = "syn_sent"
  BY DEF ChipHandshake
<1> QED
  BY <1>4, <1>7, <1>8, <1>9 DEF ReactsTo, Reacts

(* to an RST,                                                                *)
LEMMA ResetReacts ==
  ASSUME WireInv, NEW k \in Keys, NEW f, ChipIsReset(k, f)
  PROVE  ReactsTo(k)
<1>1. chip[k] \in ChipType
  BY DEF WireInv
<1>2. PICK st \in {chip[k].st, "gone"} : chip' = [chip EXCEPT ![k].st = st]
  BY <1>1 DEF ChipIsReset, WireInv
<1>3. chip[k].st \in {"syn_sent", "open"} /\ to_gw' = to_gw
  BY DEF ChipIsReset
<1>4. PICK z : z = [chip[k] EXCEPT !.st = st]
  OBVIOUS
<1>5. chip' = [chip EXCEPT ![k] = z]
  BY <1>1, <1>2, <1>4 DEF WireInv
<1>6. st \in {"closed", "syn_sent", "open", "gone"}
  BY <1>1 DEF ChipType
<1>7. z \in ChipType /\ z.st = st /\ z.unacked = chip[k].unacked
      /\ StreamStays(k, z)
  BY <1>1, <1>4, <1>6 DEF ChipType, StreamStays
<1>8. Becomes(k, z)
  BY <1>5, <1>7 DEF Becomes
<1> QED
  BY <1>3, <1>7, <1>8 DEF ReactsTo, Reacts, Answers, WireInv

(* to data or a FIN that is next in order,                                   *)
LEMMA TakesReacts ==
  ASSUME WireInv, NEW k \in Keys, NEW f \in WireFrame, ChipTakes(k, f)
  PROVE  ReactsTo(k)
<1>1. chip[k] \in ChipType
  BY DEF WireInv
<1>0. f.seq \in SeqNums /\ f.data \in Seq(Nat)
  BY DEF WireFrame
<1>18. Len(f.data) \in Nat
  BY <1>0
<1>2. f.seq \in Int /\ f.data \in Seq(Nat) /\ Len(f.data) \in Nat
  BY <1>0, <1>18, SeqNumsAreInts
<1>3. Len(f.data) + One("FIN" \in f.flags) \in Int
  BY <1>2 DEF One
<1>4. seq_add(f.seq, Len(f.data) + One("FIN" \in f.flags)) \in SeqNums
  BY <1>2, <1>3, SeqAddTyped
<1>5. to_gw' \in Seq(OnWire) /\ Answers(k)
  <2>1. CASE to_gw' = to_gw
    BY <2>1 DEF Answers, WireInv
  <2>2. CASE ~UNCHANGED to_gw
    <3>1. PICK ack \in SeqNums : Put(k, {"ACK"}, ack)
      BY <2>2, <1>4, ExpectsTyped DEF ChipTakes
    <3> QED
      BY <3>1, PutBare DEF Answers
  <2> QED
    BY <2>1, <2>2
<1>6. PICK u : u = StillUnacked(k, f)
  OBVIOUS
<1>7. u \subseteq chip[k].unacked
  BY <1>6 DEF StillUnacked
<1>16. chip[k].received \in Seq(Nat)
  BY <1>1 DEF ChipType
<1>17. chip[k].received \o f.data \in Seq(Nat)
  BY <1>2, <1>16
<1>8. PICK r \in Seq(Nat) : r = IF f.seq = Expects(k)
        THEN chip[k].received \o f.data ELSE chip[k].received
  BY <1>16, <1>17
<1>9. PICK g \in BOOLEAN :
        g <=> chip[k].their_fin \/ (f.seq = Expects(k) /\ "FIN" \in f.flags)
  OBVIOUS
<1>10. PICK z : z = [chip[k] EXCEPT !.unacked = u, !.received = r,
                                    !.their_fin = g]
  OBVIOUS
<1>11. chip' = [chip EXCEPT ![k] = z]
  BY <1>1, <1>6, <1>8, <1>9, <1>10 DEF ChipTakes, WireInv, ChipType
<1>12. u \subseteq PartType
  BY <1>1, <1>7 DEF ChipType
<1>13. z \in ChipType /\ z.unacked = u /\ z.st = chip[k].st
       /\ StreamStays(k, z)
  BY <1>1, <1>10, <1>12 DEF ChipType, StreamStays
<1>14. Becomes(k, z)
  BY <1>11, <1>13 DEF Becomes
<1>15. chip[k].st = "open"
  BY DEF ChipTakes
<1> QED
  BY <1>5, <1>7, <1>13, <1>14, <1>15 DEF ReactsTo, Reacts

(* and to any other frame, which it acknowledges or resets.                  *)
LEMMA RefusesReacts ==
  ASSUME WireInv, NEW k \in Keys, NEW f, ChipRefuses(k, f)
  PROVE  ReactsTo(k)
<1>1. chip[k] \in ChipType /\ chip' = [chip EXCEPT ![k] = chip[k]]
  BY DEF WireInv, ChipRefuses
<1>2. Becomes(k, chip[k]) /\ StreamStays(k, chip[k])
  BY <1>1 DEF Becomes, StreamStays
<1>3. to_gw' \in Seq(OnWire) /\ Answers(k)
  BY PutBare, SeqNumsAreInts DEF ChipRefuses, Answers, WireInv
<1> QED
  BY <1>2, <1>3 DEF ReactsTo, Reacts

(* The chip takes a frame of the gateway.                                    *)
LEMMA ReceivesTyped ==
  ASSUME WireInv, ChipReceives
  PROVE  WireInv' /\ \E k \in Keys : ReactsTo(k)
<1>0. to_chip \in Seq(WireFrame) /\ to_chip # <<>>
  BY DEF WireInv, ChipReceives
<1>6. Head(to_chip) \in WireFrame /\ Tail(to_chip) \in Seq(WireFrame)
  BY <1>0
<1>1. PICK f \in WireFrame : f = Head(to_chip) /\ f.key \in Keys
  BY <1>6 DEF WireFrame
<1>2. \/ ChipHandshake(f.key, f) \/ ChipIsReset(f.key, f)
      \/ ChipTakes(f.key, f) \/ ChipRefuses(f.key, f)
  BY <1>1 DEF ChipReceives
<1>3. ReactsTo(f.key)
  BY <1>1, <1>2, HandshakeReacts, ResetReacts, TakesReacts, RefusesReacts
<1>4. PICK z : Becomes(f.key, z)
  BY <1>3 DEF ReactsTo, Reacts
<1>5. to_chip' \in Seq(WireFrame) /\ out' = out
  BY <1>6 DEF ChipReceives, vars
<1> QED
  BY <1>1, <1>3, <1>4, <1>5, BecomesTyped DEF WireInv, ReactsTo

-----------------------------------------------------------------------------
(* A step of the tunnel is a step of the NAT, or leaves the NAT alone.       *)

(* The segments on the wire are for a key, and some that may come.           *)
LEMMA HeadTyped ==
  ASSUME WireInv, to_gw # <<>>
  PROVE  /\ Head(to_gw) \in OnWire /\ Head(to_gw).key \in Keys
         /\ Head(to_gw).seg \in Segments /\ Head(to_gw).seg \in Segment
         /\ Tail(to_gw) \in Seq(OnWire)
<1>1. to_gw \in Seq(OnWire)
  BY DEF WireInv
<1>2. Head(to_gw) \in OnWire /\ Tail(to_gw) \in Seq(OnWire)
  BY <1>1
<1>3. \A w \in OnWire : w.key \in Keys /\ w.seg \in ChipSegments
  BY DEF OnWire
<1>4. ChipSegments = Segments
  BY TunnelAssumption
<1>5. Segments \subseteq Segment
  BY TcpNatAssumption
<1> QED
  BY ONLY <1>2, <1>3, <1>4, <1>5

(* The chip's steps leave the NAT alone.                                     *)
LEMMA ChipStepAside == ChipStep => UNCHANGED vars
<1>1. ChipReceives => UNCHANGED vars
  BY DEF ChipReceives
<1>2. ASSUME NEW k, NEW flags, NEW data, Send(k, flags, data)
      PROVE  UNCHANGED vars
  BY <1>2 DEF Send
<1>3. ASSUME NEW k, ChipOpens(k) \/ ChipSendsByte(k) \/ ChipFinishes(k)
      PROVE  UNCHANGED vars
  BY <1>2, <1>3 DEF ChipOpens, ChipSendsByte, ChipFinishes
<1>4. ASSUME NEW k PROVE ChipRetransmits(k) => UNCHANGED vars
  BY DEF ChipRetransmits
<1>5. ASSUME NEW k PROVE ChipAborts(k) => UNCHANGED vars
  BY DEF ChipAborts
<1> QED
  BY <1>1, <1>3, <1>4, <1>5 DEF ChipStep

(* The frames of a step of the NAT go on the websocket.                      *)
LEMMA EmitTyped ==
  ASSUME WireInv, out' \in Seq(WireFrame), to_chip' = to_chip \o out'
  PROVE  to_chip' \in Seq(WireFrame)
BY DEF WireInv

(* The chip's steps keep the wire well typed.                                *)
LEMMA ChipStepTyped == WireInv /\ ChipStep => WireInv'
<1> SUFFICES ASSUME WireInv, ChipStep PROVE WireInv'
  OBVIOUS
<1>1. CASE ChipReceives
  BY <1>1, ReceivesTyped
<1>2. ASSUME NEW k \in Keys,
             ChipOpens(k) \/ ChipSendsByte(k) \/ ChipFinishes(k)
      PROVE  WireInv'
  <2>1. PICK flags \in SUBSET Flags, data \in ByteOrNone :
          /\ Sends(k, flags, data)
          /\ "FIN" \in flags /\ data # <<>> => Coalesce
    BY <1>2, SendKinds
  <2>2. PICK p : p = Part(chip[k].next, flags, data)
    OBVIOUS
  <2> QED
    BY <2>1, <2>2, SendTyped DEF Sends
<1>3. ASSUME NEW k \in Keys, ChipRetransmits(k) PROVE WireInv'
  BY <1>3, RetransmitTyped
<1>4. ASSUME NEW k \in Keys, ChipAborts(k) PROVE WireInv'
  BY <1>4, AbortTyped
<1> QED
  BY <1>1, <1>2, <1>3, <1>4 DEF ChipStep

(* What a step of the tunnel is: one of the chip, one with the head of the   *)
(* queue, or one of a task; no other.                                        *)
TaskRuns == /\ TaskStep \/ \E h \in Handlers : stop(h)
            /\ to_chip' = to_chip \o out' /\ UNCHANGED <<to_gw, chip>>

Delivered(h) ==
    /\ to_gw # <<>> /\ to_gw' = Tail(to_gw) /\ chip' = chip
    /\ to_chip' = to_chip \o out'
    /\ \/ handle_chip_segment(h, Head(to_gw).key, Head(to_gw).seg)
       \/ ~running /\ handler[h].pc = "idle" /\ UNCHANGED vars

(* Who may step: the chip, the handler of a frame, a task, or nobody.        *)
LEMMA TunnelSteps ==
  ASSUME [TunnelNext]_tunnelVars
  PROVE  \/ ChipStep /\ UNCHANGED vars
         \/ \E h \in Handlers : Delivered(h)
         \/ TaskRuns
         \/ UNCHANGED tunnelVars
<1>1. GwRuns => TaskStep
  BY DEF GwRuns, TaskStep, HandlerStep, DeferredStep, PumpStep, PumpRuns
<1>2. HostRuns => TaskStep
  BY DEF HostRuns, TaskStep, DialStep, PumpStep
<1>3. ASSUME NEW c \in Conns, HostFails(c) PROVE TaskStep
  <2>1. (\E h \in Handlers : DrainFailed(h)) => TaskStep
    BY DEF TaskStep, HandlerStep
  <2>2. HostRefuses(c) \/ AttemptTimesOut(c) \/ FlushFailed(c) => TaskStep
    BY DEF TaskStep, DialStep, DeferredStep
  <2>3. (\E o \in Starters : PumpRaises(c, o)) => TaskStep
    BY DEF TaskStep, PumpStep
  <2> QED
    BY <1>3, <2>1, <2>2, <2>3 DEF HostFails
<1>4. CASE ChipStep
  BY <1>4, ChipStepAside
<1>5. ASSUME NEW h \in Handlers, GwReceives(h) PROVE Delivered(h)
  BY <1>5 DEF GwReceives, Delivered
<1>6. CASE Emits(GwRuns)
  BY <1>1, <1>6 DEF Emits, TaskRuns
<1>7. CASE Emits(HostRuns)
  BY <1>2, <1>7 DEF Emits, TaskRuns
<1>8. CASE \E c \in Conns : Emits(HostFails(c))
  BY <1>3, <1>8 DEF Emits, TaskRuns
<1>9. CASE Emits(\E h \in Handlers : stop(h))
  BY <1>9 DEF Emits, TaskRuns
<1> QED
  BY <1>4, <1>5, <1>6, <1>7, <1>8, <1>9 DEF TunnelNext

(* With the wires well-typed, each of them is a step of the NAT.             *)
LEMMA TunnelStepIsNext ==
  ASSUME WireInv, [TunnelNext]_tunnelVars
  PROVE  [Next]_vars
<1>1. CASE ChipStep /\ UNCHANGED vars
  BY <1>1
<1>2. ASSUME NEW h \in Handlers, Delivered(h) PROVE [Next]_vars
  <2>1. Head(to_gw).key \in Keys /\ Head(to_gw).seg \in Segments
    BY <1>2, HeadTyped DEF Delivered
  <2> QED
    BY <1>2, <2>1 DEF Delivered, Next
<1>3. CASE TaskRuns
  BY <1>3 DEF TaskRuns, Next
<1>4. CASE UNCHANGED tunnelVars
  BY <1>4 DEF tunnelVars
<1> QED
  BY <1>1, <1>2, <1>3, <1>4, TunnelSteps

(* The wire stays well typed in every step of the tunnel.                    *)
LEMMA WireStep ==
  ASSUME TunnelInv, [TunnelNext]_tunnelVars
  PROVE  WireInv'
<1>1. [Next]_vars
  BY TunnelStepIsNext DEF TunnelInv
<1>2. out' \in Seq(WireFrame)
  BY <1>1, NextKeyed DEF TunnelInv, WireInv
<1>3. CASE ChipStep
  BY <1>3, ChipStepTyped DEF TunnelInv
<1>4. ASSUME NEW h \in Handlers, Delivered(h) PROVE WireInv'
  <2>1. Tail(to_gw) \in Seq(OnWire)
    BY <1>4, HeadTyped DEF Delivered, TunnelInv
  <2>2. to_chip' \in Seq(WireFrame)
    BY <1>2, <1>4, EmitTyped DEF Delivered, TunnelInv
  <2> QED
    BY <1>2, <1>4, <2>1, <2>2 DEF Delivered, TunnelInv, WireInv
<1>5. CASE TaskRuns
  <2>1. to_chip' \in Seq(WireFrame)
    BY <1>2, <1>5, EmitTyped DEF TaskRuns, TunnelInv
  <2> QED
    BY <1>2, <1>5, <2>1 DEF TaskRuns, TunnelInv, WireInv
<1>6. CASE UNCHANGED tunnelVars
  BY <1>6 DEF tunnelVars, chipVars, vars, TunnelInv, WireInv
<1> QED
  BY <1>3, <1>4, <1>5, <1>6, TunnelSteps

(* The tunnel starts out typed.                                              *)
LEMMA TunnelInitTyped == TunnelInit => TunnelInv
<1> SUFFICES ASSUME TunnelInit PROVE TunnelInv
  OBVIOUS
<1>1. WaitInv
  BY InitTyped, InitWaits DEF TunnelInit, WaitInv
<1>2. NewChip \in ChipType
  BY SeqNumsAreInts DEF NewChip, ChipType
<1>3. out = <<>>
  BY DEF TunnelInit, Init
<1> QED
  BY <1>1, <1>2, <1>3 DEF TunnelInit, WireInv, TunnelInv

(* TunnelInv is an invariant of the tunnel.                                  *)
LEMMA TunnelInvariance == TunnelSpec => []TunnelInv
<1>1. TunnelInv /\ [TunnelNext]_tunnelVars => TunnelInv'
  BY WireStep, TunnelStepIsNext, NextWaits DEF TunnelInv
<1> QED
  BY <1>1, TunnelInitTyped, PTL DEF TunnelSpec

(* The NAT in the tunnel behaves as the NAT by itself, for which any segment *)
(* may come: all that TcpNatProofs shows of TcpNat, for a chip that sends    *)
(* what it likes, holds of the tunnel.                                       *)
THEOREM TunnelImplementsNat == TunnelSpec => Spec
<1>1. TunnelInit => Init
  BY DEF TunnelInit
<1>2. TunnelInv /\ [TunnelNext]_tunnelVars => [Next]_vars
  BY TunnelStepIsNext DEF TunnelInv
<1> QED
  BY <1>1, <1>2, TunnelInvariance, PTL DEF TunnelSpec, Spec

-----------------------------------------------------------------------------
(* What the order of the chip's segments tells the NAT.  A chip opens a key  *)
(* once and sends bytes only when the handshake is done, so behind a segment *)
(* with bytes no SYN of that key is left on the websocket.                   *)

IsSyn(k, w)   == w.key = k /\ "SYN" \in w.seg.flags
HasData(k, w) == w.key = k /\ w.seg.data # <<>>

ChipOK(k) ==
    /\ chip[k].st = "open" => \A p \in chip[k].unacked : "SYN" \notin p.flags
    /\ chip[k].st \in {"closed", "syn_sent"} =>
         \A p \in chip[k].unacked : p.data = <<>>
    /\ \A i \in DOMAIN to_gw : HasData(k, to_gw[i]) =>
         /\ chip[k].st \in {"open", "gone"}
         /\ \A j \in DOMAIN to_gw : j > i => ~IsSyn(k, to_gw[j])

ChipInv == \A k \in Keys : ChipOK(k)

(* A handler is in the grace of a connection for k.                          *)
GraceFor(k) ==
    \E h \in Handlers : handler[h].pc = "grace" /\ key[handler[h].conn] = k

(* No SYN of k can make a connection any more: none is sent again, none is   *)
(* on the wire, and none waits for its dial.                                 *)
NoSynLeft(k) == \A i \in DOMAIN to_gw : ~IsSyn(k, to_gw[i])

Settled(k) ==
    chip[k].st \in {"open", "gone"} /\ NoSynLeft(k) /\ ~GraceFor(k)

(* What comes last on the wire comes behind what was there.                  *)
LEMMA AppendedAt ==
  ASSUME WireInv, NEW w \in OnWire, to_gw' = Append(to_gw, w)
  PROVE  \A i \in DOMAIN to_gw' :
           \/ i \in DOMAIN to_gw /\ to_gw'[i] = to_gw[i]
           \/ to_gw'[i] = w /\ \A j \in DOMAIN to_gw' : j <= i
<1>1. to_gw \in Seq(OnWire)
  BY DEF WireInv
<1>2. Len(to_gw) \in Nat /\ DOMAIN to_gw = 1..Len(to_gw)
  BY <1>1
<1>3. DOMAIN to_gw' = 1..(Len(to_gw) + 1)
  BY <1>1, <1>2
<1>4. \A i \in 1..Len(to_gw) : to_gw'[i] = to_gw[i]
  BY <1>1, <1>2
<1>5. to_gw'[Len(to_gw) + 1] = w
  BY <1>1, <1>2
<1> QED
  BY <1>2, <1>3, <1>4, <1>5

(* What is left on the wire was there, one place further on.                 *)
LEMMA TailAt ==
  ASSUME WireInv, to_gw # <<>>, to_gw' = Tail(to_gw)
  PROVE  /\ \A i \in DOMAIN to_gw' :
              /\ i \in Nat /\ i + 1 \in DOMAIN to_gw /\ i + 1 > 1
              /\ to_gw'[i] = to_gw[i + 1]
         /\ 1 \in DOMAIN to_gw /\ to_gw[1] = Head(to_gw)
<1>1. to_gw \in Seq(OnWire)
  BY DEF WireInv
<1>2. Len(to_gw) \in Nat \ {0} /\ DOMAIN to_gw = 1..Len(to_gw)
  BY <1>1
<1>3. DOMAIN to_gw' = 1..(Len(to_gw) - 1)
  BY <1>1, <1>2
<1>4. \A i \in 1..(Len(to_gw) - 1) : to_gw'[i] = to_gw[i + 1]
  BY <1>1, <1>2
<1> QED
  BY <1>1, <1>2, <1>3, <1>4

(* The queue of the chip's segments moves on.                                *)
LEMMA TailChip ==
  ASSUME WireInv, ChipInv, to_gw # <<>>, to_gw' = Tail(to_gw), chip' = chip
  PROVE  ChipInv'
<1> SUFFICES ASSUME NEW k \in Keys PROVE ChipOK(k)'
  BY DEF ChipInv
<1>1. ChipOK(k)
  BY DEF ChipInv
<1>2. ASSUME NEW i \in DOMAIN to_gw', HasData(k, to_gw'[i])
      PROVE  /\ chip[k].st \in {"open", "gone"}
             /\ \A j \in DOMAIN to_gw' : j > i => ~IsSyn(k, to_gw'[j])
  <2>1. i + 1 \in DOMAIN to_gw /\ to_gw'[i] = to_gw[i + 1] /\ i \in Nat
    BY TailAt
  <2>2. /\ chip[k].st \in {"open", "gone"}
        /\ \A j \in DOMAIN to_gw : j > i + 1 => ~IsSyn(k, to_gw[j])
    BY <1>1, <1>2, <2>1 DEF ChipOK
  <2>3. ASSUME NEW j \in DOMAIN to_gw', j > i PROVE ~IsSyn(k, to_gw'[j])
    <3>1. j \in Nat /\ j + 1 \in DOMAIN to_gw /\ to_gw'[j] = to_gw[j + 1]
      BY TailAt
    <3>2. j + 1 > i + 1
      BY <2>1, <2>3, <3>1
    <3> QED
      BY <2>2, <3>1, <3>2
  <2> QED
    BY <2>2, <2>3
<1> QED
  BY <1>1, <1>2 DEF ChipOK, HasData, IsSyn

(* A segment of k put on the wire does not disturb the order of another key. *)
LEMMA OtherChip ==
  ASSUME WireInv, ChipInv, NEW k \in Keys, NEW z, Becomes(k, z),
         to_gw' = to_gw \/ \E p : PutsLast(k, p)
  PROVE  \A j \in Keys \ {k} : ChipOK(j)'
<1> TAKE j \in Keys \ {k}
<1>1. ChipOK(j) /\ chip'[j] = chip[j]
  BY BecomesTyped DEF ChipInv
<1>2. CASE to_gw' = to_gw
  BY <1>1, <1>2 DEF ChipOK
<1>3. ASSUME NEW p, PutsLast(k, p) PROVE ChipOK(j)'
  <2>1. PICK w \in OnWire : to_gw' = Append(to_gw, w) /\ w.key = k
    BY <1>3 DEF PutsLast
  <2>2. \A i \in DOMAIN to_gw' :
          \/ i \in DOMAIN to_gw /\ to_gw'[i] = to_gw[i]
          \/ to_gw'[i] = w
    BY <2>1, AppendedAt
  <2>3. ~HasData(j, w) /\ ~IsSyn(j, w)
    BY <2>1 DEF HasData, IsSyn
  <2>4. \A i \in DOMAIN to_gw' : HasData(j, to_gw'[i]) \/ IsSyn(j, to_gw'[i]) =>
          i \in DOMAIN to_gw /\ to_gw'[i] = to_gw[i]
    BY <2>2, <2>3
  <2> HIDE <2>2
  <2>5. ASSUME NEW i \in DOMAIN to_gw', HasData(j, to_gw'[i])
        PROVE  /\ chip[j].st \in {"open", "gone"}
               /\ \A n \in DOMAIN to_gw' : n > i => ~IsSyn(j, to_gw'[n])
    BY <1>1, <2>4, <2>5 DEF ChipOK
  <2> QED
    BY <1>1, <2>5 DEF ChipOK
<1> QED
  BY <1>2, <1>3

(* How the chip's end of k may move, and what may come on the wire with it:  *)
(* an open connection opens no more; a SYN comes before it is open, bytes    *)
(* after.                                                                    *)
MovesWell(k, z) ==
    /\ Becomes(k, z)
    /\ chip[k].st \in {"open", "gone"} => z.st \in {"open", "gone"}
    /\ z.st = "open" => \A q \in z.unacked : "SYN" \notin q.flags
    /\ z.st \in {"closed", "syn_sent"} => \A q \in z.unacked : q.data = <<>>

ComesWell(k, z, p) ==
    /\ PutsLast(k, p)
    /\ "SYN" \in p.flags => chip[k].st \in {"closed", "syn_sent"}
    /\ p.data # <<>> => z.st \in {"open", "gone"}

InOrder(k) ==
    \E z : /\ MovesWell(k, z)
           /\ (to_gw' = to_gw) \/ \E p : ComesWell(k, z, p)

(* The chip's steps are of that kind.                                        *)
LEMMA SendsInOrder ==
  ASSUME WireInv, NEW k \in Keys, ChipOK(k),
         ChipOpens(k) \/ ChipSendsByte(k) \/ ChipFinishes(k)
  PROVE  InOrder(k)
<1>1. PICK flags \in SUBSET Flags, data \in ByteOrNone :
        /\ Sends(k, flags, data)
        /\ "FIN" \in flags /\ data # <<>> => Coalesce
  BY SendKinds
<1>2. PICK p : p = Part(chip[k].next, flags, data)
  OBVIOUS
<1>3. Send(k, flags, data)
  BY <1>1 DEF Sends
<1>4. PutsLast(k, p) /\ p.flags = flags /\ p.data = data
  BY <1>1, <1>2, <1>3, SendTyped
<1>5. PICK z : /\ Becomes(k, z)
               /\ z.next = chip[k].next + Span(p)
               /\ z.unacked = chip[k].unacked \cup {p}
               /\ z.fin <=> "FIN" \in flags
               /\ z.st = IF chip[k].st = "open" THEN "open" ELSE "syn_sent"
  BY <1>1, <1>2, <1>3, SendTyped
<1>6. \/ chip[k].st = "closed" /\ flags = {"SYN"} /\ data = <<>>
      \/ chip[k].st = "open" /\ "SYN" \notin flags
  BY <1>1 DEF Sends, CanSend
<1>7. ComesWell(k, z, p)
  BY <1>4, <1>5, <1>6 DEF ComesWell
<1>8. z.st = "open" => \A q \in z.unacked : "SYN" \notin q.flags
  BY <1>4, <1>5, <1>6 DEF ChipOK
<1>9. z.st \in {"closed", "syn_sent"} => \A q \in z.unacked : q.data = <<>>
  BY <1>4, <1>5, <1>6 DEF ChipOK
<1>10. chip[k].st \in {"open", "gone"} => z.st \in {"open", "gone"}
  BY <1>5, <1>6
<1> QED
  BY <1>5, <1>7, <1>8, <1>9, <1>10 DEF InOrder, MovesWell

(* A retransmission comes after what the chip has sent before,               *)
LEMMA RetransmitInOrder ==
  ASSUME WireInv, NEW k \in Keys, ChipOK(k), ChipRetransmits(k)
  PROVE  InOrder(k)
<1>1. PICK p \in chip[k].unacked : PutsLast(k, p)
  BY RetransmitTyped
<1>2. PICK z : /\ Becomes(k, z) /\ StreamStays(k, z)
               /\ z.st = chip[k].st /\ z.unacked = chip[k].unacked
  BY RetransmitTyped
<1>3. chip[k].st \in {"syn_sent", "open"}
  BY DEF ChipRetransmits
<1>4. ComesWell(k, z, p)
  BY <1>1, <1>2, <1>3 DEF ComesWell, ChipOK
<1>5. MovesWell(k, z)
  BY <1>2 DEF MovesWell, ChipOK
<1> QED
  BY <1>4, <1>5 DEF InOrder

(* A bare segment may come at any time.                                      *)
LEMMA BareComes ==
  ASSUME NEW k, NEW z, NEW p, Bare(p), PutsLast(k, p)
  PROVE  ComesWell(k, z, p)
BY DEF Bare, ComesWell

(* an RST closes the chip's side,                                            *)
LEMMA AbortInOrder ==
  ASSUME WireInv, NEW k \in Keys, ChipAborts(k)
  PROVE  InOrder(k)
<1>1. PICK p : Bare(p) /\ PutsLast(k, p)
  BY AbortTyped
<1>2. PICK z : /\ Becomes(k, z) /\ StreamStays(k, z)
               /\ z.st = "gone" /\ z.unacked = chip[k].unacked
  BY AbortTyped
<1>3. MovesWell(k, z)
  BY <1>2 DEF MovesWell
<1> QED
  BY <1>1, <1>3, BareComes DEF InOrder

(* an answer is bare,                                                        *)
LEMMA ReactsInOrder ==
  ASSUME WireInv, NEW k \in Keys, ChipOK(k), ReactsTo(k)
  PROVE  InOrder(k)
<1>1. PICK z : Reacts(k, z)
  BY DEF ReactsTo
<1>2. MovesWell(k, z)
  BY <1>1 DEF Reacts, MovesWell, ChipOK
<1> QED
  BY <1>2, BareComes DEF InOrder, ReactsTo, Answers

(* and so every step of the chip adds to the wire in order.                  *)
LEMMA ChipStepInOrder ==
  ASSUME WireInv, ChipInv, ChipStep
  PROVE  \E k \in Keys : InOrder(k)
<1>1. \A k \in Keys : ChipOK(k)
  BY DEF ChipInv
<1> QED
  BY <1>1, SendsInOrder, RetransmitInOrder, AbortInOrder, ReactsInOrder,
     ReceivesTyped DEF ChipStep

(* What is on the wire after such a step.                                    *)
LEMMA PutsInOrder ==
  ASSUME WireInv, NEW k \in Keys, ChipOK(k), NEW z, MovesWell(k, z),
         NEW p, ComesWell(k, z, p)
  PROVE  ChipOK(k)'
<1>1. chip'[k] = z
  BY BecomesTyped DEF MovesWell
<1>2. PICK w \in OnWire : /\ to_gw' = Append(to_gw, w) /\ w.key = k
                          /\ w.seg.flags = p.flags /\ w.seg.data = p.data
  BY DEF PutsLast, ComesWell
<1>3. \A i \in DOMAIN to_gw' :
        \/ i \in DOMAIN to_gw /\ to_gw'[i] = to_gw[i]
        \/ to_gw'[i] = w /\ \A j \in DOMAIN to_gw' : j <= i
  BY <1>2, AppendedAt
<1>4. DOMAIN to_gw' \subseteq Nat
  <2>1. to_gw' \in Seq(OnWire)
    BY <1>2 DEF WireInv
  <2> QED
    BY <2>1
<1>5. IsSyn(k, w) => chip[k].st \in {"closed", "syn_sent"}
  BY <1>2 DEF IsSyn, ComesWell
<1>6. HasData(k, w) => z.st \in {"open", "gone"}
  BY <1>2 DEF HasData, ComesWell
<1>7. ASSUME NEW i \in DOMAIN to_gw', HasData(k, to_gw'[i])
      PROVE  /\ z.st \in {"open", "gone"}
             /\ \A j \in DOMAIN to_gw' : j > i => ~IsSyn(k, to_gw'[j])
  <2>1. CASE i \in DOMAIN to_gw /\ to_gw'[i] = to_gw[i]
    <3>1. /\ chip[k].st \in {"open", "gone"}
          /\ \A j \in DOMAIN to_gw : j > i => ~IsSyn(k, to_gw[j])
      BY <1>7, <2>1 DEF ChipOK
    <3>2. ~IsSyn(k, w) /\ z.st \in {"open", "gone"}
      BY <1>5, <3>1 DEF MovesWell
    <3> QED
      BY <1>3, <3>1, <3>2
  <2>2. CASE to_gw'[i] = w /\ \A j \in DOMAIN to_gw' : j <= i
    <3>1. ASSUME NEW j \in DOMAIN to_gw', j > i PROVE FALSE
      BY <1>4, <2>2, <3>1
    <3> QED
      BY <1>6, <1>7, <2>2, <3>1
  <2> QED
    BY <1>3, <2>1, <2>2
<1> QED
  BY <1>1, <1>7 DEF ChipOK, MovesWell

(* The chip's steps keep the order.                                          *)
LEMMA ChipStepOrder ==
  ASSUME WireInv, ChipInv, ChipStep
  PROVE  ChipInv'
<1>1. PICK k \in Keys : InOrder(k)
  BY ChipStepInOrder
<1>2. PICK z : /\ MovesWell(k, z)
               /\ (to_gw' = to_gw) \/ \E p : ComesWell(k, z, p)
  BY <1>1 DEF InOrder
<1>3. ChipOK(k) /\ Becomes(k, z)
  BY <1>2 DEF ChipInv, MovesWell
<1>4. chip'[k] = z
  BY <1>3, BecomesTyped
<1>9. MovesWell(k, z) /\ ((to_gw' = to_gw) \/ \E p : ComesWell(k, z, p))
  BY <1>2
<1>5. ASSUME to_gw' = to_gw PROVE ChipOK(k)'
  BY <1>3, <1>4, <1>5, <1>9 DEF ChipOK, MovesWell, HasData, IsSyn
<1>6. ASSUME NEW p, ComesWell(k, z, p) PROVE ChipOK(k)'
  BY <1>2, <1>3, <1>6, PutsInOrder
<1>7. ChipOK(k)'
  BY <1>5, <1>6, <1>9
<1>8. to_gw' = to_gw \/ \E p : PutsLast(k, p)
  BY <1>9 DEF ComesWell
<1> QED
  BY <1>3, <1>7, <1>8, OtherChip DEF ChipInv

-----------------------------------------------------------------------------
(* Once no SYN of k is left, none ever is.                                   *)

SettledStays == \A k \in Keys : Settled(k) => Settled(k)'

(* The chip sends no SYN of a key it has opened.                             *)
LEMMA ChipSettled ==
  ASSUME WireInv, ChipInv, ChipStep, UNCHANGED vars
  PROVE  SettledStays
<1> SUFFICES ASSUME NEW j \in Keys, Settled(j) PROVE Settled(j)'
  BY DEF SettledStays
<1>1. PICK k \in Keys : InOrder(k)
  BY ChipStepInOrder
<1>2. PICK z : /\ MovesWell(k, z)
               /\ (to_gw' = to_gw) \/ \E p : ComesWell(k, z, p)
  BY <1>1 DEF InOrder
<1>3. /\ chip'[k] = z
      /\ \A i \in Keys \ {k} : chip'[i] = chip[i]
  BY <1>2, BecomesTyped DEF MovesWell
<1>4. chip'[j].st \in {"open", "gone"}
  BY <1>2, <1>3 DEF MovesWell, Settled
<1>5. ~GraceFor(j)'
  BY DEF vars, fieldVars, otherVars, idVars, GraceFor, Settled
<1>6. ASSUME NEW p, ComesWell(k, z, p) PROVE NoSynLeft(j)'
  <2>1. PICK w \in OnWire : /\ to_gw' = Append(to_gw, w) /\ w.key = k
                            /\ w.seg.flags = p.flags
    BY <1>6 DEF PutsLast, ComesWell
  <2>2. \A i \in DOMAIN to_gw' :
          (i \in DOMAIN to_gw /\ to_gw'[i] = to_gw[i]) \/ to_gw'[i] = w
    BY <2>1, AppendedAt
  <2>3. ~IsSyn(j, w)
    BY <1>6, <2>1 DEF IsSyn, ComesWell, Settled
  <2> QED
    BY <2>2, <2>3 DEF NoSynLeft, Settled
<1>7. NoSynLeft(j)'
  BY <1>2, <1>6 DEF NoSynLeft, Settled
<1> QED
  BY <1>4, <1>5, <1>7 DEF Settled

-----------------------------------------------------------------------------
(* Which connection a key belongs to.  A host socket, or a task that waits   *)
(* for one, belongs to the connection in the table.  A connection that was   *)
(* taken out of the table can disturb a later one of its key only while      *)
(* somebody may close it once more; then no later one comes.                 *)

(* t may tear c down: _close at its start, or a task whose RST is going out. *)
MayClose(c, t) ==
    \/ t = <<"state">> /\ state[c] # "CLOSED"
    \/ t = <<"deferred">> /\ deferred[c] = "rst"
    \/ \E o \in Starters : t = <<"pump", o>> /\ pump[c][o] = "rst"
    \/ \E h \in Handlers :
         /\ t = <<"handler", h>>
         /\ handler[h].pc = "rst" /\ handler[h].conn = c

OwnOK(c) ==
    /\ host[c] \in {"open", "eof"} => conns[key[c]] = c
    /\ InGrace(c) => conns[key[c]] = None
    /\ Waits(c) => conns[key[c]] = c
    /\ deferred[c] = "flush" => host[c] # "none"
    /\ \A t : MayClose(c, t) =>
         conns[key[c]] = c \/ (conns[key[c]] = None /\ Settled(key[c]))
    /\ \A t, u : MayClose(c, t) /\ MayClose(c, u) => t = u \/ Settled(key[c])
    /\ InPayload(c) => conns[key[c]] \in {c, None} /\ Settled(key[c])

OwnInv == \A c \in Conns : OwnOK(c)

OwnKept == \A c \in Conns : OwnOK(c)'

(* An object that was not made owns nothing.                                 *)
LEMMA UnmadeOwns ==
  ASSUME NEW c \in Conns, WaitOK(c)', key'[c] = None
  PROVE  OwnOK(c)'
<1>1. Unused(c)' /\ \A h \in Handlers : handler'[h].conn # c
  BY DEF WaitOK
<1>2. ~InGrace(c)' /\ ~InPayload(c)' /\ \A t : ~MayClose(c, t)'
  BY <1>1 DEF InGrace, InPayload, HandlerAt, MayClose, Unused
<1> QED
  BY <1>1, <1>2 DEF OwnOK, Unused, Waits

(* Who may close c, or holds bytes for it, was made.                         *)
LEMMA CloserMade ==
  ASSUME WaitInv, NEW c \in Conns, InPayload(c) \/ \E t : MayClose(c, t)
  PROVE  key[c] \in Keys /\ ~InGrace(c)
<1>1. CASE ~Unused(c)
  BY <1>1, RegisteredMade DEF InGrace
<1>2. CASE Unused(c)
  <2>1. PICK h \in Handlers : handler[h].conn = c /\ handler[h].pc # "grace"
    BY <1>2 DEF InPayload, HandlerAt, MayClose, Unused
  <2> QED
    BY <2>1, HeldMade DEF InGrace
<1> QED
  BY <1>1, <1>2

(* Nobody new may close c; or somebody may who has bytes for it in hand; or  *)
(* it is being closed by u, instead of by whoever would start to.            *)
ClosersKept(c) ==
    \/ \A t : MayClose(c, t)' => MayClose(c, t)
    \/ InPayload(c)
    \/ /\ MayClose(c, <<"state">>)
       /\ \E u : \A t : MayClose(c, t)' =>
            t = u \/ (t # <<"state">> /\ MayClose(c, t))

(* A step that leaves the table alone, and makes c own nothing it has no     *)
(* entry for.                                                                *)
LEMMA OwnStays ==
  ASSUME WaitInv, SettledStays, NEW c \in Conns, OwnOK(c), key[c] \in Keys,
         key'[c] = key[c], conns'[key[c]] = conns[key[c]],
         host'[c] \in {"open", "eof"} =>
           host[c] \in {"open", "eof"} \/ conns[key[c]] = c,
         InGrace(c)' => InGrace(c), Waits(c)' => Waits(c),
         deferred'[c] = "flush" => host'[c] # "none", ClosersKept(c),
         InPayload(c)' =>
           InPayload(c) \/ (conns[key[c]] = c /\ Settled(key[c])')
  PROVE  OwnOK(c)'
<1> DEFINE k == key[c]
<1>1. Settled(k) => Settled(k)'
  BY DEF SettledStays
<1>2. Settled(key[c])' <=> Settled(k)'
  BY DEF Settled, GraceFor, NoSynLeft
<1>3. ASSUME NEW t, MayClose(c, t)'
      PROVE  conns[k] = c \/ (conns[k] = None /\ Settled(k)')
  <2>1. CASE MayClose(c, t) \/ MayClose(c, <<"state">>)
    BY <1>1, <2>1 DEF OwnOK
  <2>2. CASE InPayload(c)
    BY <1>1, <2>2 DEF OwnOK
  <2> QED
    BY <1>3, <2>1, <2>2 DEF ClosersKept
<1>4. ASSUME NEW t, NEW u, MayClose(c, t)', MayClose(c, u)', t # u
      PROVE  Settled(k)'
  <2>1. CASE InPayload(c)
    BY <1>1, <2>1 DEF OwnOK
  <2>2. CASE MayClose(c, t) /\ MayClose(c, u)
    BY <1>1, <1>4, <2>2 DEF OwnOK
  <2>3. CASE MayClose(c, <<"state">>) /\ MayClose(c, t) /\ t # <<"state">>
    BY <1>1, <2>3 DEF OwnOK
  <2>4. CASE MayClose(c, <<"state">>) /\ MayClose(c, u) /\ u # <<"state">>
    BY <1>1, <2>4 DEF OwnOK
  <2> QED
    BY <1>4, <2>1, <2>2, <2>3, <2>4 DEF ClosersKept
<1>5. InPayload(c)' => conns[k] \in {c, None} /\ Settled(k)'
  BY <1>1 DEF OwnOK
<1>6. /\ host'[c] \in {"open", "eof"} => conns[k] = c
      /\ InGrace(c)' => conns[k] = None
      /\ Waits(c)' => conns[k] = c
  BY DEF OwnOK
<1>7. key'[c] = k /\ conns'[k] = conns[k]
  OBVIOUS
<1> HIDE DEF k
<1> QED
  BY <1>2, <1>3, <1>4, <1>5, <1>6, <1>7 DEF OwnOK

(* A connection that is left alone.                                          *)
LEMMA ApartCloses ==
  ASSUME NEW d \in Conns, Apart(d)
  PROVE  /\ InGrace(d)' <=> InGrace(d)
         /\ InPayload(d)' <=> InPayload(d)
         /\ \A t : MayClose(d, t)' <=> MayClose(d, t)
<1>1. \A h \in Handlers :
        \/ handler'[h] = handler[h]
        \/ /\ handler'[h].conn # d
           /\ handler[h].conn # d \/ handler[h].pc \in {"idle", "stopping"}
  BY DEF Apart, NobodyMoves
<1>2. ASSUME NEW pc, pc \notin {"idle", "stopping"}, NEW h \in Handlers
      PROVE  (handler'[h].pc = pc /\ handler'[h].conn = d) <=>
               (handler[h].pc = pc /\ handler[h].conn = d)
  BY <1>1, <1>2
<1>3. state'[d] = state[d] /\ deferred'[d] = deferred[d] /\ pump'[d] = pump[d]
  BY DEF Apart, SameFields
<1>4. InGrace(d)' <=> InGrace(d)
  BY <1>2 DEF InGrace
<1>5. InPayload(d)' <=> InPayload(d)
  BY <1>1 DEF InPayload, HandlerAt
<1>6. \A t : MayClose(d, t)' <=> MayClose(d, t)
  BY <1>2, <1>3 DEF MayClose
<1> QED
  BY <1>4, <1>5, <1>6

(* A connection the step leaves alone keeps its place in the table.          *)
LEMMA OwnApart ==
  ASSUME WaitInv, SettledStays, NEW d \in Conns, OwnOK(d), Apart(d),
         conns'[key[d]] = conns[key[d]]
  PROVE  OwnOK(d)'
<1>1. WaitOK(d)' /\ key'[d] = key[d]
  BY ApartKeeps DEF WaitInv, Apart, SameFields
<1>2. key[d] \in Keys \cup {None}
  BY DEF WaitInv, TypeInv, TypeOK
<1>3. CASE key[d] = None
  BY <1>1, <1>3, UnmadeOwns
<1>4. CASE key[d] \in Keys
  <2>1. ClosersKept(d)
    BY ApartCloses DEF ClosersKept
  <2>2. /\ host'[d] = host[d] /\ deferred'[d] = deferred[d]
    BY DEF Apart, SameFields
  <2>3. Waits(d)' => Waits(d)
    BY <2>2 DEF Waits
  <2>4. deferred'[d] = "flush" => host'[d] # "none"
    BY <2>2 DEF OwnOK
  <2> QED
    BY <1>1, <1>4, <2>1, <2>2, <2>3, <2>4, ApartCloses, OwnStays
<1> QED
  BY <1>2, <1>3, <1>4

(* A step that acts on c alone and leaves the table as it is.                *)
LEMMA OwnOne ==
  ASSUME WaitInv, SettledStays, OwnInv, NEW c \in Conns, OwnOK(c)',
         conns' = conns, \A d \in Conns \ {c} : Apart(d)
  PROVE  OwnKept
<1>1. ASSUME NEW d \in Conns \ {c} PROVE OwnOK(d)'
  BY OwnApart DEF OwnInv
<1> QED
  BY <1>1 DEF OwnKept

(* Somebody who may close c does, and nobody new may.                        *)
ClosedBy(c) ==
    \E t : MayClose(c, t) /\ \A u : MayClose(c, u)' => u # t /\ MayClose(c, u)

(* Handlers that take nothing up.                                            *)
LEMMA RetiresKeeps ==
  ASSUME NEW c, Retires
  PROVE  /\ InGrace(c)' => InGrace(c)
         /\ InPayload(c)' => InPayload(c)
         /\ (state'[c] # "CLOSED" => state[c] # "CLOSED")
              /\ (deferred'[c] = "rst" => deferred[c] = "rst")
              /\ (\A o \in Starters : pump'[c][o] = "rst" => pump[c][o] = "rst")
            => \A t : MayClose(c, t)' => MayClose(c, t)
<1>1. InGrace(c)' => InGrace(c)
  BY DEF Retires, InGrace
<1>2. InPayload(c)' => InPayload(c)
  BY DEF Retires, InPayload, HandlerAt
<1>3. \A h \in Handlers : handler'[h].pc = "rst" => handler'[h] = handler[h]
  BY DEF Retires
<1> QED
  BY <1>1, <1>2, <1>3 DEF MayClose

(* What is torn down owns nothing any more.                                  *)
LEMMA TornOwn ==
  ASSUME WaitInv, SettledStays, OwnInv, Retires, NEW S \in SUBSET Conns,
         NEW d, NEW p, TearDown(S, d, p), NEW c \in S,
         d[c] \in {deferred[c], "done"}, ClosedBy(c)
  PROVE  OwnOK(c)'
<1>1. PICK t :
        MayClose(c, t) /\ \A u : MayClose(c, u)' => u # t /\ MayClose(c, u)
  BY DEF ClosedBy
<1>2. c \in Conns /\ key[c] \in Keys /\ OwnOK(c)
  BY <1>1, CloserMade DEF OwnInv
<1> DEFINE k == key[c]
<1>3. key' = key /\ conns'[k] = None
  BY <1>2 DEF TearDown, idVars
<1>4. Settled(k) => Settled(k)'
  BY <1>2, <1>3 DEF SettledStays
<1>5. Settled(key[c])' <=> Settled(k)'
  BY DEF Settled, GraceFor, NoSynLeft
<1>6. ASSUME NEW u, MayClose(c, u)' PROVE Settled(k)'
  BY <1>1, <1>2, <1>4, <1>6 DEF OwnOK
<1>7. InPayload(c)' => Settled(k)'
  BY <1>2, <1>4, RetiresKeeps DEF OwnOK
<1>8. host'[c] = HostAfterClose(host[c]) /\ deferred'[c] = Cancelled(d[c])
  BY <1>2 DEF TearDown
<1>9. deferred'[c] = "flush" => host'[c] # "none"
  BY <1>2, <1>8 DEF OwnOK, HostAfterClose, Cancelled
<1>10. ~Waits(c)'
  BY <1>8 DEF Waits, Cancelled
<1>11. host'[c] \notin {"open", "eof"}
  BY <1>8 DEF HostAfterClose
<1>12. key'[c] = k
  BY <1>3
<1> HIDE DEF k
<1> QED
  BY <1>3, <1>5, <1>6, <1>7, <1>9, <1>10, <1>11, <1>12 DEF OwnOK

(* What is not torn down: its key may have been another one's.               *)
LEMMA UntornOwn ==
  ASSUME WaitInv, WaitInv', SettledStays, OwnInv, Retires,
         NEW S \in SUBSET Conns, NEW d, NEW p, TearDown(S, d, p),
         \A s \in S : ClosedBy(s), NEW c \in Conns \ S,
         d[c] = deferred[c], p[c] = pump[c], state'[c] = state[c]
  PROVE  OwnOK(c)'
<1>1. /\ key' = key /\ host'[c] = host[c] /\ deferred'[c] = deferred[c]
      /\ \A o \in Starters : pump'[c][o] = pump[c][o]
  BY DEF TearDown, idVars
<1>2. \A t : MayClose(c, t)' => MayClose(c, t)
  BY <1>1, RetiresKeeps
<1>3. key[c] \in Keys \cup {None} /\ OwnOK(c)
  BY DEF WaitInv, TypeInv, TypeOK, OwnInv
<1>4. CASE key[c] = None
  BY <1>1, <1>4, UnmadeOwns DEF WaitInv
<1>5. CASE key[c] \in Keys /\ \A s \in S : key[s] # key[c]
  <2>1. conns'[key[c]] = conns[key[c]]
    BY <1>5 DEF TearDown
  <2>2. ClosersKept(c)
    BY <1>2 DEF ClosersKept
  <2>3. Waits(c)' => Waits(c)
    BY <1>1 DEF Waits
  <2>4. deferred'[c] = "flush" => host'[c] # "none"
    BY <1>1, <1>3 DEF OwnOK
  <2> QED
    BY <1>1, <1>3, <1>5, <2>1, <2>2, <2>3, <2>4, RetiresKeeps, OwnStays
<1>6. CASE key[c] \in Keys /\ \E s \in S : key[s] = key[c]
  <2> DEFINE k == key[c]
  <2>1. PICK s \in S : key[s] = k
    BY <1>6
  <2>2. conns'[k] = None
    BY <1>6 DEF TearDown
  <2>3. conns[k] # c
    <3>1. s \in Conns /\ s # c /\ OwnOK(s) /\ \E t : MayClose(s, t)
      BY <2>1 DEF ClosedBy, OwnInv
    <3>2. conns[k] \in {s, None}
      BY <2>1, <3>1 DEF OwnOK
    <3> QED
      BY <3>1, <3>2, TcpNatAssumption
  <2>4. Settled(k) => Settled(k)'
    BY <1>1, <1>6 DEF SettledStays
  <2>5. Settled(key[c])' <=> Settled(k)'
    BY <1>1 DEF Settled, GraceFor, NoSynLeft
  <2>6. (\E t : MayClose(c, t)') \/ InPayload(c)' => Settled(k)'
    BY <1>2, <1>3, <2>3, <2>4, RetiresKeeps DEF OwnOK
  <2>7. ~Waits(c)' /\ host'[c] \notin {"open", "eof"}
    BY <1>1, <1>3, <2>3 DEF OwnOK, Waits
  <2>8. deferred'[c] = "flush" => host'[c] # "none"
    BY <1>1, <1>3 DEF OwnOK
  <2>9. key'[c] = k
    BY <1>1
  <2> HIDE DEF k
  <2> QED
    BY <2>2, <2>5, <2>6, <2>7, <2>8, <2>9 DEF OwnOK
<1> QED
  BY <1>3, <1>4, <1>5, <1>6

(* The second half of _close: whatever else may close a connection once more *)
(* does so when no later one of its key can come.                            *)
LEMMA TearDownOwn ==
  ASSUME WaitInv, WaitInv', SettledStays, OwnInv, Retires,
         NEW S \in SUBSET Conns, NEW d, NEW p, TearDown(S, d, p),
         \A c \in S : d[c] \in {deferred[c], "done"} /\ ClosedBy(c),
         \A c \in Conns \ S :
           d[c] = deferred[c] /\ p[c] = pump[c] /\ state'[c] = state[c]
  PROVE  OwnKept
<1>1. ASSUME NEW c \in S PROVE OwnOK(c)'
  BY TornOwn
<1>2. ASSUME NEW c \in Conns \ S PROVE OwnOK(c)'
  BY UntornOwn
<1> QED
  BY <1>1, <1>2 DEF OwnKept

(* A close that sends nothing.                                               *)
LEMMA CloseOwn ==
  ASSUME WaitInv, WaitInv', SettledStays, OwnInv, Retires,
         NEW S \in SUBSET Conns, CloseSilently(S)
  PROVE  OwnKept
<1> DEFINE open == {c \in S : state[c] # "CLOSED"}
<1>1. /\ state' = [c \in Conns |-> IF c \in open THEN "CLOSED" ELSE state[c]]
      /\ TearDown(open, deferred, pump)
  BY DEF CloseSilently
<1>2. open \in SUBSET Conns /\ \A c \in open : state[c] # "CLOSED"
  OBVIOUS
<1> HIDE DEF open
<1>3. ASSUME NEW c \in open PROVE ClosedBy(c)
  <2>1. MayClose(c, <<"state">>)
    BY <1>2 DEF MayClose
  <2>2. /\ state'[c] = "CLOSED" /\ Cancelled(deferred[c]) = deferred'[c]
        /\ \A o \in Starters : pump'[c][o] \in {"done", pump[c][o]}
    BY <1>1, <1>2 DEF TearDown
  <2>3. deferred'[c] = "rst" => deferred[c] = "rst"
    BY <2>2 DEF Cancelled
  <2>4. \A u : MayClose(c, u)' => MayClose(c, u)
    BY <2>2, <2>3, RetiresKeeps
  <2>5. ~MayClose(c, <<"state">>)'
    BY <2>2 DEF MayClose
  <2> QED
    BY <2>1, <2>4, <2>5 DEF ClosedBy
<1>4. \A c \in Conns \ open : state'[c] = state[c]
  BY <1>1
<1> QED
  BY <1>1, <1>2, <1>3, <1>4, TearDownOwn

-----------------------------------------------------------------------------
(* The gateway makes no SYN of k come back either: only the segment at the   *)
(* head of the queue, while it is there, takes a handler into a grace.       *)

(* A step that starts no grace makes none for any key.                       *)
LEMMA GraceKeys ==
  ASSUME NoNewGrace, key' = key
  PROVE  \A k : GraceFor(k)' => GraceFor(k)
BY DEF NoNewGrace, GraceFor

(* No step of a task takes a handler into a grace.                           *)
LEMMA TaskNoGrace ==
  ASSUME Inv, TaskStep \/ \E h \in Handlers : stop(h)
  PROVE  NoNewGrace /\ key' = key
<1>1. ASSUME NEW h \in Handlers, HandlerStep(h) PROVE NoNewGrace /\ key' = key
  <2>1. \E x : x.pc # "grace" /\ handler' = [handler EXCEPT ![h] = x]
    BY <1>1
    DEF HandlerStep, GraceOpened, GraceRefused, GraceOver, AnswerSyn,
        SynAnswered, Drained, AfterPayload, DrainFailed, DataAcked, FinAcked,
        HandlerReset, shutdown, Idle, At
  <2>2. key' = key
    BY <1>1
    DEF HandlerStep, GraceOpened, GraceRefused, GraceOver, AnswerSyn,
        SynAnswered, Drained, DrainFailed, DataAcked, FinAcked,
        HandlerReset, shutdown, CloseSilently, TearDown, idVars, otherVars
  <2> QED
    BY <2>1, <2>2, OneHandlerMoves
<1>2. ASSUME NEW h \in Handlers, stop(h) PROVE NoNewGrace /\ key' = key
  BY <1>2, OneHandlerMoves DEF stop, At, idVars
<1>3. ASSUME NEW c \in Conns, DialStep(c) PROVE handler' = handler /\ key' = key
  BY <1>3
  DEF DialStep, HostAnswers, HostRefuses, AttemptTimesOut, Dials, idVars
<1>4. ASSUME NEW c \in Conns, DeferredStep(c)
      PROVE  handler' = handler /\ key' = key
  BY <1>4
  DEF DeferredStep, DeferredStarts, DeferredCancelled, DeferredFails,
      DeferredAttaches, DialEnded, Flushed, FlushFailed, DeferredReset,
      TearDown, idVars
<1>5. ASSUME NEW c \in Conns, NEW o \in Starters, PumpStep(c, o)
      PROVE  handler' = handler /\ key' = key
  BY <1>5
  DEF PumpStep, PumpStarts, PumpSent, PumpEof, PumpFinSent, PumpRaises,
      PumpReset, PumpReads, NextRound, PumpGoesTo, TearDown, idVars
<1>6. handler' = handler => NoNewGrace
  BY DEF NoNewGrace
<1> QED
  BY <1>1, <1>2, <1>3, <1>4, <1>5, <1>6 DEF TaskStep

(* Of the segments only a SYN does.                                          *)
LEMMA SegmentNoGrace ==
  ASSUME Inv, NEW h \in Handlers, NEW k \in Keys, NEW seg,
         handle_chip_segment(h, k, seg), ~on_passive_syn(h, k, seg)
  PROVE  NoNewGrace /\ key' = key
<1>1. CASE ChipRst(k, seg) \/ (conns[k] # None /\ LastAck(conns[k], seg))
  BY <1>1 DEF ChipRst, LastAck, CloseSilently, TearDown, idVars, NoNewGrace
<1>2. CASE DropSynRetransmit(k, seg) \/ RefuseSegment(k, seg)
  BY <1>2
  DEF DropSynRetransmit, RefuseSegment, NoNewGrace, otherVars, idVars
<1>3. CASE conns[k] # None /\ ConnSegment(h, conns[k], seg)
  <2>1. key' = key
    BY <1>3 DEF ConnSegment, otherVars, idVars
  <2>2. handler' = handler
          \/ \E x : x.pc # "grace" /\ handler' = [handler EXCEPT ![h] = x]
    BY <1>3, ConnSegmentMoves DEF Moves, At
  <2>3. handler' = handler => NoNewGrace
    BY DEF NoNewGrace
  <2> QED
    BY <2>1, <2>2, <2>3, OneHandlerMoves
<1> QED
  BY <1>1, <1>2, <1>3 DEF handle_chip_segment

(* A SYN takes a handler into a grace for its own key.                       *)
LEMMA SynGrace ==
  ASSUME Inv, NEW h \in Handlers, NEW k \in Keys, NEW seg,
         on_passive_syn(h, k, seg)
  PROVE  \A j : GraceFor(j)' => GraceFor(j) \/ j = k
<1>1. PICK c \in Conns : /\ key[c] = None /\ key' = [key EXCEPT ![c] = k]
                         /\ handler' =
                              [handler EXCEPT ![h] = At("grace", c, seg)]
  BY DEF on_passive_syn
<1>2. /\ handler'[h] = At("grace", c, seg)
      /\ \A g \in Handlers \ {h} : handler'[g] = handler[g]
      /\ key'[c] = k /\ \A d \in Conns \ {c} : key'[d] = key[d]
  BY <1>1 DEF Inv, TypeInv, TypeOK
<1>3. \A g \in Handlers : handler[g].pc = "grace" =>
        handler[g].conn \in Conns /\ handler[g].conn # c
  BY <1>1, GraceConn DEF Inv, DialInv
<1>4. At("grace", c, seg).conn = c
  BY DEF At
<1> QED
  BY <1>2, <1>3, <1>4 DEF GraceFor

(* So what is settled stays settled, in every step of the gateway.           *)
LEMMA GatewaySettled ==
  ASSUME Inv, WireInv, TaskRuns \/ \E h \in Handlers : Delivered(h)
  PROVE  SettledStays
<1>1. ASSUME \A k \in Keys : Settled(k) => ~GraceFor(k)', chip' = chip,
             \A i \in DOMAIN to_gw' :
               \E j \in DOMAIN to_gw : to_gw'[i] = to_gw[j]
      PROVE  SettledStays
  BY <1>1 DEF SettledStays, Settled, NoSynLeft
<1>2. CASE TaskRuns
  <2>1. \A k : GraceFor(k)' => GraceFor(k)
    BY <1>2, TaskNoGrace, GraceKeys DEF TaskRuns
  <2> QED
    BY <1>1, <1>2, <2>1 DEF TaskRuns, Settled
<1>3. ASSUME NEW h \in Handlers, Delivered(h) PROVE SettledStays
  <2> DEFINE k == Head(to_gw).key
             seg == Head(to_gw).seg
  <2>1. k \in Keys
    BY <1>3, HeadTyped DEF Delivered
  <2>2. /\ \A i \in DOMAIN to_gw' :
             \E j \in DOMAIN to_gw : to_gw'[i] = to_gw[j]
        /\ 1 \in DOMAIN to_gw /\ to_gw[1] = Head(to_gw)
    BY <1>3, TailAt DEF Delivered
  <2>3. CASE UNCHANGED vars
    <3>1. NoNewGrace /\ key' = key
      BY <2>3 DEF vars, otherVars, idVars, NoNewGrace
    <3> QED
      BY <1>1, <1>3, <2>2, <3>1, GraceKeys DEF Delivered, Settled
  <2>4. CASE handle_chip_segment(h, k, seg) /\ ~on_passive_syn(h, k, seg)
    <3>1. NoNewGrace /\ key' = key
      BY <2>1, <2>4, SegmentNoGrace
    <3> QED
      BY <1>1, <1>3, <2>2, <3>1, GraceKeys DEF Delivered, Settled
  <2>5. CASE on_passive_syn(h, k, seg)
    <3>1. \A j : GraceFor(j)' => GraceFor(j) \/ j = k
      BY <2>1, <2>5, SynGrace
    <3>2. IsSyn(k, Head(to_gw))
      BY <2>5 DEF on_passive_syn, OpensNew, IsSyn
    <3>3. ~Settled(k)
      BY <2>2, <3>2 DEF Settled, NoSynLeft
    <3> HIDE DEF k, seg
    <3> QED
      BY <1>1, <1>3, <2>2, <3>1, <3>3 DEF Delivered, Settled
  <2> QED
    BY <1>3, <2>3, <2>4, <2>5 DEF Delivered
<1> QED
  BY <1>2, <1>3

-----------------------------------------------------------------------------
(* Each step of the gateway keeps what the connections own.                  *)

(* The keys and the table stay, and c, on which alone the step acts, owns no *)
(* more than it did.                                                         *)
LEMMA OwnAct ==
  ASSUME WaitInv, SettledStays, OwnInv, NEW c \in Conns, key[c] \in Keys,
         key' = key, conns' = conns, \A d \in Conns \ {c} : Apart(d),
         host'[c] \in {"open", "eof"} =>
           host[c] \in {"open", "eof"} \/ conns[key[c]] = c,
         InGrace(c)' => InGrace(c), Waits(c)' => Waits(c),
         deferred'[c] = "flush" => host'[c] # "none", ClosersKept(c),
         InPayload(c)' =>
           InPayload(c) \/ (conns[key[c]] = c /\ Settled(key[c])')
  PROVE  OwnKept
<1>1. OwnOK(c)
  BY DEF OwnInv
<1>2. OwnOK(c)'
  BY <1>1, OwnStays
<1> QED
  BY <1>2, OwnOne

(* A step that changes nothing a connection could own.                       *)
LEMMA OwnQuiet ==
  ASSUME WaitInv, WaitInv', SettledStays, OwnInv, Retires,
         UNCHANGED <<state, host, deferred, pump, key, conns>>
  PROVE  OwnKept
<1>1. ASSUME NEW c \in Conns PROVE OwnOK(c)'
  <2>1. OwnOK(c) /\ WaitOK(c)' /\ key[c] \in Keys \cup {None}
    BY DEF OwnInv, WaitInv, TypeInv, TypeOK
  <2>2. \A t : MayClose(c, t)' => MayClose(c, t)
    BY RetiresKeeps
  <2>3. ClosersKept(c)
    BY <2>2 DEF ClosersKept
  <2>4. Waits(c)' => Waits(c)
    BY DEF Waits
  <2>5. deferred'[c] = "flush" => host'[c] # "none"
    BY <2>1 DEF OwnOK
  <2>6. CASE key[c] = None
    BY <2>1, <2>6, UnmadeOwns
  <2>7. CASE key[c] \in Keys
    BY <2>1, <2>3, <2>4, <2>5, <2>7, RetiresKeeps, OwnStays
  <2> QED
    BY <2>1, <2>6, <2>7
<1> QED
  BY <1>1 DEF OwnKept

(* Behind bytes of k, which is registered, nothing is left to open k.        *)
LEMMA DataSettles ==
  ASSUME WaitInv, WireInv, ChipInv, OwnInv, to_gw # <<>>, to_gw' = Tail(to_gw),
         chip' = chip, NEW k \in Keys, HasData(k, Head(to_gw)),
         NoNewGrace, key' = key, conns[k] # None
  PROVE  Settled(k)'
<1>1. /\ \A i \in DOMAIN to_gw' : /\ i + 1 \in DOMAIN to_gw /\ i + 1 > 1
                                  /\ to_gw'[i] = to_gw[i + 1]
      /\ 1 \in DOMAIN to_gw /\ to_gw[1] = Head(to_gw)
  BY TailAt
<1>2. /\ chip[k].st \in {"open", "gone"}
      /\ \A j \in DOMAIN to_gw : j > 1 => ~IsSyn(k, to_gw[j])
  BY <1>1 DEF ChipInv, ChipOK
<1>3. \A i \in DOMAIN to_gw' : ~IsSyn(k, to_gw'[i])
  BY <1>1, <1>2
<1>4. ~GraceFor(k)
  <2>1. SUFFICES ASSUME NEW h \in Handlers, handler[h].pc = "grace",
                        key[handler[h].conn] = k
                 PROVE  FALSE
    BY DEF GraceFor
  <2>2. handler[h].conn \in Conns /\ InGrace(handler[h].conn)
    BY <2>1 DEF WaitInv, TypeInv, HoldsConn, InGrace
  <2> QED
    BY <2>1, <2>2 DEF OwnInv, OwnOK
<1>5. ~GraceFor(k)'
  BY <1>4, GraceKeys
<1> QED
  BY <1>2, <1>3, <1>5 DEF Settled, NoSynLeft

(* What a segment of a registered connection does to what may close it.      *)
LEMMA ConnSegmentHolds ==
  ASSUME TypeInv, NEW h \in Handlers, NEW c \in Conns, NEW seg,
         ConnSegment(h, c, seg)
  PROVE  /\ state'[c] # "CLOSED" => state[c] # "CLOSED"
         /\ host'[c] = "none" => host[c] = "none"
         /\ handler' = handler
            \/ \E x : /\ handler' = [handler EXCEPT ![h] = x]
                      /\ x.pc \in {"idle", "acked", "drain", "finack"}
                      /\ x.pc \in {"acked", "drain"} => seg.data # <<>>
<1> DEFINE Stays == /\ state'[c] # "CLOSED" => state[c] # "CLOSED"
                    /\ host'[c] = "none" => host[c] = "none"
           Goes == \E x : /\ handler' = [handler EXCEPT ![h] = x]
                          /\ x.pc \in {"idle", "acked", "drain", "finack"}
                          /\ x.pc \in {"acked", "drain"} => seg.data # <<>>
           Holds == Stays /\ (handler' = handler \/ Goes)
<1>1. Ignore => Holds
  BY DEF Ignore, fieldVars
<1>2. OnPayload(h, c, seg) => host'[c] = host[c]
  BY DEF OnPayload
<1>3. OnPayload(h, c, seg) /\ seg.data # <<>> => handler' = handler \/ Goes
  BY DEF OnPayload, AfterPayload, Idle, At
<1>4. state[c] = "SYN_RCVD" /\ on_handshake_complete(h, c, seg) => Holds
  <2> HIDE DEF Goes
  <2> QED
    BY <1>1, <1>2, <1>3 DEF on_handshake_complete
<1>5. state[c] = "ESTABLISHED" /\ AcceptFin(c) => Stays
  BY DEF AcceptFin, TypeInv, TypeOK
<1>6. state[c] = "ESTABLISHED" /\ on_data(h, c, seg) => Holds
  <2> HIDE DEF Goes
  <2> QED
    BY <1>1, <1>2, <1>3, <1>5 DEF on_data
<1>7. state[c] \in {"FIN_WAIT_1", "FIN_WAIT_2"} /\ on_fin_wait(h, c, seg)
        => Holds
  <2>1. on_fin_wait(h, c, seg) => host'[c] = host[c]
    BY DEF on_fin_wait
  <2>2. on_fin_wait(h, c, seg) => handler' = handler \/ Goes
    <3>1. At("finack", c, NoSegment).pc = "finack"
      BY DEF At
    <3>2. handler' = [handler EXCEPT ![h] = At("finack", c, NoSegment)] => Goes
      BY <3>1
    <3> HIDE DEF Goes
    <3> QED
      BY <3>2 DEF on_fin_wait
  <2> HIDE DEF Goes
  <2> QED
    BY <2>1, <2>2
<1> HIDE DEF Holds
<1>8. Holds
  BY <1>1, <1>4, <1>6, <1>7 DEF ConnSegment
<1> QED
  BY <1>8 DEF Holds

(* A segment of a registered connection: who takes its bytes up, does so     *)
(* when no SYN of its key can come any more.                                 *)
LEMMA ConnSegmentOwn ==
  ASSUME WaitInv, DialInv, WireInv, ChipInv, OwnInv, SettledStays,
         NEW h \in Handlers, handler[h].pc = "idle", NEW k \in Keys,
         NEW seg \in Segment, NEW c \in Conns, conns[k] = c,
         ConnSegment(h, c, seg), to_gw # <<>>, to_gw' = Tail(to_gw),
         chip' = chip, k = Head(to_gw).key, seg = Head(to_gw).seg,
         NoNewGrace, key' = key
  PROVE  OwnKept
<1>1. key[c] = k /\ Registered(c) /\ OwnOK(c) /\ TypeInv /\ conns[k] # None
  BY TcpNatAssumption DEF WaitInv, WaitOK, Registered, OwnInv
<1>2. ActsOn(c) /\ \A d \in Conns \ {c} : Apart(d)
  BY <1>1, ConnSegmentAlone
<1>3. /\ conns' = conns /\ deferred' = deferred /\ pump' = pump
  BY DEF ConnSegment, otherVars, tableVars, taskVars
<1>4. /\ state'[c] # "CLOSED" => state[c] # "CLOSED"
      /\ host'[c] = "none" => host[c] = "none"
      /\ handler' = handler
         \/ \E x : /\ handler' = [handler EXCEPT ![h] = x]
                   /\ x.pc \in {"idle", "acked", "drain", "finack"}
                   /\ x.pc \in {"acked", "drain"} => seg.data # <<>>
  BY <1>1, ConnSegmentHolds
<1>5. ~InGrace(c)'
  BY <1>2 DEF ActsOn, InGrace
<1>6. \A g \in Handlers : handler'[g] = handler[g]
        \/ /\ handler'[g].pc \in {"idle", "acked", "drain", "finack"}
           /\ handler'[g].pc \in {"acked", "drain"} => seg.data # <<>>
  BY <1>1, <1>4 DEF TypeInv, TypeOK
<1>7. InPayload(c)' => InPayload(c) \/ Settled(k)'
  <2>1. CASE seg.data # <<>>
    BY <1>1, <2>1, DataSettles DEF HasData
  <2>2. CASE seg.data = <<>>
    BY <1>6, <2>2 DEF InPayload, HandlerAt
  <2> QED
    BY <2>1, <2>2
<1>8. \A t : MayClose(c, t)' => MayClose(c, t)
  BY <1>3, <1>4, <1>6 DEF MayClose
<1>9. ClosersKept(c)
  BY <1>8 DEF ClosersKept
<1>10. deferred'[c] = "flush" => host'[c] # "none"
  BY <1>1, <1>3, <1>4 DEF OwnOK
<1>11. Waits(c)' => Waits(c)
  BY <1>3 DEF Waits
<1>12. Settled(key[c])' <=> Settled(k)'
  BY <1>1 DEF Settled, NoSynLeft, GraceFor
<1> QED
  BY <1>1, <1>2, <1>3, <1>5, <1>7, <1>9, <1>10, <1>11, <1>12, OwnAct

(* A SYN that makes a connection finds none in the table.                    *)
LEMMA PassiveSynOwn ==
  ASSUME WaitInv, WaitInv', SettledStays, OwnInv, NEW h \in Handlers,
         handler[h].pc = "idle", NEW k \in Keys, NEW seg \in Segment,
         on_passive_syn(h, k, seg)
  PROVE  OwnKept
<1>1. PICK c \in Conns :
        /\ key[c] = None
        /\ key' = [key EXCEPT ![c] = k]
        /\ chip_isn' = [chip_isn EXCEPT ![c] = seg.seq]
        /\ chip_seq' = [chip_seq EXCEPT ![c] = seq_add(seg.seq, 1)]
        /\ handler' = [handler EXCEPT ![h] = At("grace", c, seg)]
  BY DEF on_passive_syn
<1>2. /\ conns' = conns /\ state' = state /\ host' = host
      /\ deferred' = deferred /\ pump' = pump /\ conns[k] = None
      /\ UNCHANGED bufVars
  BY DEF on_passive_syn, taskVars, OpensNew
<1>3. At("grace", c, seg).conn = c /\ At("grace", c, seg).pc = "grace"
  BY DEF At
<1>4. /\ handler'[h] = At("grace", c, seg)
      /\ \A g \in Handlers \ {h} : handler'[g] = handler[g]
      /\ \A d \in Conns \ {c} : NobodyMoves(d)
  BY <1>1, <1>3, HandlerMoves DEF WaitInv
<1>5. \A d \in Conns \ {c} : Apart(d)
  BY <1>1, <1>2, <1>4
  DEF Apart, SameFields, bufVars, WaitInv, TypeInv, TypeOK
<1>6. Unused(c) /\ \A g \in Handlers : handler[g].conn # c
  BY <1>1 DEF WaitInv, WaitOK
<1>7. ~InPayload(c)' /\ \A t : ~MayClose(c, t)'
  BY <1>2, <1>3, <1>4, <1>6 DEF InPayload, HandlerAt, MayClose, Unused
<1>8. key'[c] = k
  BY <1>1 DEF WaitInv, TypeInv, TypeOK
<1>9. OwnOK(c)'
  BY <1>2, <1>6, <1>7, <1>8 DEF OwnOK, Unused, Waits
<1> QED
  BY <1>2, <1>5, <1>9, OwnOne

(* The answer to a SYN puts its connection in the table: no other one of the *)
(* key owns anything, since this SYN was still to be answered.               *)
LEMMA AnswerSynOwn ==
  ASSUME WaitInv, WaitInv', DialInv, SettledStays, OwnInv, NEW h \in Handlers,
         handler[h].pc = "grace", NEW c \in Conns, c = handler[h].conn,
         AnswerSyn(h, c),
         \/ deferred' = deferred /\ host' = [host EXCEPT ![c] = "open"]
         \/ deferred' = [deferred EXCEPT ![c] = "created"] /\ host' = host
  PROVE  OwnKept
<1> DEFINE k == key[c]
<1>1. /\ Unused(c) /\ \A g \in Handlers : handler[g].conn = c => g = h
      /\ handler'[h].conn = c /\ handler'[h].pc = "synack"
      /\ \A g \in Handlers \ {h} : handler'[g] = handler[g]
      /\ ActsOn(c) /\ \A d \in Conns \ {c} : Apart(d)
  BY AnswerSynAlone
<1>2. k \in Keys /\ key' = key /\ pump' = pump /\ InGrace(c)
  BY HeldMade DEF AnswerSyn, idVars, InGrace
<1>3. conns'[k] = c /\ \A j \in Keys \ {k} : conns'[j] = conns[j]
  BY <1>2 DEF AnswerSyn, WaitInv, TypeInv, TypeOK
<1>4. conns[k] = None /\ GraceFor(k)
  BY <1>2 DEF OwnInv, OwnOK, GraceFor
<1>5. OwnOK(c)'
  <2>1. ~InGrace(c)' /\ ~InPayload(c)'
    BY <1>1 DEF InGrace, InPayload, HandlerAt
  <2>2. deferred'[c] \in {"none", "created"}
    BY <1>1 DEF Unused, WaitInv, TypeInv, TypeOK
  <2>3. \A t : MayClose(c, t)' => t = <<"state">>
    BY <1>1, <1>2, <2>2 DEF MayClose, Unused
  <2> QED
    BY <1>2, <1>3, <2>1, <2>2, <2>3 DEF OwnOK
<1>6. ASSUME NEW d \in Conns \ {c} PROVE OwnOK(d)'
  <2>1. OwnOK(d) /\ Apart(d) /\ WaitOK(d)' /\ key[d] \in Keys \cup {None}
        /\ key'[d] = key[d] /\ host'[d] = host[d] /\ deferred'[d] = deferred[d]
    BY <1>1 DEF OwnInv, Apart, SameFields, WaitInv, TypeInv, TypeOK
  <2>2. CASE key[d] = None
    BY <2>1, <2>2, UnmadeOwns
  <2>3. CASE key[d] \in Keys \ {k}
    BY <1>3, <2>1, <2>3, OwnApart
  <2>4. CASE key[d] = k
    <3>1. d # None
      BY TcpNatAssumption
    <3>2. host[d] \notin {"open", "eof"} /\ ~Waits(d)
      BY <1>4, <2>1, <2>4, <3>1 DEF OwnOK
    <3>3. ~Settled(k)
      BY <1>4 DEF Settled
    <3>4. ~InPayload(d) /\ \A t : ~MayClose(d, t)
      BY <1>4, <2>1, <2>4, <3>1, <3>3 DEF OwnOK
    <3>5. ~InGrace(d)
      <4>1. Claims(c) /\ (InGrace(d) => Claims(d))
        BY <1>2 DEF Claims, AwaitsDial
      <4> QED
        BY <1>2, <2>4, <4>1 DEF DialInv
    <3>6. ~InPayload(d)' /\ ~InGrace(d)' /\ \A t : ~MayClose(d, t)'
      BY <2>1, <3>4, <3>5, ApartCloses
    <3>7. deferred'[d] = "flush" => host'[d] # "none"
      BY <2>1 DEF OwnOK
    <3> QED
      BY <2>1, <3>2, <3>6, <3>7 DEF OwnOK, Waits
  <2> QED
    BY <2>1, <2>2, <2>3, <2>4
<1> QED
  BY <1>5, <1>6 DEF OwnKept

(* What a handler that holds c does to it alone.                             *)
LEMMA HandlerOwn ==
  ASSUME WaitInv, WaitInv', SettledStays, OwnInv, NEW h \in Handlers,
         NEW c \in Conns, handler[h].conn = c,
         SynAnswered(h) \/ Drained(h) \/ DrainFailed(h) \/ DataAcked(h)
  PROVE  OwnKept
<1>1. ActsOn(c) /\ \A d \in Conns \ {c} : Apart(d)
  BY HandlerAlone
<1>2. key[c] \in Keys /\ key' = key /\ conns' = conns /\ deferred' = deferred
      /\ OwnOK(c)
  BY HeldMade
  DEF SynAnswered, Drained, DrainFailed, DataAcked, otherVars, tableVars,
      idVars, taskVars, OwnInv
<1>3. ~InGrace(c)' /\ (Waits(c)' => Waits(c))
  BY <1>1, <1>2 DEF ActsOn, InGrace, Waits
<1>4. CASE SynAnswered(h)
  <2>1. Retires
    BY <1>4, MovesAway DEF SynAnswered, Idle, At, WaitInv
  <2>2. state' = state /\ host' = host
    BY <1>4 DEF SynAnswered, fieldVars
  <2>3. \A o \in Starters : pump'[c][o] = "rst" => pump[c][o] = "rst"
    BY <1>4 DEF SynAnswered, StartPump, WaitInv, TypeInv, TypeOK
  <2>4. ClosersKept(c)
    BY <1>2, <2>1, <2>2, <2>3, RetiresKeeps DEF ClosersKept
  <2>5. deferred'[c] = "flush" => host'[c] # "none"
    BY <1>2, <2>2 DEF OwnOK
  <2>6. InPayload(c)' => InPayload(c)
    BY <2>1, RetiresKeeps
  <2> QED
    BY <1>1, <1>2, <1>3, <2>2, <2>4, <2>5, <2>6, OwnAct
<1>5. CASE Drained(h) \/ DrainFailed(h) \/ DataAcked(h)
  <2>1. InPayload(c)
    BY <1>5
    DEF Drained, DrainFailed, DataAcked, Resumes, InPayload, HandlerAt
  <2>2. /\ host'[c] \in {"open", "eof"} => host[c] \in {"open", "eof"}
        /\ host'[c] = "none" => host[c] = "none"
    BY <1>5
    DEF Drained, DrainFailed, DataAcked, AcceptFin, WaitInv, TypeInv, TypeOK
  <2>3. deferred'[c] = "flush" => host'[c] # "none"
    BY <1>2, <2>2 DEF OwnOK
  <2> QED
    BY <1>1, <1>2, <1>3, <2>1, <2>2, <2>3, OwnAct DEF ClosersKept
<1> QED
  BY <1>4, <1>5

(* Every later step of a handler.                                            *)
LEMMA HandlerStepOwn ==
  ASSUME WaitInv, WaitInv', DialInv, SettledStays, OwnInv, NEW h \in Handlers,
         HandlerStep(h)
  PROVE  OwnKept
<1> PICK c : c = handler[h].conn
  OBVIOUS
<1>1. ASSUME NEW pc, pc \notin {"idle", "stopping"}, Resumes(h, pc)
      PROVE  c \in Conns /\ handler[h].pc = pc
  BY <1>1, HeldConn DEF WaitInv, Resumes
<1>2. CASE GraceOpened(h) \/ GraceOver(h)
  <2>1. c \in Conns /\ handler[h].pc = "grace"
    BY <1>1, <1>2 DEF GraceOpened, GraceOver
  <2> QED
    BY <1>2, <2>1, AnswerSynOwn DEF GraceOpened, GraceOver
<1>3. CASE GraceRefused(h)
  <2>1. Retires
    BY <1>3, MovesAway DEF GraceRefused, Idle, At, WaitInv
  <2> QED
    BY <1>3, <2>1, OwnQuiet DEF GraceRefused, idVars, fieldVars, taskVars
<1>4. CASE SynAnswered(h) \/ Drained(h) \/ DrainFailed(h) \/ DataAcked(h)
  <2>1. c \in Conns
    BY <1>1, <1>4 DEF SynAnswered, Drained, DrainFailed, DataAcked
  <2> QED
    BY <1>4, <2>1, HandlerOwn
<1>5. CASE FinAcked(h)
  <2>1. Retires
    BY <1>5, MovesAway DEF FinAcked, Idle, At, WaitInv
  <2>2. {c} \in SUBSET Conns
    BY <1>1, <1>5 DEF FinAcked
  <2> QED
    BY <1>5, <2>1, <2>2, CloseOwn DEF FinAcked
<1>6. CASE shutdown(h)
  <2>1. Retires
    BY <1>6, MovesAway DEF shutdown, Idle, At, WaitInv
  <2> QED
    BY <1>6, <2>1, CloseOwn DEF shutdown
<1>7. CASE HandlerReset(h)
  <2>1. Retires /\ handler'[h].pc = "idle"
    BY <1>7, MovesAway DEF HandlerReset, Idle, At, WaitInv, TypeInv, TypeOK
  <2>2. c \in Conns /\ handler[h].pc = "rst"
    BY <1>1, <1>7 DEF HandlerReset
  <2>3. TearDown({c}, deferred, pump) /\ state' = state
    BY <1>7 DEF HandlerReset
  <2>4. ClosedBy(c)
    <3>1. MayClose(c, <<"handler", h>>)
      BY <2>2 DEF MayClose
    <3>2. /\ deferred'[c] = "rst" => deferred[c] = "rst"
          /\ \A o \in Starters : pump'[c][o] = "rst" => pump[c][o] = "rst"
      BY <2>2, <2>3 DEF TearDown, Cancelled
    <3>3. \A u : MayClose(c, u)' => MayClose(c, u)
      BY <2>1, <2>3, <3>2, RetiresKeeps
    <3>4. ~MayClose(c, <<"handler", h>>)'
      BY <2>1 DEF MayClose
    <3> QED
      BY <3>1, <3>3, <3>4 DEF ClosedBy
  <2> QED
    BY <2>1, <2>2, <2>3, <2>4, TearDownOwn
<1> QED
  BY <1>2, <1>3, <1>4, <1>5, <1>6, <1>7 DEF HandlerStep

(* A task of c that starts _close of an open connection will finish it.      *)
LEMMA ResetSwaps ==
  ASSUME TypeInv, NEW c \in Conns, NEW u, u # <<"state">>, ResetChip(c),
         handler' = handler,
         \A t : t # u /\ t # <<"state">> /\ MayClose(c, t)' => MayClose(c, t)
  PROVE  ClosersKept(c)
<1>1. MayClose(c, <<"state">>) /\ state'[c] = "CLOSED"
  BY DEF ResetChip, MayClose, TypeInv, TypeOK
<1>2. ~MayClose(c, <<"state">>)'
  BY <1>1 DEF MayClose
<1>3. \A t : MayClose(c, t)' =>
        t = u \/ (t # <<"state">> /\ MayClose(c, t))
  BY <1>2
<1> QED
  BY <1>1, <1>3 DEF ClosersKept

(* The deferred connect: who waits is in the table, and may attach a socket. *)
LEMMA DeferredStepOwn ==
  ASSUME WaitInv, WaitInv', SettledStays, OwnInv, NEW c \in Conns,
         DeferredStep(c)
  PROVE  OwnKept
<1>1. CASE DeferredReset(c)
  <2>1. /\ TearDown({c}, [deferred EXCEPT ![c] = "done"], pump)
        /\ state' = state /\ handler' = handler /\ deferred[c] = "rst"
    BY <1>1 DEF DeferredReset, DeferredAt
  <2>2. Retires
    BY <2>1, NoneRetires
  <2>3. ClosedBy(c)
    <3>1. MayClose(c, <<"deferred">>)
      BY <2>1 DEF MayClose
    <3>2. /\ deferred'[c] = "done"
          /\ \A o \in Starters : pump'[c][o] = "rst" => pump[c][o] = "rst"
      BY <2>1 DEF TearDown, Cancelled, WaitInv, TypeInv, TypeOK
    <3>3. \A u : MayClose(c, u)' => MayClose(c, u)
      BY <2>1, <2>2, <3>2, RetiresKeeps
    <3>4. ~MayClose(c, <<"deferred">>)'
      BY <3>2 DEF MayClose
    <3> QED
      BY <3>1, <3>3, <3>4 DEF ClosedBy
  <2>4. /\ [deferred EXCEPT ![c] = "done"][c] = "done"
        /\ \A d \in Conns \ {c} :
             [deferred EXCEPT ![c] = "done"][d] = deferred[d]
    BY DEF WaitInv, TypeInv, TypeOK
  <2> QED
    BY <2>1, <2>2, <2>3, <2>4, TearDownOwn
<1>2. CASE ~DeferredReset(c)
  <2>1. /\ ~Unused(c) /\ ActsOn(c) /\ \A d \in Conns \ {c} : Apart(d)
        /\ UNCHANGED <<handler, key, chip_isn, conns, chip_seq>>
    BY <1>2, DeferredAlone
  <2>2. key[c] \in Keys /\ OwnOK(c)
    BY <2>1, RegisteredMade DEF OwnInv
  <2>3. /\ InGrace(c)' => InGrace(c)
        /\ InPayload(c)' => InPayload(c)
    BY <2>1 DEF InGrace, InPayload, HandlerAt
  <2>4. Waits(c)' => Waits(c)
    BY <1>2
    DEF DeferredStep, DeferredStarts, DeferredCancelled, DeferredFails,
        DeferredAttaches, Flushed, FlushFailed, DialEnded, DeferredAt,
        DeferredGoesTo, FinishAttach, Waits, WaitInv, TypeInv, TypeOK
  <2>5. /\ host'[c] \in {"open", "eof"} =>
             host[c] \in {"open", "eof"} \/ conns[key[c]] = c
        /\ deferred'[c] = "flush" => host'[c] # "none"
    <3>1. CASE DeferredStarts(c) \/ DeferredCancelled(c) \/ DeferredFails(c)
      BY <3>1
      DEF DeferredStarts, DeferredCancelled, DeferredFails, DialEnded,
          DeferredGoesTo, fieldVars, WaitInv, TypeInv, TypeOK
    <3>2. CASE DeferredAttaches(c)
      <4>1. conns[key[c]] = c
        BY <2>2, <3>2 DEF DeferredAttaches, DialEnded, DeferredAt, OwnOK, Waits
      <4>2. deferred'[c] = "flush" => host'[c] # "none"
        BY <3>2
        DEF DeferredAttaches, FinishAttach, DeferredGoesTo, WaitInv, TypeInv,
            TypeOK
      <4> QED
        BY <4>1, <4>2
    <3>3. CASE Flushed(c)
      BY <2>2, <3>3
      DEF Flushed, FinishAttach, DeferredAt, DeferredGoesTo, OwnOK, WaitInv,
          TypeInv, TypeOK
    <3>4. CASE FlushFailed(c)
      BY <2>2, <3>4
      DEF FlushFailed, DeferredAt, DeferredGoesTo, OwnOK, WaitInv, TypeInv,
          TypeOK
    <3> QED
      BY <1>2, <3>1, <3>2, <3>3, <3>4 DEF DeferredStep
  <2>6. ClosersKept(c)
    <3>1. \A o \in Starters : pump'[c][o] = "rst" => pump[c][o] = "rst"
      BY <1>2
      DEF DeferredStep, DeferredStarts, DeferredCancelled, DeferredFails,
          DeferredAttaches, Flushed, FlushFailed, FinishAttach, StartPump,
          WaitInv, TypeInv, TypeOK
    <3>2. CASE ResetChip(c)
      <4>1. \A t : t # <<"deferred">> /\ t # <<"state">> /\ MayClose(c, t)'
                     => MayClose(c, t)
        BY <2>1, <3>1 DEF MayClose
      <4> QED
        BY <2>1, <3>2, <4>1, ResetSwaps DEF WaitInv
    <3>3. CASE ~ResetChip(c)
      <4>1. state' = state
        BY <1>2, <3>3
        DEF DeferredStep, DeferredStarts, DeferredCancelled, DeferredFails,
            DeferredAttaches, Flushed, FlushFailed, fieldVars
      <4>2. deferred'[c] # "rst"
        BY <1>2, <3>3
        DEF DeferredStep, DeferredStarts, DeferredCancelled, DeferredFails,
            DeferredAttaches, Flushed, FlushFailed, FinishAttach,
            DeferredGoesTo, WaitInv, TypeInv, TypeOK
      <4>3. \A t : MayClose(c, t)' => MayClose(c, t)
        BY <2>1, <3>1, <4>1, <4>2 DEF MayClose
      <4> QED
        BY <4>3 DEF ClosersKept
    <3> QED
      BY <3>2, <3>3
  <2> QED
    BY <2>1, <2>2, <2>3, <2>4, <2>5, <2>6, OwnAct
<1> QED
  BY <1>1, <1>2

(* The pumps.                                                                *)
LEMMA PumpStepOwn ==
  ASSUME WaitInv, WaitInv', SettledStays, OwnInv, NEW c \in Conns,
         NEW o \in Starters, PumpStep(c, o)
  PROVE  OwnKept
<1>1. CASE PumpReset(c, o)
  <2>1. /\ TearDown({c}, deferred, [pump EXCEPT ![c][o] = "done"])
        /\ state' = state /\ handler' = handler /\ pump[c][o] = "rst"
    BY <1>1 DEF PumpReset, PumpAt
  <2>2. Retires
    BY <2>1, NoneRetires
  <2>3. ClosedBy(c)
    <3>1. MayClose(c, <<"pump", o>>)
      BY <2>1 DEF MayClose
    <3>2. /\ deferred'[c] = "rst" => deferred[c] = "rst"
          /\ pump'[c][o] = "done"
          /\ \A i \in Starters : pump'[c][i] = "rst" => pump[c][i] = "rst"
      BY <2>1 DEF TearDown, Cancelled, WaitInv, TypeInv, TypeOK
    <3>3. \A u : MayClose(c, u)' => MayClose(c, u)
      BY <2>1, <2>2, <3>2, RetiresKeeps
    <3>4. ~MayClose(c, <<"pump", o>>)'
      BY <3>2 DEF MayClose
    <3> QED
      BY <3>1, <3>3, <3>4 DEF ClosedBy
  <2>4. PICK p : p = [pump EXCEPT ![c][o] = "done"]
    OBVIOUS
  <2>5. TearDown({c}, deferred, p) /\ \A d \in Conns \ {c} : p[d] = pump[d]
    BY <2>1, <2>4 DEF WaitInv, TypeInv, TypeOK
  <2> QED
    BY <2>1, <2>2, <2>3, <2>5, TearDownOwn
<1>2. CASE ~PumpReset(c, o)
  <2>1. /\ ~Unused(c) /\ \A d \in Conns \ {c} : Apart(d)
        /\ UNCHANGED <<handler, key, chip_isn, conns, chip_seq, host, bufVars,
                       deferred>>
    BY <1>2, PumpAlone
  <2>2. key[c] \in Keys /\ OwnOK(c)
    BY <2>1, RegisteredMade DEF OwnInv
  <2>3. /\ InGrace(c)' => InGrace(c)
        /\ InPayload(c)' => InPayload(c)
        /\ Waits(c)' => Waits(c)
    BY <2>1 DEF InGrace, InPayload, HandlerAt, Waits
  <2>4. deferred'[c] = "flush" => host'[c] # "none"
    BY <2>1, <2>2 DEF OwnOK
  <2>5. ClosersKept(c)
    <3>1. PICK pc : pump' = [pump EXCEPT ![c][o] = pc]
      BY <1>2
      DEF PumpStep, PumpStarts, PumpSent, PumpEof, PumpFinSent, PumpRaises,
          PumpReads, NextRound, PumpGoesTo
    <3>2. \A i \in Starters : i # o => pump'[c][i] = pump[c][i]
      BY <3>1 DEF WaitInv, TypeInv, TypeOK
    <3>3. CASE ResetChip(c)
      <4>1. \A t : t # <<"pump", o>> /\ t # <<"state">> /\ MayClose(c, t)'
                     => MayClose(c, t)
        BY <2>1, <3>2 DEF MayClose
      <4>2. <<"pump", o>> # <<"state">>
        OBVIOUS
      <4> QED
        BY <2>1, <3>3, <4>1, <4>2, ResetSwaps DEF WaitInv
    <3>4. CASE ~ResetChip(c)
      <4>1. state'[c] # "CLOSED" => state[c] # "CLOSED"
        BY <1>2, <3>4
        DEF PumpStep, PumpStarts, PumpSent, PumpEof, PumpFinSent, PumpRaises,
            PumpReads, Carries, WaitInv, TypeInv, TypeOK
      <4>2. \E i : pump' = [pump EXCEPT ![c][o] = i] /\ i # "rst"
        <5>1. NextRound(c, o)
                => PumpGoesTo(c, o, "read") \/ PumpGoesTo(c, o, "done")
          BY DEF NextRound
        <5>2. \E i \in {"read", "done", "sent", "finsent"} : PumpGoesTo(c, o, i)
          BY <1>2, <3>4, <5>1
          DEF PumpStep, PumpStarts, PumpSent, PumpEof, PumpFinSent, PumpRaises,
              PumpReads
        <5> QED
          BY <5>2 DEF PumpGoesTo
      <4>3. \A t : MayClose(c, t)' => MayClose(c, t)
        <5>1. pump'[c][o] # "rst"
          BY <4>2 DEF WaitInv, TypeInv, TypeOK
        <5> QED
          BY <2>1, <3>2, <4>1, <5>1 DEF MayClose
      <4> QED
        BY <4>3 DEF ClosersKept
    <3> QED
      BY <3>3, <3>4
  <2> QED
    BY <2>1, <2>2, <2>3, <2>4, <2>5, OwnAct
<1> QED
  BY <1>1, <1>2

(* handle_chip_segment, with the segment at the head of the queue.           *)
LEMMA SegmentOwn ==
  ASSUME WaitInv, WaitInv', DialInv, WireInv, ChipInv, SettledStays, OwnInv,
         NEW h \in Handlers, NEW k \in Keys, NEW seg \in Segment,
         handle_chip_segment(h, k, seg), to_gw # <<>>, to_gw' = Tail(to_gw),
         chip' = chip, k = Head(to_gw).key, seg = Head(to_gw).seg
  PROVE  OwnKept
<1>1. handler[h].pc = "idle" /\ conns[k] \in Conns \cup {None} /\ Inv
  BY DEF handle_chip_segment, WaitInv, TypeInv, TypeOK, ConnsOrNone, Inv
<1>2. CASE ChipRst(k, seg)
  <2>1. {conns[k]} \ {None} \in SUBSET Conns /\ Retires
    BY <1>1, <1>2, NoneRetires DEF ChipRst
  <2> QED
    BY <1>2, <2>1, CloseOwn DEF ChipRst
<1>3. CASE DropSynRetransmit(k, seg) \/ RefuseSegment(k, seg)
  <2>1. Retires /\ UNCHANGED <<state, host, deferred, pump, key, conns>>
    BY <1>3, NoneRetires
    DEF DropSynRetransmit, RefuseSegment, fieldVars, otherVars, tableVars,
        idVars, taskVars
  <2> QED
    BY <2>1, OwnQuiet
<1>4. CASE on_passive_syn(h, k, seg)
  BY <1>1, <1>4, PassiveSynOwn
<1>5. CASE conns[k] # None /\ ConnSegment(h, conns[k], seg)
  <2>1. ~on_passive_syn(h, k, seg)
    BY <1>5 DEF on_passive_syn, OpensNew
  <2>2. NoNewGrace /\ key' = key
    BY <1>1, <2>1, SegmentNoGrace
  <2> QED
    BY <1>1, <1>5, <2>2, ConnSegmentOwn
<1>6. CASE conns[k] # None /\ LastAck(conns[k], seg)
  <2>1. {conns[k]} \in SUBSET Conns /\ Retires
    BY <1>1, <1>6, NoneRetires DEF LastAck
  <2> QED
    BY <1>6, <2>1, CloseOwn DEF LastAck
<1> QED
  BY <1>2, <1>3, <1>4, <1>5, <1>6 DEF handle_chip_segment

-----------------------------------------------------------------------------
(* No socket is lost, for any number of handlers.                            *)

TableInv == TunnelInv /\ DialInv /\ ChipInv /\ OwnInv

(* At first there is neither a segment nor a connection.                     *)
LEMMA TableInit == TunnelInit => TableInv
<1> SUFFICES ASSUME TunnelInit PROVE TableInv
  OBVIOUS
<1>1. TunnelInv /\ DialInv
  BY TunnelInitTyped, InitDials DEF TunnelInit
<1>2. ChipInv
  BY DEF TunnelInit, ChipInv, ChipOK, NewChip
<1>3. OwnInv
  BY DEF TunnelInit, Init, OwnInv, OwnOK, InGrace, Waits, MayClose, InPayload,
     HandlerAt, Idle, At
<1> QED
  BY <1>1, <1>2, <1>3 DEF TableInv

(* A step of a task.                                                         *)
LEMMA TaskOwn ==
  ASSUME WaitInv, WaitInv', DialInv, SettledStays, OwnInv,
         TaskStep \/ \E h \in Handlers : stop(h)
  PROVE  OwnKept
<1>1. ASSUME NEW h \in Handlers, stop(h) PROVE OwnKept
  <2>1. Retires
    BY <1>1, MovesAway DEF stop, At, WaitInv
  <2> QED
    BY <1>1, <2>1, OwnQuiet DEF stop, tableVars, idVars, fieldVars, taskVars
<1>2. ASSUME NEW c \in Conns, DialStep(c) PROVE OwnKept
  <2>1. Retires /\ UNCHANGED <<state, host, deferred, pump, key, conns>>
    BY <1>2, NoneRetires
    DEF DialStep, HostAnswers, HostRefuses, AttemptTimesOut, Dials, fieldVars,
        tableVars, idVars, taskVars
  <2> QED
    BY <2>1, OwnQuiet
<1> QED
  BY <1>1, <1>2, HandlerStepOwn, DeferredStepOwn, PumpStepOwn DEF TaskStep

(* A step that leaves the NAT alone.                                         *)
LEMMA StutterOwn ==
  ASSUME WaitInv, WaitInv', SettledStays, OwnInv, UNCHANGED vars
  PROVE  OwnKept
<1>1. Retires /\ UNCHANGED <<state, host, deferred, pump, key, conns>>
  BY NoneRetires
  DEF vars, fieldVars, otherVars, tableVars, idVars, taskVars
<1> QED
  BY <1>1, OwnQuiet

(* The order of the chip's segments is kept.                                 *)
LEMMA OrderStep ==
  ASSUME TunnelInv, ChipInv, [TunnelNext]_tunnelVars
  PROVE  ChipInv'
<1>1. WireInv
  BY DEF TunnelInv
<1>2. CASE ChipStep
  BY <1>1, <1>2, ChipStepOrder
<1>3. CASE \E h \in Handlers : Delivered(h)
  BY <1>1, <1>3, TailChip DEF Delivered
<1>4. CASE TaskRuns \/ UNCHANGED tunnelVars
  BY <1>4 DEF TaskRuns, tunnelVars, chipVars, ChipInv, ChipOK
<1> QED
  BY <1>2, <1>3, <1>4, TunnelSteps

(* What is settled stays settled.                                            *)
LEMMA SettledStep ==
  ASSUME TunnelInv, DialInv, ChipInv, [TunnelNext]_tunnelVars
  PROVE  SettledStays
<1>1. WireInv /\ Inv
  BY DEF TunnelInv, WaitInv, Inv
<1>2. CASE ChipStep /\ UNCHANGED vars
  BY <1>1, <1>2, ChipSettled
<1>3. CASE TaskRuns \/ \E h \in Handlers : Delivered(h)
  BY <1>1, <1>3, GatewaySettled
<1>4. CASE UNCHANGED tunnelVars
  BY <1>4
  DEF tunnelVars, chipVars, vars, otherVars, idVars, SettledStays, Settled,
      NoSynLeft, GraceFor
<1> QED
  BY <1>2, <1>3, <1>4, TunnelSteps

(* Every step of the tunnel keeps all of it.                                 *)
LEMMA TableStep == TableInv /\ [TunnelNext]_tunnelVars => TableInv'
<1> SUFFICES ASSUME TableInv, [TunnelNext]_tunnelVars PROVE TableInv'
  OBVIOUS
<1>1. TunnelInv /\ WaitInv /\ WireInv /\ DialInv /\ ChipInv /\ OwnInv /\ Inv
  BY DEF TableInv, TunnelInv, WaitInv, Inv
<1>2. [Next]_vars
  BY <1>1, TunnelStepIsNext
<1>3. WaitInv' /\ WireInv' /\ DialInv'
  BY <1>1, <1>2, NextWaits, WireStep, NextDials
<1>4. ChipInv' /\ SettledStays
  BY <1>1, OrderStep, SettledStep
<1>5. OwnKept
  <2>1. CASE UNCHANGED vars
    BY <1>1, <1>3, <1>4, <2>1, StutterOwn
  <2>2. CASE TaskRuns
    BY <1>1, <1>3, <1>4, <2>2, TaskOwn DEF TaskRuns
  <2>3. ASSUME NEW h \in Handlers, Delivered(h) PROVE OwnKept
    <3>1. /\ to_gw # <<>> /\ to_gw' = Tail(to_gw) /\ chip' = chip
          /\ \/ handle_chip_segment(h, Head(to_gw).key, Head(to_gw).seg)
             \/ UNCHANGED vars
      BY <2>3 DEF Delivered
    <3>2. Head(to_gw).key \in Keys /\ Head(to_gw).seg \in Segment
      BY <1>1, <3>1, HeadTyped
    <3> QED
      BY <1>1, <1>3, <1>4, <2>1, <3>1, <3>2, SegmentOwn
  <2>4. CASE UNCHANGED tunnelVars
    BY <2>1, <2>4 DEF tunnelVars
  <2> QED
    BY <2>1, <2>2, <2>3, <2>4, TunnelSteps
<1> QED
  BY <1>3, <1>4, <1>5 DEF TableInv, TunnelInv, OwnKept, OwnInv

(* So the invariant holds.                                                   *)
LEMMA TableInvariance == TunnelSpec => []TableInv
<1>1. TunnelSpec => TunnelInit /\ [][TunnelNext]_tunnelVars
  BY DEF TunnelSpec
<1> QED
  BY <1>1, TableInit, TableStep, PTL

(* Every host socket that is attached belongs to the connection in the table *)
(* for its key, and every dial, or socket that it opened, has a task that    *)
(* will take it, one which the table finds once the grace is over: so _close *)
(* and shutdown reach them (tcp_nat.py:264-302, 581-594).  The exception is  *)
(* a dial left behind by a torn down connection, which nobody reaches.  For  *)
(* any number of keys, connections and websocket handlers, whatever the host *)
(* does, and whenever the chip gives a connection up; the chip has to follow *)
(* the protocol, as TcpTunnel has it.                                        *)
THEOREM NoSocketLost == TunnelSpec => []NoLostSocket
<1>1. TableInv /\ DialledInv => NoLostSocket
  <2> SUFFICES ASSUME TableInv, DialledInv PROVE NoLostSocket
    OBVIOUS
  <2>1. \A c \in Conns : WaitOK(c) /\ OwnOK(c)
    BY DEF TableInv, TunnelInv, WaitInv, OwnInv
  <2>2. \A k \in Keys : conns[k] \in Conns \cup {None}
    BY DEF TableInv, TunnelInv, WaitInv, TypeInv, TypeOK, ConnsOrNone
  <2>3. \A c \in Conns : Dialled(c) =>
          \/ InGrace(c)
          \/ deferred[c] \in {"created", "await"} /\ conns[key[c]] = c
          \/ LeftBehind(c)
    BY <2>1 DEF DialledInv, DialledOK, Waits, OwnOK
  <2> QED
    BY <2>1, <2>2, <2>3 DEF NoLostSocket, WaitOK, OwnOK
<1>2. TunnelSpec => []DialledInv
  BY TunnelImplementsNat, DialledInvariance, PTL
<1> QED
  BY <1>1, <1>2, TableInvariance, PTL

-----------------------------------------------------------------------------
(* After a stop, with one handler.  shutdown closes what is in the table and *)
(* not CLOSED; what is CLOSED and still there has a task whose RST is going  *)
(* out, and that task closes it.                                             *)

Resetting(c) == deferred[c] = "rst" \/ \E o \in Starters : pump[c][o] = "rst"

RstPending(c) == Resetting(c) \/ HandlerAt(c, {"rst"})

(* The NAT has been stopped and shut down.                                   *)
Stopped == ~running /\ \A h \in Handlers : handler[h].pc = "idle"

(* No pump is started where one is sending its RST.                          *)
NotYet(c, o) == pump[c][o] \in {"none", "done"}

StoppedWell(c) == ~Waits(c) /\ (host[c] \in {"open", "eof"} => Resetting(c))

StopOK(c) ==
    /\ Registered(c) /\ state[c] = "CLOSED" => RstPending(c)
    /\ deferred[c] \in {"created", "await", "cancelled", "flush"} =>
         NotYet(c, "deferred")
    /\ SynackAt(c) => NotYet(c, "syn")
    /\ Stopped => StoppedWell(c)

(* Once the bridge has been stopped its handler has only the shutdown to do. *)
Halting ==
    ~running => \A h \in Handlers : handler[h].pc \in {"idle", "stopping"}

StopInv == Halting /\ \A c \in Conns : StopOK(c)

StopKept == \A c \in Conns : StopOK(c)'

(* With one handler, the stop and the steps after it.                        *)
LEMMA HaltingStep ==
  ASSUME TypeInv, NEW h, Handlers = {h}, Halting, [Next]_vars
  PROVE  /\ Halting'
         /\ ~shutdown(h) /\ Stopped' => Stopped
<1>1. CASE stop(h)
  <2>1. handler'[h].pc = "stopping"
    BY <1>1 DEF stop, At, TypeInv, TypeOK
  <2> QED
    BY <2>1 DEF Halting, Stopped
<1>2. CASE shutdown(h)
  <2>1. handler'[h].pc = "idle"
    BY <1>2 DEF shutdown, Idle, At, TypeInv, TypeOK
  <2> QED
    BY <1>2, <2>1 DEF Halting
<1>3. CASE running /\ running'
  BY <1>3 DEF Halting, Stopped
<1>4. CASE running' = running /\ handler' = handler
  BY <1>4 DEF Halting, Stopped
<1>5. CASE HandlerStep(h) /\ ~shutdown(h)
  <2>1. \E pc \in {"grace", "synack", "drain", "acked", "finack", "rst"} :
          handler[h].pc = pc
    BY <1>5
    DEF HandlerStep, GraceOpened, GraceRefused, GraceOver, SynAnswered,
        Drained, DrainFailed, DataAcked, FinAcked, HandlerReset, Resumes
  <2>2. running
    BY <2>1 DEF Halting
  <2>3. running' = running
    BY <1>5
    DEF HandlerStep, GraceOpened, GraceRefused, GraceOver, AnswerSyn,
        SynAnswered, Drained, DrainFailed, DataAcked, FinAcked, HandlerReset,
        otherVars
  <2> QED
    BY <1>3, <2>2, <2>3
<1>6. ASSUME NEW k \in Keys, NEW seg \in Segments,
             handle_chip_segment(h, k, seg)
      PROVE  running /\ running'
  BY <1>6
  DEF handle_chip_segment, ChipRst, DropSynRetransmit, RefuseSegment,
      on_passive_syn, ConnSegment, LastAck, otherVars
<1>7. ASSUME NEW c \in Conns, DialStep(c) \/ DeferredStep(c)
      PROVE  running' = running /\ handler' = handler
  BY <1>7
  DEF DialStep, HostAnswers, HostRefuses, AttemptTimesOut, Dials, DeferredStep,
      DeferredStarts, DeferredCancelled, DeferredFails, DeferredAttaches,
      DialEnded, Flushed, FlushFailed, DeferredReset
<1>8. ASSUME NEW c \in Conns, NEW o \in Starters, PumpStep(c, o)
      PROVE  running' = running /\ handler' = handler
  BY <1>8
  DEF PumpStep, PumpStarts, PumpSent, PumpEof, PumpFinSent, PumpRaises,
      PumpReset, PumpReads, NextRound, PumpGoesTo
<1>9. CASE UNCHANGED vars
  BY <1>4, <1>9 DEF vars, otherVars
<1> QED
  BY <1>1, <1>2, <1>3, <1>4, <1>5, <1>6, <1>7, <1>8, <1>9 DEF Next, TaskStep

(* A connection that is left alone.                                          *)
LEMMA ApartStop ==
  ASSUME NEW d \in Conns, StopOK(d), Apart(d), Stopped' => Stopped
  PROVE  StopOK(d)'
<1>1. SynackAt(d)' <=> SynackAt(d)
  BY ApartSynack DEF Apart
<1>2. HandlerAt(d, {"rst"})' <=> HandlerAt(d, {"rst"})
  BY DEF Apart, NobodyMoves, HandlerAt
<1>3. /\ state'[d] = state[d] /\ deferred'[d] = deferred[d]
      /\ pump'[d] = pump[d] /\ host'[d] = host[d]
      /\ Registered(d)' => Registered(d)
  BY DEF Apart, SameFields, Registered
<1>4. (RstPending(d)' <=> RstPending(d)) /\ (StoppedWell(d)' <=> StoppedWell(d))
  BY <1>2, <1>3 DEF RstPending, Resetting, StoppedWell, Waits
<1>5. \A o \in Starters : NotYet(d, o)' <=> NotYet(d, o)
  BY <1>3 DEF NotYet
<1>6. (NotYet(d, "syn")' <=> NotYet(d, "syn"))
        /\ (NotYet(d, "deferred")' <=> NotYet(d, "deferred"))
  BY <1>5 DEF Starters
<1> QED
  BY <1>1, <1>3, <1>4, <1>6 DEF StopOK

(* A step that acts on c alone.                                              *)
LEMMA StopOne ==
  ASSUME \A d \in Conns : StopOK(d), NEW c \in Conns, StopOK(c)',
         \A d \in Conns \ {c} : Apart(d), Stopped' => Stopped
  PROVE  StopKept
BY ApartStop DEF StopKept

(* What is torn down is out of the table; what is not, stays as it was.      *)
LEMMA TearDownStop ==
  ASSUME WaitInv, \A c \in Conns : StopOK(c), NEW S \in SUBSET Conns,
         NEW d, NEW p, TearDown(S, d, p),
         \A c \in S : d[c] \in {deferred[c], "done"},
         \A c \in S, o \in Starters : p[c][o] \in {pump[c][o], "done"},
         \A c \in Conns \ S :
           d[c] = deferred[c] /\ p[c] = pump[c] /\ state'[c] = state[c],
         \A c : SynackAt(c)' => SynackAt(c),
         \A h \in Handlers : handler[h].pc = "rst" =>
           handler'[h] = handler[h] \/ handler[h].conn \in S,
         \A c \in Conns \ S : Stopped' => StoppedWell(c)
  PROVE  StopKept
<1>1. ASSUME NEW c \in S PROVE StopOK(c)'
  <2>1. /\ deferred'[c] = Cancelled(d[c]) /\ host'[c] = HostAfterClose(host[c])
        /\ \A o \in Starters : pump'[c][o] \in {pump[c][o], "done"}
    BY DEF TearDown
  <2>2. StopOK(c) /\ c \in Conns /\ c # None
    BY TcpNatAssumption
  <2>3. ~Registered(c)'
    <3>1. SUFFICES ASSUME NEW k \in Keys, conns'[k] = c PROVE FALSE
      BY DEF Registered
    <3>2. conns[k] = c /\ \A s \in S : key[s] # k
      BY <2>2, <3>1 DEF TearDown
    <3> QED
      BY <2>2, <3>2 DEF WaitInv, WaitOK
  <2>4. StoppedWell(c)'
    BY <2>1 DEF StoppedWell, Waits, Cancelled, HostAfterClose
  <2>5. \A o \in Starters : NotYet(c, o) => NotYet(c, o)'
    BY <2>1 DEF NotYet
  <2>6. deferred'[c] \in {"created", "await", "cancelled", "flush"} =>
          deferred[c] \in {"created", "await", "cancelled", "flush"}
    BY <2>1 DEF Cancelled
  <2>7. (NotYet(c, "syn") => NotYet(c, "syn")')
          /\ (NotYet(c, "deferred") => NotYet(c, "deferred")')
    BY <2>5 DEF Starters
  <2> QED
    BY <2>2, <2>3, <2>4, <2>6, <2>7 DEF StopOK
<1>2. ASSUME NEW c \in Conns \ S PROVE StopOK(c)'
  <2>1. /\ deferred'[c] = deferred[c] /\ host'[c] = host[c]
        /\ state'[c] = state[c]
        /\ \A o \in Starters : pump'[c][o] = pump[c][o]
    BY DEF TearDown
  <2>2. Registered(c)' => Registered(c)
    BY TcpNatAssumption DEF TearDown, Registered
  <2>3. HandlerAt(c, {"rst"}) => HandlerAt(c, {"rst"})'
    BY DEF HandlerAt
  <2>4. Resetting(c)' <=> Resetting(c)
    BY <2>1 DEF Resetting
  <2>5. StoppedWell(c)' <=> StoppedWell(c)
    BY <2>1, <2>4 DEF StoppedWell, Waits
  <2>6. (NotYet(c, "syn")' <=> NotYet(c, "syn"))
          /\ (NotYet(c, "deferred")' <=> NotYet(c, "deferred"))
    BY <2>1 DEF NotYet, Starters
  <2> QED
    BY <2>1, <2>2, <2>3, <2>4, <2>5, <2>6 DEF StopOK, RstPending
<1> QED
  BY <1>1, <1>2 DEF StopKept

(* A close that sends nothing.                                               *)
LEMMA CloseStop ==
  ASSUME WaitInv, \A c \in Conns : StopOK(c), NEW S \in SUBSET Conns,
         CloseSilently(S), \A c : SynackAt(c)' => SynackAt(c),
         \A h \in Handlers : handler[h].pc = "rst" => handler'[h] = handler[h],
         \A c \in Conns :
           c \notin S \/ state[c] = "CLOSED" => (Stopped' => StoppedWell(c))
  PROVE  StopKept
<1> DEFINE open == {c \in S : state[c] # "CLOSED"}
<1>1. /\ state' = [c \in Conns |-> IF c \in open THEN "CLOSED" ELSE state[c]]
      /\ TearDown(open, deferred, pump)
  BY DEF CloseSilently
<1>2. open \in SUBSET Conns
      /\ \A c \in Conns \ open : Stopped' => StoppedWell(c)
  OBVIOUS
<1> HIDE DEF open
<1>3. \A c \in Conns \ open : state'[c] = state[c]
  BY <1>1
<1> QED
  BY <1>1, <1>2, <1>3, TearDownStop

(* A step that touches neither a task nor the table.                         *)
LEMMA StopQuiet ==
  ASSUME WaitInv, \A c \in Conns : StopOK(c),
         UNCHANGED <<state, host, deferred, pump, conns>>,
         \A c : SynackAt(c)' => SynackAt(c),
         \A h \in Handlers : handler[h].pc = "rst" => handler'[h] = handler[h],
         Stopped' => Stopped
  PROVE  StopKept
<1>1. ASSUME NEW c \in Conns PROVE StopOK(c)'
  <2>1. /\ Registered(c)' <=> Registered(c)
        /\ Resetting(c)' <=> Resetting(c)
        /\ StoppedWell(c)' <=> StoppedWell(c)
        /\ NotYet(c, "syn")' <=> NotYet(c, "syn")
        /\ NotYet(c, "deferred")' <=> NotYet(c, "deferred")
    BY DEF Registered, Resetting, StoppedWell, Waits, NotYet
  <2>2. HandlerAt(c, {"rst"}) => HandlerAt(c, {"rst"})'
    BY DEF HandlerAt
  <2> QED
    BY <2>1, <2>2 DEF StopOK, RstPending
<1> QED
  BY <1>1 DEF StopKept

(* A new object, for a SYN, is not in the table and has no task.             *)
LEMMA PassiveSynStop ==
  ASSUME WaitInv, WaitInv', \A c \in Conns : StopOK(c), NEW h \in Handlers,
         NEW k, NEW seg, on_passive_syn(h, k, seg), handler[h].pc = "idle",
         Stopped' => Stopped
  PROVE  StopKept
<1>1. \E x : x.pc # "synack" /\ handler' = [handler EXCEPT ![h] = x]
  BY DEF on_passive_syn, At
<1>2. \A c : SynackAt(c)' => SynackAt(c)
  BY <1>1, NoNewSynack DEF WaitInv
<1>3. \A g \in Handlers : handler[g].pc = "rst" => handler'[g] = handler[g]
  BY <1>1 DEF WaitInv, TypeInv, TypeOK
<1>4. UNCHANGED <<state, host, deferred, pump, conns>>
  BY DEF on_passive_syn, taskVars
<1> QED
  BY <1>2, <1>3, <1>4, StopQuiet

(* A segment of a registered connection.                                     *)
LEMMA ConnSegmentStop ==
  ASSUME WaitInv, \A c \in Conns : StopOK(c), NEW h \in Handlers,
         handler[h].pc = "idle", NEW c \in Conns, Registered(c),
         NEW seg \in Segment, ConnSegment(h, c, seg), Stopped' => Stopped,
         running
  PROVE  StopKept
<1>1. \A d \in Conns \ {c} : Apart(d)
  BY ConnSegmentAlone
<1>2. conns' = conns /\ deferred' = deferred /\ pump' = pump /\ ~Stopped
  BY DEF ConnSegment, otherVars, tableVars, taskVars, Stopped
<1>3. /\ state'[c] # "CLOSED" => state[c] # "CLOSED"
      /\ handler' = handler
         \/ \E x : /\ handler' = [handler EXCEPT ![h] = x]
                   /\ x.pc \in {"idle", "acked", "drain", "finack"}
  BY ConnSegmentHolds DEF WaitInv
<1>4. SynackAt(c)' => SynackAt(c)
  BY ConnSegmentSynack DEF WaitInv
<1>5. state'[c] = "CLOSED" => state[c] = "CLOSED"
  BY ConnSegmentAlone DEF FieldsOf
<1>6. \A g \in Handlers : handler[g].pc = "rst" => handler'[g] = handler[g]
  BY <1>3 DEF WaitInv, TypeInv, TypeOK
<1>7. RstPending(c) => RstPending(c)'
  BY <1>2, <1>6 DEF RstPending, Resetting, HandlerAt
<1>8. /\ NotYet(c, "syn")' <=> NotYet(c, "syn")
      /\ NotYet(c, "deferred")' <=> NotYet(c, "deferred")
      /\ Registered(c)' <=> Registered(c)
  BY <1>2 DEF NotYet, Registered
<1>9. StopOK(c)'
  BY <1>2, <1>4, <1>5, <1>7, <1>8 DEF StopOK
<1> QED
  BY <1>1, <1>9, StopOne

(* handle_chip_segment.                                                      *)
LEMMA SegmentStop ==
  ASSUME WaitInv, WaitInv', \A c \in Conns : StopOK(c), NEW h \in Handlers,
         NEW k \in Keys, NEW seg \in Segment, handle_chip_segment(h, k, seg),
         Stopped' => Stopped
  PROVE  StopKept
<1>1. /\ handler[h].pc = "idle" /\ conns[k] \in Conns \cup {None}
      /\ running /\ ~Stopped
  BY DEF handle_chip_segment, WaitInv, TypeInv, TypeOK, ConnsOrNone, Stopped
<1>2. CASE ChipRst(k, seg)
  <2>1. /\ {conns[k]} \ {None} \in SUBSET Conns /\ handler' = handler
        /\ CloseSilently({conns[k]} \ {None})
    BY <1>1, <1>2 DEF ChipRst
  <2> QED
    BY <1>1, <2>1, SameSynack, CloseStop
<1>3. CASE DropSynRetransmit(k, seg) \/ RefuseSegment(k, seg)
  <2>1. handler' = handler /\ UNCHANGED <<state, host, deferred, pump, conns>>
    BY <1>3
    DEF DropSynRetransmit, RefuseSegment, fieldVars, otherVars, tableVars,
        taskVars
  <2> QED
    BY <2>1, SameSynack, StopQuiet
<1>4. CASE on_passive_syn(h, k, seg)
  BY <1>1, <1>4, PassiveSynStop
<1>5. CASE conns[k] # None /\ ConnSegment(h, conns[k], seg)
  BY <1>1, <1>5, ConnSegmentStop DEF Registered
<1>6. CASE conns[k] # None /\ LastAck(conns[k], seg)
  <2>1. /\ {conns[k]} \in SUBSET Conns /\ handler' = handler
        /\ CloseSilently({conns[k]})
    BY <1>1, <1>6 DEF LastAck
  <2> QED
    BY <1>1, <2>1, SameSynack, CloseStop
<1> QED
  BY <1>2, <1>3, <1>4, <1>5, <1>6 DEF handle_chip_segment

(* What a handler that holds c does to it alone.                             *)
LEMMA HandlerStop ==
  ASSUME WaitInv, \A c \in Conns : StopOK(c), NEW h, Handlers = {h},
         NEW c \in Conns, handler[h].conn = c, Stopped' => Stopped,
         SynAnswered(h) \/ Drained(h) \/ DrainFailed(h) \/ DataAcked(h)
  PROVE  StopKept
<1>1. \A d \in Conns \ {c} : Apart(d)
  BY HandlerAlone
<1>2. /\ conns' = conns /\ deferred' = deferred /\ StopOK(c)
      /\ Registered(c)' <=> Registered(c)
  BY DEF SynAnswered, Drained, DrainFailed, DataAcked, otherVars, tableVars,
     taskVars, Registered
<1>3. ~Stopped /\ handler[h].pc # "rst" /\ ~HandlerAt(c, {"rst"})
  BY DEF SynAnswered, Drained, DrainFailed, DataAcked, Resumes, Stopped,
     HandlerAt
<1>4. ~SynackAt(c)'
  <2>1. handler'[h].pc # "synack"
    BY DEF SynAnswered, Drained, DrainFailed, DataAcked, AfterPayload, Idle, At,
       WaitInv, TypeInv, TypeOK
  <2> QED
    BY <2>1 DEF SynackAt
<1>5. CASE SynAnswered(h)
  <2>1. SynackAt(c) /\ state' = state
    BY <1>5 DEF SynAnswered, SynackAt, Resumes, fieldVars
  <2>2. NotYet(c, "syn")
    BY <1>2, <2>1 DEF StopOK
  <2>3. pump' = pump \/ pump' = [pump EXCEPT ![c]["syn"] = "hs"]
    BY <1>5 DEF SynAnswered, StartPump
  <2>4. pump'[c]["deferred"] = pump[c]["deferred"]
    BY <2>3 DEF WaitInv, TypeInv, TypeOK, Starters
  <2>5. Resetting(c) => Resetting(c)'
    BY <1>2, <2>2, <2>4 DEF Resetting, NotYet, Starters
  <2>6. NotYet(c, "deferred")' <=> NotYet(c, "deferred")
    BY <2>4 DEF NotYet
  <2>7. StopOK(c)'
    BY <1>2, <1>3, <1>4, <2>1, <2>5, <2>6 DEF StopOK, RstPending
  <2> QED
    BY <1>1, <2>7, StopOne
<1>6. CASE Drained(h) \/ DrainFailed(h) \/ DataAcked(h)
  <2>1. pump' = pump
    BY <1>6 DEF Drained, DrainFailed, DataAcked, otherVars, taskVars
  <2>2. (Resetting(c)' <=> Resetting(c))
          /\ (NotYet(c, "deferred")' <=> NotYet(c, "deferred"))
    BY <1>2, <2>1 DEF Resetting, NotYet
  <2>3. state'[c] = "CLOSED" => state[c] = "CLOSED" \/ HandlerAt(c, {"rst"})'
    <3>1. CASE Drained(h)
      BY <3>1 DEF Drained
    <3>2. CASE DataAcked(h)
      BY <3>2
      DEF DataAcked, AcceptFin, StateAfterFin, WaitInv, TypeInv, TypeOK
    <3>3. CASE DrainFailed(h) /\ ResetChip(c)
      <4>1. handler' = [handler EXCEPT ![h] = At("rst", c, NoSegment)]
        BY <3>3 DEF DrainFailed, ResetChip
      <4> QED
        BY <4>1 DEF HandlerAt, At, WaitInv, TypeInv, TypeOK
    <3>4. CASE DrainFailed(h) /\ ~ResetChip(c)
      BY <3>4 DEF DrainFailed
    <3> QED
      BY <1>6, <3>1, <3>2, <3>3, <3>4
  <2>4. StopOK(c)'
    BY <1>2, <1>3, <1>4, <2>2, <2>3 DEF StopOK, RstPending
  <2> QED
    BY <1>1, <2>4, StopOne
<1> QED
  BY <1>5, <1>6

(* The answer to a SYN: the connection is open, and has no pump yet.         *)
LEMMA AnswerSynStop ==
  ASSUME WaitInv, \A c \in Conns : StopOK(c), NEW h \in Handlers,
         handler[h].pc = "grace", NEW c \in Conns, c = handler[h].conn,
         AnswerSyn(h, c), Stopped' => Stopped,
         \/ deferred' = deferred /\ host' = [host EXCEPT ![c] = "open"]
         \/ deferred' = [deferred EXCEPT ![c] = "created"] /\ host' = host
  PROVE  StopKept
<1>1. Unused(c) /\ \A d \in Conns \ {c} : Apart(d)
  BY AnswerSynAlone
<1>2. state'[c] = "SYN_RCVD" /\ pump' = pump
  BY DEF AnswerSyn, WaitInv, TypeInv, TypeOK
<1>3. NotYet(c, "syn")' /\ NotYet(c, "deferred")' /\ ~Stopped
  BY <1>1, <1>2 DEF Unused, NotYet, Starters, Stopped
<1>4. StopOK(c)'
  BY <1>2, <1>3 DEF StopOK
<1> QED
  BY <1>1, <1>4, StopOne

(* The shutdown: what it does not close waits for nothing, and has a socket  *)
(* only with an RST going out.                                               *)
LEMMA ShutdownStop ==
  ASSUME WaitInv, \A c \in Conns : StopOK(c), OwnInv, NEW h, Handlers = {h},
         shutdown(h)
  PROVE  StopKept
<1> DEFINE S == {c \in Conns : \E k \in Keys : conns[k] = c}
<1>1. /\ CloseSilently(S) /\ handler' = [handler EXCEPT ![h] = Idle]
      /\ handler[h].pc = "stopping"
  BY DEF shutdown, Resumes
<1>2. \A c : SynackAt(c)' => SynackAt(c)
  BY <1>1, NoNewSynack DEF Idle, At, WaitInv
<1>3. ASSUME NEW c \in Conns, c \notin S \/ state[c] = "CLOSED"
      PROVE  StoppedWell(c)
  <2>1. StopOK(c) /\ OwnOK(c) /\ WaitOK(c)
    BY DEF OwnInv, WaitInv
  <2>2. ~Unused(c) => key[c] \in Keys
    BY RegisteredMade
  <2>3. ~Waits(c)
    <3>1. SUFFICES ASSUME Waits(c) PROVE FALSE
      OBVIOUS
    <3>2. ~Unused(c) /\ conns[key[c]] = c /\ state[c] # "CLOSED"
      BY <2>1, <3>1 DEF Waits, Unused, OwnOK, WaitOK, WaitsWell
    <3> QED
      BY <1>3, <2>2, <3>2
  <2>4. ASSUME host[c] \in {"open", "eof"} PROVE Resetting(c)
    <3>1. ~Unused(c) /\ conns[key[c]] = c
      BY <2>1, <2>4 DEF Unused, OwnOK
    <3>2. Registered(c) /\ state[c] = "CLOSED"
      BY <1>3, <2>2, <3>1 DEF Registered
    <3> QED
      BY <1>1, <2>1, <3>2 DEF StopOK, RstPending, HandlerAt
  <2> QED
    BY <2>3, <2>4 DEF StoppedWell
<1>4. \A g \in Handlers : handler[g].pc = "rst" => handler'[g] = handler[g]
  BY <1>1
<1>5. S \in SUBSET Conns
  OBVIOUS
<1> HIDE DEF S
<1> QED
  BY <1>1, <1>2, <1>3, <1>4, <1>5, CloseStop

(* Every later step of the handler.                                          *)
LEMMA HandlerStepStop ==
  ASSUME WaitInv, \A c \in Conns : StopOK(c), OwnInv, NEW h, Handlers = {h},
         HandlerStep(h), ~shutdown(h) /\ Stopped' => Stopped
  PROVE  StopKept
<1> PICK c : c = handler[h].conn
  OBVIOUS
<1>1. ASSUME NEW pc, pc \notin {"idle", "stopping"}, Resumes(h, pc)
      PROVE  c \in Conns /\ handler[h].pc = pc
  BY <1>1, HeldConn DEF WaitInv, Resumes
<1>2. CASE shutdown(h)
  BY <1>2, ShutdownStop
<1>3. CASE ~shutdown(h) /\ (GraceOpened(h) \/ GraceOver(h))
  <2>1. c \in Conns /\ handler[h].pc = "grace"
    BY <1>1, <1>3 DEF GraceOpened, GraceOver
  <2> QED
    BY <1>3, <2>1, AnswerSynStop DEF GraceOpened, GraceOver
<1>4. CASE ~shutdown(h) /\ GraceRefused(h)
  <2>1. handler' = [handler EXCEPT ![h] = Idle] /\ handler[h].pc = "grace"
    BY <1>4 DEF GraceRefused, Resumes
  <2>2. \A d : SynackAt(d)' => SynackAt(d)
    BY <2>1, NoNewSynack DEF Idle, At, WaitInv
  <2> QED
    BY <1>4, <2>1, <2>2, StopQuiet
    DEF GraceRefused, idVars, fieldVars, taskVars
<1>5. CASE /\ ~shutdown(h)
           /\ SynAnswered(h) \/ Drained(h) \/ DrainFailed(h) \/ DataAcked(h)
  <2>1. c \in Conns
    BY <1>1, <1>5 DEF SynAnswered, Drained, DrainFailed, DataAcked
  <2> QED
    BY <1>5, <2>1, HandlerStop
<1>6. CASE FinAcked(h) \/ HandlerReset(h)
  <2>1. /\ handler' = [handler EXCEPT ![h] = Idle] /\ {c} \in SUBSET Conns
        /\ ~Stopped /\ ~shutdown(h)
    BY <1>1, <1>6
    DEF FinAcked, HandlerReset, shutdown, Resumes, Stopped
  <2>2. \A d : SynackAt(d)' => SynackAt(d)
    BY <2>1, NoNewSynack DEF Idle, At, WaitInv
  <2>3. CASE FinAcked(h)
    <3>1. CloseSilently({c}) /\ handler[h].pc # "rst"
      BY <2>3 DEF FinAcked, Resumes
    <3> QED
      BY <2>1, <2>2, <3>1, CloseStop
  <2>4. CASE HandlerReset(h)
    <3>1. TearDown({c}, deferred, pump) /\ state' = state
      BY <2>4 DEF HandlerReset
    <3> QED
      BY <2>1, <2>2, <3>1, TearDownStop
  <2> QED
    BY <1>6, <2>3, <2>4
<1> QED
  BY <1>2, <1>3, <1>4, <1>5, <1>6 DEF HandlerStep

(* The deferred connect: it starts its pump once, and where no RST goes out. *)
LEMMA DeferredStepStop ==
  ASSUME WaitInv, \A c \in Conns : StopOK(c), OwnInv, NEW c \in Conns,
         DeferredStep(c), Stopped' => Stopped
  PROVE  StopKept
<1>1. CASE DeferredReset(c)
  <2>1. PICK d : d = [deferred EXCEPT ![c] = "done"]
    OBVIOUS
  <2>2. TearDown({c}, d, pump) /\ state' = state /\ handler' = handler
    BY <1>1, <2>1 DEF DeferredReset
  <2>3. d[c] = "done" /\ \A b \in Conns \ {c} : d[b] = deferred[b]
    BY <2>1 DEF WaitInv, TypeInv, TypeOK
  <2>4. \A b \in Conns : Stopped' => StoppedWell(b)
    BY DEF StopOK
  <2> QED
    BY <2>2, <2>3, <2>4, SameSynack, TearDownStop
<1>2. CASE ~DeferredReset(c)
  <2>1. /\ \A d \in Conns \ {c} : Apart(d)
        /\ UNCHANGED <<handler, key, chip_isn, conns, chip_seq>> /\ StopOK(c)
    BY <1>2, DeferredAlone
  <2>2. /\ Registered(c)' <=> Registered(c)
        /\ HandlerAt(c, {"rst"})' <=> HandlerAt(c, {"rst"})
        /\ SynackAt(c)' <=> SynackAt(c)
    BY <2>1, SameSynack DEF Registered, HandlerAt
  <2>3. PICK b : deferred' = [deferred EXCEPT ![c] = b]
    BY <1>2
    DEF DeferredStep, DeferredStarts, DeferredCancelled, DeferredFails,
        DeferredAttaches, Flushed, FlushFailed, FinishAttach, DeferredGoesTo
  <2>4. \/ pump' = pump
        \/ /\ pump' = [pump EXCEPT ![c]["deferred"] = "hs"]
           /\ deferred[c] \in {"created", "await", "flush"}
           /\ deferred'[c] = "done"
    BY <1>2
    DEF DeferredStep, DeferredStarts, DeferredCancelled, DeferredFails,
        DeferredAttaches, DialEnded, DeferredAt, Flushed, FlushFailed,
        FinishAttach, StartPump, DeferredGoesTo, WaitInv, TypeInv, TypeOK
  <2>5. /\ pump'[c]["syn"] = pump[c]["syn"]
        /\ pump[c]["deferred"] = "rst" => pump'[c]["deferred"] = "rst"
    BY <2>1, <2>4 DEF StopOK, NotYet, Starters, WaitInv, TypeInv, TypeOK
  <2>6. deferred[c] \in {"created", "await", "cancelled", "flush"}
    BY <1>2
    DEF DeferredStep, DeferredStarts, DeferredCancelled, DeferredFails,
        DeferredAttaches, Flushed, FlushFailed, DialEnded, DeferredAt
  <2>7. Resetting(c) => Resetting(c)'
    BY <2>5, <2>6 DEF Resetting, Starters
  <2>8. state'[c] = "CLOSED" => state[c] = "CLOSED" \/ Resetting(c)'
    <3>1. CASE ResetChip(c)
      <4>1. deferred'[c] = "rst"
        BY <1>2, <3>1
        DEF DeferredStep, DeferredStarts, DeferredCancelled, DeferredFails,
            DeferredAttaches, Flushed, FlushFailed, ResetChip, DeferredGoesTo,
            fieldVars, WaitInv, TypeInv, TypeOK
      <4> QED
        BY <4>1 DEF Resetting
    <3>2. CASE ~ResetChip(c)
      BY <1>2, <3>2
      DEF DeferredStep, DeferredStarts, DeferredCancelled, DeferredFails,
          DeferredAttaches, Flushed, FlushFailed, fieldVars
    <3> QED
      BY <3>1, <3>2
  <2>9. deferred'[c] \in {"created", "await", "cancelled", "flush"} =>
          NotYet(c, "deferred")'
    BY <2>1, <2>4, <2>6 DEF StopOK, NotYet
  <2>10. NotYet(c, "syn")' <=> NotYet(c, "syn")
    BY <2>5 DEF NotYet
  <2>11. Waits(c)' => Waits(c)
    BY <1>2
    DEF DeferredStep, DeferredStarts, DeferredCancelled, DeferredFails,
        DeferredAttaches, Flushed, FlushFailed, DialEnded, DeferredAt,
        DeferredGoesTo, FinishAttach, Waits, WaitInv, TypeInv, TypeOK
  <2>12. host'[c] \in {"open", "eof"} => host[c] \in {"open", "eof"} \/ Waits(c)
    <3>1. CASE Flushed(c)
      BY <3>1
      DEF Flushed, FinishAttach, DeferredAt, OwnInv, OwnOK, WaitInv, TypeInv,
          TypeOK
    <3>2. CASE ~Flushed(c)
      BY <1>2, <3>2
      DEF DeferredStep, DeferredStarts, DeferredCancelled, DeferredFails,
          DeferredAttaches, FlushFailed, DialEnded, DeferredAt, Waits, fieldVars
    <3> QED
      BY <3>1, <3>2
  <2>13. StoppedWell(c) => StoppedWell(c)'
    BY <2>7, <2>11, <2>12 DEF StoppedWell
  <2>14. StopOK(c)'
    BY <2>1, <2>2, <2>6, <2>7, <2>8, <2>9, <2>10, <2>13 DEF StopOK, RstPending
  <2> QED
    BY <2>1, <2>14, StopOne
<1> QED
  BY <1>1, <1>2

(* The pumps: one that goes on is not the one whose RST goes out.            *)
LEMMA PumpStepStop ==
  ASSUME WaitInv, \A c \in Conns : StopOK(c), NEW c \in Conns,
         NEW o \in Starters, PumpStep(c, o), Stopped' => Stopped
  PROVE  StopKept
<1>1. CASE PumpReset(c, o)
  <2>1. PICK p : p = [pump EXCEPT ![c][o] = "done"]
    OBVIOUS
  <2>2. TearDown({c}, deferred, p) /\ state' = state /\ handler' = handler
    BY <1>1, <2>1 DEF PumpReset
  <2>3. /\ \A i \in Starters : p[c][i] \in {pump[c][i], "done"}
        /\ \A b \in Conns \ {c} : p[b] = pump[b]
    BY <2>1 DEF WaitInv, TypeInv, TypeOK
  <2>4. \A b \in Conns : Stopped' => StoppedWell(b)
    BY DEF StopOK
  <2> QED
    BY <2>2, <2>3, <2>4, SameSynack, TearDownStop
<1>2. CASE ~PumpReset(c, o)
  <2>1. /\ ~Waits(c) /\ \A d \in Conns \ {c} : Apart(d)
        /\ UNCHANGED <<handler, key, chip_isn, conns, chip_seq, host, bufVars,
                       deferred>>
        /\ StopOK(c)
    BY <1>2, PumpAlone
  <2>2. /\ Registered(c)' <=> Registered(c)
        /\ HandlerAt(c, {"rst"})' <=> HandlerAt(c, {"rst"})
        /\ SynackAt(c)' <=> SynackAt(c)
    BY <2>1, SameSynack DEF Registered, HandlerAt
  <2>3. pump[c][o] \in {"hs", "read", "sent", "finsent"}
    BY <1>2
    DEF PumpStep, PumpStarts, PumpSent, PumpEof, PumpFinSent, PumpRaises,
        PumpReads, PumpAt
  <2>4. PICK pc : pump' = [pump EXCEPT ![c][o] = pc]
    BY <1>2
    DEF PumpStep, PumpStarts, PumpSent, PumpEof, PumpFinSent, PumpRaises,
        PumpReads, NextRound, PumpGoesTo
  <2>5. \A i \in Starters : i # o => pump'[c][i] = pump[c][i]
    BY <2>4 DEF WaitInv, TypeInv, TypeOK
  <2>6. Resetting(c) => Resetting(c)'
    BY <2>1, <2>3, <2>5 DEF Resetting
  <2>7. \A i \in Starters : NotYet(c, i) => NotYet(c, i)'
    BY <2>3, <2>5 DEF NotYet
  <2>8. (NotYet(c, "syn") => NotYet(c, "syn")')
          /\ (NotYet(c, "deferred") => NotYet(c, "deferred")')
    BY <2>7 DEF Starters
  <2>9. state'[c] = "CLOSED" => state[c] = "CLOSED" \/ Resetting(c)'
    <3>1. CASE PumpRaises(c, o) /\ ResetChip(c)
      <4>1. PumpGoesTo(c, o, "rst")
        BY <3>1 DEF PumpRaises, ResetChip
      <4>2. pump'[c][o] = "rst"
        BY <4>1 DEF PumpGoesTo, WaitInv, TypeInv, TypeOK
      <4> QED
        BY <4>2 DEF Resetting
    <3>2. CASE ~(PumpRaises(c, o) /\ ResetChip(c))
      BY <1>2, <3>2
      DEF PumpStep, PumpStarts, PumpSent, PumpEof, PumpFinSent, PumpRaises,
          PumpReads, WaitInv, TypeInv, TypeOK
    <3> QED
      BY <3>1, <3>2
  <2>10. StoppedWell(c) => StoppedWell(c)'
    BY <2>1, <2>6 DEF StoppedWell, Waits
  <2>11. StopOK(c)'
    BY <2>1, <2>2, <2>6, <2>8, <2>9, <2>10 DEF StopOK, RstPending
  <2> QED
    BY <2>1, <2>11, StopOne
<1> QED
  BY <1>1, <1>2

(* Every step of the NAT keeps it, once TableInv says whose the sockets are. *)
LEMMA StopStep ==
  ASSUME OneHandler, WaitInv, WaitInv', OwnInv, StopInv, [Next]_vars
  PROVE  StopInv'
<1>1. PICK h : Handlers = {h}
  BY DEF OneHandler
<1>2. /\ Halting' /\ (~shutdown(h) /\ Stopped' => Stopped)
      /\ \A c \in Conns : StopOK(c)
  BY <1>1, HaltingStep DEF StopInv, WaitInv
<1>3. ASSUME NEW k \in Keys, NEW seg \in Segments,
             handle_chip_segment(h, k, seg)
      PROVE  StopKept
  <2>1. seg \in Segment /\ ~shutdown(h) /\ h \in Handlers
    BY <1>1, <1>3, TcpNatAssumption
    DEF handle_chip_segment, shutdown, Resumes
  <2> QED
    BY <1>2, <1>3, <2>1, SegmentStop
<1>4. ASSUME HandlerStep(h) PROVE StopKept
  BY <1>1, <1>2, <1>4, HandlerStepStop
<1>5. ASSUME handler' = handler, Stopped' => Stopped,
             UNCHANGED <<state, host, deferred, pump, conns>>
      PROVE  StopKept
  BY <1>2, <1>5, SameSynack, StopQuiet
<1>6. handler' = handler => ~shutdown(h)
  <2>1. handler' = [handler EXCEPT ![h] = Idle] => handler'[h] = Idle
    BY <1>1 DEF WaitInv, TypeInv, TypeOK
  <2> QED
    BY <2>1 DEF shutdown, Resumes, Idle, At
<1>7. ASSUME stop(h) PROVE StopKept
  <2>1. handler' = [handler EXCEPT ![h] = At("stopping", None, NoSegment)]
        /\ handler[h].pc = "idle"
    BY <1>7 DEF stop, Resumes
  <2>2. (\A c : SynackAt(c)' => SynackAt(c))
          /\ \A g \in Handlers :
               handler[g].pc = "rst" => handler'[g] = handler[g]
    BY <1>1, <2>1, NoNewSynack DEF At, WaitInv
  <2>3. ~shutdown(h)
    BY <2>1 DEF shutdown, Resumes
  <2> QED
    BY <1>2, <1>7, <2>2, <2>3, StopQuiet
    DEF stop, tableVars, idVars, fieldVars, taskVars
<1>8. ASSUME NEW c \in Conns, DialStep(c) PROVE StopKept
  <2>1. handler' = handler /\ UNCHANGED <<state, host, deferred, pump, conns>>
    BY <1>8
    DEF DialStep, HostAnswers, HostRefuses, AttemptTimesOut, Dials, fieldVars,
        tableVars, taskVars
  <2> QED
    BY <1>2, <1>5, <1>6, <2>1
<1>9. ASSUME NEW c \in Conns, DeferredStep(c) PROVE StopKept
  <2>1. handler' = handler
    BY <1>9
    DEF DeferredStep, DeferredStarts, DeferredCancelled, DeferredFails,
        DeferredAttaches, DialEnded, Flushed, FlushFailed, DeferredReset
  <2> QED
    BY <1>2, <1>6, <1>9, <2>1, DeferredStepStop
<1>10. ASSUME NEW c \in Conns, NEW o \in Starters, PumpStep(c, o)
       PROVE  StopKept
  <2>1. handler' = handler
    BY <1>10
    DEF PumpStep, PumpStarts, PumpSent, PumpEof, PumpFinSent, PumpRaises,
        PumpReset, PumpReads, NextRound, PumpGoesTo
  <2> QED
    BY <1>2, <1>6, <1>10, <2>1, PumpStepStop
<1>11. ASSUME UNCHANGED vars PROVE StopKept
  <2>1. handler' = handler /\ UNCHANGED <<state, host, deferred, pump, conns>>
    BY <1>11 DEF vars, fieldVars, otherVars, tableVars, taskVars
  <2> QED
    BY <1>2, <1>5, <1>6, <2>1
<1>12. StopKept
  BY <1>1, <1>3, <1>4, <1>7, <1>8, <1>9, <1>10, <1>11 DEF Next, TaskStep
<1> QED
  BY <1>2, <1>12 DEF StopInv, StopKept

(* A new bridge is not stopped.                                              *)
LEMMA StopInit == Init => StopInv
<1> SUFFICES ASSUME Init PROVE StopInv
  OBVIOUS
<1>1. running /\ \A h \in Handlers : handler[h].pc = "idle"
  BY DEF Init, Idle, At
<1>2. ASSUME NEW c \in Conns PROVE StopOK(c)
  <2>1. ~Registered(c)
    BY TcpNatAssumption DEF Registered, Init
  <2>2. ~SynackAt(c)
    BY <1>1 DEF SynackAt
  <2>3. deferred[c] = "none"
    BY DEF Init
  <2> QED
    BY <1>1, <2>1, <2>2, <2>3 DEF StopOK, Stopped
<1> QED
  BY <1>1, <1>2 DEF StopInv, Halting

(* Once the bridge has been stopped and the NAT shut down, no attached host  *)
(* socket is left open but one that a task sending its RST is about to       *)
(* close, no task waits to attach another, and no dial goes on or holds a    *)
(* socket but those that a connection torn down early left behind            *)
(* (tcp_nat.py:561-594): for one handler, any number of keys and             *)
(* connections, wherever the stop comes.                                     *)
THEOREM NothingOutlivesStop ==
  ASSUME OneHandler
  PROVE  TunnelSpec => []StoppedIsQuiet
<1>1. TunnelSpec => TunnelInit /\ [][TunnelNext]_tunnelVars
  BY DEF TunnelSpec
<1>2. TunnelInit => StopInv
  BY StopInit DEF TunnelInit
<1>3. TableInv /\ TableInv' /\ StopInv /\ [TunnelNext]_tunnelVars => StopInv'
  <2> SUFFICES ASSUME TableInv, TableInv', StopInv, [TunnelNext]_tunnelVars
               PROVE  StopInv'
    OBVIOUS
  <2>1. WaitInv /\ WaitInv' /\ OwnInv /\ WireInv
    BY DEF TableInv, TunnelInv
  <2> QED
    BY <2>1, TunnelStepIsNext, StopStep
<1>4. TableInv /\ StopInv /\ DialledInv => StoppedIsQuiet
  <2> SUFFICES ASSUME TableInv, StopInv, DialledInv, Stopped, NEW c \in Conns
               PROVE  /\ \/ host[c] \in {"none", "closed"}
                         \/ deferred[c] = "rst"
                         \/ \E o \in Starters : pump[c][o] = "rst"
                      /\ deferred[c] \notin {"created", "await"}
                      /\ Dialled(c) => LeftBehind(c)
    BY DEF StoppedIsQuiet, Stopped
  <2>1. StoppedWell(c)
    BY DEF StopInv, StopOK
  <2>2. host[c] \in {"none", "open", "eof", "closed"}
    BY DEF TableInv, TunnelInv, WaitInv, TypeInv, TypeOK
  <2>3. ~InGrace(c)
    BY DEF Stopped, InGrace
  <2> QED
    BY <2>1, <2>2, <2>3
    DEF StoppedWell, Resetting, Waits, DialledInv, DialledOK
<1>5. TunnelSpec => []DialledInv
  BY TunnelImplementsNat, DialledInvariance, PTL
<1> QED
  BY <1>1, <1>2, <1>3, <1>4, <1>5, TableInvariance, PTL

-----------------------------------------------------------------------------
(* The way up: the chip's bytes as they stand with the chip, on the          *)
(* websocket, in the hands of the gateway and at the host.                   *)

(* What may be in a part of the chip's stream: a byte, which is its own      *)
(* offset, is one the chip has sent; a FIN comes after all of them.          *)
PartOK(k, p) ==
    /\ p.data # <<>> => \E b \in 1 .. BytesSent(k) : p.data = <<b>> /\ p.off = b
    /\ "FIN" \in p.flags =>
         chip[k].fin /\ (p.data # <<>> => p.data = <<BytesSent(k)>>)
    /\ p.data # <<>> \/ "FIN" \in p.flags =>
         "ACK" \in p.flags /\ "SYN" \notin p.flags
    /\ "SYN" \in p.flags => p.data = <<>> /\ p.off = 0
    /\ "ACK" \in p.flags => chip[k].st \in {"open", "gone"}

Carries1(w, p) ==
    w.seg.flags = p.flags /\ w.seg.data = p.data /\ w.seg.seq = SeqAt(p.off)

SegOK(w) == \E p \in PartType : PartOK(w.key, p) /\ Carries1(w, p)

StartOK(k) ==
    /\ BytesSent(k) \in 0..ChipBytes
    /\ chip[k].st = "closed" => chip[k].next = 0 /\ chip[k].unacked = {}
    /\ chip[k].st \in {"closed", "syn_sent"} => ~chip[k].fin
    /\ chip[k].st # "closed" => chip[k].next >= 1 + One(chip[k].fin)

SentOK(k) == StartOK(k) /\ \A p \in chip[k].unacked : PartOK(k, p)

SentInv ==
    (\A k \in Keys : SentOK(k)) /\ \A i \in DOMAIN to_gw : SegOK(to_gw[i])

(* The bytes are numbers.                                                    *)
LEMMA ByteRange == 1..ChipBytes \subseteq Nat /\ ChipBytes \in Nat
BY TunnelAssumption, TcpNatAssumption

-----------------------------------------------------------------------------
(* The three ways in which a step of the chip changes its stream: not at all,*)
(* by a part that is new, or by one that it sends again.                     *)
Grows(k) ==
    /\ BytesSent(k)' >= BytesSent(k)
    /\ chip[k].fin => chip'[k].fin /\ BytesSent(k)' = BytesSent(k)
    /\ chip[k].st \in {"open", "gone"} => chip'[k].st \in {"open", "gone"}

(* A part the chip has sent stays one.                                       *)
LEMMA PartStays ==
  ASSUME NEW k, NEW p, PartOK(k, p), Grows(k),
         BytesSent(k) \in Nat, BytesSent(k)' \in Nat
  PROVE  PartOK(k, p)'
BY DEF PartOK, Grows

(* A byte is new when the chip had sent those before it, and no FIN.         *)
LEMMA SendGrows ==
  ASSUME WireInv, NEW k \in Keys, SentOK(k), NEW flags \in SUBSET Flags,
         NEW data \in ByteOrNone, Sends(k, flags, data),
         NEW p, p = Part(chip[k].next, flags, data),
         NEW z, Becomes(k, z), z.next = chip[k].next + Span(p),
         z.unacked = chip[k].unacked \cup {p}, z.fin <=> "FIN" \in flags,
         z.st = IF chip[k].st = "open" THEN "open" ELSE "syn_sent"
  PROVE  /\ SentOK(k)' /\ Grows(k) /\ ~chip[k].fin /\ PartOK(k, p)'
         /\ \/ data = <<>> /\ BytesSent(k)' = BytesSent(k)
            \/ /\ BytesSent(k)' = BytesSent(k) + 1
               /\ data = <<BytesSent(k) + 1>>
<1>1. chip'[k] = z /\ chip[k] \in ChipType
  BY BecomesTyped DEF WireInv
<1>2. chip[k].next \in Nat /\ ChipBytes \in Nat
  BY <1>1, TunnelAssumption, TcpNatAssumption DEF ChipType
<1>3. p.off = chip[k].next /\ p.flags = flags /\ p.data = data
  BY DEF Part
<1>4. CASE chip[k].st = "closed" /\ flags = {"SYN"} /\ data = <<>>
  <2>1. Span(p) = 1
    BY <1>3, <1>4 DEF Span, One
  <2>2. /\ chip[k].next = 0 /\ ~chip[k].fin /\ chip[k].unacked = {}
        /\ z.next = 1 /\ ~z.fin /\ z.st = "syn_sent"
    BY <1>4, <2>1 DEF SentOK, StartOK
  <2>3. BytesSent(k) = 0 /\ BytesSent(k)' = 0
    BY <1>1, <2>2 DEF BytesSent, One
  <2>4. PartOK(k, p)'
    BY <1>3, <1>4, <2>2 DEF PartOK
  <2>5. SentOK(k)' /\ Grows(k)
    BY <1>1, <1>2, <1>4, <2>2, <2>3, <2>4 DEF SentOK, StartOK, Grows, One
  <2> QED
    BY <1>4, <2>2, <2>3, <2>4, <2>5
<1>5. CASE CanSend(k) /\ flags \in {{"ACK"}, {"ACK", "FIN"}}
            /\ (data = <<>> => "FIN" \in flags)
            /\ (data # <<>> => data \in NextByte(k))
  <2>1. /\ chip[k].st = "open" /\ ~chip[k].fin /\ z.st = "open"
        /\ chip[k].next >= 1 /\ BytesSent(k) = chip[k].next - 1
    BY <1>2, <1>5 DEF CanSend, SentOK, StartOK, BytesSent, One
  <2>2. CASE data = <<>>
    <3>1. z.next = chip[k].next + 1 /\ z.fin
      BY <1>2, <1>3, <1>5, <2>2 DEF Span, One
    <3>2. BytesSent(k)' = BytesSent(k)
      BY <1>1, <1>2, <2>1, <3>1 DEF BytesSent, One
    <3>3. Grows(k) /\ BytesSent(k) \in Nat
      BY <1>1, <1>2, <2>1, <3>2 DEF Grows
    <3>4. \A q \in chip[k].unacked : PartOK(k, q)'
      BY <3>2, <3>3, PartStays DEF SentOK
    <3>5. PartOK(k, p)'
      BY <1>1, <1>3, <1>5, <2>1, <2>2, <3>1 DEF PartOK
    <3>6. StartOK(k)'
      BY <1>1, <1>2, <2>1, <3>1, <3>2 DEF SentOK, StartOK, One
    <3> QED
      BY <1>1, <2>1, <2>2, <3>2, <3>3, <3>4, <3>5, <3>6 DEF SentOK
  <2>3. CASE data # <<>>
    <3>1. data = <<chip[k].next>> /\ chip[k].next \in 1..ChipBytes
      BY <1>5, <2>3 DEF NextByte
    <3>2. z.next = chip[k].next + 1 + One(z.fin)
      BY <1>2, <1>3, <1>5, <3>1 DEF Span, One
    <3>3. BytesSent(k)' = chip[k].next
      BY <1>1, <1>2, <2>1, <3>2 DEF BytesSent, One
    <3>4. Grows(k) /\ BytesSent(k) \in Nat /\ BytesSent(k)' \in Nat
      BY <1>1, <1>2, <2>1, <3>3 DEF Grows
    <3>5. \A q \in chip[k].unacked : PartOK(k, q)'
      BY <3>4, PartStays DEF SentOK
    <3>6. PartOK(k, p)'
      BY <1>1, <1>2, <1>3, <1>5, <2>1, <3>1, <3>3 DEF PartOK
    <3>7. StartOK(k)'
      BY <1>1, <1>2, <2>1, <3>1, <3>2, <3>3 DEF StartOK, One
    <3> QED
      BY <1>1, <1>2, <2>1, <3>1, <3>3, <3>4, <3>5, <3>6, <3>7 DEF SentOK
  <2> QED
    BY <2>2, <2>3
<1>6. Sends(k, flags, data) =>
        \/ chip[k].st = "closed" /\ flags = {"SYN"} /\ data = <<>>
        \/ /\ CanSend(k) /\ flags \in {{"ACK"}, {"ACK", "FIN"}}
           /\ (data = <<>> => "FIN" \in flags)
           /\ (data # <<>> => data \in NextByte(k))
  <2>1. \A x \in NextByte(k) : x # <<>>
    <3> SUFFICES ASSUME NEW b \in {chip[k].next} \cap 1..ChipBytes
                 PROVE  <<b>> # <<>>
      BY DEF NextByte
    <3> QED
      OBVIOUS
  <2>2. CASE CanSend(k) /\ flags = {"ACK"} /\ data \in NextByte(k)
    BY <2>1, <2>2
  <2>3. CASE /\ CanSend(k) /\ flags = {"ACK", "FIN"}
             /\ data \in {<<>>} \cup (IF Coalesce THEN NextByte(k) ELSE {})
    BY <2>3
  <2> QED
    BY <2>2, <2>3 DEF Sends
<1> QED
  BY <1>4, <1>5, <1>6

-----------------------------------------------------------------------------
(* What the chip has heard, and what it says of it.                          *)

(* The chip has nothing of the host on k.                                    *)
Silent(k) == chip[k].received = <<>> /\ ~chip[k].their_fin

(* A step of the chip takes nothing back; while nothing was heard an ACK has *)
(* the number after our SYN.                                                 *)
Hears(k) ==
    /\ chip[k].st \in {"open", "gone"} => chip'[k].their_isn = chip[k].their_isn
    /\ Silent(k)' => Silent(k)
    /\ \A w : to_gw' = Append(to_gw, w) /\ "ACK" \in w.seg.flags =>
         /\ chip'[k].st \in {"open", "gone"}
         /\ Silent(k)' => w.seg.ack = seq_add(chip'[k].their_isn, 1)

(* A segment that is put on the wire has the ACK it was given.               *)
LEMMA PutsAck ==
  ASSUME WireInv, NEW k, NEW p, NEW ack, PutPart(k, p, ack), NEW w,
         to_gw' = Append(to_gw, w), "ACK" \in w.seg.flags
  PROVE  "ACK" \in p.flags /\ w.seg.ack = ack
<1>1. to_gw \in Seq(OnWire)
  BY DEF WireInv
<1>2. PICK v : /\ to_gw' = Append(to_gw, v) /\ v.seg.flags = p.flags
               /\ v.seg.ack = IF "ACK" \in p.flags THEN ack ELSE 0
  BY DEF PutPart
<1>3. /\ Append(to_gw, v)[Len(to_gw) + 1] = v
      /\ Append(to_gw, w)[Len(to_gw) + 1] = w
  BY <1>1
<1>4. v = w
  BY <1>2, <1>3
<1> QED
  BY <1>2, <1>4

(* What is expected of a gateway that has not been heard.                    *)
LEMMA ExpectsFirst ==
  ASSUME NEW k, Silent(k)
  PROVE  Expects(k) = seq_add(chip[k].their_isn, 1)
<1>1. Len(chip[k].received) = 0 /\ One(chip[k].their_fin) = 0
  BY DEF Silent, One
<1> QED
  BY <1>1 DEF Expects

(* A wire with one more segment is not the wire it was.                      *)
LEMMA AppendGrows ==
  ASSUME WireInv, NEW w, to_gw' = Append(to_gw, w)
  PROVE  to_gw' # to_gw
<1>1. to_gw \in Seq(OnWire)
  BY DEF WireInv
<1>2. Len(Append(to_gw, w)) = Len(to_gw) + 1 /\ Len(to_gw) \in Nat
  BY <1>1
<1> QED
  BY <1>2

(* The chip hears nothing while it sends, sends again or gives up,           *)
LEMMA SendsHears ==
  ASSUME WireInv, NEW k \in Keys, NEW flags, NEW data, Sends(k, flags, data)
  PROVE  Hears(k)
<1>1. chip \in [Keys -> ChipType]
  BY DEF WireInv
<1>2. /\ chip'[k].received = chip[k].received
      /\ chip'[k].their_fin = chip[k].their_fin
      /\ chip'[k].their_isn = chip[k].their_isn
      /\ chip'[k].st = IF chip[k].st = "open" THEN "open" ELSE "syn_sent"
  BY <1>1 DEF Sends, Send, ChipType
<1>3. PICK p : p = Part(chip[k].next, flags, data)
  OBVIOUS
<1>4. PutPart(k, p, Expects(k)) /\ p.flags = flags
  BY <1>3 DEF Sends, Send, Part
<1>5. "ACK" \in flags => chip[k].st = "open"
  BY DEF Sends, CanSend
<1>6. Silent(k)' <=> Silent(k)
  BY <1>2 DEF Silent
<1> QED
  BY <1>2, <1>4, <1>5, <1>6, PutsAck, ExpectsFirst DEF Hears

(* sends again,                                                              *)
LEMMA RetransmitHears ==
  ASSUME WireInv, NEW k \in Keys, SentOK(k), ChipRetransmits(k)
  PROVE  Hears(k)
<1>1. chip \in [Keys -> ChipType]
  BY DEF WireInv
<1>2. /\ chip'[k].received = chip[k].received
      /\ chip'[k].their_fin = chip[k].their_fin
      /\ chip'[k].their_isn = chip[k].their_isn
      /\ chip'[k].st = chip[k].st
  BY <1>1 DEF ChipRetransmits, ChipType
<1>3. PICK p \in chip[k].unacked : PutPart(k, p, Expects(k))
  BY DEF ChipRetransmits
<1>4. "ACK" \in p.flags => chip[k].st \in {"open", "gone"}
  BY DEF SentOK, PartOK
<1>5. Silent(k)' <=> Silent(k)
  BY <1>2 DEF Silent
<1> QED
  BY <1>2, <1>3, <1>4, <1>5, PutsAck, ExpectsFirst DEF Hears

(* or gives up,                                                             *)
LEMMA AbortHears ==
  ASSUME WireInv, NEW k \in Keys, ChipAborts(k)
  PROVE  Hears(k)
<1>1. chip \in [Keys -> ChipType]
  BY DEF WireInv
<1>2. /\ chip'[k].received = chip[k].received
      /\ chip'[k].their_fin = chip[k].their_fin
      /\ chip'[k].their_isn = chip[k].their_isn
  BY <1>1 DEF ChipAborts, ChipType
<1>3. PICK p : p = Part(chip[k].next, {"RST"}, <<>>)
  OBVIOUS
<1>4. PutPart(k, p, 0) /\ "ACK" \notin p.flags
  BY <1>3 DEF ChipAborts, Put, Part
<1>5. Silent(k)' <=> Silent(k)
  BY <1>2 DEF Silent
<1> QED
  BY <1>2, <1>4, <1>5, PutsAck DEF Hears

(* and a frame's bytes and its FIN stay once it has taken them.              *)
LEMMA HandshakeHears ==
  ASSUME WireInv, NEW k \in Keys, NEW f \in WireFrame, ChipHandshake(k, f)
  PROVE  Hears(k)
<1>1. chip \in [Keys -> ChipType]
  BY DEF WireInv
<1>2. /\ chip'[k].received = chip[k].received
      /\ chip'[k].their_fin = chip[k].their_fin
      /\ chip'[k].their_isn = f.seq
      /\ chip[k].st = "syn_sent" /\ chip'[k].st = "open"
  BY <1>1 DEF ChipHandshake, ChipType
<1>3. PICK p : PutPart(k, p, seq_add(f.seq, 1))
  BY DEF ChipHandshake, Put
<1>4. Silent(k)' <=> Silent(k)
  BY <1>2 DEF Silent
<1> QED
  BY <1>2, <1>3, <1>4, PutsAck DEF Hears

(* So does a chip that is reset or refuses a frame,                          *)
LEMMA ResetHears ==
  ASSUME WireInv, NEW k \in Keys, NEW f, ChipIsReset(k, f) \/ ChipRefuses(k, f)
  PROVE  Hears(k)
<1>1. chip \in [Keys -> ChipType]
  BY DEF WireInv
<1>2. /\ chip'[k].received = chip[k].received
      /\ chip'[k].their_fin = chip[k].their_fin
      /\ chip'[k].their_isn = chip[k].their_isn
  BY <1>1 DEF ChipIsReset, ChipRefuses, ChipType
<1>3. PICK p : p = Part(chip[k].next, {"RST"}, <<>>)
  OBVIOUS
<1>4. to_gw' = to_gw \/ PutPart(k, p, 0)
  BY <1>3 DEF ChipIsReset, ChipRefuses, Put
<1>5. "ACK" \notin p.flags
  BY <1>3 DEF Part
<1>6. Silent(k)' <=> Silent(k)
  BY <1>2 DEF Silent
<1>7. \A w : to_gw' = Append(to_gw, w) => "ACK" \notin w.seg.flags
  BY <1>4, <1>5, PutsAck, AppendGrows
<1> QED
  BY <1>2, <1>6, <1>7 DEF Hears

(* and one that takes a frame.                                               *)
LEMMA TakesHears ==
  ASSUME WireInv, NEW k \in Keys, NEW f \in WireFrame, ChipTakes(k, f)
  PROVE  Hears(k)
<1> DEFINE next == f.seq = Expects(k)
           fin  == "FIN" \in f.flags
<1>1. chip \in [Keys -> ChipType] /\ f.data \in Seq(Nat) /\ f.seq \in SeqNums
  BY DEF WireInv, WireFrame
<1>2. chip[k].received \in Seq(Nat)
  BY <1>1 DEF ChipType
<1>3. /\ chip'[k].received = IF next THEN chip[k].received \o f.data
                             ELSE chip[k].received
      /\ chip'[k].their_fin <=> chip[k].their_fin \/ (next /\ fin)
      /\ chip'[k].their_isn = chip[k].their_isn
      /\ chip[k].st = "open" /\ chip'[k].st = "open"
  BY <1>1 DEF ChipTakes, ChipType
<1>4. chip[k].received \o f.data = <<>> =>
        chip[k].received = <<>> /\ f.data = <<>>
  BY <1>1, <1>2
<1>5. Silent(k)' => Silent(k) /\ (next => f.data = <<>> /\ ~fin)
  BY <1>3, <1>4 DEF Silent
<1> HIDE DEF next, fin
<1>6. Silent(k) => Expects(k) = seq_add(chip[k].their_isn, 1)
  BY ExpectsFirst
<1>7. next /\ f.data = <<>> /\ ~fin =>
        seq_add(f.seq, Len(f.data) + One(fin)) = f.seq
  <2>1. SUFFICES ASSUME f.data = <<>>, ~fin
                 PROVE  seq_add(f.seq, Len(f.data) + One(fin)) = f.seq
    OBVIOUS
  <2>2. Len(f.data) + One(fin) = 0
    BY <2>1 DEF One
  <2>3. seq_add(f.seq, 0) = f.seq
    BY <1>1, SeqModAssumption, Remains DEF seq_add, SeqNums
  <2> QED
    BY <2>2, <2>3
<1>8. \/ to_gw' = to_gw
      \/ Put(k, {"ACK"}, IF next THEN seq_add(f.seq, Len(f.data) + One(fin))
                         ELSE Expects(k))
  BY DEF ChipTakes, next, fin
<1>9. ASSUME NEW w, to_gw' = Append(to_gw, w), "ACK" \in w.seg.flags, Silent(k)'
      PROVE  w.seg.ack = seq_add(chip'[k].their_isn, 1)
  <2>1. to_gw' # to_gw
    BY <1>9, AppendGrows
  <2>2. PICK p : PutPart(k, p, IF next
                   THEN seq_add(f.seq, Len(f.data) + One(fin)) ELSE Expects(k))
    BY <1>8, <2>1 DEF Put
  <2>3. w.seg.ack = IF next THEN seq_add(f.seq, Len(f.data) + One(fin))
                    ELSE Expects(k)
    BY <1>9, <2>2, PutsAck
  <2>4. w.seg.ack = Expects(k)
    BY <1>5, <1>7, <1>9, <2>3 DEF next
  <2> QED
    BY <1>3, <1>5, <1>6, <1>9, <2>4
<1> QED
  BY <1>3, <1>5, <1>9 DEF Hears

-----------------------------------------------------------------------------
(* A step of the chip is one of its key k, which puts at most one segment on *)
(* the wire: with the next byte, or with nothing that was not sent before.   *)
Adds(k, w) ==
    /\ to_gw' = Append(to_gw, w) /\ w.key = k /\ SegOK(w)'
    /\ "SYN" \in w.seg.flags => chip[k].st \in {"closed", "syn_sent"}
    /\ \/ BytesSent(k)' = BytesSent(k)
       \/ /\ BytesSent(k)' = BytesSent(k) + 1
          /\ w.seg.data = <<BytesSent(k) + 1>>

Advances(k) ==
    /\ Grows(k) /\ SentOK(k)' /\ Hears(k)
    /\ chip' \in [Keys -> ChipType]
    /\ \A j \in Keys \ {k} : chip'[j] = chip[j]
    /\ \/ to_gw' = to_gw /\ BytesSent(k)' = BytesSent(k)
       \/ \E w \in OnWire : Adds(k, w)

(* A step that leaves the stream of k as it was.                             *)
Rests1(k, z) ==
    /\ Becomes(k, z) /\ StreamStays(k, z)
    /\ z.unacked \subseteq chip[k].unacked
    /\ chip[k].st \in {"open", "gone"} => z.st \in {"open", "gone"}
    /\ chip[k].st = "closed" <=> z.st = "closed"

(* The number of the chip's bytes is one.                                    *)
LEMMA SentTyped ==
  ASSUME WireInv, NEW k \in Keys, SentOK(k)
  PROVE  BytesSent(k) \in Nat /\ BytesSent(k) <= ChipBytes
BY ByteRange DEF SentOK, StartOK

(* It keeps what was sent.                                                   *)
LEMMA RestsKeeps ==
  ASSUME WireInv, NEW k \in Keys, SentOK(k), NEW z, Rests1(k, z)
  PROVE  /\ Grows(k) /\ SentOK(k)' /\ BytesSent(k)' = BytesSent(k)
         /\ \A p : PartOK(k, p) => PartOK(k, p)'
<1>1. chip'[k] = z
  BY BecomesTyped DEF Rests1
<1>2. BytesSent(k)' = BytesSent(k) /\ BytesSent(k) \in Nat
  BY <1>1, SentTyped DEF BytesSent, Rests1, StreamStays, One
<1>3. Grows(k)
  BY <1>1, <1>2 DEF Grows, Rests1, StreamStays
<1>4. \A p : PartOK(k, p) => PartOK(k, p)'
  BY <1>2, <1>3, PartStays
<1>7. chip[k].st \in {"closed", "syn_sent", "open", "gone"}
  BY DEF WireInv, ChipType
<1>8. z.st \in {"closed", "syn_sent"} => ~z.fin
  BY <1>7 DEF SentOK, StartOK, Rests1, StreamStays
<1>9. z.st = "closed" => z.next = 0 /\ z.unacked = {}
  BY DEF SentOK, StartOK, Rests1, StreamStays
<1>10. z.st # "closed" => z.next >= 1 + One(z.fin)
  BY DEF SentOK, StartOK, Rests1, StreamStays, One
<1>5. StartOK(k)'
  BY <1>1, <1>2, <1>8, <1>9, <1>10 DEF SentOK, StartOK
<1>6. \A p \in chip'[k].unacked : PartOK(k, p)'
  BY <1>1, <1>4 DEF SentOK, Rests1
<1> QED
  BY <1>2, <1>3, <1>4, <1>5, <1>6 DEF SentOK

(* With a part that is bare, or that the chip sends again.                   *)
LEMMA RestsAdvances ==
  ASSUME WireInv, NEW k \in Keys, SentOK(k), NEW z, Rests1(k, z), Hears(k),
         \/ to_gw' = to_gw
         \/ \E p \in PartType :
              /\ PutsLast(k, p) /\ (Bare(p) \/ PartOK(k, p))
              /\ "SYN" \in p.flags => chip[k].st \in {"closed", "syn_sent"}
  PROVE  Advances(k)
<1>1. /\ Grows(k) /\ SentOK(k)' /\ BytesSent(k)' = BytesSent(k)
      /\ \A p : PartOK(k, p) => PartOK(k, p)'
  BY RestsKeeps
<1>2. /\ chip' \in [Keys -> ChipType]
      /\ \A j \in Keys \ {k} : chip'[j] = chip[j]
  BY BecomesTyped DEF Rests1
<1>3. ASSUME NEW p \in PartType, PutsLast(k, p), Bare(p) \/ PartOK(k, p),
             "SYN" \in p.flags => chip[k].st \in {"closed", "syn_sent"}
      PROVE  \E w \in OnWire : Adds(k, w)
  <2>1. PICK w \in OnWire : /\ to_gw' = Append(to_gw, w) /\ w.key = k
                            /\ w.seg.flags = p.flags /\ w.seg.data = p.data
                            /\ w.seg.seq = SeqAt(p.off)
    BY <1>3 DEF PutsLast
  <2>2. "ACK" \in p.flags => chip'[k].st \in {"open", "gone"}
    BY <2>1 DEF Hears
  <2>3. Bare(p) => PartOK(k, p)'
    BY <2>2 DEF Bare, PartOK
  <2>4. PartOK(k, p)'
    BY <1>1, <1>3, <2>3
  <2>5. SegOK(w)'
    BY <2>1, <2>4 DEF SegOK, Carries1
  <2> QED
    BY <1>1, <1>3, <2>1, <2>5 DEF Adds
<1> QED
  BY <1>1, <1>2, <1>3 DEF Advances

(* The chip sends the next part of its stream,                               *)
LEMMA SendAdvances ==
  ASSUME WireInv, NEW k \in Keys, SentOK(k),
         ChipOpens(k) \/ ChipSendsByte(k) \/ ChipFinishes(k)
  PROVE  Advances(k)
<1>1. PICK flags \in SUBSET Flags, data \in ByteOrNone :
        Sends(k, flags, data) /\ ("FIN" \in flags /\ data # <<>> => Coalesce)
  BY SendKinds
<1>2. PICK p : p = Part(chip[k].next, flags, data)
  OBVIOUS
<1>3. Send(k, flags, data)
  BY <1>1 DEF Sends
<1>4. PutsLast(k, p) /\ p \in PartType /\ p.data = data /\ p.flags = flags
  BY <1>1, <1>2, <1>3, SendTyped
<1>5. PICK z : /\ Becomes(k, z)
               /\ z.next = chip[k].next + Span(p)
               /\ z.unacked = chip[k].unacked \cup {p}
               /\ z.fin <=> "FIN" \in flags
               /\ z.st = IF chip[k].st = "open" THEN "open" ELSE "syn_sent"
  BY <1>1, <1>2, <1>3, SendTyped
<1>6. /\ SentOK(k)' /\ Grows(k) /\ PartOK(k, p)'
      /\ \/ data = <<>> /\ BytesSent(k)' = BytesSent(k)
         \/ /\ BytesSent(k)' = BytesSent(k) + 1
            /\ data = <<BytesSent(k) + 1>>
  BY <1>1, <1>2, <1>5, SendGrows
<1>7. PICK w \in OnWire : /\ to_gw' = Append(to_gw, w) /\ w.key = k
                          /\ w.seg.flags = p.flags /\ w.seg.data = p.data
                          /\ w.seg.seq = SeqAt(p.off)
  BY <1>4 DEF PutsLast
<1>8. SegOK(w)'
  BY <1>4, <1>6, <1>7 DEF SegOK, Carries1
<1>12. "SYN" \in flags => chip[k].st = "closed"
  BY <1>1 DEF Sends
<1>9. Adds(k, w)
  BY <1>4, <1>6, <1>7, <1>8, <1>12 DEF Adds
<1>10. Hears(k)
  BY <1>1, SendsHears
<1>11. /\ chip' \in [Keys -> ChipType]
       /\ \A j \in Keys \ {k} : chip'[j] = chip[j]
  BY <1>5, BecomesTyped
<1> QED
  BY <1>6, <1>9, <1>10, <1>11 DEF Advances

(* sends the oldest again,                                                   *)
LEMMA RetransmitAdvances ==
  ASSUME WireInv, NEW k \in Keys, SentOK(k), ChipOK(k), ChipRetransmits(k)
  PROVE  Advances(k)
<1>1. PICK p \in chip[k].unacked : p \in PartType /\ PutsLast(k, p)
  BY RetransmitTyped
<1>2. PICK z : /\ Becomes(k, z) /\ StreamStays(k, z)
               /\ z.st = chip[k].st /\ z.unacked = chip[k].unacked
  BY RetransmitTyped
<1>3. Rests1(k, z)
  BY <1>2 DEF Rests1
<1>4. PartOK(k, p)
  BY DEF SentOK
<1>5. "SYN" \in p.flags => chip[k].st \in {"closed", "syn_sent"}
  BY DEF ChipRetransmits, ChipOK
<1> QED
  BY <1>1, <1>3, <1>4, <1>5, RetransmitHears, RestsAdvances

(* gives up,                                                                 *)
LEMMA AbortAdvances ==
  ASSUME WireInv, NEW k \in Keys, SentOK(k), ChipAborts(k)
  PROVE  Advances(k)
<1>1. PICK p : Bare(p) /\ PutsLast(k, p)
  BY AbortTyped
<1>2. PICK z : /\ Becomes(k, z) /\ StreamStays(k, z)
               /\ z.st = "gone" /\ z.unacked = chip[k].unacked
  BY AbortTyped
<1>3. Rests1(k, z)
  BY <1>2 DEF Rests1, ChipAborts
<1> QED
  BY <1>1, <1>3, AbortHears, RestsAdvances DEF Bare

(* or takes a frame.                                                         *)
LEMMA ReactsAdvances ==
  ASSUME WireInv, NEW k \in Keys, SentOK(k), ReactsTo(k), Hears(k)
  PROVE  Advances(k)
<1>1. PICK z : Reacts(k, z)
  BY DEF ReactsTo
<1>2. Rests1(k, z)
  BY <1>1 DEF Reacts, Rests1
<1> QED
  BY <1>2, RestsAdvances DEF ReactsTo, Answers, Bare

(* The key of a frame the chip takes, and what it makes of it.               *)
LEMMA ReceivesAdvances ==
  ASSUME WireInv, \A k \in Keys : SentOK(k), ChipReceives
  PROVE  /\ Head(to_chip) \in WireFrame /\ Head(to_chip).key \in Keys
         /\ Advances(Head(to_chip).key)
<1>0. to_chip \in Seq(WireFrame) /\ to_chip # <<>>
  BY DEF WireInv, ChipReceives
<1>1. PICK f \in WireFrame : f = Head(to_chip)
  BY <1>0
<1>2. f.key \in Keys
  BY DEF WireFrame
<1>3. \/ ChipHandshake(f.key, f) \/ ChipIsReset(f.key, f)
      \/ ChipTakes(f.key, f) \/ ChipRefuses(f.key, f)
  BY <1>1 DEF ChipReceives
<1>4. ReactsTo(f.key)
  BY <1>2, <1>3, HandshakeReacts, ResetReacts, TakesReacts, RefusesReacts
<1>5. Hears(f.key)
  BY <1>2, <1>3, HandshakeHears, ResetHears, TakesHears
<1>6. Advances(f.key)
  BY <1>2, <1>4, <1>5, ReactsAdvances
<1> QED
  BY <1>1, <1>2, <1>6

(* Every step of the chip is of that kind.                                   *)
LEMMA ChipAdvances ==
  ASSUME WireInv, ChipInv, SentInv, ChipStep
  PROVE  \E k \in Keys : Advances(k)
<1>1. \A k \in Keys : SentOK(k) /\ ChipOK(k)
  BY DEF SentInv, ChipInv
<1>2. CASE ChipReceives
  BY <1>1, <1>2, ReceivesAdvances
<1>3. ASSUME NEW k \in Keys,
             ChipOpens(k) \/ ChipSendsByte(k) \/ ChipFinishes(k)
               \/ ChipRetransmits(k) \/ ChipAborts(k)
      PROVE  Advances(k)
  BY <1>1, <1>3, SendAdvances, RetransmitAdvances, AbortAdvances
<1> QED
  BY <1>2, <1>3 DEF ChipStep

(* The segments on the wire stay what the chip has sent.                     *)
LEMMA SegStays ==
  ASSUME WireInv, \A j \in Keys : SentOK(j), NEW k \in Keys, Advances(k),
         NEW w \in OnWire, SegOK(w)
  PROVE  SegOK(w)'
<1>1. w.key \in Keys
  BY DEF OnWire
<1>2. PICK p \in PartType : PartOK(w.key, p) /\ Carries1(w, p)
  BY DEF SegOK
<1>3. CASE w.key = k
  <2>1. BytesSent(k) \in Nat /\ BytesSent(k)' \in Nat
    BY <1>3, SentTyped DEF Advances, Adds
  <2>2. PartOK(k, p)'
    BY <1>2, <1>3, <2>1, PartStays DEF Advances
  <2> QED
    BY <1>2, <1>3, <2>2 DEF SegOK, Carries1
<1>4. CASE w.key # k
  <2>1. chip'[w.key] = chip[w.key]
    BY <1>1, <1>4 DEF Advances
  <2>2. PartOK(w.key, p)'
    BY <1>2, <2>1 DEF PartOK, BytesSent
  <2> QED
    BY <1>2, <2>2 DEF SegOK, Carries1
<1> QED
  BY <1>3, <1>4

(* So what is on the wire was sent, and all the chip has sent is in order.   *)
LEMMA ChipStepSent ==
  ASSUME WireInv, ChipInv, SentInv, ChipStep
  PROVE  SentInv'
<1>0. \A j \in Keys : SentOK(j)
  BY DEF SentInv
<1>1. PICK k \in Keys : Advances(k)
  BY ChipAdvances
<1>2. ASSUME NEW j \in Keys PROVE SentOK(j)'
  <2>1. CASE j = k
    BY <1>1, <2>1 DEF Advances
  <2>2. CASE j # k
    <3>1. chip'[j] = chip[j]
      BY <1>1, <2>2 DEF Advances
    <3> QED
      BY <1>0, <3>1 DEF SentOK, StartOK, PartOK, BytesSent
  <2> QED
    BY <2>1, <2>2
<1>3. \A w \in OnWire : SegOK(w) => SegOK(w)'
  BY <1>0, <1>1, SegStays
<1>4. ASSUME NEW i \in DOMAIN to_gw'
      PROVE  \E w \in OnWire : to_gw'[i] = w /\ SegOK(w)'
  <2>1. CASE i \in DOMAIN to_gw /\ to_gw'[i] = to_gw[i]
    <3>1. PICK w \in OnWire : w = to_gw[i]
      BY <2>1 DEF WireInv
    <3> QED
      BY <1>3, <2>1, <3>1 DEF SentInv
  <2>2. ASSUME NEW w \in OnWire, Adds(k, w), to_gw'[i] = w
        PROVE  \E v \in OnWire : to_gw'[i] = v /\ SegOK(v)'
    BY <2>2 DEF Adds
  <2>3. \/ to_gw' = to_gw
        \/ \E w \in OnWire : Adds(k, w)
    BY <1>1 DEF Advances
  <2>4. CASE to_gw' = to_gw
    BY <1>4, <2>1, <2>4
  <2>5. ASSUME NEW w \in OnWire, Adds(k, w)
        PROVE  \/ i \in DOMAIN to_gw /\ to_gw'[i] = to_gw[i]
               \/ to_gw'[i] = w
    BY <1>4, <2>5, AppendedAt DEF Adds
  <2> QED
    BY <2>1, <2>2, <2>3, <2>4, <2>5
<1>5. \A i \in DOMAIN to_gw' : SegOK(to_gw[i])'
  <2> TAKE i \in DOMAIN to_gw'
  <2>1. PICK w \in OnWire : to_gw'[i] = w /\ SegOK(w)'
    BY <1>4
  <2> QED
    BY <2>1 DEF SegOK, Carries1
<1> QED
  BY <1>2, <1>5 DEF SentInv

-----------------------------------------------------------------------------
(* The ACKs on the wire.                                                     *)

(* While the chip has heard nothing, all its ACKs are of our SYN; a SYN is   *)
(* not sent again once there was an ACK.                                     *)
IsAck(k, w) == w.key = k /\ "ACK" \in w.seg.flags

AckOK(k) ==
    \A i \in DOMAIN to_gw : IsAck(k, to_gw[i]) =>
        /\ Silent(k) => to_gw[i].seg.ack = seq_add(chip[k].their_isn, 1)
        /\ \A j \in DOMAIN to_gw : j > i => ~IsSyn(k, to_gw[j])

AckInv == \A k \in Keys : AckOK(k)

(* An ACK comes when the connection is open, and bytes and a FIN with it.    *)
LEMMA AckOpen ==
  ASSUME SentInv, NEW i \in DOMAIN to_gw, NEW k, to_gw[i].key = k
  PROVE  /\ IsAck(k, to_gw[i]) => chip[k].st \in {"open", "gone"}
         /\ to_gw[i].seg.data # <<>> \/ "FIN" \in to_gw[i].seg.flags =>
              IsAck(k, to_gw[i])
BY DEF SentInv, SegOK, PartOK, Carries1, IsAck

(* The order of one key's segments is not disturbed by another's.            *)
LEMMA OtherAcks ==
  ASSUME WireInv, NEW k, NEW j \in Keys \ {k}, AckOK(j), chip'[j] = chip[j],
         to_gw' = to_gw \/ \E w \in OnWire : Adds(k, w)
  PROVE  AckOK(j)'
<1>1. \A i \in DOMAIN to_gw' :
        to_gw'[i].key = j => i \in DOMAIN to_gw /\ to_gw'[i] = to_gw[i]
  BY AppendedAt DEF Adds
<1>2. Silent(j)' <=> Silent(j)
  BY DEF Silent
<1> QED
  BY <1>1, <1>2 DEF AckOK, IsAck, IsSyn

(* Of the key the chip acts on,                                              *)
LEMMA OwnAcks ==
  ASSUME WireInv, SentInv, NEW k \in Keys, AckOK(k), Advances(k)
  PROVE  AckOK(k)'
<1>1. CASE to_gw' = to_gw
  <2>1. ASSUME NEW i \in DOMAIN to_gw, IsAck(k, to_gw[i])
        PROVE  /\ Silent(k)' =>
                    to_gw[i].seg.ack = seq_add(chip'[k].their_isn, 1)
               /\ \A j \in DOMAIN to_gw : j > i => ~IsSyn(k, to_gw[j])
    <3>1. chip[k].st \in {"open", "gone"}
      BY <2>1, AckOpen DEF IsAck
    <3> QED
      BY <2>1, <3>1 DEF AckOK, Advances, Hears
  <2> QED
    BY <1>1, <2>1 DEF AckOK, IsAck, IsSyn
<1>2. ASSUME NEW w \in OnWire, Adds(k, w) PROVE AckOK(k)'
  <2>1. to_gw' = Append(to_gw, w)
    BY <1>2 DEF Adds
  <2>2. \A i \in DOMAIN to_gw' :
          \/ i \in DOMAIN to_gw /\ to_gw'[i] = to_gw[i]
          \/ to_gw'[i] = w /\ \A j \in DOMAIN to_gw' : j <= i
    BY <2>1, AppendedAt
  <2>3. DOMAIN to_gw' \subseteq Nat
    <3>1. to_gw' \in Seq(OnWire)
      BY <2>1 DEF WireInv
    <3> QED
      BY <3>1
  <2>4. ASSUME NEW i \in DOMAIN to_gw', IsAck(k, to_gw'[i])
        PROVE  /\ Silent(k)' =>
                    to_gw'[i].seg.ack = seq_add(chip'[k].their_isn, 1)
               /\ \A j \in DOMAIN to_gw' : j > i => ~IsSyn(k, to_gw'[j])
    <3>1. CASE i \in DOMAIN to_gw /\ to_gw'[i] = to_gw[i]
      <4>1. chip[k].st \in {"open", "gone"}
        BY <2>4, <3>1, AckOpen DEF IsAck
      <4>2. Silent(k)' => to_gw'[i].seg.ack = seq_add(chip'[k].their_isn, 1)
        BY <2>4, <3>1, <4>1 DEF AckOK, Advances, Hears
      <4>3. ~IsSyn(k, w)
        BY <1>2, <4>1 DEF Adds, IsSyn
      <4>4. \A j \in DOMAIN to_gw : j > i => ~IsSyn(k, to_gw[j])
        BY <2>4, <3>1 DEF AckOK
      <4>5. \A j \in DOMAIN to_gw' : j > i => ~IsSyn(k, to_gw'[j])
        BY <2>2, <4>3, <4>4
      <4> QED
        BY <4>2, <4>5
    <3>2. CASE to_gw'[i] = w /\ \A j \in DOMAIN to_gw' : j <= i
      <4>1. Silent(k)' => w.seg.ack = seq_add(chip'[k].their_isn, 1)
        BY <2>1, <2>4, <3>2 DEF Advances, Hears, IsAck
      <4>2. \A j \in DOMAIN to_gw' : ~(j > i)
        BY <2>3, <3>2
      <4> QED
        BY <3>2, <4>1, <4>2
    <3> QED
      BY <2>2, <3>1, <3>2
  <2> QED
    BY <2>4 DEF AckOK, IsAck, IsSyn, Silent
<1> QED
  BY <1>1, <1>2 DEF Advances

(* and so of all.                                                            *)
LEMMA ChipStepAcks ==
  ASSUME WireInv, ChipInv, SentInv, AckInv, ChipStep
  PROVE  AckInv'
<1>1. PICK k \in Keys : Advances(k)
  BY ChipAdvances
<1>2. AckOK(k)'
  BY <1>1, OwnAcks DEF AckInv
<1>3. ASSUME NEW j \in Keys \ {k} PROVE AckOK(j)'
  <2>1. chip'[j] = chip[j] /\ (to_gw' = to_gw \/ \E w \in OnWire : Adds(k, w))
    BY <1>1 DEF Advances
  <2> QED
    BY <2>1, OtherAcks DEF AckInv
<1> QED
  BY <1>2, <1>3 DEF AckInv

(* What is left on the wire when its head is taken keeps its order.          *)
LEMMA TailAcks ==
  ASSUME WireInv, AckInv, to_gw # <<>>, to_gw' = Tail(to_gw), chip' = chip
  PROVE  AckInv'
<1> SUFFICES ASSUME NEW k \in Keys PROVE AckOK(k)'
  BY DEF AckInv
<1>1. AckOK(k) /\ (Silent(k)' <=> Silent(k))
  BY DEF AckInv, Silent
<1>2. ASSUME NEW i \in DOMAIN to_gw', IsAck(k, to_gw'[i])
      PROVE  /\ Silent(k) => to_gw'[i].seg.ack = seq_add(chip[k].their_isn, 1)
             /\ \A j \in DOMAIN to_gw' : j > i => ~IsSyn(k, to_gw'[j])
  <2>1. i + 1 \in DOMAIN to_gw /\ to_gw'[i] = to_gw[i + 1] /\ i \in Nat
    BY TailAt
  <2>2. /\ Silent(k) => to_gw[i + 1].seg.ack = seq_add(chip[k].their_isn, 1)
        /\ \A j \in DOMAIN to_gw : j > i + 1 => ~IsSyn(k, to_gw[j])
    BY <1>1, <1>2, <2>1 DEF AckOK
  <2>3. ASSUME NEW j \in DOMAIN to_gw', j > i PROVE ~IsSyn(k, to_gw'[j])
    <3>1. j \in Nat /\ j + 1 \in DOMAIN to_gw /\ to_gw'[j] = to_gw[j + 1]
      BY TailAt
    <3>2. j + 1 > i + 1
      BY <2>1, <2>3, <3>1
    <3> QED
      BY <2>2, <3>1, <3>2
  <2> QED
    BY <2>1, <2>2, <2>3
<1> QED
  BY <1>1, <1>2 DEF AckOK, IsAck, IsSyn, Silent

(* What stays on the wire when its head is taken is still of the stream.     *)
LEMMA TailSent ==
  ASSUME WireInv, SentInv, to_gw # <<>>, to_gw' = Tail(to_gw), chip' = chip
  PROVE  SentInv'
<1>1. \A k \in Keys : SentOK(k)'
  BY DEF SentInv, SentOK, StartOK, PartOK, BytesSent
<1>2. \A w : SegOK(w) => SegOK(w)'
  BY DEF SegOK, PartOK, BytesSent, Carries1
<1>3. ASSUME NEW i \in DOMAIN to_gw' PROVE \E w : to_gw'[i] = w /\ SegOK(w)'
  <2>1. PICK w : w = to_gw'[i]
    OBVIOUS
  <2>2. i + 1 \in DOMAIN to_gw /\ w = to_gw[i + 1]
    BY <2>1, TailAt
  <2>3. SegOK(w)
    BY <2>2 DEF SentInv
  <2> QED
    BY <1>2, <2>1, <2>3
<1>4. ASSUME NEW i \in DOMAIN to_gw' PROVE SegOK(to_gw[i])'
  <2>1. PICK w : to_gw'[i] = w /\ SegOK(w)'
    BY <1>3
  <2> QED
    BY <2>1 DEF SegOK, Carries1
<1> QED
  BY <1>1, <1>4 DEF SentInv

-----------------------------------------------------------------------------
(* The bytes on the wire.                                                    *)

ByteAt(k, i, b) == to_gw[i].key = k /\ to_gw[i].seg.data = <<b>>

(* What is only right behind byte m.                                         *)
Needs(k, i, m) ==
    /\ to_gw[i].key = k
    /\ \/ "FIN" \in to_gw[i].seg.flags
       \/ \E b \in m .. ChipBytes : to_gw[i].seg.data = <<b>>

(* Byte m of k is on the wire, before all that needs it.                     *)
Comes(k, m) ==
    /\ \E i \in DOMAIN to_gw : ByteAt(k, i, m)
    /\ \A i \in DOMAIN to_gw : Needs(k, i, m) =>
         \E j \in DOMAIN to_gw : j <= i /\ ByteAt(k, j, m)

(* All that the chip has sent on k but the first n bytes still comes.        *)
Flow(k, n) == \A m \in n + 1 .. BytesSent(k) : Comes(k, m)

(* What comes, comes though more is put behind it.                           *)
LEMMA ComesStays ==
  ASSUME WireInv, NEW k, NEW m, Comes(k, m), NEW w \in OnWire,
         to_gw' = Append(to_gw, w)
  PROVE  Comes(k, m)'
<1>1. PICK n \in DOMAIN to_gw : ByteAt(k, n, m)
  BY DEF Comes
<1>2. \A i \in DOMAIN to_gw : i \in DOMAIN to_gw' /\ to_gw'[i] = to_gw[i]
  <2>1. to_gw \in Seq(OnWire)
    BY DEF WireInv
  <2> QED
    BY <2>1
<1>3. n \in DOMAIN to_gw' /\ ByteAt(k, n, m)'
  BY <1>1, <1>2 DEF ByteAt
<1>4. ASSUME NEW i \in DOMAIN to_gw', Needs(k, i, m)'
      PROVE  \E j \in DOMAIN to_gw' : j <= i /\ ByteAt(k, j, m)'
  <2>1. CASE i \in DOMAIN to_gw /\ to_gw'[i] = to_gw[i]
    <3>1. PICK j \in DOMAIN to_gw : j <= i /\ ByteAt(k, j, m)
      BY <1>4, <2>1 DEF Comes, Needs
    <3> QED
      BY <1>2, <3>1 DEF ByteAt
  <2>2. CASE \A j \in DOMAIN to_gw' : j <= i
    BY <1>3, <2>2
  <2> QED
    BY <2>1, <2>2, AppendedAt
<1> QED
  BY <1>3, <1>4 DEF Comes

(* A byte that was not sent before is not needed by what is on the wire.     *)
LEMMA ComesFresh ==
  ASSUME WireInv, SentInv, NEW k \in Keys, Grows(k),
         NEW w \in OnWire, Adds(k, w), NEW m, m = BytesSent(k) + 1,
         BytesSent(k)' = m, w.seg.data = <<m>>
  PROVE  Comes(k, m)'
<1>0. BytesSent(k) \in Nat /\ ~chip[k].fin
  BY SentTyped DEF SentInv, Grows
<1>1. to_gw' = Append(to_gw, w) /\ w.key = k
  BY DEF Adds
<1>2. PICK n \in DOMAIN to_gw' : to_gw'[n] = w
  <2>1. to_gw \in Seq(OnWire)
    BY DEF WireInv
  <2> QED
    BY <1>1, <2>1
<1>3. ByteAt(k, n, m)'
  BY <1>1, <1>2 DEF ByteAt
<1>4. ASSUME NEW i \in DOMAIN to_gw, Needs(k, i, m) PROVE FALSE
  <2>1. PICK p \in PartType : PartOK(k, p) /\ Carries1(to_gw[i], p)
    BY <1>4 DEF SentInv, SegOK, Needs
  <2>2. "FIN" \notin to_gw[i].seg.flags
    BY <1>0, <2>1 DEF PartOK, Carries1
  <2>3. PICK b \in m .. ChipBytes : to_gw[i].seg.data = <<b>>
    BY <1>4, <2>2 DEF Needs
  <2>4. PICK a \in 1 .. BytesSent(k) : p.data = <<a>>
    BY <2>1, <2>3 DEF PartOK, Carries1
  <2>6. <<a>> = <<b>>
    BY <2>1, <2>3, <2>4 DEF Carries1
  <2>5. a = b
    BY <2>6
  <2> QED
    BY <1>0, <2>3, <2>4, <2>5, ByteRange
<1>5. ASSUME NEW i \in DOMAIN to_gw', Needs(k, i, m)'
      PROVE  \E j \in DOMAIN to_gw' : j <= i /\ ByteAt(k, j, m)'
  <2>1. ~(i \in DOMAIN to_gw /\ to_gw'[i] = to_gw[i])
    BY <1>4, <1>5 DEF Needs
  <2>2. \A j \in DOMAIN to_gw' : j <= i
    BY <1>1, <2>1, AppendedAt
  <2> QED
    BY <1>3, <2>2
<1> QED
  BY <1>3, <1>5 DEF Comes

(* The chip's steps add to what comes, at its end.                           *)
LEMMA ChipStepFlow ==
  ASSUME WireInv, ChipInv, SentInv, ChipStep, NEW j \in Keys, NEW n \in Nat,
         Flow(j, n)
  PROVE  Flow(j, n)'
<1>1. PICK k \in Keys : Advances(k)
  BY ChipAdvances
<1>2. ASSUME to_gw' = to_gw, BytesSent(j)' = BytesSent(j) PROVE Flow(j, n)'
  <2>1. \A m : Comes(j, m) => Comes(j, m)'
    BY ONLY <1>2 DEF Comes, ByteAt, Needs
  <2> QED
    BY <1>2, <2>1 DEF Flow
<1>3. ASSUME NEW w \in OnWire, Adds(k, w), BytesSent(j)' = BytesSent(j)
      PROVE  Flow(j, n)'
  <2>1. \A m : Comes(j, m) => Comes(j, m)'
    BY <1>3, ComesStays DEF Adds
  <2> QED
    BY <1>3, <2>1 DEF Flow
<1>4. ASSUME NEW w \in OnWire, Adds(k, w), j = k,
             BytesSent(k)' = BytesSent(k) + 1, w.seg.data = <<BytesSent(k) + 1>>
      PROVE  Flow(j, n)'
  <2>1. \A m : Comes(k, m) => Comes(k, m)'
    BY <1>4, ComesStays DEF Adds
  <2>2. PICK m : m = BytesSent(k) + 1
    OBVIOUS
  <2>3. Comes(k, m)'
    BY <1>1, <1>4, <2>2, ComesFresh DEF Advances
  <2>4. BytesSent(k) \in Nat
    BY SentTyped DEF SentInv
  <2>5. \A l \in n + 1 .. m : l = m \/ l \in n + 1 .. BytesSent(k)
    BY <2>2, <2>4
  <2>6. \A l \in n + 1 .. m : Comes(k, l)'
    BY <1>4, <2>1, <2>3, <2>5 DEF Flow
  <2> QED
    BY <1>4, <2>2, <2>6 DEF Flow
<1>5. j # k => BytesSent(j)' = BytesSent(j)
  BY <1>1 DEF Advances, BytesSent
<1> QED
  BY <1>1, <1>2, <1>3, <1>4, <1>5 DEF Advances, Adds

(* The head of the wire is a byte the gateway has, or its next one,          *)
LEMMA HeadNext ==
  ASSUME WireInv, SentInv, NEW k \in Keys, NEW n \in Nat, Flow(k, n),
         to_gw # <<>>, Head(to_gw).key = k, NEW b \in 1 .. BytesSent(k),
         Head(to_gw).seg.data = <<b>>
  PROVE  b <= n + 1
<1> SUFFICES ASSUME b > n + 1 PROVE FALSE
  <2>1. BytesSent(k) \in Nat
    BY SentTyped DEF SentInv
  <2> QED
    BY <2>1
<1>0. BytesSent(k) \in Nat /\ BytesSent(k) <= ChipBytes /\ ChipBytes \in Nat
  BY SentTyped, ByteRange DEF SentInv
<1>1. to_gw \in Seq(OnWire)
  BY DEF WireInv
<1>2. 1 \in DOMAIN to_gw /\ to_gw[1] = Head(to_gw)
  BY <1>1
<1>3. b \in n + 1 .. ChipBytes /\ n + 1 \in n + 1 .. BytesSent(k)
  BY <1>0
<1>4. Needs(k, 1, n + 1)
  BY <1>2, <1>3 DEF Needs
<1>5. PICK j \in DOMAIN to_gw : j <= 1 /\ ByteAt(k, j, n + 1)
  BY <1>2, <1>3, <1>4 DEF Flow, Comes
<1>6. j = 1
  BY <1>1, <1>5
<1>7. <<b>> = <<n + 1>>
  BY <1>2, <1>5, <1>6 DEF ByteAt
<1> QED
  BY <1>7

(* and if it is a FIN with no byte then the gateway has them all.            *)
LEMMA HeadLast ==
  ASSUME WireInv, SentInv, NEW k \in Keys, NEW n \in Nat, Flow(k, n),
         to_gw # <<>>, Head(to_gw).key = k, "FIN" \in Head(to_gw).seg.flags,
         Head(to_gw).seg.data = <<>>
  PROVE  BytesSent(k) <= n
<1>0. BytesSent(k) \in Nat
  BY SentTyped DEF SentInv
<1> SUFFICES ASSUME n + 1 \in n + 1 .. BytesSent(k) PROVE FALSE
  BY <1>0
<1>1. to_gw \in Seq(OnWire)
  BY DEF WireInv
<1>2. 1 \in DOMAIN to_gw /\ to_gw[1] = Head(to_gw)
  BY <1>1
<1>4. Needs(k, 1, n + 1)
  BY <1>2 DEF Needs
<1>5. PICK j \in DOMAIN to_gw : j <= 1 /\ ByteAt(k, j, n + 1)
  BY <1>2, <1>4 DEF Flow, Comes
<1>6. j = 1
  BY <1>1, <1>5
<1>7. <<n + 1>> = <<>>
  BY <1>2, <1>5, <1>6 DEF ByteAt
<1> QED
  BY <1>7

(* When the head is taken the rest still comes.                              *)
LEMMA TailFlow ==
  ASSUME WireInv, SentInv, NEW k \in Keys, NEW n \in Nat, NEW l \in Nat, n <= l,
         Flow(k, n), to_gw # <<>>, to_gw' = Tail(to_gw), chip' = chip,
         \A m \in l + 1 .. BytesSent(k) :
           Head(to_gw).key = k => Head(to_gw).seg.data # <<m>>
  PROVE  Flow(k, l)'
<1>0. BytesSent(k) \in Nat /\ BytesSent(k)' = BytesSent(k)
  BY SentTyped DEF SentInv, BytesSent
<1>1. SUFFICES ASSUME NEW m \in l + 1 .. BytesSent(k) PROVE Comes(k, m)'
  BY <1>0 DEF Flow
<1>2. m \in n + 1 .. BytesSent(k)
  BY <1>0
<1>3. Comes(k, m)
  BY <1>2 DEF Flow
<1>4. to_gw \in Seq(OnWire)
  BY DEF WireInv
<1>5. ASSUME NEW j \in DOMAIN to_gw, ByteAt(k, j, m)
      PROVE  j - 1 \in DOMAIN to_gw' /\ ByteAt(k, j - 1, m)'
  <2>1. to_gw[1] = Head(to_gw) /\ j \in 1..Len(to_gw) /\ Len(to_gw) \in Nat
    BY <1>4
  <2>2. j # 1
    BY <1>1, <1>5, <2>1 DEF ByteAt
  <2>3. j - 1 \in 1 .. Len(to_gw) - 1 /\ DOMAIN to_gw' = 1 .. Len(to_gw) - 1
    BY <1>4, <2>1, <2>2
  <2>4. to_gw'[j - 1] = to_gw[j]
    BY <1>4, <2>1, <2>3
  <2> QED
    BY <1>5, <2>3, <2>4 DEF ByteAt
<1>6. \E i \in DOMAIN to_gw' : ByteAt(k, i, m)'
  BY <1>3, <1>5 DEF Comes
<1>7. ASSUME NEW i \in DOMAIN to_gw', Needs(k, i, m)'
      PROVE  \E j \in DOMAIN to_gw' : j <= i /\ ByteAt(k, j, m)'
  <2>1. i + 1 \in DOMAIN to_gw /\ to_gw'[i] = to_gw[i + 1] /\ i \in Nat
    BY TailAt
  <2>2. PICK j \in DOMAIN to_gw : j <= i + 1 /\ ByteAt(k, j, m)
    BY <1>3, <1>7, <2>1 DEF Comes, Needs
  <2>3. j - 1 <= i
    BY <1>4, <2>1, <2>2
  <2> QED
    BY <1>5, <2>2, <2>3
<1> QED
  BY <1>6, <1>7 DEF Comes

-----------------------------------------------------------------------------
(* The way down as far as the way up depends on it: no bytes and no FIN go   *)
(* to the chip on a key before its connection is settled.                    *)

(* The chip has heard nothing of k, and will hear nothing so far.            *)
Plain(k) == Silent(k) /\ PlainFrames(k, to_chip) /\ PlainFrames(k, out)

(* Frames that are plain go on the websocket behind plain ones.              *)
LEMMA EmitPlain ==
  ASSUME to_chip \in Seq(WireFrame), out' \in Seq(WireFrame),
         to_chip' = to_chip \o out', NEW k, PlainFrames(k, to_chip),
         PlainFrames(k, out')
  PROVE  PlainFrames(k, to_chip')
<1>1. PICK a \in Seq(WireFrame), b \in Seq(WireFrame) : a = to_chip /\ b = out'
  OBVIOUS
<1>2. ASSUME NEW i \in DOMAIN (a \o b)
      PROVE  \/ i \in DOMAIN a /\ (a \o b)[i] = a[i]
             \/ i - Len(a) \in DOMAIN b /\ (a \o b)[i] = b[i - Len(a)]
  OBVIOUS
<1> QED
  BY <1>1, <1>2 DEF PlainFrames

(* The chip hears nothing of plain frames.                                   *)
LEMMA SilentStays ==
  ASSUME WireInv, NEW j \in Keys, NEW k \in Keys, Silent(k),
         \/ ChipOpens(j) \/ ChipSendsByte(j) \/ ChipFinishes(j)
         \/ ChipRetransmits(j) \/ ChipAborts(j)
  PROVE  Silent(k)' /\ to_chip' = to_chip /\ out' = out
<1>1. chip \in [Keys -> ChipType]
  BY DEF WireInv
<1>2. /\ chip'[k].received = chip[k].received
      /\ chip'[k].their_fin = chip[k].their_fin
  <2>1. CASE ChipOpens(j) \/ ChipSendsByte(j) \/ ChipFinishes(j)
    <3>1. PICK flags, data : Send(j, flags, data)
      BY <2>1 DEF ChipOpens, ChipSendsByte, ChipFinishes
    <3> QED
      BY <1>1, <3>1 DEF Send, ChipType
  <2>2. CASE ChipRetransmits(j)
    BY <1>1, <2>2 DEF ChipRetransmits, ChipType
  <2>3. CASE ChipAborts(j)
    <3> PICK x : x = chip[j]
      OBVIOUS
    <3>1. chip' = [chip EXCEPT ![j] = [x EXCEPT !.st = "gone"]]
      BY <1>1, <2>3 DEF ChipAborts
    <3> QED
      BY <1>1, <3>1 DEF ChipType
  <2> QED
    BY <2>1, <2>2, <2>3
<1>3. to_chip' = to_chip /\ out' = out
  <2>1. UNCHANGED vars
    BY ChipStepAside DEF ChipStep
  <2>2. ASSUME NEW flags, NEW data, Send(j, flags, data)
        PROVE  to_chip' = to_chip
    BY <2>2 DEF Send
  <2>3. CASE ChipOpens(j) \/ ChipSendsByte(j) \/ ChipFinishes(j)
    BY <2>1, <2>2, <2>3 DEF ChipOpens, ChipSendsByte, ChipFinishes, vars
  <2>4. CASE ChipRetransmits(j) \/ ChipAborts(j)
    BY <2>1, <2>4 DEF ChipRetransmits, ChipAborts, vars
  <2> QED
    BY <2>3, <2>4
<1> QED
  BY <1>2, <1>3 DEF Silent

(* Nor is it when it takes a frame that brings nothing.                      *)
LEMMA SilentHears ==
  ASSUME WireInv, NEW j \in Keys, NEW k \in Keys, Silent(k),
         NEW f \in WireFrame, f.key = j,
         j = k => f.data = <<>> /\ "FIN" \notin f.flags,
         \/ ChipHandshake(j, f) \/ ChipIsReset(j, f)
         \/ ChipTakes(j, f) \/ ChipRefuses(j, f)
  PROVE  Silent(k)'
<1>1. chip \in [Keys -> ChipType] /\ f.data \in Seq(Nat)
  BY DEF WireInv, WireFrame
<1>2. CASE ChipHandshake(j, f)
  BY <1>1, <1>2 DEF ChipHandshake, ChipType, Silent
<1>3. CASE ChipIsReset(j, f) \/ ChipRefuses(j, f)
  <2>1. /\ chip'[k].received = chip[k].received
        /\ chip'[k].their_fin = chip[k].their_fin
    BY <1>1, <1>3 DEF ChipIsReset, ChipRefuses, ChipType
  <2> QED
    BY <2>1 DEF Silent
<1>4. CASE ChipTakes(j, f)
  <2>1. CASE j # k
    BY <1>1, <1>4, <2>1 DEF ChipTakes, Silent
  <2>2. CASE j = k
    <3>1. f.data = <<>> /\ "FIN" \notin f.flags /\ chip[k].received = <<>>
          /\ ~chip[k].their_fin
      BY <2>2 DEF Silent
    <3>2. <<>> \o <<>> = <<>>
      OBVIOUS
    <3>3. chip'[k].received \in {chip[k].received, chip[k].received \o f.data}
          /\ (chip'[k].their_fin =>
                chip[k].their_fin \/ "FIN" \in f.flags)
      BY <1>1, <1>4, <2>2 DEF ChipTakes, ChipType
    <3> QED
      BY <3>1, <3>2, <3>3 DEF Silent
  <2> QED
    BY <2>1, <2>2
<1> QED
  BY <1>2, <1>3, <1>4

(* So the chip's steps keep a key plain.                                     *)
LEMMA ChipStepPlain ==
  ASSUME WireInv, ChipStep, NEW k \in Keys, Plain(k)
  PROVE  Plain(k)'
<1>1. ASSUME NEW j \in Keys,
             \/ ChipOpens(j) \/ ChipSendsByte(j) \/ ChipFinishes(j)
             \/ ChipRetransmits(j) \/ ChipAborts(j)
      PROVE  Plain(k)'
  BY <1>1, SilentStays DEF Plain, PlainFrames
<1>2. CASE ChipReceives
  <2>0. to_chip \in Seq(WireFrame) /\ to_chip # <<>> /\ to_chip' = Tail(to_chip)
        /\ out' = out
    BY <1>2 DEF WireInv, ChipReceives, vars
  <2>1. PICK f \in WireFrame : f = Head(to_chip)
    BY <2>0
  <2>2. f.key \in Keys
    BY DEF WireFrame
  <2>3. \/ ChipHandshake(f.key, f) \/ ChipIsReset(f.key, f)
        \/ ChipTakes(f.key, f) \/ ChipRefuses(f.key, f)
    BY <1>2, <2>1 DEF ChipReceives
  <2>4. 1 \in DOMAIN to_chip /\ to_chip[1] = f
    BY <2>0, <2>1
  <2>5. f.key = k => f.data = <<>> /\ "FIN" \notin f.flags
    BY <2>4 DEF Plain, PlainFrames
  <2>6. Silent(k)'
    BY <2>2, <2>3, <2>5, SilentHears DEF Plain
  <2>7. \A i \in DOMAIN to_chip' :
          i + 1 \in DOMAIN to_chip /\ to_chip'[i] = to_chip[i + 1]
    BY <2>0
  <2>8. PlainFrames(k, to_chip')
    BY <2>7 DEF Plain, PlainFrames
  <2> QED
    BY <2>0, <2>6, <2>8 DEF Plain
<1> QED
  BY <1>1, <1>2 DEF ChipStep

-----------------------------------------------------------------------------
(* A key that is not settled: nothing has come of its bytes yet.             *)

KeyOK(k)  == ~Settled(k) => Plain(k) /\ Flow(k, 0)
KeyInv    == \A k \in Keys : KeyOK(k)

(* The chip keeps the keys that are not settled plain, their bytes to come.  *)
LEMMA ChipStepKeys ==
  ASSUME WireInv, ChipInv, SentInv, KeyInv, SettledStays, ChipStep
  PROVE  KeyInv'
<1> SUFFICES ASSUME NEW k \in Keys, ~Settled(k)' PROVE Plain(k)' /\ Flow(k, 0)'
  BY DEF KeyInv, KeyOK
<1>1. Plain(k) /\ Flow(k, 0)
  BY DEF KeyInv, KeyOK, SettledStays
<1> QED
  BY <1>1, ChipStepPlain, ChipStepFlow

-----------------------------------------------------------------------------
(* The gateway's steps: those that take the head of the wire, and those of a *)
(* task.                                                                     *)
GwStep == TaskRuns \/ \E h \in Handlers : Delivered(h)

(* An ACK at the head is behind all SYNs of its key.                         *)
LEMMA HeadSettles ==
  ASSUME WireInv, SentInv, AckInv, to_gw # <<>>, to_gw' = Tail(to_gw),
         chip' = chip, NEW k \in Keys, IsAck(k, Head(to_gw)), ~GraceFor(k)'
  PROVE  Settled(k)'
<1>1. 1 \in DOMAIN to_gw /\ to_gw[1] = Head(to_gw)
  BY TailAt
<1>2. chip[k].st \in {"open", "gone"}
  BY <1>1, AckOpen DEF IsAck
<1>3. \A j \in DOMAIN to_gw : j > 1 => ~IsSyn(k, to_gw[j])
  BY <1>1 DEF AckInv, AckOK
<1>4. NoSynLeft(k)'
  <2>1. SUFFICES ASSUME NEW i \in DOMAIN to_gw' PROVE ~IsSyn(k, to_gw'[i])
    BY DEF NoSynLeft, IsSyn
  <2>2. i + 1 \in DOMAIN to_gw /\ i + 1 > 1 /\ to_gw'[i] = to_gw[i + 1]
    BY TailAt
  <2> QED
    BY <1>3, <2>2
<1> QED
  BY <1>2, <1>4 DEF Settled

(* The one handler is in no grace when it has taken an ACK.                  *)
LEMMA TakerNotInGrace ==
  ASSUME TypeInv, DialInv, NEW h, Handlers = {h}, WireInv, Delivered(h), NEW k,
         IsAck(k, Head(to_gw))
  PROVE  /\ handler[h].pc = "idle" /\ NoNewGrace /\ key' = key
         /\ \A j : ~GraceFor(j)'
<1>0. h \in Handlers /\ Inv
  BY DEF Inv
<1>1. CASE handle_chip_segment(h, Head(to_gw).key, Head(to_gw).seg)
  <2>1. ~on_passive_syn(h, Head(to_gw).key, Head(to_gw).seg)
    BY DEF on_passive_syn, OpensNew, IsAck
  <2>2. Head(to_gw).key \in Keys
    BY HeadTyped DEF Delivered
  <2>3. NoNewGrace /\ key' = key
    BY <1>0, <1>1, <2>1, <2>2, SegmentNoGrace
  <2>4. handler[h].pc = "idle"
    BY <1>1 DEF handle_chip_segment
  <2> QED
    BY <2>3, <2>4 DEF NoNewGrace, GraceFor
<1>2. CASE handler[h].pc = "idle" /\ UNCHANGED vars
  BY <1>2 DEF NoNewGrace, GraceFor, vars, otherVars, idVars
<1> QED
  BY <1>1, <1>2 DEF Delivered

(* A key stays plain while no pump has bytes or an end to send on it.        *)
LEMMA GwPlain ==
  ASSUME WireInv, WireInv', GwStep, [Next]_vars, NEW k \in Keys, Plain(k),
         \A c \in Conns, o \in Starters : key[c] = k /\ pump[c][o] = "read" =>
           host[c] \notin {"open", "eof"} /\ ~Carries(c)
  PROVE  Plain(k)'
<1>1. chip' = chip /\ to_chip' = to_chip \o out'
  BY DEF GwStep, TaskRuns, Delivered
<1>2. PlainFrames(k, out')
  BY NextPlain DEF Plain
<1>3. PlainFrames(k, to_chip')
  BY <1>1, <1>2, EmitPlain DEF WireInv, Plain
<1> QED
  BY <1>1, <1>2, <1>3 DEF Plain, Silent

(* What is behind the handshake has a settled key; before it nothing was     *)
(* sent but the SYN+ACK.                                                     *)
PastOK(c) ==
    /\ state[c] \notin {"CLOSED", "SYN_RCVD"} => Settled(key[c])
    /\ \A o \in Starters : pump[c][o] \notin Early =>
         Settled(key[c]) /\ state[c] # "SYN_RCVD"
    /\ state[c] = "SYN_RCVD" \/ InGrace(c) =>
         our_seq[c] = seq_add(our_isn[c], 1)

(* With the wire and the chip left alone the same bytes come.                *)
LEMMA FlowSame ==
  ASSUME to_gw' = to_gw, chip' = chip, NEW k, NEW n, Flow(k, n)
  PROVE  Flow(k, n)'
<1>1. BytesSent(k)' = BytesSent(k)
  BY DEF BytesSent
<1>2. \A m : Comes(k, m) => Comes(k, m)'
  BY DEF Comes, ByteAt, Needs
<1> QED
  BY <1>1, <1>2 DEF Flow

(* The keys that are not settled stay plain, and all their bytes to come.    *)
LEMMA GwKeys ==
  ASSUME OneHandler, TypeInv, DialInv, WireInv, WireInv', SentInv, AckInv,
         KeyInv, \A c \in Conns : PastOK(c), SettledStays, GwStep, [Next]_vars
  PROVE  KeyInv'
<1> SUFFICES ASSUME NEW k \in Keys, ~Settled(k)' PROVE Plain(k)' /\ Flow(k, 0)'
  BY DEF KeyInv, KeyOK
<1>1. ~Settled(k)
  BY DEF SettledStays
<1>2. Plain(k) /\ Flow(k, 0)
  BY <1>1 DEF KeyInv, KeyOK
<1>3. \A c \in Conns, o \in Starters : ~(key[c] = k /\ pump[c][o] = "read")
  BY <1>1 DEF PastOK, Early
<1>4. Plain(k)'
  BY <1>2, <1>3, GwPlain
<1>5. CASE TaskRuns
  <2>1. to_gw' = to_gw /\ chip' = chip
    BY <1>5 DEF TaskRuns
  <2>2. Flow(k, 0)'
    BY <1>2, <2>1, FlowSame
  <2> QED
    BY <1>4, <2>2
<1>6. ASSUME NEW h \in Handlers, Delivered(h) PROVE Flow(k, 0)'
  <2>0. Handlers = {h} /\ to_gw # <<>> /\ to_gw' = Tail(to_gw) /\ chip' = chip
    BY <1>6 DEF OneHandler, Delivered
  <2>1. Head(to_gw).key = k => Head(to_gw).seg.data = <<>>
    <3> SUFFICES ASSUME Head(to_gw).key = k, Head(to_gw).seg.data # <<>>
                 PROVE  FALSE
      OBVIOUS
    <3>1. 1 \in DOMAIN to_gw /\ to_gw[1] = Head(to_gw)
      BY <2>0, TailAt
    <3>2. IsAck(k, Head(to_gw))
      BY <3>1, AckOpen
    <3>3. ~GraceFor(k)'
      BY <1>6, <2>0, <3>2, TakerNotInGrace
    <3> QED
      BY <2>0, <3>2, <3>3, HeadSettles
  <2>2. \A m \in 0 + 1 .. BytesSent(k) :
          Head(to_gw).key = k => Head(to_gw).seg.data # <<m>>
    <3>1. \A m : <<m>> # <<>>
      OBVIOUS
    <3> QED
      BY <2>1, <3>1
  <2> QED
    BY <1>2, <2>0, <2>2, TailFlow
<1> QED
  BY <1>4, <1>5, <1>6 DEF GwStep

-----------------------------------------------------------------------------
(* The invariant of the way up, per connection.                              *)

(* What the host was given and what is held for it are the chip's first      *)
(* bytes, and all of them once the end of its stream was seen.               *)
BytesOK(c) == key[c] # None =>
    /\ chip_isn[c] = ChipISN
    /\ written[c] = Count(Len(written[c]))
    /\ pending_payload[c] =
         [i \in 1 .. Len(pending_payload[c]) |-> Len(written[c]) + i]
    /\ Taken(c) <= BytesSent(key[c])
    /\ EndDue(c) => chip[key[c]].fin /\ Taken(c) = BytesSent(key[c])

(* The chip took the SYN+ACK of an earlier connection: this one's handshake  *)
(* never completes.                                                          *)
Doomed(c) ==
    chip[key[c]].st \in {"open", "gone"} /\ chip[key[c]].their_isn # our_isn[c]

(* While the gateway runs, the bytes that a connection lacks come, in order. *)
FlowOK(c) == running /\ Registered(c) =>
    /\ state[c] = "ESTABLISHED" => Flow(key[c], Taken(c))
    /\ state[c] = "SYN_RCVD" =>
         Plain(key[c]) /\ (Flow(key[c], Taken(c)) \/ Doomed(c))

ConnUp(c) == PastOK(c) /\ BytesOK(c) /\ FlowOK(c)

UpInv == SentInv /\ AckInv /\ KeyInv /\ \A c \in Conns : ConnUp(c)

(* The first m numbers and the next n are the first m + n.                   *)
LEMMA CountJoins ==
  ASSUME NEW m \in Nat, NEW n \in Nat
  PROVE  /\ Count(m) \in Seq(Nat) /\ Len(Count(m)) = m
         /\ Count(m) \o [i \in 1..n |-> m + i] = Count(m + n)
<1> DEFINE x == Count(m)
           y == [i \in 1..n |-> m + i]
           z == Count(m + n)
<1>1. x \in Seq(Nat) /\ Len(x) = m /\ \A i \in 1..m : x[i] = i
  BY DEF Count
<1>2. y \in Seq(Nat) /\ Len(y) = n /\ \A i \in 1..n : y[i] = m + i
  OBVIOUS
<1>3. z \in Seq(Nat) /\ Len(z) = m + n /\ \A i \in 1..m + n : z[i] = i
  BY DEF Count
<1> HIDE DEF x, y, z
<1>4. x \o y \in Seq(Nat) /\ Len(x \o y) = m + n
  BY <1>1, <1>2
<1>5. \A i \in 1..m + n : (x \o y)[i] = i
  BY <1>1, <1>2
<1>6. x \o y = z
  BY <1>3, <1>4, <1>5, SMTT(30)
<1> QED
  BY <1>1, <1>6 DEF x, y, z

(* What was taken is a number.                                               *)
LEMMA TakenTyped ==
  ASSUME TypeOK, NEW c \in Conns
  PROVE  /\ Len(written[c]) \in Nat /\ Len(pending_payload[c]) \in Nat
         /\ Taken(c) \in Nat
<1>1. Len(written[c]) \in Nat /\ Len(pending_payload[c]) \in Nat
  BY TakenIsNat
<1>2. PICK m, n : m = Len(written[c]) /\ n = Len(pending_payload[c])
  OBVIOUS
<1>3. m \in Nat /\ n \in Nat
  BY <1>1, <1>2
<1>4. Taken(c) = m + n
  BY <1>2 DEF Taken
<1>5. m + n \in Nat
  BY <1>3
<1> QED
  BY <1>1, <1>4, <1>5

(* A steady connection keeps its bytes,                                      *)
LEMMA SteadyTaken ==
  ASSUME TypeOK, NEW d \in Conns, Steady(d), BytesOK(d), key[d] # None
  PROVE  /\ Taken(d)' = Taken(d)
         /\ written'[d] = Count(Len(written'[d]))
         /\ pending_payload'[d] =
              [i \in 1 .. Len(pending_payload'[d]) |-> Len(written'[d]) + i]
<1> PICK m, n : m = Len(written[d]) /\ n = Len(pending_payload[d])
  OBVIOUS
<1>0. m \in Nat /\ n \in Nat
  BY TakenTyped
<1>1. m \in Nat /\ n \in Nat /\ Taken(d) = m + n
  BY <1>0 DEF Taken
<1>2. CASE written'[d] = written[d] /\ pending_payload'[d] = pending_payload[d]
  BY <1>2 DEF Taken, BytesOK
<1>3. CASE /\ written'[d] = written[d] \o pending_payload[d]
           /\ pending_payload'[d] = <<>>
  <2>1. written[d] = Count(m) /\ pending_payload[d] = [i \in 1..n |-> m + i]
    BY DEF BytesOK
  <2>2. written'[d] = Count(m + n) /\ Len(Count(m + n)) = m + n
    <3>1. Count(m) \o [i \in 1..n |-> m + i] = Count(m + n)
      BY <1>1, CountJoins
    <3>2. m + n \in Nat
      BY ONLY <1>0
    <3>3. Len(Count(m + n)) = m + n
      BY <3>2, CountJoins
    <3> QED
      BY <1>3, <2>1, <3>1, <3>3
  <2>3. Len(pending_payload'[d]) = 0 /\ Len(written'[d]) = m + n
    BY <1>3, <2>2
  <2>4. <<>> = [i \in 1 .. 0 |-> m + n + i]
    OBVIOUS
  <2>5. pending_payload'[d] =
          [i \in 1 .. Len(pending_payload'[d]) |-> Len(written'[d]) + i]
    BY <1>3, <2>3, <2>4
  <2>6. Taken(d)' = m + n
    BY <1>1, <2>3 DEF Taken
  <2> QED
    BY <1>1, <2>2, <2>3, <2>5, <2>6
<1> QED
  BY <1>2, <1>3 DEF Steady, SteadyBytes

(* and it has the bytes it had.                                              *)
LEMMA SteadyBytesOK ==
  ASSUME TypeOK, NEW d \in Conns, Steady(d), BytesOK(d), chip' = chip
  PROVE  BytesOK(d)'
<1>1. key'[d] = key[d] /\ chip_isn'[d] = chip_isn[d]
  BY DEF Steady, SteadyId
<1>2. SUFFICES ASSUME key[d] # None PROVE BytesOK(d)'
  BY <1>1 DEF BytesOK
<1>3. \A k : BytesSent(k)' = BytesSent(k)
  BY DEF BytesSent
<1>4. EndDue(d)' => EndDue(d)
  BY DEF Steady
<1> QED
  BY <1>1, <1>2, <1>3, <1>4, SteadyTaken DEF BytesOK

(* A connection that is not in its grace, or that does something, was made.  *)
LEMMA ActiveMade ==
  ASSUME WaitInv, NEW d \in Conns,
         \/ state[d] # "CLOSED" \/ InPayload(d)
         \/ \E o \in Starters : pump[d][o] # "none"
  PROVE  key[d] \in Keys
<1>1. CASE InPayload(d)
  BY <1>1, HeldMade DEF InPayload, HandlerAt
<1>2. CASE state[d] # "CLOSED" \/ \E o \in Starters : pump[d][o] # "none"
  BY <1>2, RegisteredMade DEF Unused
<1> QED
  BY <1>1, <1>2

(* keeps what is behind the handshake settled,                               *)
LEMMA SteadyPast ==
  ASSUME WaitInv, SettledStays, NEW d \in Conns, OwnOK(d), PastOK(d), Steady(d)
  PROVE  PastOK(d)'
<1> PICK k : k = key[d]
  OBVIOUS
<1>1. key'[d] = k /\ our_isn'[d] = our_isn[d]
  BY DEF Steady, SteadyId
<1>2. ASSUME state'[d] \notin {"CLOSED", "SYN_RCVD"} PROVE Settled(k)'
  <2>1. state[d] \notin {"CLOSED", "SYN_RCVD"} \/ InPayload(d)
    BY <1>2 DEF Steady, SteadyState
  <2>2. Settled(k) /\ k \in Keys
    BY <2>1, ActiveMade DEF PastOK, OwnOK
  <2> QED
    BY <2>2 DEF SettledStays
<1>3. ASSUME NEW o \in Starters, pump'[d][o] \notin Early
      PROVE  Settled(k)' /\ state'[d] # "SYN_RCVD"
  <2>1. pump[d][o] \notin Early \/ Carries(d)
    BY <1>3 DEF Steady, SteadyTasks
  <2>2. Settled(k) /\ state[d] # "SYN_RCVD"
    BY <2>1 DEF PastOK, Carries
  <2>3. k \in Keys
    BY <2>1, ActiveMade DEF Early, Carries
  <2> QED
    BY <2>2, <2>3 DEF SettledStays, Steady, SteadyState
<1>4. ASSUME state'[d] = "SYN_RCVD" \/ InGrace(d)'
      PROVE  our_seq'[d] = seq_add(our_isn'[d], 1)
  <2>1. state[d] = "SYN_RCVD" \/ InGrace(d)
    BY <1>4 DEF Steady, SteadyState, SteadyTasks
  <2>2. ASSUME NEW o \in Starters, pump[d][o] \in {"sent", "finsent"}
        PROVE  FALSE
    <3>1. state[d] # "SYN_RCVD"
      BY <2>2 DEF PastOK, Early
    <3>2. InGrace(d) => pump[d][o] = "none"
      BY DEF WaitInv, WaitOK, GraceAlone, InGrace, Unused
    <3> QED
      BY <2>1, <2>2, <3>1, <3>2
  <2>3. our_seq'[d] = our_seq[d]
    BY <2>2 DEF Steady, SteadyTasks
  <2> QED
    BY <1>1, <2>1, <2>3 DEF PastOK
<1> QED
  BY <1>1, <1>2, <1>3, <1>4 DEF PastOK

(* and lacks the bytes it lacked.                                            *)
LEMMA SteadyFlow ==
  ASSUME TypeOK, NEW d \in Conns, Steady(d), BytesOK(d), FlowOK(d),
         running' => running, chip' = chip, Registered(d) => key[d] # None,
         NEW k, k = key[d],
         running' /\ Registered(d) /\ state'[d] \in {"SYN_RCVD", "ESTABLISHED"}
           => \A n \in Nat : Flow(k, n) => Flow(k, n)',
         Registered(d) /\ state[d] = "SYN_RCVD" /\ Plain(k) => Plain(k)'
  PROVE  FlowOK(d)'
<1>1. SUFFICES ASSUME running', Registered(d)',
                      state'[d] \in {"SYN_RCVD", "ESTABLISHED"}
               PROVE  FlowOK(d)'
  BY DEF FlowOK
<1>2. running /\ Registered(d) /\ state'[d] = state[d] /\ key'[d] = k
      /\ our_isn'[d] = our_isn[d]
  BY <1>1 DEF Steady, SteadyId, SteadyState
<1>3. Taken(d)' = Taken(d) /\ Taken(d) \in Nat
  BY <1>2, SteadyTaken, TakenTyped
<1>4. Flow(k, Taken(d)) => Flow(k, Taken(d))'
  BY <1>1, <1>2, <1>3
<1>5. PICK n : n = Taken(d) /\ Taken(d)' = n
  BY <1>3
<1>6. Flow(k, n) => Flow(k, n)'
  BY <1>1, <1>2, <1>3, <1>5
<1>7. CASE state[d] = "ESTABLISHED"
  <2>1. Flow(k, n)'
    BY <1>2, <1>5, <1>6, <1>7 DEF FlowOK
  <2> QED
    BY <1>2, <1>5, <1>7, <2>1 DEF FlowOK
<1>8. CASE state[d] = "SYN_RCVD"
  <2>1. Plain(k)' /\ (Flow(k, n) \/ Doomed(d))
    BY <1>2, <1>5, <1>8 DEF FlowOK
  <2>2. Doomed(d) => Doomed(d)'
    BY <1>2 DEF Doomed
  <2> QED
    BY <1>2, <1>5, <1>6, <1>8, <2>1, <2>2 DEF FlowOK
<1> QED
  BY <1>1, <1>2, <1>7, <1>8

-----------------------------------------------------------------------------
(* The chip's steps: what they add comes, and the gateway has what it had.   *)
LEMMA ChipGrows ==
  ASSUME WireInv, ChipInv, SentInv, ChipStep, NEW j \in Keys
  PROVE  /\ Grows(j) /\ BytesSent(j) \in Nat /\ BytesSent(j)' \in Nat
         /\ chip[j].st \in {"open", "gone"} =>
              chip'[j].their_isn = chip[j].their_isn
<1>1. PICK k \in Keys : Advances(k)
  BY ChipAdvances
<1>2. BytesSent(j) \in Nat
  BY SentTyped DEF SentInv
<1>3. CASE j = k
  <2>1. Grows(k) /\ Hears(k) /\ SentOK(k)'
    BY <1>1 DEF Advances
  <2>2. BytesSent(k)' \in Nat
    BY <2>1, ByteRange DEF SentOK, StartOK
  <2> QED
    BY <1>2, <1>3, <2>1, <2>2 DEF Hears
<1>4. CASE j # k
  <2>1. chip'[j] = chip[j]
    BY <1>1, <1>4 DEF Advances
  <2>2. BytesSent(j)' = BytesSent(j)
    BY <2>1 DEF BytesSent
  <2> QED
    BY <1>2, <2>1, <2>2 DEF Grows
<1> QED
  BY <1>3, <1>4

(* What the gateway owes a connection stays so.                              *)
LEMMA ChipStepConn ==
  ASSUME WaitInv, WireInv, ChipInv, SentInv, SettledStays, ChipStep,
         UNCHANGED vars, NEW c \in Conns, ConnUp(c)
  PROVE  ConnUp(c)'
<1> PICK k : k = key[c]
  OBVIOUS
<1>1. /\ UNCHANGED <<state, key, our_isn, our_seq, chip_isn, pump, handler,
                     host>>
      /\ UNCHANGED <<conns, written, pending_payload, pending_eof, running>>
  BY DEF vars, fieldVars, otherVars, idVars, seqVars, bufVars, tableVars,
         taskVars
<1>2. /\ InGrace(c)' <=> InGrace(c)
      /\ EndDue(c)' <=> EndDue(c)
      /\ Registered(c)' <=> Registered(c)
      /\ Taken(c)' = Taken(c) /\ key'[c] = k
  BY <1>1 DEF InGrace, EndDue, FinInHand, Registered, Taken
<1>3. TypeOK /\ key[c] \in Keys \cup {None}
  BY DEF WaitInv, TypeInv, TypeOK
<1>4. PastOK(c)'
  <2>1. Settled(k) /\ k \in Keys => Settled(k)'
    BY DEF SettledStays
  <2>2. \/ state[c] # "CLOSED" \/ \E o \in Starters : pump[c][o] \notin Early
        => k \in Keys
    BY ActiveMade DEF Early
  <2> QED
    BY <1>1, <1>2, <2>1, <2>2 DEF PastOK, ConnUp
<1>5. BytesOK(c)'
  <2>1. CASE k \in Keys
    <3>1. /\ Grows(k) /\ BytesSent(k) \in Nat /\ BytesSent(k)' \in Nat
          /\ Taken(c) \in Nat
      BY <1>3, <2>1, ChipGrows, TakenTyped
    <3>2. CASE k = None
      BY <1>2, <3>2 DEF BytesOK
    <3>3. CASE k # None
      <4>1. /\ chip_isn[c] = ChipISN /\ written[c] = Count(Len(written[c]))
            /\ pending_payload[c] =
                 [i \in 1 .. Len(pending_payload[c]) |-> Len(written[c]) + i]
            /\ Taken(c) <= BytesSent(k)
            /\ EndDue(c) => chip[k].fin /\ Taken(c) = BytesSent(k)
        BY <3>3 DEF BytesOK, ConnUp
      <4>2. Taken(c) <= BytesSent(k)'
        BY <3>1, <4>1 DEF Grows
      <4>3. EndDue(c) => chip'[k].fin /\ Taken(c) = BytesSent(k)'
        BY <3>1, <4>1 DEF Grows
      <4> QED
        BY <1>1, <1>2, <4>1, <4>2, <4>3 DEF BytesOK
    <3> QED
      BY <3>2, <3>3
  <2>2. CASE k = None
    BY <1>2, <2>2 DEF BytesOK
  <2> QED
    BY <1>3, <2>1, <2>2
<1>6. FlowOK(c)'
  <2>1. SUFFICES ASSUME running, Registered(c),
                        state[c] \in {"SYN_RCVD", "ESTABLISHED"}
                 PROVE  FlowOK(c)'
    BY <1>1, <1>2 DEF FlowOK
  <2>2. k \in Keys
    BY <2>1, ActiveMade
  <2>3. PICK n : n = Taken(c) /\ n \in Nat
    BY <1>3, TakenTyped
  <2>4. Flow(k, n) => Flow(k, n)'
    BY <2>2, <2>3, ChipStepFlow
  <2>5. Plain(k) => Plain(k)'
    BY <2>2, ChipStepPlain
  <2>6. Doomed(c) => Doomed(c)'
    BY <1>1, <1>2, <2>2, ChipGrows DEF Doomed, Grows
  <2>7. /\ state[c] = "ESTABLISHED" => Flow(k, n)
        /\ state[c] = "SYN_RCVD" => Plain(k) /\ (Flow(k, n) \/ Doomed(c))
    BY <2>1, <2>3 DEF FlowOK, ConnUp
  <2> QED
    BY <1>1, <1>2, <2>3, <2>4, <2>5, <2>6, <2>7 DEF FlowOK
<1> QED
  BY <1>4, <1>5, <1>6 DEF ConnUp

(* So the chip's steps keep the invariant.                                   *)
LEMMA ChipStepUp ==
  ASSUME WaitInv, WireInv, ChipInv, UpInv, SettledStays, ChipStep,
         UNCHANGED vars
  PROVE  UpInv'
<1>1. SentInv /\ AckInv /\ KeyInv
  BY DEF UpInv
<1>2. SentInv' /\ AckInv' /\ KeyInv'
  BY <1>1, ChipStepSent, ChipStepAcks, ChipStepKeys
<1>3. \A c \in Conns : ConnUp(c)'
  BY <1>1, ChipStepConn DEF UpInv
<1> QED
  BY <1>2, <1>3 DEF UpInv

-----------------------------------------------------------------------------
(* The gateway's steps.                                                      *)

(* The key of a connection in its handshake gets plain frames: a pump that   *)
(* has something to send is of the connection in the table.                  *)
LEMMA PlainKept ==
  ASSUME WaitInv, OwnInv, WireInv, WireInv', GwStep, [Next]_vars,
         NEW d \in Conns, PastOK(d), Registered(d), state[d] = "SYN_RCVD",
         NEW k, k = key[d], Plain(k)
  PROVE  Plain(k)'
<1>1. k \in Keys /\ conns[k] = d
  BY DEF WaitInv, WaitOK, Registered
<1>2. None \notin Conns
  BY TcpNatAssumption
<1>3. ASSUME NEW c \in Conns, NEW o \in Starters, key[c] = k,
             pump[c][o] = "read"
      PROVE  host[c] \notin {"open", "eof"} /\ ~Carries(c)
  <2>1. c # d
    BY <1>3 DEF PastOK, Early
  <2>2. ASSUME host[c] \in {"open", "eof"} PROVE FALSE
    BY <1>1, <1>3, <2>1, <2>2 DEF OwnInv, OwnOK
  <2>3. ASSUME Carries(c) PROVE FALSE
    <3>1. MayClose(c, <<"state">>)
      BY <2>3 DEF Carries, MayClose
    <3>2. conns[k] = c \/ conns[k] = None
      BY <1>3, <3>1 DEF OwnInv, OwnOK
    <3> QED
      BY <1>1, <1>2, <2>1, <3>2
  <2> QED
    BY <2>2, <2>3
<1> QED
  BY <1>1, <1>3, GwPlain

(* A steady connection keeps what it owes, if its bytes still come.          *)
LEMMA SteadyUp ==
  ASSUME WaitInv, OwnInv, WireInv, WireInv', SettledStays, GwStep,
         [Next]_vars, NEW d \in Conns, ConnUp(d), Steady(d),
         running' => running, chip' = chip, NEW k, k = key[d],
         running' /\ Registered(d) /\ state'[d] \in {"SYN_RCVD", "ESTABLISHED"}
           => \A n \in Nat : Flow(k, n) => Flow(k, n)'
  PROVE  ConnUp(d)'
<1>1. TypeOK /\ OwnOK(d) /\ PastOK(d) /\ BytesOK(d) /\ FlowOK(d)
  BY DEF WaitInv, TypeInv, OwnInv, ConnUp
<1>2. Registered(d) => key[d] # None
  <2>1. Unused(d) => ~Registered(d)
    BY DEF Unused
  <2> QED
    BY <2>1, RegisteredMade
<1>3. Registered(d) /\ state[d] = "SYN_RCVD" /\ Plain(k) => Plain(k)'
  BY <1>1, PlainKept
<1>4. FlowOK(d)'
  BY <1>1, <1>2, <1>3, SteadyFlow
<1>5. PastOK(d)'
  BY <1>1, SteadyPast
<1>6. BytesOK(d)'
  BY <1>1, SteadyBytesOK
<1> QED
  BY <1>4, <1>5, <1>6 DEF ConnUp

(* Two numbers at different distances from a third are different.            *)
LEMMA SeqApart ==
  ASSUME NEW a \in Int, NEW x \in SeqNums, NEW y \in SeqNums,
         seq_add(a, x) = seq_add(a, y) \/ seq_add(x, a) = seq_add(y, a)
  PROVE  x = y
<1>1. x \in Int /\ y \in Int /\ SeqMod \in Int
  BY SeqNumsAreInts, SeqModAssumption
<1>2. PICK s \in Int, t \in Int : s = a + x /\ t = a + y
  BY <1>1
<1>3. s % SeqMod = t % SeqMod
  <2>1. x + a = s /\ y + a = t
    BY <1>1, <1>2
  <2> QED
    BY <1>2, <2>1 DEF seq_add
<1>4. PICK p \in Int, r \in SeqNums : s = p * SeqMod + r /\ r = s % SeqMod
  BY Divides
<1>5. PICK q \in Int, u \in SeqNums : t = q * SeqMod + u /\ u = t % SeqMod
  BY Divides
<1>6. r = u /\ r \in Int
  BY <1>3, <1>4, <1>5, SeqNumsAreInts
<1>7. 0 * SeqMod + x = (p - q) * SeqMod + y
  <2> DEFINE pm == p * SeqMod
             qm == q * SeqMod
  <2>1. pm \in Int /\ qm \in Int
    BY <1>1
  <2>2. (p - q) * SeqMod = pm - qm /\ 0 * SeqMod = 0
    BY <1>1
  <2>3. s = pm + r /\ t = qm + r
    BY <1>4, <1>5, <1>6
  <2> HIDE DEF pm, qm
  <2>4. x = (pm - qm) + y
    BY <1>1, <1>2, <1>6, <2>1, <2>3
  <2> QED
    BY <1>1, <2>2, <2>4
<1>8. p - q \in Int /\ 0 \in Int
  OBVIOUS
<1> QED
  BY <1>7, <1>8, OneRemainder

(* The head of the wire is part of the chip's stream.                        *)
LEMMA HeadPart ==
  ASSUME WireInv, SentInv, to_gw # <<>>
  PROVE  SegOK(Head(to_gw))
<1>1. 1 \in DOMAIN to_gw /\ to_gw[1] = Head(to_gw)
  BY DEF WireInv
<1> QED
  BY <1>1 DEF SentInv

(* The connection that a SYN makes starts with the chip's number, and none   *)
(* of its bytes.                                                             *)
LEMMA PassiveUp ==
  ASSUME WaitInv, WireInv, SentInv, NEW h \in Handlers, NEW k \in Keys,
         NEW seg \in Segment, on_passive_syn(h, k, seg), handler[h].pc = "idle",
         to_gw # <<>>, k = Head(to_gw).key, seg = Head(to_gw).seg, chip' = chip,
         NEW d \in Conns, key[d] = None, key'[d] = k
  PROVE  ConnUp(d)'
<1>0. /\ key \in [Conns -> Keys \cup {None}]
      /\ chip_isn \in [Conns -> SeqNums] /\ our_isn \in [Conns -> SeqNums]
      /\ our_seq \in [Conns -> SeqNums] /\ TypeInv /\ None \notin Keys
  BY TcpNatAssumption DEF WaitInv, TypeInv, TypeOK
<1>1. PICK c \in Conns, isn \in ISNs :
        /\ key' = [key EXCEPT ![c] = k]
        /\ chip_isn' = [chip_isn EXCEPT ![c] = seg.seq]
        /\ our_isn' = [our_isn EXCEPT ![c] = isn]
        /\ our_seq' = [our_seq EXCEPT ![c] = seq_add(isn, 1)]
        /\ handler' = [handler EXCEPT ![h] = At("grace", c, seg)]
  BY DEF on_passive_syn
<1>2. c = d
  BY <1>0, <1>1
<1>3. /\ Unused(d) /\ \A g \in Handlers : handler[g].conn # d
      /\ UNCHANGED <<state, host, written, pending_payload, pending_eof, pump,
                     conns>>
  BY DEF on_passive_syn, WaitInv, WaitOK, bufVars, taskVars
<1>4. chip_isn'[d] = ChipISN
  <2>1. "SYN" \in seg.flags
    BY DEF on_passive_syn, OpensNew
  <2>2. seg.seq = SeqAt(0)
    BY <2>1, HeadPart DEF SegOK, PartOK, Carries1
  <2>3. seg.seq = ChipISN
    <3>1. ChipISN + 0 = ChipISN /\ ChipISN \in SeqNums
      BY TunnelAssumption, SeqNumsAreInts
    <3> QED
      BY <2>2, <3>1, Remains DEF SeqAt, seq_add
  <2> QED
    BY <1>0, <1>1, <1>2, <2>3
<1>5. PastOK(d)'
  <2>1. our_seq'[d] = seq_add(our_isn'[d], 1)
    BY <1>0, <1>1, <1>2
  <2> QED
    BY <1>3, <2>1 DEF PastOK, Unused, Early
<1>6. BytesOK(d)'
  <2>1. ~FinInHand(d)'
    <3>1. \A g \in Handlers : handler'[g].conn = d => handler'[g].pc = "grace"
      BY <1>0, <1>1, <1>3 DEF At, TypeInv, TypeOK
    <3> QED
      BY <3>1 DEF FinInHand
  <2>2. ~EndDue(d)'
    BY <1>3, <2>1 DEF EndDue, Unused
  <2>3. written'[d] = <<>> /\ pending_payload'[d] = <<>>
    BY <1>3 DEF Unused
  <2>4. /\ <<>> = Count(0) /\ Len(<<>>) = 0 /\ <<>> = [i \in 1 .. 0 |-> 0 + i]
        /\ Taken(d)' = 0
    BY <2>3 DEF Count, Taken
  <2>5. BytesSent(k) \in Nat /\ BytesSent(k)' = BytesSent(k)
    BY SentTyped DEF SentInv, BytesSent
  <2>6. written'[d] = Count(Len(written'[d]))
    BY <2>3, <2>4
  <2>7. pending_payload'[d] =
          [i \in 1 .. Len(pending_payload'[d]) |-> Len(written'[d]) + i]
    BY <2>3, <2>4
  <2> QED
    BY <1>4, <2>2, <2>4, <2>5, <2>6, <2>7 DEF BytesOK
<1>7. FlowOK(d)'
  BY <1>3 DEF FlowOK, Unused, Registered
<1> QED
  BY <1>5, <1>6, <1>7 DEF ConnUp

(* A connection is registered with all the chip's bytes still to come.       *)
LEMMA AnswerUp ==
  ASSUME WaitInv, OwnInv, WireInv, WireInv', SentInv, KeyInv, TaskRuns,
         [Next]_vars, NEW h \in Handlers, GraceOpened(h) \/ GraceOver(h),
         NEW c \in Conns, c = handler[h].conn, ConnUp(c)
  PROVE  ConnUp(c)'
<1> PICK k : k = key[c]
  OBVIOUS
<1>0. TypeOK /\ handler[h].pc = "grace" /\ k \in Keys /\ k # None /\ GraceFor(k)
  BY HeldMade DEF WaitInv, TypeInv, GraceOpened, GraceOver, Resumes, GraceFor
<1>1. /\ AnswerSyn(h, c)
      /\ \/ deferred' = deferred /\ host' = [host EXCEPT ![c] = "open"]
         \/ deferred' = [deferred EXCEPT ![c] = "created"] /\ host' = host
  BY DEF GraceOpened, GraceOver
<1>2. /\ Unused(c) /\ \A g \in Handlers : handler[g].conn = c => g = h
      /\ handler'[h].pc = "synack"
      /\ \A g \in Handlers \ {h} : handler'[g] = handler[g]
  BY <1>0, <1>1, AnswerSynAlone
<1>3. /\ state'[c] = "SYN_RCVD" /\ host'[c] \in {"none", "open"}
      /\ UNCHANGED <<key, chip_isn, our_isn, our_seq, written, pending_payload,
                     pending_eof, pump>>
      /\ to_gw' = to_gw /\ chip' = chip
  BY <1>0, <1>1, <1>2
  DEF AnswerSyn, TypeOK, idVars, seqVars, bufVars, TaskRuns, Unused
<1>4. InGrace(c) /\ conns[k] = None /\ None \notin Conns
  BY <1>0, TcpNatAssumption DEF InGrace, OwnInv, OwnOK
<1>5. Plain(k) /\ Flow(k, 0)
  BY <1>0 DEF KeyInv, KeyOK, Settled
<1>6. Plain(k)'
  <2>1. ASSUME NEW b \in Conns, NEW o \in Starters, key[b] = k,
               pump[b][o] = "read"
        PROVE  host[b] \notin {"open", "eof"} /\ ~Carries(b)
    <3>1. ASSUME host[b] \in {"open", "eof"} PROVE FALSE
      BY <1>4, <2>1, <3>1 DEF OwnInv, OwnOK
    <3>2. ASSUME Carries(b) PROVE FALSE
      <4>1. MayClose(b, <<"state">>)
        BY <3>2 DEF Carries, MayClose
      <4>2. conns[k] = b \/ Settled(k)
        BY <2>1, <4>1 DEF OwnInv, OwnOK
      <4> QED
        BY <1>0, <1>4, <4>2 DEF Settled
    <3> QED
      BY <3>1, <3>2
  <2> QED
    BY <1>0, <1>5, <2>1, GwPlain DEF GwStep
<1>7. /\ written'[c] = <<>> /\ pending_payload'[c] = <<>> /\ Taken(c)' = 0
      /\ Taken(c) = 0
  <2>1. written[c] = <<>> /\ pending_payload[c] = <<>>
    BY <1>2 DEF Unused
  <2> QED
    BY <1>3, <2>1 DEF Taken
<1>8. FlowOK(c)'
  <2>1. Flow(k, 0)'
    BY <1>3, <1>5, FlowSame
  <2> QED
    BY <1>3, <1>6, <1>7, <2>1 DEF FlowOK
<1>9. PastOK(c)'
  BY <1>2, <1>3, <1>4 DEF PastOK, ConnUp, Unused, Early
<1>10. BytesOK(c)'
  <2>1. ~FinInHand(c)'
    <3>1. \A g \in Handlers : handler'[g].conn = c => g = h
      BY <1>2
    <3> QED
      BY <1>2, <3>1 DEF FinInHand
  <2>2. ~EndDue(c)'
    BY <1>2, <1>3, <2>1 DEF EndDue, Unused
  <2>3. BytesSent(k)' = BytesSent(k)
    BY <1>3 DEF BytesSent
  <2> QED
    BY <1>0, <1>3, <1>7, <2>2, <2>3 DEF BytesOK, ConnUp
<1> QED
  BY <1>8, <1>9, <1>10 DEF ConnUp

-----------------------------------------------------------------------------
(* A segment of a connection in the table: what it can do.                   *)

(* It comes on an open connection, or opens it.                              *)
Acks(c, seg)  == "ACK" \in seg.flags /\ seg.ack = our_seq[c]
Opens(c, seg) ==
    state[c] = "ESTABLISHED" \/ (state[c] = "SYN_RCVD" /\ Acks(c, seg))

HoldsSame(c) ==
    written'[c] = written[c] /\ pending_payload'[c] = pending_payload[c]

(* It brings nothing that is taken,                                          *)
Skips(c, seg) ==
    /\ HoldsSame(c) /\ host'[c] = host[c] /\ pending_eof'[c] = pending_eof[c]
    /\ ~FinInHand(c)'
    /\ state'[c] = "ESTABLISHED" =>
         Opens(c, seg) /\ (seg.data = <<>> \/ ~IsNext(c, seg))
    /\ state'[c] = "SYN_RCVD" => state[c] = "SYN_RCVD" /\ ~Acks(c, seg)
    /\ state'[c] \notin {"CLOSED", "SYN_RCVD"} =>
         state[c] \notin {"CLOSED", "SYN_RCVD"} \/ Opens(c, seg)

(* the next bytes,                                                           *)
Takes(c, seg) ==
    /\ Opens(c, seg) /\ IsNext(c, seg) /\ seg.data # <<>>
    /\ state'[c] = "ESTABLISHED"
    /\ host'[c] = host[c] /\ pending_eof'[c] = pending_eof[c]
    /\ \/ /\ host[c] = "none" /\ written'[c] = written[c]
          /\ pending_payload'[c] = pending_payload[c] \o seg.data
       \/ /\ host[c] # "none" /\ pending_payload'[c] = pending_payload[c]
          /\ written'[c] = written[c] \o seg.data
    /\ FinInHand(c)' => "FIN" \in seg.flags

(* or the end of the stream.                                                 *)
Ends(c, seg) ==
    /\ state[c] = "ESTABLISHED" /\ state'[c] = "CLOSE_WAIT"
    /\ seg.data = <<>> /\ "FIN" \in seg.flags
    /\ HoldsSame(c)
    /\ host'[c] = IF host[c] = "open" THEN "eof" ELSE host[c]

(* A handler that was idle and goes nowhere with a FIN has none.             *)
LEMMA NoFinTaken ==
  ASSUME TypeInv, NEW h, Handlers = {h}, handler[h].pc = "idle", NEW c,
         \/ handler' = handler
         \/ \E x : /\ handler' = [handler EXCEPT ![h] = x]
                   /\ x.pc \notin {"acked", "drain"}
  PROVE  ~FinInHand(c)'
<1>1. handler'[h].pc \notin {"acked", "drain"}
  BY DEF TypeInv, TypeOK
<1> QED
  BY <1>1 DEF FinInHand

(* A payload is taken, or is not the next one.                               *)
LEMMA PayloadKinds ==
  ASSUME TypeInv, NEW h, Handlers = {h}, handler[h].pc = "idle",
         NEW c \in Conns, NEW seg, OnPayload(h, c, seg), seg.data # <<>>,
         Opens(c, seg), state'[c] = "ESTABLISHED"
  PROVE  Skips(c, seg) \/ Takes(c, seg)
<1>0. /\ written \in [Conns -> Seq(Nat)]
      /\ handler \in [Handlers -> HandlerType]
      /\ pending_payload \in [Conns -> Seq(Nat)]
  BY DEF TypeInv, TypeOK
<1>1. CASE /\ ~IsNext(c, seg)
           /\ UNCHANGED <<seqVars, host, bufVars, handler>>
  <2>1. ~FinInHand(c)'
    BY <1>1, NoFinTaken
  <2> QED
    BY <1>1, <2>1 DEF Skips, HoldsSame, bufVars
<1>2. CASE /\ IsNext(c, seg) /\ host[c] = "none"
           /\ pending_payload' = [pending_payload EXCEPT ![c] = @ \o seg.data]
           /\ AfterPayload(h, c, seg)
           /\ UNCHANGED <<our_seq, host, written, pending_eof>>
  <2>1. FinInHand(c)' => "FIN" \in seg.flags
    <3>1. ASSUME "FIN" \notin seg.flags PROVE ~FinInHand(c)'
      <4>1. handler' = [handler EXCEPT ![h] = Idle]
        BY <1>2, <3>1 DEF AfterPayload
      <4> QED
        BY <4>1, NoFinTaken, IdleTyped
    <3> QED
      BY <3>1
  <2> QED
    BY <1>0, <1>2, <2>1 DEF Takes
<1>3. CASE /\ IsNext(c, seg) /\ host[c] # "none"
           /\ written' = [written EXCEPT ![c] = @ \o seg.data]
           /\ handler' = [handler EXCEPT ![h] = At("drain", c, seg)]
           /\ UNCHANGED <<seqVars, host, pending_payload, pending_eof>>
  <2>1. handler'[h].seg = seg /\ handler'[h].pc = "drain"
    BY <1>0, <1>3 DEF At
  <2>2. FinInHand(c)' => "FIN" \in seg.flags
    BY <2>1 DEF FinInHand
  <2> QED
    BY <1>0, <1>3, <2>2 DEF Takes
<1> QED
  BY <1>1, <1>2, <1>3 DEF OnPayload

(* Every segment of the connection is of one of the three kinds.             *)
LEMMA SegmentKinds ==
  ASSUME TypeInv, NEW h, Handlers = {h}, handler[h].pc = "idle",
         NEW c \in Conns, NEW seg, ConnSegment(h, c, seg)
  PROVE  Skips(c, seg) \/ Takes(c, seg) \/ Ends(c, seg)
<1>0. /\ state \in [Conns -> States] /\ host \in [Conns ->
             {"none", "open", "eof", "closed"}]
  BY DEF TypeInv, TypeOK
<1>1. ASSUME Ignore, state[c] # "ESTABLISHED",
             state[c] = "SYN_RCVD" => ~Acks(c, seg)
      PROVE  Skips(c, seg)
  <2>1. ~FinInHand(c)'
    BY <1>1, NoFinTaken DEF Ignore
  <2> QED
    BY <1>1, <2>1 DEF Ignore, fieldVars, bufVars, Skips, HoldsSame
<1>2. CASE state[c] = "SYN_RCVD" /\ on_handshake_complete(h, c, seg)
  <2>1. CASE ~Acks(c, seg)
    BY <1>1, <1>2, <2>1 DEF on_handshake_complete, Acks
  <2>2. CASE Acks(c, seg)
    <3>1. state'[c] = "ESTABLISHED" /\ Opens(c, seg)
      BY <1>0, <1>2, <2>2 DEF on_handshake_complete, Acks, Opens
    <3>2. CASE seg.data # <<>>
      <4>1. OnPayload(h, c, seg)
        BY <1>2, <2>2, <3>2 DEF on_handshake_complete, Acks
      <4> QED
        BY <3>1, <3>2, <4>1, PayloadKinds
    <3>3. CASE seg.data = <<>>
      <4>1. UNCHANGED <<seqVars, host, bufVars, handler>>
        BY <1>2, <2>2, <3>3 DEF on_handshake_complete, Acks
      <4>2. ~FinInHand(c)'
        BY <4>1, NoFinTaken
      <4> QED
        BY <3>1, <3>3, <4>1, <4>2 DEF bufVars, Skips, HoldsSame
    <3> QED
      BY <3>2, <3>3
  <2> QED
    BY <2>1, <2>2
<1>3. CASE state[c] = "ESTABLISHED" /\ on_data(h, c, seg)
  <2>1. Opens(c, seg)
    BY <1>3 DEF Opens
  <2>2. CASE seg.data # <<>>
    <3>1. OnPayload(h, c, seg) /\ state'[c] = "ESTABLISHED"
      BY <1>3, <2>2 DEF on_data
    <3> QED
      BY <2>1, <2>2, <3>1, PayloadKinds
  <2>3. CASE seg.data = <<>> /\ "FIN" \in seg.flags
    <3>1. AcceptFin(c)
      BY <1>3, <2>3 DEF on_data
    <3>2. /\ state'[c] = "CLOSE_WAIT" /\ HoldsSame(c)
          /\ host'[c] = IF host[c] = "open" THEN "eof" ELSE host[c]
      BY <1>0, <3>1 DEF AcceptFin, StateAfterFin, HoldsSame
    <3> QED
      BY <1>3, <2>3, <3>2 DEF Ends
  <2>4. CASE seg.data = <<>> /\ "FIN" \notin seg.flags
    <3>1. Ignore
      BY <1>3, <2>4 DEF on_data
    <3>2. ~FinInHand(c)'
      BY <3>1, NoFinTaken DEF Ignore
    <3> QED
      BY <1>3, <2>1, <2>4, <3>1, <3>2
      DEF Ignore, fieldVars, bufVars, Skips, HoldsSame
  <2> QED
    BY <2>2, <2>3, <2>4
<1>4. CASE /\ state[c] \in {"FIN_WAIT_1", "FIN_WAIT_2"}
           /\ on_fin_wait(h, c, seg)
  <2>1. /\ state'[c] \in {"FIN_WAIT_1", "FIN_WAIT_2"}
        /\ UNCHANGED <<host, bufVars>>
    BY <1>0, <1>4 DEF on_fin_wait
  <2>2. \/ handler' = handler
        \/ handler' = [handler EXCEPT ![h] = At("finack", c, NoSegment)]
    BY <1>4 DEF on_fin_wait
  <2>3. At("finack", c, NoSegment).pc = "finack"
    BY DEF At
  <2>4. ~FinInHand(c)'
    BY <2>2, <2>3, NoFinTaken
  <2> QED
    BY <1>4, <2>1, <2>4 DEF bufVars, Skips, HoldsSame
<1>5. CASE state[c] \in {"CLOSE_WAIT", "CLOSED", "LAST_ACK"} /\ Ignore
  BY <1>1, <1>5
<1> QED
  BY <1>2, <1>3, <1>4, <1>5 DEF ConnSegment

(* The byte at the head of the wire is the one expected, or it is not the    *)
(* first that the connection lacks: the sequence numbers are the chip's.     *)
LEMMA HeadByte ==
  ASSUME ChipBytes + 1 < SeqMod, StreamInv, WireInv, SentInv,
         NEW h, Handlers = {h}, handler[h].pc = "idle", to_gw # <<>>,
         NEW k \in Keys, k = Head(to_gw).key, NEW seg, seg = Head(to_gw).seg,
         NEW c \in Conns, conns[k] = c, BytesOK(c),
         state[c] \in {"SYN_RCVD", "ESTABLISHED"}, seg.data # <<>>,
         NEW n, n = Taken(c)
  PROVE  /\ n \in Nat /\ n <= BytesSent(k) /\ BytesSent(k) \in Nat
         /\ \E b \in 1 .. BytesSent(k) :
              seg.data = <<b>> /\ (IsNext(c, seg) <=> b = n + 1)
<1>0. /\ key[c] = k /\ key[c] # None /\ TypeOK /\ Registered(c)
      /\ ChipISN \in Int /\ ChipBytes \in Nat /\ SeqMod \in Int
  <2>1. TypeOK /\ \A d \in Conns : WaitOK(d)
    BY DEF StreamInv, WaitInv, TypeInv
  <2>2. key[c] = k /\ key[c] # None /\ Registered(c)
    BY <2>1, TcpNatAssumption DEF WaitOK, Registered
  <2>3. ChipISN \in Int /\ ChipBytes \in Nat /\ SeqMod \in Int
    BY SeqNumsAreInts, SeqModAssumption, ByteRange, TunnelAssumption
  <2> QED
    BY <2>1, <2>2, <2>3
<1>1. n \in Nat /\ n <= BytesSent(k) /\ chip_isn[c] = ChipISN
  BY <1>0, TakenTyped DEF BytesOK
<1>2. BytesSent(k) \in Nat /\ BytesSent(k) <= ChipBytes
  BY SentTyped DEF SentInv
<1>3. PICK b \in 1 .. BytesSent(k) : seg.data = <<b>> /\ seg.seq = SeqAt(b)
  <2>1. SegOK(Head(to_gw))
    BY HeadPart
  <2>2. PICK p \in PartType :
          PartOK(k, p) /\ seg.data = p.data /\ seg.seq = SeqAt(p.off)
    BY <2>1 DEF SegOK, Carries1
  <2> QED
    BY <2>2 DEF PartOK
<1>4. chip_seq[c] = SeqAt(n + 1)
  <2>1. Uncounted(c) = 0
    BY AtOne
  <2>2. chip_seq[c] = Base(c)
    BY <1>0 DEF StreamInv, StreamOK, CountOK
  <2>3. Base(c) = seq_add(ChipISN, 1 + (n - 0))
    BY <1>1, <2>1 DEF Base, Taken
  <2>4. 1 + (n - 0) = n + 1
    BY <1>1
  <2> QED
    BY <2>2, <2>3, <2>4 DEF SeqAt
<1>5. b \in SeqNums /\ n + 1 \in SeqNums
  BY <1>0, <1>1, <1>2 DEF SeqNums
<1>6. IsNext(c, seg) <=> SeqAt(b) = SeqAt(n + 1)
  BY <1>3, <1>4 DEF IsNext
<1>7. SeqAt(b) = SeqAt(n + 1) <=> b = n + 1
  BY <1>0, <1>5, SeqApart DEF SeqAt
<1> QED
  BY <1>1, <1>2, <1>3, <1>6, <1>7

(* The ACK at the head of the wire, as long as the chip heard nothing.       *)
LEMMA HeadAck ==
  ASSUME WireInv, SentInv, AckInv, to_gw # <<>>,
         NEW k \in Keys, k = Head(to_gw).key, NEW seg, seg = Head(to_gw).seg,
         Silent(k), "ACK" \in seg.flags
  PROVE  /\ seg.ack = seq_add(chip[k].their_isn, 1)
         /\ chip[k].st \in {"open", "gone"}
<1>1. 1 \in DOMAIN to_gw /\ to_gw[1] = Head(to_gw)
  BY DEF WireInv
<1>2. IsAck(k, to_gw[1])
  BY <1>1 DEF IsAck
<1> QED
  BY <1>1, <1>2, AckOpen DEF AckInv, AckOK

(* A handshake that completes is with this connection's SYN+ACK: what the    *)
(* connection lacks comes.                                                   *)
LEMMA OpensFlow ==
  ASSUME WaitInv, WireInv, SentInv, AckInv, running, to_gw # <<>>,
         NEW k \in Keys, k = Head(to_gw).key, NEW seg, seg = Head(to_gw).seg,
         NEW c \in Conns, conns[k] = c, ConnUp(c)
  PROVE  /\ Opens(c, seg) => Flow(k, Taken(c))
         /\ state[c] = "SYN_RCVD" /\ "ACK" \in seg.flags /\ ~Acks(c, seg) =>
              Doomed(c)
<1>0. /\ key[c] = k /\ Registered(c) /\ FlowOK(c) /\ PastOK(c)
      /\ our_isn[c] \in SeqNums /\ chip[k].their_isn \in SeqNums /\ 1 \in Int
  BY DEF WaitInv, WaitOK, TypeInv, TypeOK, Registered, ConnUp, WireInv, ChipType
<1>1. CASE state[c] = "ESTABLISHED"
  BY <1>0, <1>1 DEF FlowOK
<1>2. CASE state[c] = "SYN_RCVD"
  <2>1. Silent(k) /\ (Flow(k, Taken(c)) \/ Doomed(c))
    BY <1>0, <1>2 DEF FlowOK, Plain
  <2>2. our_seq[c] = seq_add(our_isn[c], 1)
    BY <1>0, <1>2 DEF PastOK
  <2>3. CASE "ACK" \in seg.flags
    <3>1. /\ seg.ack = seq_add(chip[k].their_isn, 1)
          /\ chip[k].st \in {"open", "gone"}
      BY <2>1, <2>3, HeadAck
    <3>2. Acks(c, seg) <=>
            seq_add(chip[k].their_isn, 1) = seq_add(our_isn[c], 1)
      BY <2>2, <2>3, <3>1 DEF Acks
    <3>3. Acks(c, seg) <=> chip[k].their_isn = our_isn[c]
      BY <1>0, <3>2, SeqApart
    <3> QED
      BY <1>0, <1>2, <2>1, <3>1, <3>3 DEF Doomed, Opens
  <2>4. CASE "ACK" \notin seg.flags
    BY <1>2, <2>4 DEF Opens, Acks
  <2> QED
    BY <2>3, <2>4
<1>3. CASE state[c] \notin {"ESTABLISHED", "SYN_RCVD"}
  BY <1>3 DEF Opens
<1> QED
  BY <1>1, <1>2, <1>3

(* A segment that brings nothing leaves what the connection lacks to come.   *)
LEMMA SkipFlow ==
  ASSUME WireInv, SentInv, to_gw # <<>>, to_gw' = Tail(to_gw), chip' = chip,
         NEW k \in Keys, k = Head(to_gw).key, NEW n \in Nat, Flow(k, n),
         \/ Head(to_gw).seg.data = <<>>
         \/ \E b \in 1 .. BytesSent(k) :
              Head(to_gw).seg.data = <<b>> /\ b # n + 1
  PROVE  Flow(k, n)'
<1>1. BytesSent(k) \in Nat
  BY SentTyped DEF SentInv
<1>2. ASSUME NEW m \in n + 1 .. BytesSent(k), Head(to_gw).seg.data = <<m>>
      PROVE  FALSE
  <2>1. Head(to_gw).seg.data # <<>>
    <3>1. <<m>> # <<>>
      OBVIOUS
    <3> QED
      BY <1>2, <3>1
  <2>2. PICK b \in 1 .. BytesSent(k) :
          Head(to_gw).seg.data = <<b>> /\ b # n + 1
    BY <2>1
  <2>3. <<b>> = <<m>>
    BY <1>2, <2>2
  <2>4. b = m
    BY <2>3
  <2>5. b <= n + 1
    BY <2>2, HeadNext
  <2> QED
    BY <1>1, <2>2, <2>4, <2>5
<1>3. \A m \in n + 1 .. BytesSent(k) :
        Head(to_gw).key = k => Head(to_gw).seg.data # <<m>>
  BY <1>2
<1>4. n <= n
  OBVIOUS
<1> QED
  BY <1>3, <1>4, TailFlow

(* One number more at the end of a sequence.                                 *)
LEMMA JoinOne ==
  ASSUME NEW x \in Seq(Nat), NEW a \in Nat, NEW z \in Seq(Nat), NEW p \in Nat,
         Len(x) = p, Len(z) = p + 1,
         \A i \in 1..p : z[i] = x[i], z[p + 1] = a
  PROVE  x \o <<a>> = z
<1> PICK y : y = <<a>>
  OBVIOUS
<1>1. y \in Seq(Nat) /\ Len(y) = 1 /\ y[1] = a
  OBVIOUS
<1>2. x \o y \in Seq(Nat)
  BY <1>1
<1>3. Len(x \o y) = p + 1
  BY <1>1, SMTT(30)
<1>4. \A i \in 1..p : (x \o y)[i] = x[i]
  BY <1>1, SMTT(30)
<1>5. (x \o y)[p + 1] = a
  BY <1>1, SMTT(30)
<1>6. \A i \in 1..p + 1 : (x \o y)[i] = z[i]
  BY <1>4, <1>5
<1>7. x \o y = z
  BY <1>2, <1>3, <1>6
<1> QED
  BY <1>7

(* One more byte, given to the host or held for it.                          *)
LEMMA OneMore ==
  ASSUME NEW w \in Nat, NEW p \in Nat
  PROVE  /\ Count(w) \o <<w + 1>> = Count(w + 1) /\ Len(Count(w + 1)) = w + 1
         /\ [i \in 1..p |-> w + i] \o <<w + p + 1>> = [i \in 1..p + 1 |-> w + i]
         /\ Len([i \in 1..p + 1 |-> w + i]) = p + 1
<1>1. 1 \in Nat /\ w + 1 \in Nat
  OBVIOUS
<1>2. Count(w) \o [i \in 1..1 |-> w + i] = Count(w + 1)
  BY <1>1, CountJoins
<1>3. <<w + 1>> = [i \in 1..1 |-> w + i]
  OBVIOUS
<1>4. Len(Count(w + 1)) = w + 1
  BY <1>1, CountJoins
<1>5. /\ [i \in 1..p |-> w + i] \o <<w + p + 1>> = [i \in 1..p + 1 |-> w + i]
      /\ Len([i \in 1..p + 1 |-> w + i]) = p + 1
  <2> DEFINE x == [i \in 1..p |-> w + i]
             z == [i \in 1..p + 1 |-> w + i]
  <2>1. x \in Seq(Nat) /\ Len(x) = p /\ \A i \in 1..p : x[i] = w + i
    OBVIOUS
  <2>2. z \in Seq(Nat) /\ Len(z) = p + 1 /\ \A i \in 1..p + 1 : z[i] = w + i
    OBVIOUS
  <2> HIDE DEF x, z
  <2> PICK a \in Nat : a = w + p + 1
    OBVIOUS
  <2>3. z[p + 1] = a
    BY <2>2
  <2>4. \A i \in 1..p : z[i] = x[i]
    BY <2>1, <2>2
  <2>5. x \o <<a>> = z
    BY <2>1, <2>2, <2>3, <2>4, JoinOne, ZenonT(40)
  <2> QED
    BY <2>2, <2>5 DEF x, z
<1> QED
  BY <1>2, <1>3, <1>4, <1>5

(* A segment that brings nothing leaves the bytes as they are,               *)
LEMMA SkipBytes ==
  ASSUME NEW c \in Conns, NEW seg, Skips(c, seg), BytesOK(c), chip' = chip,
         key' = key, chip_isn' = chip_isn
  PROVE  BytesOK(c)' /\ Taken(c)' = Taken(c)
<1>1. \A k : BytesSent(k)' = BytesSent(k)
  BY DEF BytesSent
<1>2. EndDue(c)' => EndDue(c)
  BY DEF Skips, EndDue
<1>3. Taken(c)' = Taken(c)
  BY DEF Skips, HoldsSame, Taken
<1> QED
  BY <1>1, <1>2, <1>3 DEF BytesOK, Skips, HoldsSame

(* one with the next byte adds it,                                           *)
LEMMA TakeBytes ==
  ASSUME TypeOK, NEW k \in Keys, k # None, NEW c \in Conns, key[c] = k,
         NEW seg, Takes(c, seg),
         BytesOK(c), chip' = chip, key' = key, chip_isn' = chip_isn,
         pending_payload[c] # <<>> => host[c] = "none",
         NEW n \in Nat, n = Taken(c), seg.data = <<n + 1>>,
         BytesSent(k) \in Nat, n + 1 <= BytesSent(k),
         "FIN" \in seg.flags => chip[k].fin /\ seg.data = <<BytesSent(k)>>
  PROVE  BytesOK(c)' /\ Taken(c)' = n + 1
<1> PICK w, p : w = Len(written[c]) /\ p = Len(pending_payload[c])
  OBVIOUS
<1>0. w \in Nat /\ p \in Nat
  BY TakenTyped
<1>1. /\ n = w + p /\ written[c] = Count(w) /\ chip_isn[c] = ChipISN
      /\ pending_payload[c] = [i \in 1..p |-> w + i]
  BY DEF BytesOK, Taken
<1>2. ~EndDue(c)
  <2>1. EndDue(c) => n = BytesSent(k)
    BY DEF BytesOK
  <2> QED
    BY <2>1
<1>3. EndDue(c)' => chip[k].fin /\ n + 1 = BytesSent(k)
  <2>1. EndDue(c)' => "FIN" \in seg.flags
    BY <1>2 DEF EndDue, Takes
  <2>2. <<n + 1>> = <<BytesSent(k)>> => n + 1 = BytesSent(k)
    OBVIOUS
  <2> QED
    BY <2>1, <2>2
<1>4. BytesSent(k)' = BytesSent(k)
  BY DEF BytesSent
<1>5. CASE /\ host[c] = "none" /\ written'[c] = written[c]
           /\ pending_payload'[c] = pending_payload[c] \o seg.data
  <2>1. w + p + 1 = n + 1
    BY <1>0, <1>1
  <2>2. /\ pending_payload'[c] = [i \in 1..p + 1 |-> w + i]
        /\ Len([i \in 1..p + 1 |-> w + i]) = p + 1
    <3>1. /\ [i \in 1..p |-> w + i] \o <<w + p + 1>>
               = [i \in 1..p + 1 |-> w + i]
          /\ Len([i \in 1..p + 1 |-> w + i]) = p + 1
      BY <1>0, OneMore
    <3>2. seg.data = <<w + p + 1>>
      BY <2>1
    <3> QED
      BY <1>1, <1>5, <3>1, <3>2
  <2>3. Len(pending_payload'[c]) = p + 1 /\ Len(written'[c]) = w
    BY <1>5, <2>2
  <2>4. Taken(c)' = n + 1
    <3>1. w + (p + 1) = n + 1
      BY <1>0, <1>1
    <3> QED
      BY <2>3, <3>1 DEF Taken
  <2>5. pending_payload'[c] =
          [i \in 1 .. Len(pending_payload'[c]) |-> Len(written'[c]) + i]
    BY <2>2, <2>3
  <2>6. written'[c] = Count(Len(written'[c]))
    BY <1>1, <1>5
  <2> QED
    BY <1>1, <1>3, <1>4, <2>4, <2>5, <2>6 DEF BytesOK
<1>6. CASE /\ host[c] # "none" /\ pending_payload'[c] = pending_payload[c]
           /\ written'[c] = written[c] \o seg.data
  <2>1. pending_payload[c] = <<>> /\ p = 0 /\ n = w
    <3>1. pending_payload[c] = <<>>
      BY <1>6
    <3>2. p = 0
      BY <3>1
    <3> QED
      BY <1>0, <1>1, <3>1, <3>2
  <2>2. written'[c] = Count(w + 1) /\ Len(Count(w + 1)) = w + 1
    <3>1. Count(w) \o <<w + 1>> = Count(w + 1) /\ Len(Count(w + 1)) = w + 1
      BY <1>0, OneMore
    <3>2. seg.data = <<w + 1>>
      BY <2>1
    <3> QED
      BY <1>1, <1>6, <3>1, <3>2
  <2>3. Len(pending_payload'[c]) = 0 /\ Len(written'[c]) = w + 1
    BY <1>6, <2>1, <2>2
  <2>4. Taken(c)' = n + 1
    <3>1. (w + 1) + 0 = n + 1
      BY <1>0, <2>1
    <3> QED
      BY <2>3, <3>1 DEF Taken
  <2>5. <<>> = [i \in 1 .. 0 |-> w + 1 + i]
    OBVIOUS
  <2>6. pending_payload'[c] =
          [i \in 1 .. Len(pending_payload'[c]) |-> Len(written'[c]) + i]
    BY <1>6, <2>1, <2>3, <2>5
  <2>7. written'[c] = Count(Len(written'[c]))
    BY <2>2, <2>3
  <2> QED
    BY <1>1, <1>3, <1>4, <2>4, <2>6, <2>7 DEF BytesOK
<1> QED
  BY <1>5, <1>6 DEF Takes

(* and one with the end of the stream finds them all there.                  *)
LEMMA EndBytes ==
  ASSUME NEW k \in Keys, NEW c \in Conns, key[c] = k, NEW seg,
         Ends(c, seg), BytesOK(c), chip' = chip, key' = key,
         chip_isn' = chip_isn, Taken(c) = BytesSent(k), chip[k].fin
  PROVE  BytesOK(c)'
<1>1. \A j : BytesSent(j)' = BytesSent(j)
  BY DEF BytesSent
<1>2. Taken(c)' = Taken(c)
  BY DEF Ends, HoldsSame, Taken
<1> QED
  BY <1>1, <1>2 DEF BytesOK, Ends, HoldsSame

-----------------------------------------------------------------------------
(* The gateway takes the head of the wire, a segment of connection c.        *)
TakesHead(h, k, seg, c) ==
    /\ Delivered(h) /\ running /\ handler[h].pc = "idle"
    /\ k = Head(to_gw).key /\ seg = Head(to_gw).seg
    /\ conns[k] = c /\ ConnSegment(h, c, seg)

(* What such a step leaves alone, and what it may be.                        *)
LEMMA TakesHeadOf ==
  ASSUME WaitInv, WireInv, NEW h, Handlers = {h}, NEW k, NEW seg,
         NEW c \in Conns, TakesHead(h, k, seg, c)
  PROVE  /\ TypeOK /\ TypeInv /\ h \in Handlers /\ k \in Keys /\ k # None
         /\ key[c] = k /\ Registered(c) /\ Registered(c)' /\ seg \in Segment
         /\ to_gw # <<>> /\ to_gw' = Tail(to_gw) /\ chip' = chip
         /\ UNCHANGED <<key, conns, chip_isn, our_isn, our_seq, pump, running>>
         /\ Skips(c, seg) \/ Takes(c, seg) \/ Ends(c, seg)
         /\ ~InGrace(c)'
<1>1. /\ TypeOK /\ TypeInv /\ h \in Handlers /\ to_gw # <<>>
      /\ to_gw' = Tail(to_gw) /\ chip' = chip
  BY DEF WaitInv, TypeInv, TakesHead, Delivered
<1>2. k \in Keys /\ seg \in Segment
  BY <1>1, HeadTyped DEF TakesHead
<1>3. k # None /\ Registered(c) /\ key[c] = k
  BY <1>2, TcpNatAssumption DEF WaitInv, WaitOK, Registered, TakesHead
<1>4. UNCHANGED <<key, conns, chip_isn, our_isn, our_seq, pump, running>>
  BY SegmentSeq DEF TakesHead, ConnSegment, otherVars, tableVars, idVars,
                    taskVars
<1>5. Registered(c)'
  BY <1>3, <1>4 DEF Registered
<1>6. Skips(c, seg) \/ Takes(c, seg) \/ Ends(c, seg)
  BY <1>1, SegmentKinds DEF TakesHead
<1>7. ActsOn(c)
  BY <1>1, <1>2, <1>3, ConnSegmentAlone DEF TakesHead
<1>8. ~InGrace(c)'
  BY <1>7 DEF ActsOn, InGrace
<1> QED
  BY <1>1, <1>2, <1>3, <1>4, <1>5, <1>6, <1>8

(* A handshake that a segment completes settles the key.                     *)
LEMMA SegmentPast ==
  ASSUME WaitInv, DialInv, WireInv, SentInv, AckInv, SettledStays, NEW h,
         Handlers = {h}, NEW k, NEW seg, NEW c \in Conns,
         TakesHead(h, k, seg, c), PastOK(c)
  PROVE  PastOK(c)'
<1>1. /\ TypeInv /\ k \in Keys /\ key[c] = k /\ ~InGrace(c)'
      /\ to_gw # <<>> /\ to_gw' = Tail(to_gw) /\ chip' = chip
      /\ UNCHANGED <<key, our_isn, our_seq, pump>>
      /\ Skips(c, seg) \/ Takes(c, seg) \/ Ends(c, seg)
  BY TakesHeadOf
<1>2. Settled(k) => Settled(k)'
  BY <1>1 DEF SettledStays
<1>3. Opens(c, seg) => Settled(k)'
  <2>1. CASE state[c] = "ESTABLISHED"
    BY <1>1, <1>2, <2>1 DEF PastOK
  <2>2. CASE Acks(c, seg)
    <3>1. IsAck(k, Head(to_gw))
      BY <2>2 DEF Acks, IsAck, TakesHead
    <3>2. ~GraceFor(k)'
      BY <1>1, <3>1, TakerNotInGrace DEF TakesHead
    <3> QED
      BY <1>1, <3>1, <3>2, HeadSettles
  <2> QED
    BY <2>1, <2>2 DEF Opens
<1>4. state'[c] \notin {"CLOSED", "SYN_RCVD"} => Settled(k)'
  BY <1>1, <1>2, <1>3 DEF Skips, Takes, Ends, PastOK, Opens
<1>5. state'[c] = "SYN_RCVD" => state[c] = "SYN_RCVD"
  BY <1>1 DEF Skips, Takes, Ends
<1> QED
  BY <1>1, <1>2, <1>4, <1>5 DEF PastOK

(* The bytes stay the chip's.                                                *)
LEMMA SegmentBytes ==
  ASSUME ChipBytes + 1 < SeqMod, StreamInv, WireInv, SentInv, AckInv, NEW h,
         Handlers = {h}, NEW k, NEW seg, NEW c \in Conns,
         TakesHead(h, k, seg, c), ConnUp(c)
  PROVE  /\ BytesOK(c)'
         /\ Skips(c, seg) \/ Ends(c, seg) => Taken(c)' = Taken(c)
         /\ Takes(c, seg) => Taken(c)' = Taken(c) + 1
                               /\ seg.data = <<Taken(c) + 1>>
<1> PICK n : n = Taken(c)
  OBVIOUS
<1>1. /\ TypeOK /\ TypeInv /\ k \in Keys /\ k # None /\ key[c] = k
      /\ Registered(c) /\ to_gw # <<>> /\ chip' = chip /\ WaitInv
      /\ UNCHANGED <<key, chip_isn>>
      /\ Skips(c, seg) \/ Takes(c, seg) \/ Ends(c, seg)
  BY TakesHeadOf DEF StreamInv
<1>2. /\ conns[k] = c /\ k = Head(to_gw).key /\ seg = Head(to_gw).seg
      /\ handler[h].pc = "idle" /\ running /\ BytesOK(c)
  BY DEF TakesHead, ConnUp
<1>3. n \in Nat /\ BytesSent(k) \in Nat /\ n <= BytesSent(k)
  BY <1>1, <1>2, TakenTyped, SentTyped DEF BytesOK, SentInv
<1>4. /\ "FIN" \in seg.flags => chip[k].fin
      /\ "FIN" \in seg.flags /\ seg.data # <<>> => seg.data = <<BytesSent(k)>>
  BY <1>1, <1>2, HeadPart DEF SegOK, PartOK, Carries1
<1>5. CASE Skips(c, seg)
  <2>1. BytesOK(c)' /\ Taken(c)' = Taken(c)
    BY <1>1, <1>2, <1>5, SkipBytes
  <2>2. ~Takes(c, seg)
    BY <1>5 DEF Skips, Takes
  <2> QED
    BY <2>1, <2>2
<1>6. CASE Takes(c, seg)
  <2>1. /\ IsNext(c, seg) /\ seg.data # <<>>
        /\ state[c] \in {"SYN_RCVD", "ESTABLISHED"}
    BY <1>6 DEF Takes, Opens
  <2>2. PICK b \in 1 .. BytesSent(k) :
          seg.data = <<b>> /\ (IsNext(c, seg) <=> b = n + 1)
    BY <1>1, <1>2, <2>1, HeadByte
  <2>3. seg.data = <<n + 1>> /\ n + 1 <= BytesSent(k)
    BY <1>3, <2>1, <2>2
  <2>4. pending_payload[c] # <<>> => host[c] = "none"
    BY <1>1 DEF StreamInv, StreamOK, EndOK
  <2>5. "FIN" \in seg.flags => chip[k].fin /\ seg.data = <<BytesSent(k)>>
    BY <1>4, <2>1
  <2>6. BytesOK(c)' /\ Taken(c)' = n + 1
    BY <1>1, <1>2, <1>3, <1>6, <2>3, <2>4, <2>5, TakeBytes
  <2>7. ~Skips(c, seg) /\ ~Ends(c, seg)
    BY <1>6 DEF Skips, Takes, Ends
  <2> QED
    BY <2>3, <2>6, <2>7
<1>7. CASE Ends(c, seg)
  <2>1. Flow(k, n)
    <3>1. Opens(c, seg)
      BY <1>7 DEF Ends, Opens
    <3> QED
      BY <1>1, <1>2, <3>1, OpensFlow
  <2>2. BytesSent(k) <= n
    BY <1>1, <1>2, <1>3, <1>7, <2>1, HeadLast DEF Ends
  <2>3. n = BytesSent(k) /\ chip[k].fin
    BY <1>3, <1>4, <1>7, <2>2 DEF Ends
  <2>4. BytesOK(c)'
    BY <1>1, <1>2, <1>7, <2>3, EndBytes
  <2>5. Taken(c)' = Taken(c)
    BY <1>7 DEF Ends, HoldsSame, Taken
  <2>6. ~Takes(c, seg)
    BY <1>7 DEF Ends, Takes
  <2> QED
    BY <2>4, <2>5, <2>6
<1> QED
  BY <1>1, <1>5, <1>6, <1>7

(* What the connection lacks still comes.                                    *)
LEMMA SegmentFlow ==
  ASSUME ChipBytes + 1 < SeqMod, StreamInv, OwnInv, WireInv, WireInv',
         SentInv, AckInv, [Next]_vars, NEW h, Handlers = {h}, NEW k, NEW seg,
         NEW c \in Conns, TakesHead(h, k, seg, c), ConnUp(c)
  PROVE  FlowOK(c)'
<1> PICK n : n = Taken(c)
  OBVIOUS
<1>1. /\ TypeOK /\ TypeInv /\ k \in Keys /\ k # None /\ key[c] = k
      /\ Registered(c) /\ WaitInv /\ h \in Handlers
      /\ to_gw # <<>> /\ to_gw' = Tail(to_gw) /\ chip' = chip
      /\ UNCHANGED <<key, our_isn>>
      /\ Skips(c, seg) \/ Takes(c, seg) \/ Ends(c, seg)
  BY TakesHeadOf DEF StreamInv
<1>2. /\ conns[k] = c /\ k = Head(to_gw).key /\ seg = Head(to_gw).seg
      /\ handler[h].pc = "idle" /\ running /\ BytesOK(c) /\ PastOK(c)
      /\ FlowOK(c) /\ Delivered(h)
  BY DEF TakesHead, ConnUp
<1>3. n \in Nat /\ n + 1 \in Nat /\ n <= n + 1
  <2>1. n \in Nat
    BY <1>1, TakenTyped
  <2> QED
    BY <2>1
<1>4. /\ Skips(c, seg) => Taken(c)' = n
      /\ Takes(c, seg) => Taken(c)' = n + 1 /\ seg.data = <<n + 1>>
  BY SegmentBytes
<1>5. ASSUME Takes(c, seg) PROVE FlowOK(c)'
  <2>1. Flow(k, n)
    BY <1>1, <1>2, <1>5, OpensFlow DEF Takes
  <2>2. \A m \in (n + 1) + 1 .. BytesSent(k) :
          Head(to_gw).key = k => Head(to_gw).seg.data # <<m>>
    <3> SUFFICES ASSUME NEW m \in (n + 1) + 1 .. BytesSent(k), seg.data = <<m>>
                 PROVE  FALSE
      BY <1>2
    <3>1. <<n + 1>> = <<m>>
      BY <1>4, <1>5
    <3>2. n + 1 = m
      BY <3>1
    <3> QED
      BY <1>3, <3>2
  <2>3. Flow(k, n + 1)'
    BY <1>1, <1>3, <2>1, <2>2, TailFlow
  <2>4. state'[c] = "ESTABLISHED"
    BY <1>5 DEF Takes
  <2> QED
    BY <1>1, <1>4, <1>5, <2>3, <2>4, SMTT(30) DEF FlowOK
<1>6. ASSUME Skips(c, seg), state'[c] = "ESTABLISHED" PROVE FlowOK(c)'
  <2>1. Opens(c, seg) /\ (seg.data = <<>> \/ ~IsNext(c, seg))
    BY <1>6 DEF Skips
  <2>2. Flow(k, n)
    BY <1>1, <1>2, <2>1, OpensFlow
  <2>3. \/ seg.data = <<>>
        \/ \E b \in 1 .. BytesSent(k) : seg.data = <<b>> /\ b # n + 1
    <3>1. state[c] \in {"SYN_RCVD", "ESTABLISHED"}
      BY <2>1 DEF Opens
    <3>2. seg.data # <<>> =>
            \E b \in 1 .. BytesSent(k) :
              seg.data = <<b>> /\ (IsNext(c, seg) <=> b = n + 1)
      BY <1>1, <1>2, <3>1, HeadByte
    <3> QED
      BY <2>1, <3>2
  <2>4. Flow(k, n)'
    BY <1>1, <1>2, <1>3, <2>2, <2>3, SkipFlow
  <2> QED
    BY <1>1, <1>4, <1>6, <2>4 DEF FlowOK
<1>7. ASSUME Skips(c, seg), state'[c] = "SYN_RCVD" PROVE FlowOK(c)'
  <2>1. state[c] = "SYN_RCVD" /\ ~Acks(c, seg)
    BY <1>7 DEF Skips
  <2>2. Plain(k) /\ (Flow(k, n) \/ Doomed(c))
    BY <1>1, <1>2, <2>1 DEF FlowOK
  <2>3. Plain(k)'
    BY <1>1, <1>2, <2>1, <2>2, PlainKept DEF GwStep
  <2>4. Doomed(c) => Doomed(c)'
    BY <1>1 DEF Doomed
  <2>5. ASSUME ~Doomed(c) PROVE Flow(k, n)'
    <3>1. "ACK" \notin seg.flags
      BY <1>1, <1>2, <2>1, <2>5, OpensFlow
    <3>2. 1 \in DOMAIN to_gw /\ to_gw[1] = Head(to_gw)
      BY <1>1, TailAt
    <3>3. seg.data = <<>>
      BY <1>2, <3>1, <3>2, AckOpen DEF IsAck
    <3> QED
      BY <1>1, <1>2, <1>3, <2>2, <2>5, <3>3, SkipFlow
  <2> QED
    BY <1>1, <1>4, <1>7, <2>3, <2>4, <2>5 DEF FlowOK
<1>8. CASE state'[c] \notin {"ESTABLISHED", "SYN_RCVD"}
  BY <1>8 DEF FlowOK
<1>9. Ends(c, seg) => state'[c] = "CLOSE_WAIT"
  BY DEF Ends
<1> QED
  BY <1>1, <1>5, <1>6, <1>7, <1>8, <1>9

(* A connection that takes a segment keeps what it owes.                     *)
LEMMA SegmentUp ==
  ASSUME ChipBytes + 1 < SeqMod, StreamInv, DialInv, OwnInv, WireInv, WireInv',
         SentInv, AckInv, SettledStays, [Next]_vars, NEW h, Handlers = {h},
         NEW k, NEW seg, NEW c \in Conns, TakesHead(h, k, seg, c), ConnUp(c)
  PROVE  ConnUp(c)'
<1>1. PastOK(c)'
  BY SegmentPast DEF StreamInv, ConnUp
<1>2. BytesOK(c)'
  BY SegmentBytes
<1>3. FlowOK(c)'
  BY SegmentFlow
<1> QED
  BY <1>1, <1>2, <1>3 DEF ConnUp

-----------------------------------------------------------------------------
(* Whose segment it is.                                                      *)

(* A segment whose connection is in the table is that connection's, or       *)
(* closes it.                                                                *)
LEMMA SegmentEnds ==
  ASSUME WaitInv, NEW h \in Handlers, NEW k \in Keys, NEW seg,
         handle_chip_segment(h, k, seg), NEW d \in Conns, conns[k] = d
  PROVE  ConnSegment(h, d, seg) \/ state'[d] = "CLOSED"
<1>1. d # None /\ state \in [Conns -> States]
  BY TcpNatAssumption DEF WaitInv, TypeInv, TypeOK
<1>2. ASSUME CloseSilently({d}) PROVE state'[d] = "CLOSED"
  BY <1>1, <1>2 DEF CloseSilently
<1>3. ASSUME ChipRst(k, seg) PROVE state'[d] = "CLOSED"
  <2>1. {conns[k]} \ {None} = {d}
    BY <1>1
  <2> QED
    BY <1>2, <1>3, <2>1 DEF ChipRst
<1>4. LastAck(d, seg) => state'[d] = "CLOSED"
  BY <1>2 DEF LastAck
<1>5. ~DropSynRetransmit(k, seg) /\ ~RefuseSegment(k, seg)
        /\ ~on_passive_syn(h, k, seg)
  BY <1>1 DEF DropSynRetransmit, RefuseSegment, on_passive_syn, OpensNew
<1> QED
  BY <1>3, <1>4, <1>5 DEF handle_chip_segment

(* A segment of another key takes nothing that a connection lacks.           *)
LEMMA OtherFlow ==
  ASSUME WireInv, SentInv, NEW h, Delivered(h), NEW k \in Keys,
         k # Head(to_gw).key, NEW n \in Nat, Flow(k, n)
  PROVE  Flow(k, n)'
<1>1. to_gw # <<>> /\ to_gw' = Tail(to_gw) /\ chip' = chip /\ n <= n
  BY DEF Delivered
<1> QED
  BY <1>1, TailFlow

(* What the head of the wire does to each connection.                        *)
LEMMA DeliveredUp ==
  ASSUME ChipBytes + 1 < SeqMod, StreamInv, DialInv, OwnInv, WireInv, WireInv',
         UpInv, SettledStays, [Next]_vars, NEW h, Handlers = {h}, Delivered(h),
         NEW d \in Conns
  PROVE  ConnUp(d)'
<1> PICK k : k = key[d]
  OBVIOUS
<1> PICK j, seg : j = Head(to_gw).key /\ seg = Head(to_gw).seg
  OBVIOUS
<1>0. /\ WaitInv /\ h \in Handlers /\ SentInv /\ AckInv /\ ConnUp(d) /\ GwStep
      /\ to_gw # <<>> /\ to_gw' = Tail(to_gw) /\ chip' = chip
  BY DEF StreamInv, UpInv, GwStep, Delivered
<1>1. /\ j \in Keys /\ seg \in Segment
      /\ Registered(d) => k \in Keys /\ conns[k] = d
  BY <1>0, HeadTyped DEF WaitInv, WaitOK, Registered
<1>2. CASE ~running /\ handler[h].pc = "idle" /\ UNCHANGED vars
  <2>1. Steady(d)
    <3>1. Retires /\ UNCHANGED <<conns, idVars, fieldVars, pump>>
      BY <1>2, NoneRetires DEF vars, otherVars, tableVars, taskVars
    <3> QED
      BY <1>0, <3>1, StillSteady
  <2>2. ~running /\ ~running'
    BY <1>2 DEF vars, otherVars
  <2> QED
    BY <1>0, <2>1, <2>2, SteadyUp
<1>3. CASE handle_chip_segment(h, j, seg)
  <2>0. running /\ handler[h].pc = "idle" /\ (running' => running)
    BY <1>3 DEF handle_chip_segment
  <2>1. ASSUME Steady(d), ~(conns[j] = d /\ ConnSegment(h, d, seg))
        PROVE  ConnUp(d)'
    <3>1. ASSUME Registered(d), state'[d] \in {"SYN_RCVD", "ESTABLISHED"},
                 NEW n \in Nat, Flow(k, n)
          PROVE  Flow(k, n)'
      <4>1. k # j
        BY <1>0, <1>1, <1>3, <2>1, <3>1, SegmentEnds
      <4> QED
        BY <1>0, <1>1, <3>1, <4>1, OtherFlow
    <3> QED
      BY <1>0, <2>0, <2>1, <3>1, SteadyUp
  <2>2. ASSUME conns[j] = d, ConnSegment(h, d, seg)
        PROVE  ConnUp(d)'
    <3>1. TakesHead(h, j, seg, d)
      BY <2>0, <2>2 DEF TakesHead
    <3> QED
      BY <1>0, <3>1, SegmentUp
  <2>3. ASSUME on_passive_syn(h, j, seg), key[d] = None, key'[d] = j
        PROVE  ConnUp(d)'
    BY <1>0, <1>1, <2>0, <2>3, PassiveUp
  <2> QED
    BY <1>0, <1>1, <1>3, <2>1, <2>2, <2>3, SegmentSteady
<1> QED
  BY <1>2, <1>3 DEF Delivered

-----------------------------------------------------------------------------
(* The invariant.                                                            *)

(* No task of the gateway starts it again.                                   *)
LEMMA NoRestart ==
  ASSUME TaskStep \/ \E h \in Handlers : stop(h)
  PROVE  running' => running
<1>1. ASSUME NEW h \in Handlers, stop(h) PROVE ~running'
  BY <1>1 DEF stop
<1>2. ASSUME NEW h \in Handlers, HandlerStep(h) PROVE running' = running
  BY <1>2
  DEF HandlerStep, GraceOpened, GraceRefused, GraceOver, AnswerSyn,
      SynAnswered, Drained, DrainFailed, DataAcked, FinAcked, HandlerReset,
      shutdown, otherVars
<1>3. ASSUME NEW c \in Conns, DialStep(c) \/ DeferredStep(c)
      PROVE  running' = running
  BY <1>3
  DEF DialStep, HostAnswers, HostRefuses, AttemptTimesOut, Dials, DeferredStep,
      DeferredStarts, DeferredCancelled, DeferredFails, DeferredAttaches,
      DialEnded, Flushed, FlushFailed, DeferredReset
<1>4. ASSUME NEW c \in Conns, NEW o \in Starters, PumpStep(c, o)
      PROVE  running' = running
  BY <1>4
  DEF PumpStep, PumpStarts, PumpSent, PumpEof, PumpFinSent, PumpRaises,
      PumpReset, PumpReads, NextRound, PumpGoesTo
<1> QED
  BY <1>1, <1>2, <1>3, <1>4 DEF TaskStep

(* What a task does to each connection.                                      *)
LEMMA TaskUp ==
  ASSUME WaitInv, OwnInv, WireInv, WireInv', UpInv, SettledStays, [Next]_vars,
         TaskRuns, NEW d \in Conns
  PROVE  ConnUp(d)'
<1> PICK k : k = key[d]
  OBVIOUS
<1>1. /\ to_gw' = to_gw /\ chip' = chip /\ (running' => running) /\ GwStep
      /\ ConnUp(d) /\ SentInv /\ KeyInv
      /\ TaskStep \/ \E h \in Handlers : stop(h)
  BY NoRestart DEF TaskRuns, GwStep, UpInv
<1>2. \A n \in Nat : Flow(k, n) => Flow(k, n)'
  BY <1>1, FlowSame
<1>3. Steady(d) => ConnUp(d)'
  BY <1>1, <1>2, SteadyUp
<1>4. ASSUME NEW h \in Handlers, GraceOpened(h) \/ GraceOver(h),
             d = handler[h].conn
      PROVE  ConnUp(d)'
  BY <1>1, <1>4, AnswerUp
<1> QED
  BY <1>1, <1>3, <1>4, TaskSteady

(* What is on the wire stays part of the stream while nothing moves there.   *)
LEMMA StillSent ==
  ASSUME SentInv, AckInv, to_gw' = to_gw, chip' = chip
  PROVE  SentInv' /\ AckInv'
<1>1. \A k : BytesSent(k)' = BytesSent(k)
  BY DEF BytesSent
<1>2. \A k, p : PartOK(k, p) => PartOK(k, p)'
  BY <1>1 DEF PartOK
<1>3. \A w : SegOK(w) => SegOK(w)'
  BY <1>2 DEF SegOK, Carries1
<1>4. \A k \in Keys : SentOK(k)'
  BY <1>1, <1>2 DEF SentInv, SentOK, StartOK
<1>5. (\A i \in DOMAIN to_gw : SegOK(to_gw[i]))'
  <2> SUFFICES ASSUME NEW i \in DOMAIN to_gw' PROVE (SegOK(to_gw[i]))'
    OBVIOUS
  <2> PICK w : w = to_gw[i]
    OBVIOUS
  <2>2. SegOK(w)'
    BY <1>3 DEF SentInv
  <2>3. to_gw'[i] = w
    OBVIOUS
  <2> QED
    BY <2>2, <2>3 DEF SegOK, Carries1, PartOK
<1>6. AckInv'
  BY DEF AckInv, AckOK, Silent, IsAck, IsSyn
<1> QED
  BY <1>4, <1>5, <1>6 DEF SentInv

(* Every step of the tunnel keeps it.                                        *)
LEMMA UpStep ==
  ASSUME OneHandler, ChipBytes + 1 < SeqMod, StreamInv, TableInv, TableInv',
         UpInv, [TunnelNext]_tunnelVars
  PROVE  UpInv'
<1>1. /\ TunnelInv /\ WaitInv /\ TypeInv /\ WireInv /\ DialInv /\ ChipInv
      /\ OwnInv /\ WireInv' /\ SentInv /\ AckInv /\ KeyInv
      /\ \A c \in Conns : PastOK(c)
  BY DEF TableInv, TunnelInv, WaitInv, UpInv, ConnUp
<1>2. [Next]_vars /\ SettledStays
  BY <1>1, TunnelStepIsNext, SettledStep
<1>3. CASE ChipStep /\ UNCHANGED vars
  BY <1>1, <1>2, <1>3, ChipStepUp
<1>4. CASE TaskRuns
  <2>1. GwStep /\ to_gw' = to_gw /\ chip' = chip
    BY <1>4 DEF GwStep, TaskRuns
  <2>2. SentInv' /\ AckInv'
    BY <1>1, <2>1, StillSent
  <2>3. KeyInv'
    BY <1>1, <1>2, <2>1, GwKeys
  <2>4. \A c \in Conns : ConnUp(c)'
    BY <1>1, <1>2, <1>4, TaskUp
  <2> QED
    BY <2>2, <2>3, <2>4 DEF UpInv
<1>5. ASSUME NEW h \in Handlers, Delivered(h) PROVE UpInv'
  <2>1. /\ GwStep /\ Handlers = {h}
        /\ to_gw # <<>> /\ to_gw' = Tail(to_gw) /\ chip' = chip
    BY <1>5 DEF GwStep, Delivered, OneHandler
  <2>2. SentInv' /\ AckInv'
    BY <1>1, <2>1, TailSent, TailAcks
  <2>3. KeyInv'
    BY <1>1, <1>2, <2>1, GwKeys
  <2>4. \A c \in Conns : ConnUp(c)'
    BY <1>1, <1>2, <1>5, <2>1, DeliveredUp
  <2> QED
    BY <2>2, <2>3, <2>4 DEF UpInv
<1>6. CASE UNCHANGED tunnelVars
  <2>1. UNCHANGED vars /\ to_gw' = to_gw /\ to_chip' = to_chip /\ chip' = chip
    BY <1>6 DEF tunnelVars, chipVars
  <2>2. SentInv' /\ AckInv'
    BY <1>1, <2>1, StillSent
  <2>3. \A k, n : Flow(k, n) => Flow(k, n)'
    BY <2>1, FlowSame
  <2>4. \A k : Plain(k) => Plain(k)'
    BY <2>1 DEF Plain, Silent, PlainFrames, vars
  <2>5. \A k : Settled(k) <=> Settled(k)'
    BY <2>1 DEF Settled, NoSynLeft, IsSyn, GraceFor, vars, otherVars, idVars
  <2>6. KeyInv'
    BY <1>1, <2>3, <2>4, <2>5 DEF KeyInv, KeyOK
  <2>7. ASSUME NEW c \in Conns PROVE ConnUp(c)'
    <3> PICK k : k = key[c]
      OBVIOUS
    <3>1. PastOK(c) /\ BytesOK(c) /\ FlowOK(c) /\ OwnOK(c) /\ TypeOK
      BY <1>1 DEF UpInv, ConnUp, OwnInv, TypeInv
    <3>2. /\ UNCHANGED <<conns, key, chip_isn, our_isn, our_seq, state, host,
                         written, pending_payload, pending_eof, pump, handler>>
          /\ running' = running
      BY <2>1 DEF vars, fieldVars, otherVars, idVars, seqVars, bufVars,
                  tableVars, taskVars
    <3>3. Retires
      BY <3>2, NoneRetires
    <3>4. Steady(c)
      <4>1. UNCHANGED <<conns, idVars, fieldVars, pump>>
        BY <2>1 DEF vars, otherVars, tableVars, taskVars
      <4> QED
        BY <1>1, <3>3, <4>1, StillSteady
    <3>5. Registered(c) => k # None
      BY <1>1, TcpNatAssumption DEF WaitInv, WaitOK, Registered
    <3>6. FlowOK(c)'
      BY <1>1, <2>1, <2>3, <2>4, <3>1, <3>2, <3>4, <3>5, SteadyFlow
    <3>7. PastOK(c)' /\ BytesOK(c)'
      BY <1>1, <1>2, <2>1, <3>1, <3>4, SteadyPast, SteadyBytesOK
    <3> QED
      BY <3>6, <3>7 DEF ConnUp
  <2> QED
    BY <2>2, <2>6, <2>7 DEF UpInv
<1> QED
  BY <1>3, <1>4, <1>5, <1>6, TunnelSteps

(* At the start nothing was sent.                                            *)
LEMMA UpInit == TunnelInit => UpInv
<1> SUFFICES ASSUME TunnelInit PROVE UpInv
  OBVIOUS
<1>1. /\ to_gw = <<>> /\ to_chip = <<>> /\ out = <<>>
      /\ conns = [k \in Keys |-> None] /\ None \notin Conns
      /\ \A c \in Conns :
           /\ key[c] = None /\ state[c] = "CLOSED"
           /\ \A o \in Starters : pump[c][o] = "none"
      /\ \A h \in Handlers : handler[h] = Idle
  BY TcpNatAssumption DEF TunnelInit, Init
<1>2. \A k \in Keys :
        /\ chip[k].st = "closed" /\ chip[k].next = 0 /\ ~chip[k].fin
        /\ chip[k].unacked = {} /\ chip[k].received = <<>>
        /\ ~chip[k].their_fin /\ BytesSent(k) = 0
  BY DEF TunnelInit, NewChip, BytesSent
<1>3. SentInv
  <2>1. 0 \in 0..ChipBytes
    BY ByteRange
  <2> QED
    BY <1>1, <1>2, <2>1 DEF SentInv, SentOK, StartOK
<1>4. AckInv
  BY <1>1 DEF AckInv, AckOK
<1>5. KeyInv
  <2>1. ASSUME NEW k \in Keys PROVE Plain(k) /\ Flow(k, 0)
    <3>1. 0 + 1 .. BytesSent(k) = {}
      BY <1>2
    <3> QED
      BY <1>1, <1>2, <3>1 DEF Plain, Silent, PlainFrames, Flow
  <2> QED
    BY <2>1 DEF KeyInv, KeyOK
<1>6. ASSUME NEW c \in Conns PROVE ConnUp(c)
  <2>1. ~InGrace(c)
    BY <1>1 DEF InGrace, Idle, At
  <2>2. PastOK(c)
    BY <1>1, <2>1 DEF PastOK, Early
  <2>3. ~Registered(c)
    BY <1>1 DEF Registered
  <2> QED
    BY <1>1, <2>2, <2>3 DEF ConnUp, BytesOK, FlowOK
<1> QED
  BY <1>3, <1>4, <1>5, <1>6 DEF UpInv

(* All of it, together.                                                      *)
WayUp == StreamInv /\ TableInv /\ UpInv

(* So the invariant holds, for one handler and fewer bytes than there are    *)
(* sequence numbers.                                                         *)
LEMMA UpInvariance ==
  ASSUME OneHandler, ChipBytes + 1 < SeqMod
  PROVE  TunnelSpec => []WayUp
<1>1. TunnelSpec => []StreamInv
  BY TunnelImplementsNat, StreamInvariance, PTL
<1>2. TunnelSpec => []TableInv
  BY TableInvariance
<1>3. TunnelInit => UpInv
  BY UpInit
<1>4. StreamInv /\ TableInv /\ TableInv' /\ UpInv /\ [TunnelNext]_tunnelVars
        => UpInv'
  BY UpStep
<1> QED
  BY <1>1, <1>2, <1>3, <1>4, PTL DEF TunnelSpec, WayUp

-----------------------------------------------------------------------------
(* The chip's bytes are a ByteStream per connection.                         *)

(* A stream as TcpTunnel has it.                                             *)
SentOf(c)   == IF key[c] = None THEN <<>> ELSE Count(BytesSent(key[c]))
ClosedOf(c) == key[c] # None /\ chip[key[c]].fin
HostEnd(w)  == CASE w = "eof" -> "ended" [] w = "closed" -> "broken"
                 [] OTHER -> "open"

(* The steps of a stream, of this system.                                    *)
StaysUp(c) == SentOf(c)' = SentOf(c) /\ (ClosedOf(c)' <=> ClosedOf(c))

GotSame(c) ==
    written'[c] = written[c] /\ HostEnd(host'[c]) = HostEnd(host[c])

SendsUp(c) ==
    /\ ~ClosedOf(c) /\ GotSame(c) /\ SentOf(c)' \in Seq(Nat)
    /\ Upstream!IsPrefix(SentOf(c), SentOf(c)')

DeliversUp(c) ==
    /\ HostEnd(host[c]) = "open" /\ written'[c] \in Seq(Nat) /\ StaysUp(c)
    /\ Upstream!IsPrefix(written[c], written'[c])
    /\ Upstream!IsPrefix(written'[c], SentOf(c))
    /\ \/ HostEnd(host'[c]) = "open"
       \/ /\ HostEnd(host'[c]) = "ended" /\ ClosedOf(c)
          /\ written'[c] = SentOf(c)

BreaksUp(c) ==
    HostEnd(host'[c]) = "broken" /\ written'[c] = written[c] /\ StaysUp(c)

StreamUp(c) ==
    (GotSame(c) /\ StaysUp(c)) \/ SendsUp(c) \/ DeliversUp(c) \/ BreaksUp(c)

(* They are those of ByteStream.                                             *)
LEMMA UpNext ==
  ASSUME \A c \in Conns : StreamUp(c),
         \A c \in Conns : key'[c] # None => chip'[key'[c]].fin \in BOOLEAN
  PROVE  Upstream!Next
<1> SUFFICES ASSUME NEW c \in Conns
             PROVE  Upstream!Rests(c) \/ Upstream!Sends(c)
                    \/ Upstream!Delivers(c) \/ Upstream!Breaks(c)
  BY DEF Upstream!Next
<1>1. CASE GotSame(c) /\ StaysUp(c)
  BY <1>1 DEF GotSame, StaysUp, SentOf, ClosedOf, HostEnd, Upstream!Rests,
     Upstream!Stays
<1>2. CASE SendsUp(c)
  BY <1>2 DEF SendsUp, GotSame, SentOf, ClosedOf, HostEnd, Upstream!Sends
<1>3. CASE DeliversUp(c)
  BY <1>3 DEF DeliversUp, StaysUp, SentOf, ClosedOf, HostEnd,
     Upstream!Delivers, Upstream!Stays
<1>4. CASE BreaksUp(c)
  BY <1>4 DEF BreaksUp, StaysUp, SentOf, ClosedOf, HostEnd, Upstream!Breaks,
     Upstream!Stays
<1> QED
  BY <1>1, <1>2, <1>3, <1>4 DEF StreamUp

(* The first bytes are a prefix of more of them.                             *)
LEMMA CountPrefix ==
  ASSUME NEW m \in Nat, NEW n \in Nat, m <= n
  PROVE  Upstream!IsPrefix(Count(m), Count(n)) /\ Count(n) \in Seq(Nat)
<1> DEFINE x == Count(m)
           y == Count(n)
<1>1. x \in Seq(Nat) /\ Len(x) = m /\ \A i \in 1..m : x[i] = i
  BY DEF Count
<1>2. y \in Seq(Nat) /\ Len(y) = n /\ \A i \in 1..n : y[i] = i
  BY DEF Count
<1> HIDE DEF x, y
<1>3. /\ SubSeq(x, 1, Len(x)) = [i \in 1..m |-> x[i]]
      /\ SubSeq(y, 1, Len(x)) = [i \in 1..m |-> y[i]]
  BY <1>1, <1>2
<1>4. \A i \in 1..m : x[i] = y[i]
  BY <1>1, <1>2
<1>5. [i \in 1..m |-> x[i]] = [i \in 1..m |-> y[i]]
  BY <1>4
<1>6. Upstream!IsPrefix(x, y)
  BY <1>1, <1>2, <1>3, <1>5 DEF Upstream!IsPrefix
<1> QED
  BY <1>2, <1>6 DEF x, y

(* What the chip does is to send, or nothing.                                *)
LEMMA ChipStream ==
  ASSUME WaitInv, WireInv, ChipInv, SentInv, ChipStep, UNCHANGED vars,
         NEW c \in Conns
  PROVE  StreamUp(c)
<1> PICK k : k = key[c]
  OBVIOUS
<1>1. key' = key /\ written' = written /\ host' = host /\ k \in Keys \cup {None}
  BY DEF vars, otherVars, idVars, fieldVars, bufVars, WaitInv, TypeInv, TypeOK
<1>2. CASE k = None
  BY <1>1, <1>2 DEF StreamUp, GotSame, StaysUp, SentOf, ClosedOf
<1>3. CASE k # None
  <2>1. /\ Grows(k) /\ BytesSent(k) \in Nat /\ BytesSent(k)' \in Nat
    BY <1>1, <1>3, ChipGrows
  <2>2. SentOf(c) = Count(BytesSent(k)) /\ (ClosedOf(c) <=> chip[k].fin)
    BY <1>3 DEF SentOf, ClosedOf
  <2>3. SentOf(c)' = Count(BytesSent(k)') /\ (ClosedOf(c)' <=> chip'[k].fin)
    BY <1>1, <1>3 DEF SentOf, ClosedOf, Count
  <2>4. CASE chip[k].fin
    BY <1>1, <2>1, <2>2, <2>3, <2>4 DEF Grows, StreamUp, GotSame, StaysUp
  <2>5. CASE ~chip[k].fin
    <3>1. PICK m \in Nat, n \in Nat : m = BytesSent(k) /\ n = BytesSent(k)'
      BY <2>1
    <3>2. m <= n
      BY <2>1, <3>1 DEF Grows
    <3>3. Upstream!IsPrefix(Count(m), Count(n)) /\ Count(n) \in Seq(Nat)
      BY <3>2, CountPrefix
    <3>4. SentOf(c) = Count(m) /\ SentOf(c)' = Count(n)
      BY <2>2, <2>3, <3>1
    <3> QED
      BY <1>1, <2>2, <2>5, <3>3, <3>4 DEF StreamUp, SendsUp, GotSame
  <2> QED
    BY <2>4, <2>5
<1> QED
  BY <1>2, <1>3

(* What a step of the gateway does to a socket and what was written to it.   *)
HostMoves(d) ==
    /\ SteadyHost(d) /\ Len(written'[d]) >= Len(written[d])
    /\ host[d] # "closed" /\ host'[d] = "closed" => written'[d] = written[d]

(* Most steps write what is held, or nothing,                                *)
LEMMA SteadyMoves ==
  ASSUME TypeOK, NEW d \in Conns, Steady(d)
  PROVE  HostMoves(d)
<1>1. PICK m \in Nat, n \in Nat :
        m = Len(written[d]) /\ n = Len(pending_payload[d])
  BY TakenTyped
<1>2. CASE written'[d] = written[d]
  BY <1>1, <1>2 DEF Steady, HostMoves
<1>3. CASE /\ host[d] = "none" /\ host'[d] \in {"open", "eof"}
           /\ written'[d] = written[d] \o pending_payload[d]
  <2>1. Len(written'[d]) = m + n
    BY <1>1, <1>3 DEF TypeOK
  <2>2. \A i, j \in Nat : i + j >= i
    OBVIOUS
  <2>3. Len(written'[d]) >= Len(written[d])
    BY <1>1, <2>1, <2>2
  <2> QED
    BY <1>3, <2>3 DEF Steady, HostMoves
<1> QED
  BY <1>2, <1>3 DEF Steady, SteadyBytes

(* and a segment its payload.                                                *)
LEMMA SegmentMoves ==
  ASSUME TypeOK, NEW d \in Conns, NEW seg \in Segment,
         Skips(d, seg) \/ Takes(d, seg) \/ Ends(d, seg)
  PROVE  HostMoves(d)
<1>1. PICK m \in Nat, n \in Nat : m = Len(written[d]) /\ n = Len(seg.data)
  <2>1. Len(written[d]) \in Nat
    BY TakenTyped
  <2>2. Len(seg.data) \in Nat
    BY SegTyped
  <2> QED
    BY <2>1, <2>2
<1>2. SteadyHost(d)
  BY DEF SteadyHost, Skips, Takes, Ends
<1>3. host[d] # "closed" => host'[d] # "closed"
  BY DEF Skips, Takes, Ends
<1>4. CASE written'[d] = written[d]
  BY <1>1, <1>2, <1>4 DEF HostMoves
<1>5. CASE written'[d] = written[d] \o seg.data
  <2>1. seg.data \in Seq(Nat)
    BY SegTyped
  <2>2. Len(written'[d]) = m + n
    BY <1>1, <1>5, <2>1 DEF TypeOK
  <2>3. \A i, j \in Nat : i + j >= i
    OBVIOUS
  <2>4. Len(written'[d]) >= Len(written[d])
    BY <1>1, <2>2, <2>3
  <2> QED
    BY <1>2, <1>3, <2>4 DEF HostMoves
<1> QED
  BY <1>4, <1>5 DEF Skips, HoldsSame, Takes, Ends

(* What the gateway does is to deliver, to break off, or nothing: the end of *)
(* the stream with all the bytes.                                            *)
LEMMA HostStream ==
  ASSUME OneHandler, StreamInv, StreamInv', OwnInv', WireInv, SentInv,
         [Next]_vars, NEW d \in Conns, key'[d] = key[d], chip' = chip,
         HostMoves(d), BytesOK(d), BytesOK(d)'
  PROVE  StreamUp(d)
<1> PICK k : k = key[d]
  OBVIOUS
<1>1. /\ TypeOK /\ TypeOK' /\ WaitOK(d) /\ WaitOK(d)'
      /\ k \in Keys \cup {None} /\ None \notin Keys
      /\ host'[d] \in {"none", "open", "eof", "closed"}
      /\ host[d] \in {"none", "open", "eof", "closed"}
  BY TcpNatAssumption DEF StreamInv, WaitInv, TypeInv, TypeOK
<1>2. StaysUp(d)
  BY DEF StaysUp, SentOf, ClosedOf, BytesSent
<1>3. CASE k = None
  <2>1. Unused(d) /\ Unused(d)'
    BY <1>1, <1>3 DEF WaitOK
  <2> QED
    BY <1>2, <2>1 DEF Unused, StreamUp, GotSame
<1>4. CASE k # None
  <2>1. SentOf(d) = Count(BytesSent(k)) /\ (ClosedOf(d) <=> chip[k].fin)
    BY <1>4 DEF SentOf, ClosedOf
  <2>2. BytesSent(k)' = BytesSent(k) /\ BytesSent(k) \in Nat /\ k \in Keys
    BY <1>1, <1>4, SentTyped DEF SentInv, BytesSent
  <2>3. PICK m \in Nat, n \in Nat, p \in Nat, b \in Nat :
          /\ m = Len(written[d]) /\ n = Len(written'[d])
          /\ p = Len(pending_payload'[d]) /\ b = BytesSent(k)
    <3>1. Len(written[d]) \in Nat
      BY <1>1, TakenTyped
    <3>2. Len(written'[d]) \in Nat /\ Len(pending_payload'[d]) \in Nat
      BY <1>1 DEF TypeOK
    <3> QED
      BY <2>2, <3>1, <3>2
  <2>4. written[d] = Count(m) /\ written'[d] = Count(n) /\ m <= n
    BY <1>1, <1>4, <2>3 DEF BytesOK, HostMoves
  <2>5. n + p <= b /\ (host'[d] = "eof" => chip[k].fin /\ n + p = b)
    BY <1>1, <1>4, <2>2, <2>3 DEF BytesOK, Taken, EndDue
  <2>6. n <= b
    <3>1. \A x, y, z \in Nat : x + y <= z => x <= z
      OBVIOUS
    <3> QED
      BY <2>3, <2>5, <3>1
  <2>7. /\ Upstream!IsPrefix(written[d], written'[d])
        /\ Upstream!IsPrefix(written'[d], SentOf(d))
        /\ written'[d] \in Seq(Nat)
    BY <2>1, <2>3, <2>4, <2>6, CountPrefix
  <2>8. CASE host[d] \in {"eof", "closed"}
    <3>1. written'[d] = written[d]
      BY <2>8, NextWrites
    <3> QED
      BY <1>2, <2>8, <3>1
      DEF HostMoves, SteadyHost, HostEnd, StreamUp, GotSame, BreaksUp
  <2>9. CASE host[d] \in {"none", "open"} /\ host'[d] \in {"none", "open"}
    BY <1>2, <2>7, <2>9 DEF HostEnd, StreamUp, DeliversUp
  <2>10. CASE host[d] \in {"none", "open"} /\ host'[d] = "closed"
    BY <1>2, <2>10 DEF HostMoves, HostEnd, StreamUp, BreaksUp
  <2>11. CASE host[d] \in {"none", "open"} /\ host'[d] = "eof"
    <3>1. conns'[k] = d
      BY <2>11 DEF OwnInv, OwnOK
    <3>2. Registered(d)'
      BY <2>2, <3>1 DEF Registered
    <3>3. pending_payload'[d] = <<>>
      BY <2>11, <3>2 DEF StreamInv, StreamOK, EndOK
    <3>4. p = 0
      BY <2>3, <3>3
    <3>5. n = b /\ chip[k].fin
      BY <2>3, <2>5, <2>11, <3>4
    <3>6. written'[d] = SentOf(d) /\ ClosedOf(d)
      BY <2>1, <2>3, <2>4, <3>5
    <3> QED
      BY <1>2, <2>7, <2>11, <3>6 DEF HostEnd, StreamUp, DeliversUp
  <2> QED
    BY <1>1, <2>8, <2>9, <2>10, <2>11
<1> QED
  BY <1>3, <1>4

(* A connection made by a SYN starts with what its key has sent.             *)
LEMMA PassiveStream ==
  ASSUME WaitInv, WireInv, SentInv, NEW h \in Handlers, NEW k \in Keys, NEW seg,
         on_passive_syn(h, k, seg), chip' = chip,
         NEW d \in Conns, key[d] = None, key'[d] = k
  PROVE  StreamUp(d)
<1>1. k # None /\ BytesSent(k)' = BytesSent(k) /\ BytesSent(k) \in Nat
  BY TcpNatAssumption, SentTyped DEF SentInv, BytesSent
<1>2. written' = written /\ host' = host
  BY DEF on_passive_syn, bufVars
<1>3. SentOf(d) = <<>> /\ ~ClosedOf(d)
  BY DEF SentOf, ClosedOf
<1>4. SentOf(d)' = Count(BytesSent(k))
  <2>1. Count(BytesSent(k))' = Count(BytesSent(k))
    BY <1>1 DEF Count
  <2> QED
    BY <1>1, <2>1 DEF SentOf
<1>5. PICK n \in Nat : n = BytesSent(k)
  BY <1>1
<1>6. <<>> = Count(0) /\ 0 \in Nat /\ 0 <= n
  BY <1>5 DEF Count
<1>7. Upstream!IsPrefix(<<>>, Count(n)) /\ Count(n) \in Seq(Nat)
  BY <1>6, CountPrefix
<1> QED
  BY <1>2, <1>3, <1>4, <1>5, <1>7 DEF StreamUp, SendsUp, GotSame

(* A connection that is registered was written nothing.                      *)
LEMMA AnswerMoves ==
  ASSUME WaitInv, NEW h \in Handlers, GraceOpened(h) \/ GraceOver(h),
         NEW c \in Conns, c = handler[h].conn
  PROVE  HostMoves(c) /\ key' = key
<1>1. TypeOK /\ handler[h].pc = "grace"
  BY DEF WaitInv, TypeInv, GraceOpened, GraceOver, Resumes
<1>2. /\ AnswerSyn(h, c)
      /\ \/ deferred' = deferred /\ host' = [host EXCEPT ![c] = "open"]
         \/ deferred' = [deferred EXCEPT ![c] = "created"] /\ host' = host
  BY DEF GraceOpened, GraceOver
<1>3. Unused(c)
  BY <1>1, <1>2, AnswerSynAlone
<1>4. /\ host[c] = "none" /\ host'[c] \in {"none", "open"}
      /\ written' = written /\ key' = key
  BY <1>1, <1>2, <1>3 DEF AnswerSyn, TypeOK, idVars, bufVars, Unused
<1>5. Len(written[c]) \in Nat
  BY <1>1, TakenTyped
<1> QED
  BY <1>4, <1>5 DEF HostMoves, SteadyHost

(* Every step of the gateway is one of each stream.                          *)
LEMMA GwStream ==
  ASSUME OneHandler, WayUp, WayUp', [Next]_vars, GwStep, NEW d \in Conns
  PROVE  StreamUp(d)
<1>1. /\ StreamInv /\ StreamInv' /\ OwnInv' /\ WaitInv /\ WireInv /\ SentInv
      /\ BytesOK(d) /\ BytesOK(d)' /\ TypeOK /\ chip' = chip
  BY DEF WayUp, TableInv, StreamInv, TunnelInv, WaitInv, TypeInv, UpInv, ConnUp,
         GwStep, TaskRuns, Delivered
<1>2. HostMoves(d) /\ key'[d] = key[d] => StreamUp(d)
  BY <1>1, HostStream
<1>3. Steady(d) => StreamUp(d)
  BY <1>1, <1>2, SteadyMoves DEF Steady, SteadyId
<1>4. CASE TaskRuns
  <2>1. ASSUME NEW h \in Handlers, GraceOpened(h) \/ GraceOver(h),
               d = handler[h].conn
        PROVE  StreamUp(d)
    BY <1>1, <1>2, <2>1, AnswerMoves
  <2> QED
    BY <1>1, <1>3, <1>4, <2>1, TaskSteady DEF TaskRuns
<1>5. ASSUME NEW h \in Handlers, Delivered(h) PROVE StreamUp(d)
  <2> PICK k, seg : k = Head(to_gw).key /\ seg = Head(to_gw).seg
    OBVIOUS
  <2>1. Handlers = {h} /\ k \in Keys /\ seg \in Segment
    BY <1>1, <1>5, HeadTyped DEF OneHandler, Delivered
  <2>2. CASE handler[h].pc = "idle" /\ UNCHANGED vars
    <3>1. Retires /\ UNCHANGED <<conns, idVars, fieldVars, pump>>
      BY <2>2, NoneRetires DEF vars, otherVars, tableVars, taskVars
    <3>2. Steady(d)
      BY <1>1, <3>1, StillSteady
    <3> QED
      BY <1>3, <3>2
  <2>3. CASE handle_chip_segment(h, k, seg)
    <3>1. running /\ handler[h].pc = "idle"
      BY <2>3 DEF handle_chip_segment
    <3>2. ASSUME conns[k] = d, ConnSegment(h, d, seg) PROVE StreamUp(d)
      <4>1. TakesHead(h, k, seg, d)
        BY <1>5, <3>1, <3>2 DEF TakesHead
      <4>2. key' = key /\ (Skips(d, seg) \/ Takes(d, seg) \/ Ends(d, seg))
        BY <1>1, <2>1, <4>1, TakesHeadOf
      <4>3. HostMoves(d)
        BY <1>1, <2>1, <4>2, SegmentMoves
      <4> QED
        BY <1>2, <4>2, <4>3
    <3>3. ASSUME on_passive_syn(h, k, seg), key[d] = None, key'[d] = k
          PROVE  StreamUp(d)
      BY <1>1, <2>1, <3>3, PassiveStream
    <3> QED
      BY <1>1, <1>3, <2>1, <2>3, <3>2, <3>3, SegmentSteady
  <2> QED
    BY <1>5, <2>2, <2>3 DEF Delivered
<1> QED
  BY <1>4, <1>5 DEF GwStep

(* At the start every stream is empty and open.                              *)
LEMMA UpstreamInit == TunnelInit => Upstream!Init
<1> SUFFICES ASSUME TunnelInit PROVE Upstream!Init
  OBVIOUS
<1>1. /\ key = [c \in Conns |-> None] /\ written = [c \in Conns |-> <<>>]
      /\ host = [c \in Conns |-> "none"]
  BY DEF TunnelInit, Init
<1> QED
  BY <1>1 DEF Upstream!Init

(* Every step is one of the streams.                                         *)
LEMMA UpstreamStep ==
  ASSUME OneHandler, WayUp, WayUp', [TunnelNext]_tunnelVars
  PROVE  [Upstream!Next]_(Upstream!vars)
<1>1. /\ WaitInv /\ WireInv /\ WireInv' /\ ChipInv /\ SentInv /\ TunnelInv
      /\ WaitInv'
  BY DEF WayUp, TableInv, StreamInv, TunnelInv, UpInv
<1>2. [Next]_vars
  BY <1>1, TunnelStepIsNext
<1>3. \A c \in Conns : key'[c] # None => chip'[key'[c]].fin \in BOOLEAN
  <2>1. (\A c \in Conns : key[c] # None => chip[key[c]].fin \in BOOLEAN)'
    BY <1>1 DEF WireInv, ChipType, WaitInv, TypeInv, TypeOK
  <2> QED
    BY <2>1
<1>4. (\A c \in Conns : StreamUp(c)) => Upstream!Next
  BY <1>3, UpNext
<1>5. CASE ChipStep /\ UNCHANGED vars
  BY <1>1, <1>4, <1>5, ChipStream
<1>6. CASE GwStep
  BY <1>2, <1>4, <1>6, GwStream
<1>7. CASE UNCHANGED tunnelVars
  <2>1. key' = key /\ written' = written /\ host' = host /\ chip' = chip
    BY <1>7
    DEF tunnelVars, chipVars, vars, fieldVars, bufVars, otherVars, idVars
  <2>2. UNCHANGED Upstream!vars
    BY <2>1 DEF Upstream!vars, BytesSent, Count
  <2> QED
    BY <2>2
<1> QED
  BY <1>5, <1>6, <1>7, TunnelSteps DEF GwStep

(* The host gets the chip's bytes in order, each once and none that was not  *)
(* sent, and write_eof after all of them (tcp_nat.py:397-432 and 324-339),   *)
(* whatever the chip sends again and whenever the dial ends: for any number  *)
(* of keys and connections, one handler at a time, as the reader of the      *)
(* websocket is, and a stream shorter than the sequence numbers are many.    *)
(* When a close may come before is the theorem EndsAreWhole below.           *)
THEOREM UpstreamArrives ==
  ASSUME OneHandler, ChipBytes + 1 < SeqMod
  PROVE  TunnelSpec => UpstreamIsAStream
<1>1. TunnelSpec => []WayUp
  BY UpInvariance
<1>2. TunnelInit => Upstream!Init
  BY UpstreamInit
<1>3. WayUp /\ WayUp' /\ [TunnelNext]_tunnelVars
        => [Upstream!Next]_(Upstream!vars)
  BY UpstreamStep
<1> QED
  BY <1>1, <1>2, <1>3, PTL DEF TunnelSpec, UpstreamIsAStream, Upstream!Spec
-----------------------------------------------------------------------------
(* The end of stream that the host sees, which write_eof and close both are. *)

(* With eof the host has all of the chip's bytes.                            *)
LEMMA EofHasAll ==
  ASSUME WayUp, NEW c \in Conns, host[c] = "eof"
  PROVE  HasAll(c)
<1> PICK k : k = key[c]
  OBVIOUS
<1>1. TypeOK /\ WaitOK(c) /\ OwnOK(c) /\ StreamOK(c) /\ BytesOK(c)
  BY DEF WayUp, StreamInv, WaitInv, TypeInv, TableInv, OwnInv, UpInv, ConnUp
<1>2. k \in Keys /\ k # None
  BY <1>1, TcpNatAssumption DEF WaitOK, Unused, TypeOK
<1>3. Registered(c)
  BY <1>1, <1>2 DEF OwnOK, Registered
<1>4. pending_payload[c] = <<>>
  BY <1>1, <1>3 DEF StreamOK, EndOK
<1>5. Len(written[c]) \in Nat /\ Len(pending_payload[c]) = 0
  BY <1>1, <1>4 DEF TypeOK
<1>6. chip[k].fin /\ Taken(c) = BytesSent(k) /\ written[c] = Count(Len(written[c]))
  BY <1>1, <1>2 DEF BytesOK, EndDue
<1>7. Taken(c) = Len(written[c])
  BY <1>5 DEF Taken
<1> QED
  BY <1>6, <1>7 DEF HasAll

(* The states in which the gateway has passed on the host's end of stream.   *)
FinStates == {"FIN_WAIT_1", "FIN_WAIT_2", "LAST_ACK"}

(* The host has ended where the chip was told so, and where a handler is     *)
(* about to close for it; a bridge that is stopping has stopped.             *)
EofInv ==
    /\ \A c \in Conns : state[c] \in FinStates => at_eof[c]
    /\ \A h \in Handlers :
         handler[h].pc = "finack" => at_eof[handler[h].conn]
    /\ \A h \in Handlers : handler[h].pc = "stopping" => ~running

(* What a step may do to it.                                                 *)
EofKept ==
    /\ \A c \in Conns : at_eof[c] => at_eof'[c]
    /\ \A c \in Conns : state'[c] \in FinStates =>
         state[c] \in FinStates \/ at_eof'[c]
    /\ \A h \in Handlers : handler'[h].pc = "finack" =>
         \/ handler'[h] = handler[h]
         \/ handler'[h].conn \in Conns /\ state[handler'[h].conn] \in FinStates
    /\ running' => running
    /\ \A h \in Handlers : handler'[h].pc = "stopping" =>
         handler'[h] = handler[h] \/ ~running'

(* Then it is kept.                                                          *)
LEMMA EofKeeps == TypeInv /\ EofInv /\ EofKept => EofInv'
<1> SUFFICES ASSUME TypeInv, EofInv, EofKept PROVE EofInv'
  OBVIOUS
<1>1. \A h \in Handlers : handler[h].pc = "finack" => handler[h].conn \in Conns
  BY DEF TypeInv, HoldsConn
<1> QED
  BY <1>1 DEF EofInv, EofKept

(* A close makes no connection finish.                                       *)
LEMMA CloseEof ==
  ASSUME NEW S, CloseSilently(S)
  PROVE  /\ at_eof' = at_eof
         /\ \A c \in Conns : state'[c] \in FinStates => state[c] \in FinStates
BY DEF CloseSilently, TearDown, readVars, FinStates

(* The segment of a connection: a FIN in FIN_WAIT is acknowledged.           *)
LEMMA ConnSegmentEof ==
  ASSUME TypeInv, NEW h \in Handlers, NEW c \in Conns, NEW seg \in Segment,
         ConnSegment(h, c, seg)
  PROVE  EofKept
<1>1. at_eof' = at_eof /\ running' = running
  BY DEF ConnSegment, otherVars, readVars
<1>2. \/ handler' = handler
      \/ \E pc, s : /\ handler' = [handler EXCEPT ![h] = At(pc, c, s)]
                    /\ pc # "stopping"
                    /\ pc = "finack" => state[c] \in FinStates
      \/ handler' = [handler EXCEPT ![h] = Idle]
  <2>1. ASSUME OnPayload(h, c, seg)
        PROVE  \/ handler' = handler
               \/ \E pc, s : /\ handler' = [handler EXCEPT ![h] = At(pc, c, s)]
                             /\ pc \notin {"stopping", "finack"}
               \/ handler' = [handler EXCEPT ![h] = Idle]
    <3>1. AfterPayload(h, c, seg) =>
            \/ handler' = [handler EXCEPT ![h] = At("acked", c, NoSegment)]
            \/ handler' = [handler EXCEPT ![h] = Idle]
      BY DEF AfterPayload
    <3>2. \/ handler' = handler
          \/ AfterPayload(h, c, seg)
          \/ handler' = [handler EXCEPT ![h] = At("drain", c, seg)]
      BY <2>1, Zenon DEF OnPayload
    <3> QED
      BY <3>1, <3>2
  <2>2. ASSUME on_fin_wait(h, c, seg)
        PROVE  \/ handler' = handler
               \/ handler' = [handler EXCEPT ![h] = At("finack", c, NoSegment)]
    BY <2>2 DEF on_fin_wait
  <2>3. \/ on_fin_wait(h, c, seg) /\ state[c] \in FinStates
        \/ OnPayload(h, c, seg)
        \/ handler' = handler
    BY DEF ConnSegment, on_handshake_complete, on_data, Ignore, FinStates
  <2> QED
    BY <2>1, <2>2, <2>3
<1>3. \A d \in Conns : state'[d] \in FinStates => state[d] \in FinStates
  <2>1. TypeOK
    BY DEF TypeInv
  <2> QED
    BY <2>1
    DEF ConnSegment, on_handshake_complete, on_data, on_fin_wait, AcceptFin,
        StateAfterFin, Ignore, fieldVars, FinStates, TypeOK
<1>4. handler \in [Handlers -> HandlerType]
  BY DEF TypeInv, TypeOK
<1> QED
  BY <1>1, <1>2, <1>3, <1>4 DEF EofKept, At, Idle

(* A delivered segment.                                                      *)
LEMMA SegmentEof ==
  ASSUME TypeInv, NEW h \in Handlers, NEW k \in Keys, NEW seg \in Segment,
         handle_chip_segment(h, k, seg)
  PROVE  EofKept
<1>1. conns[k] \in Conns \cup {None} /\ handler \in [Handlers -> HandlerType]
  BY DEF TypeInv, TypeOK, ConnsOrNone
<1>2. CASE ChipRst(k, seg) \/ LastAck(conns[k], seg)
  BY <1>2, CloseEof DEF ChipRst, LastAck, EofKept
<1>3. CASE DropSynRetransmit(k, seg) \/ RefuseSegment(k, seg)
  BY <1>3
  DEF DropSynRetransmit, RefuseSegment, fieldVars, otherVars, readVars, EofKept
<1>4. CASE on_passive_syn(h, k, seg)
  <2>1. /\ at_eof' = at_eof /\ running' = running /\ state' = state
        /\ \E c : handler' = [handler EXCEPT ![h] = At("grace", c, seg)]
    BY <1>4 DEF on_passive_syn, readVars
  <2> QED
    BY <1>1, <2>1 DEF EofKept, At
<1>5. CASE conns[k] # None /\ ConnSegment(h, conns[k], seg)
  BY <1>1, <1>5, ConnSegmentEof
<1> QED
  BY <1>2, <1>3, <1>4, <1>5 DEF handle_chip_segment

(* A handler.                                                                *)
LEMMA HandlerStepEof ==
  ASSUME TypeInv, NEW h \in Handlers, HandlerStep(h)
  PROVE  EofKept
<1>1. TypeOK /\ handler \in [Handlers -> HandlerType]
  BY DEF TypeInv, TypeOK
<1>2. running' = running /\ at_eof' = at_eof
  BY CloseEof
  DEF HandlerStep, GraceOpened, GraceRefused, GraceOver, AnswerSyn, SynAnswered,
      Drained, DrainFailed, DataAcked, FinAcked, HandlerReset, shutdown,
      TearDown, otherVars, readVars
<1>3. \/ handler' = [handler EXCEPT ![h] = Idle]
      \/ \E c : \E pc \in {"synack", "acked", "rst"} :
           handler' = [handler EXCEPT ![h] = At(pc, c, NoSegment)]
  <2>1. ASSUME NEW c, NEW seg, AfterPayload(h, c, seg)
        PROVE  \/ handler' = [handler EXCEPT ![h] = At("acked", c, NoSegment)]
               \/ handler' = [handler EXCEPT ![h] = Idle]
    BY <2>1 DEF AfterPayload
  <2>2. CASE GraceOpened(h) \/ GraceOver(h)
    BY <2>2 DEF GraceOpened, GraceOver, AnswerSyn
  <2>3. CASE Drained(h)
    BY <2>1, <2>3 DEF Drained
  <2>4. CASE DrainFailed(h)
    BY <2>4 DEF DrainFailed
  <2> QED
    BY <2>2, <2>3, <2>4
    DEF HandlerStep, GraceRefused, SynAnswered, DataAcked, FinAcked,
        HandlerReset, shutdown
<1>4. \A c \in Conns : state'[c] \in FinStates => state[c] \in FinStates
  <2>1. CASE FinAcked(h) \/ shutdown(h)
    BY <2>1, CloseEof DEF FinAcked, shutdown
  <2>2. CASE GraceOpened(h) \/ GraceOver(h) \/ DrainFailed(h) \/ DataAcked(h)
    BY <1>1, <2>2
    DEF GraceOpened, GraceOver, AnswerSyn, DrainFailed, ResetChip, DataAcked,
        AcceptFin, StateAfterFin, FinStates, TypeOK
  <2>3. CASE GraceRefused(h) \/ SynAnswered(h) \/ Drained(h) \/ HandlerReset(h)
    BY <2>3 DEF GraceRefused, SynAnswered, Drained, HandlerReset, fieldVars
  <2> QED
    BY <2>1, <2>2, <2>3 DEF HandlerStep
<1> QED
  BY <1>1, <1>2, <1>3, <1>4 DEF EofKept, At, Idle

(* A dial, a deferred connect or a pump: the pump sees the host end.         *)
LEMMA TaskEof ==
  ASSUME TypeInv, NEW c \in Conns,
         \/ DialStep(c) \/ DeferredStep(c)
         \/ \E o \in Starters : PumpStep(c, o)
  PROVE  EofKept
<1>1. TypeOK
  BY DEF TypeInv
<1>2. running' = running /\ handler' = handler
  BY DEF DialStep, HostAnswers, HostRefuses, AttemptTimesOut, Dials,
         DeferredStep, DeferredStarts, DeferredCancelled, DeferredFails,
         DeferredAttaches, DialEnded, Flushed, FlushFailed, DeferredReset,
         PumpStep, PumpStarts, PumpSent, PumpEof, PumpFinSent, PumpRaises,
         PumpReset, PumpReads, NextRound, PumpGoesTo
<1>3. CASE DialStep(c)
  BY <1>2, <1>3
  DEF DialStep, HostAnswers, HostRefuses, AttemptTimesOut, Dials, fieldVars,
      readVars, EofKept
<1>4. CASE DeferredStep(c)
  <2>1. at_eof' = at_eof
    BY <1>4
    DEF DeferredStep, DeferredStarts, DeferredCancelled, DeferredFails,
        DeferredAttaches, DialEnded, Flushed, FlushFailed, DeferredReset,
        TearDown, readVars
  <2>2. \A d \in Conns : state'[d] \in FinStates => state[d] \in FinStates
    BY <1>1, <1>4
    DEF DeferredStep, DeferredStarts, DeferredCancelled, DeferredFails,
        DeferredAttaches, Flushed, FlushFailed, DeferredReset, ResetChip,
        fieldVars, FinStates, TypeOK
  <2> QED
    BY <1>2, <2>1, <2>2 DEF EofKept
<1>5. ASSUME NEW o \in Starters, PumpStep(c, o) PROVE EofKept
  <2>1. CASE PumpEof(c, o)
    BY <1>1, <1>2, <2>1 DEF PumpEof, EofKept, TypeOK
  <2>2. CASE ~PumpEof(c, o)
    <3>1. at_eof' = at_eof
      BY <1>5, <2>2
      DEF PumpStep, PumpStarts, PumpSent, PumpFinSent, PumpRaises, PumpReset,
          PumpReads, TearDown, readVars
    <3>2. \A d \in Conns : state'[d] \in FinStates => state[d] \in FinStates
      BY <1>1, <1>5, <2>2
      DEF PumpStep, PumpStarts, PumpSent, PumpFinSent, PumpRaises, PumpReset,
          PumpReads, ResetChip, FinStates, TypeOK
    <3> QED
      BY <1>2, <3>1, <3>2 DEF EofKept
  <2> QED
    BY <2>1, <2>2
<1> QED
  BY <1>3, <1>4, <1>5

(* So it holds of the NAT, whatever the chip sends.                          *)
LEMMA EofInvariance == Spec => []EofInv
<1>1. Init => EofInv
  BY DEF Init, EofInv, FinStates, Idle, At
<1>2. TypeInv /\ EofInv /\ [Next]_vars => EofInv'
  <2> SUFFICES ASSUME TypeInv, EofInv, [Next]_vars PROVE EofKept
    BY EofKeeps
  <2>1. ASSUME NEW h \in Handlers, stop(h) PROVE EofKept
    BY <2>1 DEF stop, fieldVars, readVars, At, EofKept, TypeInv, TypeOK
  <2>2. CASE UNCHANGED vars
    BY <2>2 DEF vars, fieldVars, otherVars, readVars, EofKept
  <2>3. Segments \subseteq Segment
    BY TcpNatAssumption
  <2> QED
    BY <2>1, <2>2, <2>3, SegmentEof, HandlerStepEof, TaskEof
    DEF Next, TaskStep
<1>3. Spec => []TypeInv
  BY WaitInvariance, PTL DEF WaitInv
<1> QED
  BY <1>1, <1>2, <1>3, PTL DEF Spec

(* Why the gateway closes a host socket.                                     *)
MayBreak(c) == ChipIsAborting(c) \/ IsResetting(c) \/ ~running \/ at_eof[c]

(* Only a connection that is torn down has its socket closed.                *)
LEMMA WhoIsClosed ==
  ASSUME NEW c \in Conns, host[c] # "closed", host'[c] = "closed", NEW S
  PROVE  /\ \A d, p : TearDown(S, d, p) => c \in S
         /\ CloseSilently(S) => c \in S /\ state[c] # "CLOSED"
<1>1. ASSUME NEW T, NEW d, NEW p, TearDown(T, d, p) PROVE c \in T
  BY <1>1 DEF TearDown
<1> QED
  BY <1>1 DEF CloseSilently

(* A task closes a socket once its RST is out, or for the host's end, or the *)
(* bridge's.                                                                 *)
LEMMA TaskBreaks ==
  ASSUME TypeInv, EofInv, TaskRuns, NEW c \in Conns,
         host[c] # "closed", host'[c] = "closed"
  PROVE  MayBreak(c)
<1>1. TypeOK
  BY DEF TypeInv
<1>2. ASSUME NEW h \in Handlers, HandlerStep(h) PROVE MayBreak(c)
  <2>1. CASE FinAcked(h)
    BY <2>1, WhoIsClosed DEF FinAcked, Resumes, EofInv, MayBreak
  <2>2. CASE shutdown(h)
    BY <2>2 DEF shutdown, Resumes, EofInv, MayBreak
  <2>3. CASE HandlerReset(h)
    <3>1. c \in {handler[h].conn}
      BY <2>3, WhoIsClosed DEF HandlerReset
    <3> QED
      BY <2>3, <3>1 DEF HandlerReset, Resumes, IsResetting, MayBreak
  <2>4. CASE \/ GraceOpened(h) \/ GraceRefused(h) \/ GraceOver(h)
             \/ SynAnswered(h) \/ Drained(h) \/ DrainFailed(h) \/ DataAcked(h)
    BY <1>1, <2>4
    DEF GraceOpened, GraceRefused, GraceOver, SynAnswered, Drained, DrainFailed,
        DataAcked, AcceptFin, fieldVars, TypeOK
  <2> QED
    BY <1>2, <2>1, <2>2, <2>3, <2>4 DEF HandlerStep
<1>3. ASSUME NEW d \in Conns, DialStep(d) \/ DeferredStep(d) PROVE MayBreak(c)
  <2>1. CASE DeferredReset(d)
    BY <2>1, WhoIsClosed DEF DeferredReset, DeferredAt, IsResetting, MayBreak
  <2>2. CASE ~DeferredReset(d)
    BY <1>1, <1>3, <2>2
    DEF DialStep, HostAnswers, HostRefuses, AttemptTimesOut, Dials,
        DeferredStep, DeferredStarts, DeferredCancelled, DeferredFails,
        DeferredAttaches, Flushed, FlushFailed, FinishAttach, fieldVars, TypeOK
  <2> QED
    BY <2>1, <2>2
<1>4. ASSUME NEW d \in Conns, NEW o \in Starters, PumpStep(d, o)
      PROVE  MayBreak(c)
  <2>1. CASE PumpReset(d, o)
    <3>1. c \in {d}
      BY <2>1, WhoIsClosed DEF PumpReset
    <3> QED
      BY <1>4, <2>1, <3>1 DEF PumpReset, PumpAt, IsResetting, MayBreak
  <2>2. CASE ~PumpReset(d, o)
    BY <1>4, <2>2
    DEF PumpStep, PumpStarts, PumpSent, PumpEof, PumpFinSent, PumpRaises,
        PumpReads, NextRound, PumpGoesTo
  <2> QED
    BY <2>1, <2>2
<1>5. ASSUME NEW h \in Handlers, stop(h) PROVE FALSE
  BY <1>5 DEF stop, fieldVars
<1> QED
  BY <1>2, <1>3, <1>4, <1>5 DEF TaskRuns, TaskStep

(* A segment closes a socket if it is the chip's RST, or the last ACK of a   *)
(* connection which the host has ended.                                      *)
LEMMA SegmentBreaks ==
  ASSUME WaitInv, EofInv, to_gw # <<>>, NEW h \in Handlers, NEW k \in Keys,
         NEW seg, k = Head(to_gw).key, seg = Head(to_gw).seg,
         handle_chip_segment(h, k, seg),
         NEW c \in Conns, host[c] # "closed", host'[c] = "closed"
  PROVE  MayBreak(c)
<1>1. TypeOK /\ WaitOK(c) /\ conns[k] \in Conns \cup {None}
  BY DEF WaitInv, TypeInv, TypeOK, ConnsOrNone
<1>2. CASE ChipRst(k, seg)
  <2>1. c = conns[k] /\ "RST" \in seg.flags
    BY <1>2, WhoIsClosed DEF ChipRst
  <2> QED
    BY <1>1, <2>1 DEF WaitOK, ChipIsAborting, MayBreak
<1>3. CASE LastAck(conns[k], seg)
  <2>1. c = conns[k] /\ state[c] = "LAST_ACK"
    BY <1>3, WhoIsClosed DEF LastAck
  <2> QED
    BY <2>1 DEF EofInv, FinStates, MayBreak
<1>4. CASE \/ DropSynRetransmit(k, seg) \/ RefuseSegment(k, seg)
           \/ on_passive_syn(h, k, seg)
  BY <1>4 DEF DropSynRetransmit, RefuseSegment, on_passive_syn, fieldVars
<1>5. CASE conns[k] # None /\ ConnSegment(h, conns[k], seg)
  <2>1. OnPayload(h, conns[k], seg) => host' = host
    BY ZenonT(40) DEF OnPayload
  <2>2. Ignore \/ on_fin_wait(h, conns[k], seg) => host' = host
    BY DEF Ignore, on_fin_wait, fieldVars
  <2>3. host' = host \/ AcceptFin(conns[k])
    BY <1>5, <2>1, <2>2 DEF ConnSegment, on_handshake_complete, on_data
  <2> QED
    BY <1>1, <2>3 DEF AcceptFin, TypeOK
<1> QED
  BY <1>2, <1>3, <1>4, <1>5 DEF handle_chip_segment

(* The host sees an end of stream, be it by write_eof or by close, only with *)
(* all of the chip's bytes, unless the chip aborts, a reset goes out, the    *)
(* bridge stops or the host has ended its own stream (tcp_nat.py:421-432,    *)
(* 324-339, 581-583): under the assumptions of UpstreamArrives.              *)
THEOREM EndsAreWhole ==
  ASSUME OneHandler, ChipBytes + 1 < SeqMod
  PROVE  TunnelSpec => EndIsWhole
<1> DEFINE Whole ==
      \A c \in Conns : WayUp /\ host[c] = "eof" => HasAll(c)
<1>w. Whole
  BY EofHasAll
<1> HIDE DEF Whole
<1>x. Whole'
  BY <1>w, PTL
<1>1. TunnelSpec => []WayUp
  BY UpInvariance
<1>2. TunnelSpec => []EofInv
  BY TunnelImplementsNat, EofInvariance, PTL
<1>3. ASSUME WayUp, WayUp', EofInv, [TunnelNext]_tunnelVars, NEW c \in Conns,
             host[c] \in {"none", "open"}, host'[c] \in {"eof", "closed"}
      PROVE  HasAll(c)' \/ (host'[c] = "closed" /\ MayBreak(c))
  <2>1. WaitInv /\ TypeInv /\ WireInv
    BY <1>3 DEF WayUp, TableInv, TunnelInv, WaitInv
  <2>2. CASE host'[c] = "eof"
    BY <1>x, <1>3, <2>2 DEF Whole
  <2>3. CASE host'[c] = "closed"
    <3>1. host[c] # "closed" /\ host' # host
      BY <1>3, <2>3
    <3>2. CASE TaskRuns
      BY <2>1, <2>3, <3>1, <3>2, <1>3, TaskBreaks
    <3>3. ASSUME NEW h \in Handlers, Delivered(h) PROVE MayBreak(c)
      <4>1. /\ to_gw # <<>>
            /\ handle_chip_segment(h, Head(to_gw).key, Head(to_gw).seg)
        BY <3>1, <3>3 DEF Delivered, vars, fieldVars
      <4>2. Head(to_gw).key \in Keys
        BY <2>1, <4>1, HeadTyped
      <4> QED
        BY <1>3, <2>1, <2>3, <3>1, <4>1, <4>2, SegmentBreaks
    <3>4. ~(UNCHANGED vars) /\ ~(UNCHANGED tunnelVars)
      BY <3>1 DEF tunnelVars, vars, fieldVars
    <3> QED
      BY <1>3, <2>3, <3>2, <3>3, <3>4, TunnelSteps
  <2> QED
    BY <1>3, <2>2, <2>3
<1>4. WayUp /\ WayUp' /\ EofInv /\ [TunnelNext]_tunnelVars =>
        [\A c \in Conns :
           host[c] \in {"none", "open"} /\ host'[c] \in {"eof", "closed"} =>
              \/ HasAll(c)'
              \/ /\ host'[c] = "closed"
                 /\ \/ ChipIsAborting(c) \/ IsResetting(c) \/ ~running
                    \/ at_eof[c]]_tunnelVars
  BY <1>3 DEF MayBreak
<1> QED
  BY <1>1, <1>2, <1>4, PTL DEF TunnelSpec, EndIsWhole
=============================================================================
