--------------------------- MODULE InboundProofs ----------------------------
(* Theorems about InboundTunnel, for any requests, responses, segment sizes, *)
(* initial sequence numbers and faults.                                      *)
EXTENDS InboundTunnel, TcpSeqProofs

-----------------------------------------------------------------------------
(* The invariant.                                                            *)

Flags == {"SYN", "ACK", "FIN", "RST"}

PartType == [off : Nat, flags : SUBSET Flags, data : Seq(Nat)]

SegType == [flags : SUBSET Flags, seq : SeqNums, ack : SeqNums,
            data : Seq(Nat)]

FrameType == [req : Requests, flags : SUBSET Flags, seq : SeqNums,
              ack : SeqNums, len : Nat]

ConnType == [state : {"SYN_SENT", "ESTABLISHED", "CLOSED"},
             our_isn : SeqNums, our_seq : SeqNums, chip_seq : SeqNums,
             rx : Seq(Nat), established : BOOLEAN, finished : BOOLEAN,
             data_event : BOOLEAN, reset : BOOLEAN]

ServerType == [st : {"listen", "open", "gone", "reset"}, their_isn : SeqNums,
               heard : BOOLEAN, their_fin : BOOLEAN, response : Seq(Nat),
               next : Nat, fin : BOOLEAN, unacked : SUBSET PartType,
               retransmits : Nat]

TaskType == [pc : {"new", "arp", "await", "sending", "wait", "over", "gone"},
             late : BOOLEAN,
             how : {None, "timeout", "failed", "fin", "complete", "deadline",
                    "idle"}]

HandlerType == [pc : {"idle", "established", "data_acked", "fin_acked",
                      "fin_sent"},
                req : Requests \cup {None}, fin : BOOLEAN]

InTypes ==
    /\ bridge \in {"running", "stopping", "stopped"}
    /\ table \subseteq Requests
    /\ conn \in [Requests -> ConnType]
    /\ task \in [Requests -> TaskType]
    /\ handler \in HandlerType
    /\ handler.pc = "idle" <=> handler.req = None
    /\ to_gw \in Seq([req : Requests, seg : SegType])
    /\ to_chip \in Seq(FrameType)
    /\ server \in [Requests -> ServerType]

(* How far into the server's stream a sequence number is.                    *)
OffsetOf(x) == seq_add(x, -ChipISN)

(* A segment, or a part that is kept, which takes sequence numbers.          *)
IsPart(s) == "RST" \notin s.flags /\ Span(s) > 0

(* s, at off, is a part of what the server's end v has sent.                 *)
Fits(v, off, s) ==
    /\ off + Span(s) <= v.next
    /\ "SYN" \in s.flags => /\ off = 0 /\ s.data = <<>>
                            /\ "ACK" \in s.flags /\ "FIN" \notin s.flags
    /\ "SYN" \notin s.flags => off >= 1
    /\ "FIN" \in s.flags => v.fin /\ off + Span(s) = v.next
    /\ v.fin /\ "FIN" \notin s.flags => off + Span(s) < v.next
    /\ \A i \in 1 .. Len(s.data) : s.data[i] = v.response[off + i - 1]

(* What the server has sent is the SYN, bytes of its response, and the FIN.  *)
ServerOK(v) ==
    /\ v.response \in Responses \cup {<<>>}
    /\ v.next <= IF v.fin THEN Len(v.response) + 2 ELSE Len(v.response) + 1
    /\ v.heard => v.next >= 1 /\ v.response \in Responses
    /\ ~v.heard => v.response = <<>> /\ v.next <= 1 /\ ~v.fin
    /\ v.st = "listen" => v.next = 0
    /\ v.st = "open" => v.next >= 1
    /\ v.fin => v.next >= 2
    /\ \A p \in v.unacked : IsPart(p) /\ Fits(v, p.off, p)

(* The segments of r under way.                                              *)
PartsOf(q, r) == {i \in DOMAIN q : q[i].req = r /\ IsPart(q[i].seg)}

From(e) == OffsetOf(e.seg.seq)
To(e)   == From(e) + Span(e.seg)

SegsOK(q, r, v) == \A i \in PartsOf(q, r) : Fits(v, From(q[i]), q[i].seg)

(* Of those, one that ends before n or before one ahead of it was sent       *)
(* before; any other begins where all of that ends; and together they reach  *)
(* from n to m.                                                              *)
Old(q, r, n, i) ==
    \/ To(q[i]) <= n
    \/ \E j \in PartsOf(q, r) : j < i /\ To(q[i]) <= To(q[j])

Fresh(q, r, n, i) ==
    /\ n <= From(q[i])
    /\ \A j \in PartsOf(q, r) : j < i => To(q[j]) <= From(q[i])
    /\ \/ From(q[i]) = n
       \/ \E j \in PartsOf(q, r) : j < i /\ From(q[i]) = To(q[j])

Ordered(q, r, n, m) ==
    /\ \A i \in PartsOf(q, r) : Old(q, r, n, i) \/ Fresh(q, r, n, i)
    /\ n = m \/ \E i \in PartsOf(q, r) : To(q[i]) = m

(* The handler has taken the server's FIN; it has counted it in chip_seq.    *)
FinCounted(r) == handler.req = r /\ handler.pc \in {"fin_acked", "fin_sent"}

FinTaken(r) ==
    \/ FinCounted(r)
    \/ handler.req = r /\ handler.pc = "data_acked" /\ handler.fin

(* How far into the server's stream the gateway is.                          *)
Taken(r) ==
    IF conn[r].state = "SYN_SENT" THEN 0
    ELSE IF FinTaken(r) THEN Len(conn[r].rx) + 2 ELSE Len(conn[r].rx) + 1

(* Whatever the connection still takes will come, in order.                  *)
OrderOK(r) ==
    bridge = "running" /\ r \in table /\ conn[r].state # "CLOSED" =>
        Ordered(to_gw, r, Taken(r), server[r].next)

(* What has been collected is a beginning of the response.                   *)
ConnOK(r) ==
    LET c == conn[r]
        v == server[r]
    IN  /\ c.rx = <<>> \/ Len(c.rx) + 1 <= v.next
        /\ v.fin => Len(c.rx) + 2 <= v.next
        /\ \A i \in 1 .. Len(c.rx) : c.rx[i] = v.response[i]
        /\ c.state = "SYN_SENT" => c.rx = <<>> /\ handler.req # r
        /\ c.state = "ESTABLISHED" =>
             /\ v.next >= 1
             /\ c.chip_seq = SeqAt(IF FinCounted(r) THEN Len(c.rx) + 2
                                 ELSE Len(c.rx) + 1)
        /\ FinTaken(r) => v.fin /\ Len(c.rx) = v.next - 2
        /\ c.state # "CLOSED" /\ bridge # "stopped" => ~c.reset /\ ~c.finished

(* A request that has not opened its connection yet.                         *)
UnopenedOK(r) ==
    task[r].pc \in {"new", "arp"} =>
        /\ conn[r] = NewConn(0) /\ r \notin table /\ handler.req # r
        /\ server[r].st = "listen"
        /\ \A i \in DOMAIN to_chip : to_chip[i].req # r
        /\ \A i \in DOMAIN to_gw : to_gw[i].req # r

RespOK(r) ==
    /\ ServerOK(server[r]) /\ SegsOK(to_gw, r, server[r])
    /\ ConnOK(r) /\ UnopenedOK(r) /\ OrderOK(r)

InboundInv == InTypes /\ \A r \in Requests : RespOK(r)

-----------------------------------------------------------------------------
(* Offsets.                                                                  *)

(* Some way on from an offset is the sum.                                    *)
LEMMA SeqAtMoves ==
  ASSUME NEW o \in Int, NEW n \in Int
  PROVE  /\ seq_add(SeqAt(o), n) = SeqAt(o + n)
         /\ SeqAt(o) \in SeqNums
<1>1. ChipISN \in Int
  BY SeqNumsAreInts, InboundTunnelAssumption
<1>2. seq_add(seq_add(ChipISN, o), n) = seq_add(ChipISN, o + n)
  BY <1>1, SeqAddTwice
<1>3. seq_add(ChipISN, o) \in SeqNums
  BY <1>1, SeqAddTyped
<1>4. QED
  BY <1>2, <1>3 DEF SeqAt

(* A sequence number is that of its offset.                                  *)
LEMMA SeqAtOffsetOf ==
  ASSUME NEW x \in SeqNums
  PROVE  SeqAt(OffsetOf(x)) = x
<1>1. /\ ChipISN \in Int /\ x \in Int /\ -ChipISN \in Int
      /\ seq_add(x, -ChipISN) \in Int
  <2>1. ChipISN \in Int /\ x \in Int /\ -ChipISN \in Int
    BY SeqNumsAreInts, InboundTunnelAssumption
  <2>2. seq_add(x, -ChipISN) \in SeqNums
    BY <2>1, SeqAddTyped
  <2>3. QED
    BY <2>1, <2>2, SeqNumsAreInts
<1>2. seq_add(seq_add(x, -ChipISN), ChipISN) = seq_add(x, (-ChipISN) + ChipISN)
  BY <1>1, SeqAddTwice
<1>3. (-ChipISN) + ChipISN = 0
  BY <1>1
<1>4. seq_add(x, 0) = x
  BY <1>1, Remains DEF seq_add
<1>5. SeqAt(OffsetOf(x)) = seq_add(seq_add(x, -ChipISN), ChipISN)
  BY <1>1 DEF SeqAt, OffsetOf, seq_add
<1>6. QED
  BY <1>2, <1>3, <1>4, <1>5

(* Offsets below the modulus are read back from their sequence number.       *)
LEMMA OffsetOfSeqAt ==
  ASSUME NEW o \in 0 .. SeqMod - 1
  PROVE  OffsetOf(SeqAt(o)) = o
<1>1. ChipISN \in Int /\ o \in Int /\ -ChipISN \in Int
  BY SeqNumsAreInts, InboundTunnelAssumption, SeqModAssumption
<1>2. OffsetOf(SeqAt(o)) = seq_add(ChipISN, o + (-ChipISN))
  BY <1>1, SeqAddTwice DEF OffsetOf, SeqAt
<1>3. ChipISN + (o + (-ChipISN)) = o
  BY <1>1
<1>4. o % SeqMod = o
  BY Remains DEF SeqNums
<1>5. QED
  BY <1>2, <1>3, <1>4 DEF seq_add

(* So they are told apart.                                                   *)
LEMMA SeqAtInjective ==
  ASSUME NEW a \in 0 .. SeqMod - 1, NEW b \in 0 .. SeqMod - 1,
         SeqAt(a) = SeqAt(b)
  PROVE  a = b
BY OffsetOfSeqAt

(* The numbers a segment takes: its bytes, and one for SYN or FIN.           *)
LEMMA SpanTyped ==
  ASSUME NEW s, s.data \in Seq(Nat)
  PROVE  /\ Span(s) \in Nat /\ Len(s.data) \in Nat
         /\ "SYN" \in s.flags \/ "FIN" \in s.flags =>
              Span(s) = Len(s.data) + 1
         /\ "SYN" \notin s.flags /\ "FIN" \notin s.flags =>
              Span(s) = Len(s.data)
         /\ s.data = <<>> <=> Len(s.data) = 0
<1>1. Len(s.data) \in Nat /\ (s.data = <<>> <=> Len(s.data) = 0)
  OBVIOUS
<1>2. CASE s.flags \cap {"SYN", "FIN"} # {}
  <2>1. Span(s) = Len(s.data) + 1
    BY <1>2 DEF Span, One
  <2>2. QED
    BY <1>1, <1>2, <2>1
<1>3. CASE s.flags \cap {"SYN", "FIN"} = {}
  <2>1. Span(s) = Len(s.data) + 0
    BY <1>3, Zenon DEF Span, One
  <2>2. QED
    BY <1>1, <1>3, <2>1
<1>4. QED
  BY <1>2, <1>3

-----------------------------------------------------------------------------
(* Queues of segments.                                                       *)

Queued == [req : Requests, seg : SegType]

(* Where a segment begins and ends.                                          *)
LEMMA FromTyped ==
  ASSUME NEW e \in Queued
  PROVE  /\ From(e) \in Nat /\ To(e) \in Nat
         /\ IsPart(e.seg) => From(e) < To(e)
<1>1. e.seg.seq \in Int /\ e.seg.data \in Seq(Nat)
  BY SeqNumsAreInts DEF Queued, SegType
<1>2. Span(e.seg) \in Nat
  BY <1>1, SpanTyped
<1>3. OffsetOf(e.seg.seq) \in SeqNums
  BY <1>1, SeqAddTyped, SeqNumsAreInts, InboundTunnelAssumption DEF OffsetOf
<1>4. OffsetOf(e.seg.seq) \in Nat
  BY <1>3, SeqModAssumption DEF SeqNums
<1>5. QED
  BY <1>2, <1>4 DEF From, To, IsPart

(* A segment joins the queue: the ones there keep their places.              *)
LEMMA PartsAppend ==
  ASSUME NEW q \in Seq(Queued), NEW e \in Queued, NEW r
  PROVE  /\ Append(q, e) \in Seq(Queued) /\ DOMAIN q = 1 .. Len(q)
         /\ \A i \in DOMAIN q : Append(q, e)[i] = q[i]
         /\ Append(q, e)[Len(q) + 1] = e
         /\ PartsOf(Append(q, e), r) =
              IF e.req = r /\ IsPart(e.seg)
              THEN PartsOf(q, r) \cup {Len(q) + 1} ELSE PartsOf(q, r)
<1>1. /\ Len(q) \in Nat /\ DOMAIN q = 1 .. Len(q)
      /\ Append(q, e) \in Seq(Queued)
      /\ DOMAIN Append(q, e) = 1 .. Len(q) + 1
      /\ \A i \in DOMAIN q : Append(q, e)[i] = q[i]
      /\ Append(q, e)[Len(q) + 1] = e
  OBVIOUS
<1>2. DOMAIN Append(q, e) = DOMAIN q \cup {Len(q) + 1}
      /\ Len(q) + 1 \notin DOMAIN q
  BY <1>1
<1> HIDE DEF IsPart
<1>3. QED
  BY <1>1, <1>2 DEF PartsOf

(* The oldest leaves it: the others move up by one.                          *)
LEMMA PartsTail ==
  ASSUME NEW q \in Seq(Queued), q # <<>>, NEW r
  PROVE  /\ Tail(q) \in Seq(Queued) /\ Head(q) \in Queued /\ Head(q) = q[1]
         /\ 1 \in DOMAIN q
         /\ \A i \in DOMAIN Tail(q) :
              i \in Nat /\ i + 1 \in DOMAIN q /\ Tail(q)[i] = q[i + 1]
         /\ \A i \in DOMAIN q : i = 1 \/ i - 1 \in DOMAIN Tail(q)
         /\ \A i \in Int : i \in PartsOf(Tail(q), r) <=>
              i >= 1 /\ i + 1 \in PartsOf(q, r)
<1>1. /\ Len(q) \in Nat /\ Len(q) >= 1 /\ DOMAIN q = 1 .. Len(q)
      /\ Tail(q) \in Seq(Queued) /\ Head(q) = q[1] /\ Head(q) \in Queued
      /\ DOMAIN Tail(q) = 1 .. Len(q) - 1
      /\ \A i \in DOMAIN Tail(q) : Tail(q)[i] = q[i + 1]
  OBVIOUS
<1>2. \A i \in Int : i \in DOMAIN Tail(q) <=> i >= 1 /\ i + 1 \in DOMAIN q
  BY <1>1
<1>3. QED
  BY <1>1, <1>2 DEF PartsOf

(* Nothing that r is concerned with joins.                                   *)
LEMMA OrderedAside ==
  ASSUME NEW q \in Seq(Queued), NEW e \in Queued, NEW r, NEW n, NEW m,
         ~(e.req = r /\ IsPart(e.seg)), Ordered(q, r, n, m)
  PROVE  Ordered(Append(q, e), r, n, m)
<1>1. /\ PartsOf(Append(q, e), r) = PartsOf(q, r)
      /\ \A i \in PartsOf(q, r) : Append(q, e)[i] = q[i]
  BY PartsAppend DEF PartsOf
<1>2. QED
  BY <1>1 DEF Ordered, Old, Fresh

(* A part that was sent before joins.                                        *)
LEMMA OrderedAgain ==
  ASSUME NEW q \in Seq(Queued), NEW e \in Queued, NEW r, NEW n \in Int,
         NEW m \in Int, To(e) <= m, Ordered(q, r, n, m)
  PROVE  Ordered(Append(q, e), r, n, m)
<1>1. CASE ~(e.req = r /\ IsPart(e.seg))
  BY <1>1, OrderedAside
<1>2. CASE e.req = r /\ IsPart(e.seg)
  <2> DEFINE p == Append(q, e)
             l == Len(q) + 1
  <2>1. /\ PartsOf(p, r) = PartsOf(q, r) \cup {l}
        /\ \A i \in PartsOf(q, r) : p[i] = q[i] /\ i < l
        /\ p[l] = e
    BY <1>2, PartsAppend DEF PartsOf
  <2> HIDE DEF p, l
  <2>2. ASSUME NEW i \in PartsOf(q, r)
        PROVE  Old(p, r, n, i) \/ Fresh(p, r, n, i)
    <3>1. CASE Old(q, r, n, i)
      BY <2>1, <3>1 DEF Old
    <3>2. CASE Fresh(q, r, n, i)
      <4>1. \A j \in PartsOf(p, r) : j < i => j \in PartsOf(q, r)
        <5>1. i \in Int /\ l \in Int /\ i < l
          BY <2>1, PartsAppend DEF PartsOf, l
        <5>2. QED
          BY <2>1, <5>1
      <4>2. QED
        BY <2>1, <3>2, <4>1 DEF Fresh
    <3>3. QED
      BY <3>1, <3>2 DEF Ordered
  <2>3. Old(p, r, n, l)
    <3>1. CASE n = m
      BY <2>1, <3>1 DEF Old
    <3>2. CASE n # m
      BY <2>1, <3>2 DEF Old, Ordered
    <3>3. QED
      BY <3>1, <3>2
  <2>4. n = m \/ \E i \in PartsOf(p, r) : To(p[i]) = m
    BY <2>1 DEF Ordered
  <2>5. QED
    BY <2>1, <2>2, <2>3, <2>4 DEF Ordered, p
<1>3. QED
  BY <1>1, <1>2

(* The next part joins.                                                      *)
LEMMA OrderedNext ==
  ASSUME NEW q \in Seq(Queued), NEW e \in Queued, NEW r, NEW n \in Int,
         NEW m \in Int, Ordered(q, r, n, m), n <= m,
         \A i \in PartsOf(q, r) : To(q[i]) <= m,
         e.req = r, IsPart(e.seg), From(e) = m
  PROVE  Ordered(Append(q, e), r, n, To(e))
<1> DEFINE p == Append(q, e)
           l == Len(q) + 1
<1>1. /\ PartsOf(p, r) = PartsOf(q, r) \cup {l}
      /\ \A i \in PartsOf(q, r) : p[i] = q[i] /\ i < l
      /\ p[l] = e /\ l \in Int /\ PartsOf(q, r) \subseteq Int
  BY PartsAppend DEF PartsOf
<1> HIDE DEF p, l
<1>2. ASSUME NEW i \in PartsOf(q, r)
      PROVE  Old(p, r, n, i) \/ Fresh(p, r, n, i)
  <2>1. CASE Old(q, r, n, i)
    BY <1>1, <2>1 DEF Old
  <2>2. CASE Fresh(q, r, n, i)
    <3>1. \A j \in PartsOf(p, r) : j < i => j \in PartsOf(q, r)
      BY <1>1
    <3>2. QED
      BY <1>1, <2>2, <3>1 DEF Fresh
  <2>3. QED
    BY <2>1, <2>2 DEF Ordered
<1>3. Fresh(p, r, n, l)
  <2>1. \A j \in PartsOf(p, r) : j < l => j \in PartsOf(q, r)
    BY <1>1
  <2>2. \/ From(p[l]) = n
        \/ \E j \in PartsOf(p, r) : j < l /\ From(p[l]) = To(p[j])
    BY <1>1 DEF Ordered
  <2>3. QED
    BY <1>1, <2>1, <2>2 DEF Fresh
<1>4. QED
  BY <1>1, <1>2, <1>3 DEF Ordered, p

(* The oldest, if it concerns r, was taken before, or is the next.           *)
LEMMA HeadIsOldOrNext ==
  ASSUME NEW q \in Seq(Queued), q # <<>>, NEW r, NEW n, NEW m,
         Ordered(q, r, n, m), Head(q).req = r, IsPart(Head(q).seg)
  PROVE  To(Head(q)) <= n \/ From(Head(q)) = n
<1>1. 1 \in PartsOf(q, r) /\ Head(q) = q[1]
  BY PartsTail DEF PartsOf
<1>2. \A j \in PartsOf(q, r) : ~(j < 1)
  <2>1. DOMAIN q = 1 .. Len(q) /\ Len(q) \in Nat
    OBVIOUS
  <2>2. QED
    BY <2>1 DEF PartsOf
<1>3. QED
  BY <1>1, <1>2 DEF Ordered, Old, Fresh

(* The places of what remains when it leaves.                                *)
LEMMA TailPlaces ==
  ASSUME NEW q \in Seq(Queued), q # <<>>, NEW r
  PROVE  /\ \A i \in PartsOf(Tail(q), r) :
              /\ i \in Int /\ i >= 1 /\ i + 1 \in PartsOf(q, r)
              /\ Tail(q)[i] = q[i + 1]
         /\ \A i \in PartsOf(q, r) :
              i \in Int /\ (i = 1 \/ (i > 1 /\ i - 1 \in PartsOf(Tail(q), r)))
         /\ \A i \in PartsOf(q, r) : To(q[i]) \in Int /\ From(q[i]) \in Int
<1> DEFINE p == Tail(q)
<1>1. /\ \A i \in DOMAIN p : i \in Nat /\ i + 1 \in DOMAIN q /\ p[i] = q[i + 1]
      /\ \A i \in Int :
           i \in PartsOf(p, r) <=> i >= 1 /\ i + 1 \in PartsOf(q, r)
  BY PartsTail
<1>2. \A i \in PartsOf(q, r) : i \in Int /\ i >= 1 /\ q[i] \in Queued
  <2>1. DOMAIN q = 1 .. Len(q) /\ \A i \in DOMAIN q : q[i] \in Queued
    OBVIOUS
  <2>2. QED
    BY <2>1 DEF PartsOf
<1>3. \A i \in PartsOf(p, r) : i \in DOMAIN p
  BY DEF PartsOf
<1> HIDE DEF p
<1>4. ASSUME NEW i \in PartsOf(q, r)
      PROVE  i = 1 \/ (i > 1 /\ i - 1 \in PartsOf(p, r))
  <2>1. CASE i # 1
    <3>1. i - 1 \in Int /\ i - 1 >= 1 /\ (i - 1) + 1 = i
      BY <1>2, <2>1
    <3>2. QED
      BY <1>1, <1>2, <2>1, <3>1
  <2>2. QED
    BY <2>1
<1>5. ASSUME NEW i \in PartsOf(p, r)
      PROVE  i \in Int /\ i >= 1 /\ i + 1 \in PartsOf(q, r) /\ p[i] = q[i + 1]
  <2>1. i \in Int /\ p[i] = q[i + 1]
    BY <1>1, <1>3
  <2>2. QED
    BY <1>1, <2>1
<1>6. \A i \in PartsOf(q, r) : To(q[i]) \in Int /\ From(q[i]) \in Int
  BY <1>2, FromTyped
<1>7. QED
  BY <1>2, <1>4, <1>5, <1>6 DEF p

(* It leaves, and is taken if it is the next.                                *)
LEMMA OrderedTail ==
  ASSUME NEW q \in Seq(Queued), q # <<>>, NEW r, NEW n \in Int, NEW k \in Int,
         NEW m \in Int, Ordered(q, r, n, m), n <= k, k <= m,
         Head(q).req = r /\ IsPart(Head(q).seg) => To(Head(q)) <= k,
         \/ k = n
         \/ /\ Head(q).req = r /\ IsPart(Head(q).seg)
            /\ From(Head(q)) = n /\ To(Head(q)) = k
  PROVE  Ordered(Tail(q), r, k, m)
<1> DEFINE p == Tail(q)
<1>1. /\ \A i \in PartsOf(p, r) :
           i \in Int /\ i >= 1 /\ i + 1 \in PartsOf(q, r) /\ p[i] = q[i + 1]
      /\ \A i \in PartsOf(q, r) :
           i \in Int /\ (i = 1 \/ (i > 1 /\ i - 1 \in PartsOf(p, r)))
      /\ \A i \in PartsOf(q, r) : To(q[i]) \in Int /\ From(q[i]) \in Int
  BY TailPlaces
<1>2. 1 \in PartsOf(q, r) => /\ Head(q).req = r /\ IsPart(Head(q).seg)
                             /\ q[1] = Head(q) /\ To(q[1]) <= k
  BY PartsTail DEF PartsOf
<1>3. \/ k = n
      \/ 1 \in PartsOf(q, r) /\ From(q[1]) = n /\ To(q[1]) = k /\ n < k
  BY PartsTail, FromTyped DEF PartsOf
<1> HIDE DEF p
<1>4. ASSUME NEW i \in PartsOf(p, r)
      PROVE  Old(p, r, k, i) \/ Fresh(p, r, k, i)
  <2> DEFINE x == i + 1
  <2>1. x \in PartsOf(q, r) /\ p[i] = q[x] /\ x \in Int /\ x > 1
    BY <1>1
  <2>2. \A j \in PartsOf(q, r) : j < x =>
          \/ j = 1
          \/ j - 1 \in PartsOf(p, r) /\ j - 1 < i /\ p[j - 1] = q[j]
    <3> SUFFICES ASSUME NEW j \in PartsOf(q, r), j < x, j # 1
                 PROVE  /\ j - 1 \in PartsOf(p, r)
                        /\ j - 1 < i /\ p[j - 1] = q[j]
      OBVIOUS
    <3>1. j - 1 \in PartsOf(p, r) /\ j \in Int /\ i \in Int
      BY <1>1
    <3>2. (j - 1) + 1 = j /\ j - 1 < i
      BY <3>1
    <3>3. QED
      BY <1>1, <3>1, <3>2
  <2>3. \A j \in PartsOf(p, r) : j < i =>
          /\ j + 1 \in PartsOf(q, r) /\ j + 1 < x /\ p[j] = q[j + 1]
    BY <1>1
  <2>4. To(q[x]) \in Int /\ From(q[x]) \in Int
    BY <1>1, <2>1
  <2> HIDE DEF x
  <2>5. CASE Old(q, r, n, x)
    <3>1. CASE To(q[x]) <= n
      BY <2>1, <2>4, <3>1 DEF Old
    <3>2. CASE \E j \in PartsOf(q, r) : j < x /\ To(q[x]) <= To(q[j])
      <4>1. PICK j \in PartsOf(q, r) : j < x /\ To(q[x]) <= To(q[j])
        BY <3>2
      <4>2. CASE j = 1
        <5>1. To(q[1]) \in Int /\ To(q[1]) <= k
          BY <1>1, <1>2, <4>1, <4>2
        <5>2. To(q[x]) <= k
          BY <2>4, <4>1, <4>2, <5>1
        <5>3. QED
          BY <2>1, <5>2 DEF Old
      <4>3. CASE j # 1
        BY <2>1, <2>2, <4>1, <4>3 DEF Old
      <4>4. QED
        BY <4>2, <4>3
    <3>3. QED
      BY <2>5, <3>1, <3>2 DEF Old
  <2>6. CASE Fresh(q, r, n, x)
    <3>1. k <= From(q[x])
      <4>1. CASE k = n
        BY <2>6, <4>1 DEF Fresh
      <4>2. CASE k # n
        BY <1>3, <2>1, <2>6, <4>2 DEF Fresh
      <4>3. QED
        BY <4>1, <4>2
    <3>2. \A j \in PartsOf(p, r) : j < i => To(p[j]) <= From(p[i])
      BY <2>1, <2>3, <2>6 DEF Fresh
    <3>3. \/ From(p[i]) = k
          \/ \E j \in PartsOf(p, r) : j < i /\ From(p[i]) = To(p[j])
      <4>1. CASE From(q[x]) = n
        BY <2>1, <2>4, <3>1, <4>1
      <4>2. CASE \E j \in PartsOf(q, r) : j < x /\ From(q[x]) = To(q[j])
        <5>1. PICK j \in PartsOf(q, r) : j < x /\ From(q[x]) = To(q[j])
          BY <4>2
        <5>2. CASE j = 1
          <6>1. To(q[1]) \in Int /\ To(q[1]) <= k
            BY <1>1, <1>2, <5>1, <5>2
          <6>2. QED
            BY <2>1, <2>4, <3>1, <5>1, <5>2, <6>1
        <5>3. CASE j # 1
          BY <2>1, <2>2, <5>1, <5>3
        <5>4. QED
          BY <5>2, <5>3
      <4>3. QED
        BY <2>6, <4>1, <4>2 DEF Fresh
    <3>4. QED
      BY <2>1, <3>1, <3>2, <3>3 DEF Fresh
  <2>7. QED
    BY <2>1, <2>5, <2>6 DEF Ordered
<1>5. k = m \/ \E i \in PartsOf(p, r) : To(p[i]) = m
  <2>1. CASE n = m
    BY <2>1
  <2>2. CASE \E i \in PartsOf(q, r) : To(q[i]) = m
    <3>1. PICK i \in PartsOf(q, r) : To(q[i]) = m
      BY <2>2
    <3>2. CASE i = 1
      BY <1>2, <3>1, <3>2
    <3>3. CASE i # 1
      <4> DEFINE j == i - 1
      <4>1. j \in PartsOf(p, r) /\ i \in Int
        BY <1>1, <3>3
      <4>2. j + 1 = i
        BY <4>1
      <4> HIDE DEF j
      <4>3. p[j] = q[i]
        BY <1>1, <4>1, <4>2
      <4>4. QED
        BY <3>1, <4>1, <4>3
    <3>4. QED
      BY <3>2, <3>3
  <2>3. QED
    BY <2>1, <2>2 DEF Ordered
<1>6. QED
  BY <1>4, <1>5 DEF Ordered, p

-----------------------------------------------------------------------------
(* Types.                                                                    *)

(* What the lemmas below say of the types of a step's new values.            *)
ToGwTyped   == to_gw' \in Seq(Queued)
ToChipTyped == to_chip' \in Seq(FrameType)

(* The types, by name of variable.                                           *)
LEMMA TypesAre ==
  ASSUME InTypes
  PROVE  /\ conn \in [Requests -> ConnType] /\ task \in [Requests -> TaskType]
         /\ handler \in HandlerType
         /\ (handler.pc = "idle" <=> handler.req = None)
         /\ to_gw \in Seq(Queued) /\ to_chip \in Seq(FrameType)
         /\ server \in [Requests -> ServerType] /\ table \subseteq Requests
BY DEF InTypes, Queued

(* A handler that is not idle has a request.                                 *)
LEMMA HandlerHas ==
  ASSUME InTypes, handler.pc # "idle"
  PROVE  handler.req \in Requests
BY DEF InTypes, HandlerType

(* Frames of a connection.                                                   *)
LEMMA FrameTyped ==
  ASSUME NEW r \in Requests, NEW flags \in SUBSET Flags, NEW x \in SeqNums,
         NEW y \in SeqNums, NEW n \in Nat
  PROVE  Frame(r, flags, x, y, n) \in FrameType
BY DEF Frame, FrameType

(* _inject leaves one frame or none.                                         *)
LEMMA InjectTyped ==
  ASSUME NEW f \in FrameType, Inject(f) \/ Quiet
  PROVE  out' \in Seq(FrameType) /\ (out' = <<>> \/ out' = <<f>>)
<1>1. out' = <<>> \/ out' = <<f>>
  BY DEF Inject, Quiet
<1>2. <<>> \in Seq(FrameType) /\ <<f>> \in Seq(FrameType)
  OBVIOUS
<1>3. QED
  BY <1>1, <1>2

(* Frames join the websocket.                                                *)
LEMMA JoinTyped ==
  ASSUME InTypes, out' \in Seq(FrameType), to_chip' = to_chip \o out'
  PROVE  ToChipTyped
BY TypesAre DEF ToChipTyped

(* What the server acknowledges is a sequence number.                        *)
LEMMA ExpectsTyped ==
  ASSUME NEW v \in ServerType
  PROVE  Expects(v) \in SeqNums
<1> DEFINE x == IF v.heard THEN RequestLen ELSE 0
<1>1. v.their_isn \in Int /\ One(v.their_fin) \in Int
  <2>1. One(v.their_fin) = 1 \/ One(v.their_fin) = 0
    BY DEF One
  <2>2. v.their_isn \in Int
    BY SeqNumsAreInts DEF ServerType
  <2> DEFINE o == One(v.their_fin)
  <2>3. o = 1 \/ o = 0
    BY <2>1
  <2> HIDE DEF o
  <2>4. o \in Int
    BY <2>3
  <2>5. QED
    BY <2>2, <2>4 DEF o
<1>2. x \in Int
  BY InboundAssumption
<1> HIDE DEF x
<1>3. 1 + One(v.their_fin) + x \in Int
  BY <1>1, <1>2
<1>4. QED
  BY <1>1, <1>3, SeqAddTyped DEF Expects, x

(* What the segment of PutPart is.                                           *)
Sent(r, v, p) ==
    [req |-> r, seg |-> [flags |-> p.flags, seq |-> SeqAt(p.off),
                         ack |-> Expects(v), data |-> p.data]]

(* It is one.                                                                *)
LEMMA SentTyped ==
  ASSUME NEW r \in Requests, NEW v \in ServerType, NEW p \in PartType
  PROVE  Sent(r, v, p) \in Queued
BY ExpectsTyped, SeqAtMoves, 0 \in Int DEF Sent, Queued, SegType, PartType

(* A segment joins the websocket.                                            *)
LEMMA PutTyped ==
  ASSUME InTypes, NEW r \in Requests, NEW v \in ServerType, NEW p \in PartType,
         PutPart(r, v, p)
  PROVE  /\ to_gw' = Append(to_gw, Sent(r, v, p))
         /\ ToGwTyped
<1>1. to_gw' = Append(to_gw, Sent(r, v, p))
  BY DEF PutPart, Sent
<1>2. QED
  BY <1>1, SentTyped, TypesAre DEF ToGwTyped

(* A new part, and one without data.                                         *)
LEMMA PartTyped ==
  ASSUME NEW n \in Nat, NEW flags \in SUBSET Flags, NEW data \in Seq(Nat)
  PROVE  /\ Part(n, flags, data) \in PartType
         /\ Part(n, flags, data).off = n /\ Part(n, flags, data).flags = flags
         /\ Part(n, flags, data).data = data
BY DEF Part, PartType

(* The server's end after it sent something.                                 *)
LEMMA SendTyped ==
  ASSUME InTypes, NEW r \in Requests, NEW v \in ServerType,
         NEW flags \in SUBSET Flags, NEW data \in Seq(Nat),
         Send(r, v, flags, data)
  PROVE  server' \in [Requests -> ServerType] /\ ToGwTyped
<1> DEFINE p == Part(v.next, flags, data)
<1>1. v.next \in Nat /\ p \in PartType /\ p.data = data
  BY PartTyped DEF ServerType
<1>2. v.next + Span(p) \in Nat
  BY <1>1, SpanTyped
<1>3. ToGwTyped
  BY <1>1, PutTyped DEF Send
<1> DEFINE w == [v EXCEPT !.next = @ + Span(p), !.unacked = @ \cup {p},
                          !.fin = "FIN" \in flags]
<1>4. server' = [server EXCEPT ![r] = w]
  BY DEF Send
<1>5. w \in ServerType
  <2> DEFINE n == v.next + Span(p)
             u == v.unacked \cup {p}
             b == "FIN" \in flags
  <2>1. n \in Nat /\ u \in SUBSET PartType /\ b \in BOOLEAN
    BY <1>1, <1>2 DEF ServerType
  <2> HIDE DEF n, u, b
  <2>2. [v EXCEPT !.next = n, !.unacked = u, !.fin = b] \in ServerType
    BY <2>1 DEF ServerType
  <2>3. QED
    BY <2>2 DEF n, u, b
<1>6. QED
  BY <1>3, <1>4, <1>5, TypesAre

(* The server's own steps.                                                   *)
LEMMA ServerTypes ==
  ASSUME InTypes, NEW r \in Requests, ServerOK(server[r]),
         \/ ServerSends(r) \/ ServerFinishes(r)
         \/ ServerRetransmits(r) \/ ServerAborts(r)
  PROVE  InTypes'
<1>0. server[r] \in ServerType /\ {"ACK"} \in SUBSET Flags
      /\ {"ACK", "FIN"} \in SUBSET Flags /\ {"RST"} \in SUBSET Flags
      /\ <<>> \in Seq(Nat)
  BY TypesAre DEF Flags
<1>1. ASSUME server' \in [Requests -> ServerType], ToGwTyped,
             UNCHANGED <<inVars, to_chip>>
      PROVE  InTypes'
  BY <1>1 DEF InTypes, ToGwTyped, Queued, inVars
<1>2. CASE ServerSends(r)
  <2>1. PICK n \in Sizes, flags \in {{"ACK"}, {"ACK", "FIN"}} :
          /\ n <= Remaining(r)
          /\ Send(r, server[r], flags,
                  SubSeq(server[r].response, server[r].next,
                         server[r].next + n - 1))
    BY <1>2 DEF ServerSends
  <2>2. SubSeq(server[r].response, server[r].next, server[r].next + n - 1)
          \in Seq(Nat)
    <3>1. server[r].response \in Seq(Nat) /\ server[r].next \in Nat /\ n \in Nat
      BY <1>0, InboundTunnelAssumption DEF ServerType
    <3> DEFINE a == server[r].next
               b == server[r].next + n - 1
               x == server[r].response
    <3>2. b <= Len(x) /\ a \in Int /\ b \in Int /\ x \in Seq(Nat)
      BY <2>1, <3>1 DEF Remaining
    <3>3. CASE a >= 1
      <4> HIDE DEF a, b, x
      <4>1. \A i \in a .. b : i \in 1 .. Len(x)
        BY <3>2, <3>3
      <4>2. QED
        BY <3>2, <4>1 DEF a, b, x
    <3>4. a >= 1
      BY <1>2 DEF ServerSends, CanSend, ServerOK
    <3>5. QED
      BY <3>3, <3>4
  <2>3. QED
    BY <1>0, <1>1, <1>2, <2>1, <2>2, SendTyped DEF ServerSends
<1>3. CASE ServerFinishes(r)
  BY <1>0, <1>1, <1>3, SendTyped DEF ServerFinishes
<1>4. CASE ServerRetransmits(r)
  <2>1. PICK p \in server[r].unacked : PutPart(r, server[r], p)
    BY <1>4 DEF ServerRetransmits
  <2>2. p \in PartType
    BY <1>0, <2>1 DEF ServerType
  <2>3. ToGwTyped
    BY <1>0, <2>1, <2>2, PutTyped
  <2>4. [server[r] EXCEPT !.retransmits = @ + 1] \in ServerType
    BY <1>0 DEF ServerType
  <2>5. server' \in [Requests -> ServerType]
    BY <1>4, <2>4, TypesAre DEF ServerRetransmits
  <2>6. QED
    BY <1>1, <1>4, <2>3, <2>5 DEF ServerRetransmits
<1>5. CASE ServerAborts(r)
  <2>1. Part(server[r].next, {"RST"}, <<>>) \in PartType
    BY <1>0, PartTyped DEF ServerType
  <2>2. ToGwTyped
    BY <1>0, <1>5, <2>1, PutTyped DEF ServerAborts, Put
  <2>3. [server[r] EXCEPT !.st = "gone"] \in ServerType
    BY <1>0 DEF ServerType
  <2>4. server' \in [Requests -> ServerType]
    BY <1>5, <2>3, TypesAre DEF ServerAborts
  <2>5. QED
    BY <1>1, <1>5, <2>2, <2>4 DEF ServerAborts
<1>6. QED
  BY <1>2, <1>3, <1>4, <1>5

(* The server takes a frame.                                                 *)
LEMMA ReceiveTypes ==
  ASSUME InTypes, ServerReceives
  PROVE  InTypes'
<1> DEFINE f == Head(to_chip)
           r == f.req
<1>1. /\ to_chip \in Seq(FrameType) /\ to_chip # <<>> /\ f \in FrameType
      /\ Tail(to_chip) \in Seq(FrameType)
  BY TypesAre DEF ServerReceives
<1>2. /\ r \in Requests /\ f.seq \in SeqNums /\ server[r] \in ServerType
      /\ server \in [Requests -> ServerType] /\ to_gw \in Seq(Queued)
  BY <1>1, TypesAre DEF FrameType
<1>3. Listens(r, f) \/ IsReset(r, f) \/ Takes(r, f) \/ Refuses(r, f)
  BY DEF ServerReceives
<1>4. UNCHANGED inVars /\ to_chip' = Tail(to_chip)
  BY DEF ServerReceives
<1> HIDE DEF f, r
<1>5. ASSUME NEW v \in ServerType, NEW flags \in SUBSET Flags, Put(r, v, flags)
      PROVE  ToGwTyped
  <2>1. Part(v.next, flags, <<>>) \in PartType
    <3>1. v.next \in Nat /\ <<>> \in Seq(Nat)
      BY DEF ServerType
    <3>2. QED
      BY <3>1, PartTyped
  <2>2. QED
    BY <1>2, <1>5, <2>1, PutTyped DEF Put
<1>6. server' \in [Requests -> ServerType] /\ ToGwTyped
  <2>0. /\ {"SYN", "ACK"} \in SUBSET Flags /\ {"RST", "ACK"} \in SUBSET Flags
        /\ {"ACK"} \in SUBSET Flags /\ {"RST"} \in SUBSET Flags
        /\ <<>> \in Seq(Nat)
    BY DEF Flags
  <2>1. CASE Listens(r, f)
    <3> DEFINE v == [server[r] EXCEPT !.st = "open", !.their_isn = f.seq]
    <3>1. v \in ServerType /\ [v EXCEPT !.st = "gone"] \in ServerType
      BY <1>2 DEF ServerType
    <3>2. [server[r] EXCEPT !.st = "gone"] \in ServerType
      BY <1>2 DEF ServerType
    <3>3. \/ Send(r, v, {"SYN", "ACK"}, <<>>)
          \/ /\ server' = [server EXCEPT ![r].st = "gone"]
             /\ Put(r, v, {"RST", "ACK"})
      BY <2>1 DEF Listens
    <3> HIDE DEF v
    <3>4. CASE Send(r, v, {"SYN", "ACK"}, <<>>)
      BY <1>2, <2>0, <3>1, <3>4, SendTyped
    <3>5. CASE /\ server' = [server EXCEPT ![r].st = "gone"]
               /\ Put(r, v, {"RST", "ACK"})
      BY <1>2, <1>5, <2>0, <3>1, <3>2, <3>5
    <3>6. QED
      BY <3>3, <3>4, <3>5
  <2>2. CASE IsReset(r, f)
    <3> DEFINE st == IF f.seq = Expects(server[r]) /\ ~Over(server[r])
                     THEN "reset" ELSE server[r].st
    <3>1. server' = [server EXCEPT ![r].st = st]
      BY <2>2 DEF IsReset
    <3>2. server' \in [Requests -> ServerType]
      <4>1. st \in {"listen", "open", "gone", "reset"}
        BY <1>2 DEF ServerType
      <4> HIDE DEF st
      <4>2. [server[r] EXCEPT !.st = st] \in ServerType
        BY <1>2, <4>1 DEF ServerType
      <4>3. QED
        BY <1>2, <3>1, <4>2
    <3>3. QED
      BY <1>2, <2>2, <3>2 DEF IsReset, ToGwTyped
  <2>3. CASE Takes(r, f)
    <3> DEFINE v == server[r]
               next == f.seq = Expects(v)
               hear == next /\ f.len > 0 /\ ~v.heard
               W(x) == [v EXCEPT !.unacked = StillUnacked(v, f),
                                 !.heard = @ \/ hear,
                                 !.response = IF hear THEN x ELSE @,
                                 !.their_fin = @ \/ (next /\ "FIN" \in f.flags)]
    <3>1. PICK x \in Responses :
            /\ server' = [server EXCEPT ![r] = W(x)]
            /\ IF "FIN" \in f.flags THEN Put(r, W(x), {"ACK"})
               ELSE UNCHANGED to_gw
      BY <2>3 DEF Takes
    <3>2. W(x) \in ServerType
      <4> DEFINE u == StillUnacked(v, f)
                 b == v.heard \/ hear
                 y == IF hear THEN x ELSE v.response
                 d == v.their_fin \/ (next /\ "FIN" \in f.flags)
      <4>1. u \in SUBSET PartType
        BY <1>2 DEF StillUnacked, ServerType
      <4>2. b \in BOOLEAN /\ d \in BOOLEAN
        OBVIOUS
      <4>3. y \in Seq(Nat)
        <5>1. x \in Seq(Nat) /\ v.response \in Seq(Nat)
          BY <1>2, InboundTunnelAssumption DEF ServerType
        <5> HIDE DEF hear
        <5>2. QED
          BY <5>1
      <4> HIDE DEF u, b, y, d
      <4>4. [v EXCEPT !.unacked = u, !.heard = b, !.response = y,
                      !.their_fin = d] \in ServerType
        BY <1>2, <4>1, <4>2, <4>3 DEF ServerType
      <4>5. QED
        BY <4>4 DEF u, b, y, d
    <3> HIDE DEF W
    <3>3. server' \in [Requests -> ServerType]
      BY <1>2, <3>1, <3>2
    <3>4. ToGwTyped
      BY <1>2, <1>5, <2>0, <3>1, <3>2 DEF ToGwTyped
    <3>5. QED
      BY <3>3, <3>4
  <2>4. CASE Refuses(r, f)
    <3>1. ToGwTyped
      BY <1>2, <1>5, <2>0, <2>4 DEF Refuses, ToGwTyped
    <3>2. QED
      BY <1>2, <2>4, <3>1 DEF Refuses
  <2>5. QED
    BY <1>3, <2>1, <2>2, <2>3, <2>4
<1>7. QED
  BY <1>1, <1>4, <1>6 DEF InTypes, inVars, ToGwTyped, Queued

(* A step of the gateway, by what it leaves.                                 *)
LEMMA GatewayTyped ==
  ASSUME InTypes, conn' \in [Requests -> ConnType],
         task' \in [Requests -> TaskType], handler' \in HandlerType,
         handler'.pc = "idle" <=> handler'.req = None,
         bridge' \in {"running", "stopping", "stopped"},
         table' \subseteq Requests, out' \in Seq(FrameType),
         to_chip' = to_chip \o out', to_gw' \in {to_gw, Tail(to_gw)},
         to_gw' = to_gw \/ to_gw # <<>>, server' = server
  PROVE  InTypes'
<1>1. to_chip' \in Seq(FrameType)
  BY JoinTyped DEF ToChipTyped
<1>2. to_gw' \in Seq(Queued)
  <2>1. to_gw \in Seq(Queued)
    BY TypesAre
  <2>2. to_gw # <<>> => Tail(to_gw) \in Seq(Queued)
    BY <2>1
  <2>3. QED
    BY <2>1, <2>2
<1>3. QED
  BY <1>1, <1>2 DEF InTypes, Queued

(* A frame of a connection, or none.                                         *)
LEMMA EmitTyped ==
  ASSUME NEW r \in Requests, NEW c \in ConnType, NEW flags \in SUBSET Flags,
         Emit(r, c, flags)
  PROVE  out' \in Seq(FrameType)
<1>1. c.our_seq \in SeqNums /\ c.chip_seq \in SeqNums /\ 0 \in Nat
  BY DEF ConnType
<1>2. QED
  BY <1>1, FrameTyped, InjectTyped DEF Emit

(* Nothing is emitted.                                                       *)
LEMMA QuietTyped == Quiet => out' \in Seq(FrameType)
BY DEF Quiet

(* A handler that has a request.                                             *)
LEMMA HandlerTyped ==
  ASSUME InTypes, NEW r \in Requests, NEW fin \in BOOLEAN,
         NEW pc \in {"established", "data_acked", "fin_acked", "fin_sent"},
         handler' = [pc |-> pc, req |-> r, fin |-> fin]
  PROVE  /\ handler' \in HandlerType
         /\ handler'.pc = "idle" <=> handler'.req = None
         /\ handler'.pc = pc /\ handler'.req = r
BY InboundAssumption DEF HandlerType

(* And one that has not.                                                     *)
LEMMA IdleTyped ==
  Idle \in HandlerType /\ (Idle.pc = "idle" <=> Idle.req = None)
BY DEF Idle, HandlerType

(* The numbers of a connection, and what it has collected.                   *)
LEMMA ConnNumbers ==
  ASSUME NEW c \in ConnType
  PROVE  /\ c.our_seq \in SeqNums /\ c.chip_seq \in SeqNums
         /\ c.our_seq \in Int /\ c.chip_seq \in Int /\ c.rx \in Seq(Nat)
<1>1. c.our_seq \in SeqNums /\ c.chip_seq \in SeqNums /\ c.rx \in Seq(Nat)
  BY DEF ConnType
<1>2. QED
  BY <1>1, SeqNumsAreInts

(* A new connection.                                                         *)
LEMMA NewConnTyped ==
  ASSUME NEW isn \in SeqNums
  PROVE  /\ NewConn(isn) \in ConnType /\ NewConn(isn).state = "SYN_SENT"
         /\ NewConn(isn).rx = <<>> /\ NewConn(isn).chip_seq = 0
         /\ ~NewConn(isn).reset /\ ~NewConn(isn).finished
<1>1. seq_add(isn, 1) \in SeqNums /\ 0 \in SeqNums /\ <<>> \in Seq(Nat)
  BY SeqAddTyped, SeqNumsAreInts
<1>2. QED
  BY <1>1 DEF NewConn, ConnType

-----------------------------------------------------------------------------
(* Steps of a request's task once its connection is open.                    *)

(* Such a step changes the connection in nothing the server's stream shows,  *)
(* and sends at most an ACK of what has been collected.                      *)
Runs(r) ==
    /\ conn' \in [Requests -> ConnType] /\ task' \in [Requests -> TaskType]
    /\ \A d \in Requests \ {r} : conn'[d] = conn[d] /\ task'[d] = task[d]
    /\ task[r].pc \notin {"new", "arp"} /\ task'[r].pc \notin {"new", "arp"}
    /\ conn'[r].rx = conn[r].rx /\ conn'[r].chip_seq = conn[r].chip_seq
    /\ conn'[r].reset = conn[r].reset /\ conn'[r].finished = conn[r].finished
    /\ conn'[r].state \in {conn[r].state, "CLOSED"}
    /\ UNCHANGED <<bridge, handler>> /\ table' \subseteq table
    /\ out' \in Seq(FrameType)
    /\ \/ out' = <<>>
       \/ \E f \in FrameType :
            /\ out' = <<f>> /\ f.req = r /\ f.flags = {"ACK"}
            /\ f.ack = conn[r].chip_seq /\ conn[r].state = "ESTABLISHED"

(* c is the connection of r with other fields changed than those.            *)
Like(r, c) ==
    /\ c \in ConnType /\ c.rx = conn[r].rx /\ c.chip_seq = conn[r].chip_seq
    /\ c.reset = conn[r].reset /\ c.finished = conn[r].finished

(* The task changes where it stands.                                         *)
LEMMA GoesToTyped ==
  ASSUME InTypes, NEW r \in Requests,
         NEW pc \in {"arp", "await", "sending", "wait", "gone"},
         GoesTo(r, pc)
  PROVE  /\ task' \in [Requests -> TaskType] /\ task'[r].pc = pc
         /\ \A d \in Requests \ {r} : task'[d] = task[d]
<1> DEFINE t == [task[r] EXCEPT !.pc = pc]
<1>1. t \in TaskType /\ t.pc = pc
  BY TypesAre DEF TaskType
<1>2. task' = [task EXCEPT ![r] = t]
  BY DEF GoesTo
<1> HIDE DEF t
<1>3. QED
  BY <1>1, <1>2, TypesAre

(* A return.                                                                 *)
LEMMA ReturnsRuns ==
  ASSUME InTypes, NEW r \in Requests, task[r].pc \notin {"new", "arp"},
         NEW c, Like(r, c),
         NEW how \in {"timeout", "failed", "fin", "complete", "deadline",
                      "idle"},
         Returns(r, c, how), Quiet, UNCHANGED <<bridge, handler>>
  PROVE  Runs(r)
<1> DEFINE t == [task[r] EXCEPT !.pc = "over", !.how = how]
           x == [c EXCEPT !.state = "CLOSED"]
<1>1. t \in TaskType /\ t.pc = "over"
  BY TypesAre DEF TaskType
<1>2. Like(r, x) /\ x.state = "CLOSED"
  BY DEF Like, ConnType
<1>3. /\ task' = [task EXCEPT ![r] = t] /\ conn' = [conn EXCEPT ![r] = x]
      /\ table' = table
  BY DEF Returns, KeptInTimeWait
<1> HIDE DEF t, x
<1>4. /\ conn' \in [Requests -> ConnType] /\ task' \in [Requests -> TaskType]
      /\ conn'[r] = x /\ task'[r] = t
      /\ \A d \in Requests \ {r} : conn'[d] = conn[d] /\ task'[d] = task[d]
  BY <1>1, <1>2, <1>3, TypesAre DEF Like
<1>5. out' = <<>> /\ out' \in Seq(FrameType)
  BY DEF Quiet
<1>6. QED
  BY <1>1, <1>2, <1>3, <1>4, <1>5 DEF Runs, Like

(* A round of the loop.                                                      *)
LEMMA RoundRuns ==
  ASSUME InTypes, NEW r \in Requests, task[r].pc \notin {"new", "arp"},
         NEW c, Like(r, c), c.state = conn[r].state,
         Round(r, c), Quiet, UNCHANGED <<bridge, handler>>
  PROVE  Runs(r)
<1>1. CASE \E how \in {"fin", "complete", "deadline"} : Returns(r, c, how)
  BY <1>1, ReturnsRuns
<1>2. CASE /\ conn' = [conn EXCEPT ![r] = [c EXCEPT !.data_event = FALSE]]
           /\ GoesTo(r, "wait") /\ UNCHANGED table
  <2> DEFINE x == [c EXCEPT !.data_event = FALSE]
  <2>1. Like(r, x) /\ x.state = conn[r].state
    BY DEF Like, ConnType
  <2>2. conn' = [conn EXCEPT ![r] = x]
    BY <1>2
  <2> HIDE DEF x
  <2>3. /\ conn' \in [Requests -> ConnType] /\ conn'[r] = x
        /\ \A d \in Requests \ {r} : conn'[d] = conn[d]
    BY <2>1, <2>2, TypesAre DEF Like
  <2>4. /\ task' \in [Requests -> TaskType] /\ task'[r].pc = "wait"
        /\ \A d \in Requests \ {r} : task'[d] = task[d]
    BY <1>2, GoesToTyped
  <2>5. out' = <<>> /\ out' \in Seq(FrameType)
    BY DEF Quiet
  <2>6. QED
    BY <1>2, <2>1, <2>3, <2>4, <2>5 DEF Runs, Like
<1>3. QED
  BY <1>1, <1>2 DEF Round

(* Every such step is one.                                                   *)
LEMMA TaskRunsOn ==
  ASSUME InTypes, NEW r \in Requests,
         \/ SynTimesOut(r) \/ Fails(r) \/ SendsRequest(r) \/ RequestSent(r)
         \/ Wakes(r) \/ Polls(r) \/ DeadlinePasses(r) \/ Forgets(r)
  PROVE  Runs(r)
<1>0. conn[r] \in ConnType /\ Like(r, conn[r])
  BY TypesAre DEF Like
<1>1. CASE SynTimesOut(r)
  BY <1>0, <1>1, ReturnsRuns DEF SynTimesOut, At
<1>2. CASE Fails(r)
  BY <1>0, <1>2, ReturnsRuns DEF Fails, At
<1>3. CASE SendsRequest(r)
  <2> DEFINE f == Frame(r, {"ACK"}, conn[r].our_seq, conn[r].chip_seq,
                        RequestLen)
  <2>1. f \in FrameType
    BY <1>0, ConnNumbers, FrameTyped, InboundAssumption DEF Flags
  <2>2. f.req = r /\ f.flags = {"ACK"} /\ f.ack = conn[r].chip_seq
    BY DEF Frame
  <2>3. Inject(f)
    BY <1>3 DEF SendsRequest
  <2> HIDE DEF f
  <2>4. out' \in Seq(FrameType) /\ (out' = <<>> \/ out' = <<f>>)
    BY <2>1, <2>3, InjectTyped
  <2>5. /\ task' \in [Requests -> TaskType] /\ task'[r].pc = "sending"
        /\ \A d \in Requests \ {r} : task'[d] = task[d]
    BY <1>3, GoesToTyped DEF SendsRequest
  <2>6. /\ task[r].pc = "await" /\ conn[r].state = "ESTABLISHED"
        /\ UNCHANGED <<bridge, table, conn, handler>>
    BY <1>3 DEF SendsRequest, At
  <2>7. QED
    BY <2>1, <2>2, <2>4, <2>5, <2>6, TypesAre DEF Runs
<1>4. CASE RequestSent(r)
  <2> DEFINE n == seq_add(conn[r].our_seq, RequestLen)
             c == [conn[r] EXCEPT !.our_seq = n]
  <2>1. n \in SeqNums
    BY <1>0, ConnNumbers, SeqAddTyped, InboundAssumption
  <2> HIDE DEF n
  <2>2. Like(r, c) /\ c.state = conn[r].state
    BY <1>0, <2>1 DEF Like, ConnType
  <2>3. Round(r, c)
    BY <1>4 DEF RequestSent, n
  <2> HIDE DEF c
  <2>4. QED
    BY <1>4, <2>2, <2>3, RoundRuns DEF RequestSent, At
<1>5. CASE Wakes(r)
  BY <1>0, <1>5, RoundRuns DEF Wakes, At
<1>6. CASE Polls(r)
  BY <1>0, <1>6, RoundRuns, ReturnsRuns DEF Polls, At
<1>7. CASE DeadlinePasses(r)
  <2> DEFINE t == [task[r] EXCEPT !.late = TRUE]
  <2>1. t \in TaskType /\ t.pc = task[r].pc
    BY TypesAre DEF TaskType
  <2>2. task' = [task EXCEPT ![r] = t]
    BY <1>7 DEF DeadlinePasses
  <2> HIDE DEF t
  <2>3. /\ task' \in [Requests -> TaskType] /\ task'[r] = t
        /\ \A d \in Requests \ {r} : task'[d] = task[d]
    BY <2>1, <2>2, TypesAre
  <2>4. /\ out' = <<>> /\ out' \in Seq(FrameType) /\ task[r].pc = "wait"
        /\ UNCHANGED <<bridge, table, conn, handler>>
    BY <1>7 DEF DeadlinePasses, At, Quiet
  <2>5. QED
    BY <2>1, <2>3, <2>4, TypesAre DEF Runs
<1>8. CASE Forgets(r)
  <2>1. /\ task' \in [Requests -> TaskType] /\ task'[r].pc = "gone"
        /\ \A d \in Requests \ {r} : task'[d] = task[d]
    BY <1>8, GoesToTyped DEF Forgets
  <2>2. /\ out' = <<>> /\ out' \in Seq(FrameType) /\ task[r].pc = "over"
        /\ UNCHANGED <<bridge, conn, handler>> /\ table' = table \ {r}
    BY <1>8 DEF Forgets, At, Quiet
  <2>3. QED
    BY <2>1, <2>2, TypesAre DEF Runs
<1>9. QED
  BY <1>1, <1>2, <1>3, <1>4, <1>5, <1>6, <1>7, <1>8

(* The types survive it.                                                     *)
LEMMA RunsTyped ==
  ASSUME InTypes, NEW r \in Requests, Emits(Runs(r))
  PROVE  InTypes'
<1>1. /\ Runs(r) /\ to_chip' = to_chip \o out'
      /\ to_gw' = to_gw /\ server' = server
  BY DEF Emits
<1>2. /\ handler' = handler /\ bridge' = bridge /\ table' \subseteq Requests
      /\ conn' \in [Requests -> ConnType] /\ task' \in [Requests -> TaskType]
      /\ out' \in Seq(FrameType)
  BY <1>1, TypesAre DEF Runs
<1>3. /\ handler' \in HandlerType
      /\ (handler'.pc = "idle" <=> handler'.req = None)
      /\ bridge' \in {"running", "stopping", "stopped"}
  BY <1>2 DEF InTypes
<1>4. QED
  BY <1>1, <1>2, <1>3, GatewayTyped

(* A request begins, and opens its connection.                               *)
LEMMA OpensTyped ==
  ASSUME InTypes, NEW r \in Requests, Emits(http_into_chip(r) \/ Opens(r))
  PROVE  InTypes'
<1>1. /\ to_chip' = to_chip \o out' /\ to_gw' = to_gw /\ server' = server
      /\ http_into_chip(r) \/ Opens(r)
  BY DEF Emits
<1>2. UNCHANGED <<bridge, handler>>
  BY <1>1 DEF http_into_chip, Opens
<1>3. CASE http_into_chip(r)
  <2>1. task' \in [Requests -> TaskType]
    <3>1. GoesTo(r, "arp") \/ GoesTo(r, "gone")
      BY <1>3 DEF http_into_chip
    <3>2. QED
      BY <3>1, GoesToTyped
  <2>2. out' \in Seq(FrameType) /\ UNCHANGED <<table, conn>>
    BY <1>3, QuietTyped DEF http_into_chip
  <2>3. QED
    BY <1>1, <1>2, <2>1, <2>2, GatewayTyped, TypesAre DEF InTypes
<1>4. CASE Opens(r)
  <2>1. PICK isn \in ISNs : /\ conn' = [conn EXCEPT ![r] = NewConn(isn)]
                            /\ Inject(Frame(r, {"SYN"}, isn, 0, 0))
    BY <1>4 DEF Opens
  <2>2. isn \in SeqNums /\ 0 \in SeqNums /\ 0 \in Nat
        /\ {"SYN"} \in SUBSET Flags
    BY InboundAssumption, SeqNumsAreInts DEF Flags
  <2>3. conn' \in [Requests -> ConnType]
    BY <2>1, <2>2, NewConnTyped, TypesAre
  <2>4. out' \in Seq(FrameType)
    BY <2>1, <2>2, FrameTyped, InjectTyped
  <2>5. task' \in [Requests -> TaskType] /\ table' \subseteq Requests
    BY <1>4, GoesToTyped, TypesAre DEF Opens
  <2>6. QED
    BY <1>1, <1>2, <2>3, <2>4, <2>5, GatewayTyped DEF InTypes
<1>5. QED
  BY <1>1, <1>3, <1>4

(* The handler goes on after a send.                                         *)
LEMMA HandlerRunsTyped ==
  ASSUME InTypes, Emits(HandlerRuns)
  PROVE  InTypes'
<1> DEFINE r == handler.req
<1>1. /\ to_chip' = to_chip \o out' /\ to_gw' = to_gw /\ server' = server
      /\ Established \/ DataAcked \/ FinAcked \/ FinSent
  BY DEF Emits, HandlerRuns
<1>2. UNCHANGED <<bridge, table, task>> /\ handler.pc # "idle"
  BY <1>1 DEF Established, DataAcked, FinAcked, FinSent, HandlerAt
<1>3. r \in Requests /\ conn[r] \in ConnType
  BY <1>2, HandlerHas, TypesAre
<1>4. ASSUME NEW c \in ConnType, conn' = [conn EXCEPT ![r] = c]
      PROVE  conn' \in [Requests -> ConnType]
  BY <1>3, <1>4, TypesAre
<1>5. ASSUME conn' \in [Requests -> ConnType], out' \in Seq(FrameType),
             handler' = Idle
      PROVE  InTypes'
  BY <1>1, <1>2, <1>5, GatewayTyped, IdleTyped, TypesAre DEF InTypes
<1>6. ASSUME conn' \in [Requests -> ConnType], out' \in Seq(FrameType),
             NEW pc \in {"fin_acked", "fin_sent"},
             handler' = [handler EXCEPT !.pc = pc]
      PROVE  InTypes'
  <2>1. handler' = [pc |-> pc, req |-> r, fin |-> handler.fin]
        /\ handler.fin \in BOOLEAN
    BY <1>6, TypesAre DEF HandlerType
  <2>2. handler' \in HandlerType
        /\ (handler'.pc = "idle" <=> handler'.req = None)
    BY <1>3, <2>1, HandlerTyped
  <2>3. QED
    BY <1>1, <1>2, <1>6, <2>2, GatewayTyped, TypesAre DEF InTypes
<1> HIDE DEF r
<1>7. CASE Established
  <2>1. [conn[r] EXCEPT !.established = TRUE] \in ConnType
    BY <1>3 DEF ConnType
  <2>2. conn' = [conn EXCEPT ![r] = [conn[r] EXCEPT !.established = TRUE]]
    BY <1>7 DEF Established, r
  <2>3. handler' = Idle /\ Quiet
    BY <1>7 DEF Established
  <2>4. QED
    BY <1>4, <1>5, <2>1, <2>2, <2>3, QuietTyped
<1>8. CASE DataAcked
  <2> DEFINE c == [conn[r] EXCEPT !.data_event = Told]
  <2>1. c \in ConnType
    BY <1>3 DEF ConnType, Told
  <2>2. CASE ~handler.fin
    <3>1. conn' = [conn EXCEPT ![r] = c] /\ Quiet /\ handler' = Idle
      BY <1>8, <2>2 DEF DataAcked, r
    <3>2. QED
      BY <1>4, <1>5, <2>1, <3>1, QuietTyped
  <2>3. CASE handler.fin
    <3> DEFINE n == seq_add(c.chip_seq, FinSpan)
               d == [c EXCEPT !.chip_seq = n]
    <3>1. /\ conn' = [conn EXCEPT ![r] = d] /\ Emit(r, conn'[r], {"ACK"})
          /\ handler' = [handler EXCEPT !.pc = "fin_acked"]
      BY <1>8, <2>3 DEF DataAcked, r
    <3>2. n \in SeqNums
      BY <2>1, ConnNumbers, SeqAddTyped, 1 \in Int DEF FinSpan
    <3> HIDE DEF n, c
    <3>3. d \in ConnType
      BY <2>1, <3>2 DEF ConnType
    <3> HIDE DEF d
    <3>4. conn' \in [Requests -> ConnType] /\ conn'[r] = d
      BY <1>3, <1>4, <3>1, <3>3, TypesAre
    <3>5. out' \in Seq(FrameType)
      BY <1>3, <3>1, <3>3, <3>4, EmitTyped DEF Flags
    <3>6. QED
      BY <1>6, <3>1, <3>4, <3>5
  <2>4. QED
    BY <2>2, <2>3
<1>9. CASE FinAcked
  <2>1. /\ Emit(r, conn[r], {"ACK", "FIN"}) /\ conn' = conn
        /\ handler' = [handler EXCEPT !.pc = "fin_sent"]
    BY <1>9 DEF FinAcked, r
  <2>2. out' \in Seq(FrameType)
    BY <1>3, <2>1, EmitTyped DEF Flags
  <2>3. conn' \in [Requests -> ConnType]
    BY <2>1, TypesAre
  <2>4. QED
    BY <1>6, <2>1, <2>2, <2>3
<1>10. CASE FinSent
  <2> DEFINE n == seq_add(conn[r].our_seq, 1)
             c == [conn[r] EXCEPT !.our_seq = n, !.state = "CLOSED",
                                  !.finished = TRUE]
  <2>1. n \in SeqNums
    BY <1>3, ConnNumbers, SeqAddTyped, 1 \in Int
  <2>2. conn' = [conn EXCEPT ![r] = c] /\ handler' = Idle /\ Quiet
    BY <1>10 DEF FinSent, r
  <2> HIDE DEF n
  <2>3. c \in ConnType
    BY <1>3, <2>1 DEF ConnType
  <2> HIDE DEF c
  <2>4. QED
    BY <1>4, <1>5, <2>2, <2>3, QuietTyped
<1>11. QED
  BY <1>1, <1>7, <1>8, <1>9, <1>10

(* The gateway takes a segment.                                              *)
LEMMA DeliverTyped ==
  ASSUME InTypes, GwReceives
  PROVE  InTypes'
<1> DEFINE r == Head(to_gw).req
           s == Head(to_gw).seg
           c == conn[r]
<1>1. /\ to_gw # <<>> /\ to_gw' = Tail(to_gw) /\ to_chip' = to_chip \o out'
      /\ server' = server /\ deliver_packet_out(r, s)
  BY DEF GwReceives
<1>2. Head(to_gw) \in Queued
  BY <1>1, PartsTail, TypesAre
<1>3. r \in Requests /\ s \in SegType /\ c \in ConnType
  BY <1>2, TypesAre DEF Queued
<1>4. s.seq \in SeqNums /\ s.ack \in SeqNums /\ s.data \in Seq(Nat)
      /\ s.seq \in Int /\ Len(s.data) \in Int
  <2> HIDE DEF r, s
  <2>1. s.seq \in SeqNums /\ s.ack \in SeqNums /\ s.data \in Seq(Nat)
    BY <1>3 DEF SegType
  <2>2. s.seq \in Int
    BY <2>1, SeqNumsAreInts
  <2>3. Len(s.data) \in Nat
    BY <2>1, SpanTyped
  <2>4. QED
    BY <2>1, <2>2, <2>3
<1> HIDE DEF r, s
<1>5. UNCHANGED <<bridge, table, task>> /\ handler.pc = "idle"
  BY <1>1 DEF deliver_packet_out, HandlerAt
<1>6. ASSUME UNCHANGED <<conn, handler>>, out' \in Seq(FrameType)
      PROVE  InTypes'
  BY <1>1, <1>5, <1>6, GatewayTyped, TypesAre DEF InTypes
<1>7. ASSUME NEW x \in ConnType, conn' = [conn EXCEPT ![r] = x],
             out' \in Seq(FrameType), UNCHANGED handler
      PROVE  InTypes'
  <2>1. conn' \in [Requests -> ConnType]
    BY <1>7, TypesAre
  <2>2. QED
    BY <1>1, <1>5, <1>7, <2>1, GatewayTyped, TypesAre DEF InTypes
<1>8. ASSUME NEW x \in ConnType, conn' = [conn EXCEPT ![r] = x],
             Emit(r, conn'[r], {"ACK"}),
             NEW pc \in {"established", "data_acked", "fin_acked"},
             HandlerGoesTo(pc, r, s)
      PROVE  InTypes'
  <2>1. conn' \in [Requests -> ConnType] /\ conn'[r] = x
    BY <1>3, <1>8, TypesAre
  <2>2. out' \in Seq(FrameType)
    BY <1>3, <1>8, <2>1, EmitTyped DEF Flags
  <2> DEFINE b == "FIN" \in s.flags
  <2>3. b \in BOOLEAN /\ handler' = [pc |-> pc, req |-> r, fin |-> b]
    BY <1>8 DEF HandlerGoesTo
  <2> HIDE DEF b
  <2>4. handler' \in HandlerType
        /\ (handler'.pc = "idle" <=> handler'.req = None)
    BY <1>3, <2>3, HandlerTyped
  <2>5. QED
    BY <1>1, <1>5, <2>1, <2>2, <2>4, GatewayTyped, TypesAre DEF InTypes
<1>9. CASE bridge # "running"
  BY <1>1, <1>6, <1>9, QuietTyped DEF deliver_packet_out
<1>10. CASE bridge = "running" /\ r \notin table
  <2>1. Stray(r, s) /\ UNCHANGED <<conn, handler>>
    BY <1>1, <1>10 DEF deliver_packet_out, Stray
  <2> DEFINE n == IF "SYN" \in s.flags THEN 1 ELSE Len(s.data)
             y == seq_add(s.seq, n)
  <2>2. n \in Int
    BY <1>4
  <2> HIDE DEF n
  <2>3. y \in SeqNums
    BY <1>4, <2>2, SeqAddTyped
  <2>4. Quiet \/ Inject(Frame(r, {"RST", "ACK"}, s.ack, y, 0))
    BY <2>1 DEF Stray, n
  <2> HIDE DEF y
  <2>5. {"RST", "ACK"} \in SUBSET Flags /\ 0 \in Nat
    BY DEF Flags
  <2>6. out' \in Seq(FrameType)
    BY <1>3, <1>4, <2>3, <2>4, <2>5, FrameTyped, InjectTyped, QuietTyped
  <2>7. QED
    BY <1>6, <2>1, <2>6
<1>11. CASE bridge = "running" /\ r \in table
  <2>1. ChipRst(r, s) \/ SynAcked(r, s) \/ TimeWait(r, s) \/ Collects(r, s)
    BY <1>1, <1>11 DEF deliver_packet_out
  <2>2. CASE ChipRst(r, s)
    <3> DEFINE x == [c EXCEPT !.reset = TRUE, !.state = "CLOSED",
                              !.established = TRUE, !.finished = TRUE]
    <3>1. x \in ConnType
      BY <1>3 DEF ConnType
    <3>2. conn' = [conn EXCEPT ![r] = x] /\ Quiet /\ UNCHANGED handler
      BY <2>2 DEF ChipRst
    <3> HIDE DEF x
    <3>3. QED
      BY <1>7, <3>1, <3>2, QuietTyped
  <2>3. CASE SynAcked(r, s)
    <3>1. CASE {"SYN", "ACK"} \subseteq s.flags
      <4> DEFINE n == seq_add(s.seq, 1)
                 x == [c EXCEPT !.chip_seq = n, !.state = "ESTABLISHED"]
      <4>1. n \in SeqNums
        BY <1>4, SeqAddTyped, 1 \in Int
      <4>2. /\ conn' = [conn EXCEPT ![r] = x] /\ Emit(r, conn'[r], {"ACK"})
            /\ HandlerGoesTo("established", r, s)
        BY <2>3, <3>1 DEF SynAcked
      <4> HIDE DEF n
      <4>3. x \in ConnType
        BY <1>3, <4>1 DEF ConnType
      <4> HIDE DEF x
      <4>4. QED
        BY <1>8, <4>2, <4>3
    <3>2. CASE ~({"SYN", "ACK"} \subseteq s.flags)
      BY <1>6, <2>3, <3>2, QuietTyped DEF SynAcked
    <3>3. QED
      BY <3>1, <3>2
  <2>4. CASE TimeWait(r, s)
    <3>1. Quiet \/ Inject(Frame(r, {"ACK"}, c.our_seq, c.chip_seq, 0))
      BY <2>4 DEF TimeWait, AcksCollected
    <3>2. {"ACK"} \in SUBSET Flags /\ 0 \in Nat
      BY DEF Flags
    <3>3. out' \in Seq(FrameType)
      BY <1>3, <3>1, <3>2, ConnNumbers, FrameTyped, InjectTyped, QuietTyped
    <3>4. QED
      BY <1>6, <2>4, <3>3 DEF TimeWait
  <2>5. CASE Collects(r, s)
    <3>1. CASE s.data # <<>> /\ InOrder(r, s)
      <4> DEFINE n == seq_add(c.chip_seq, Len(s.data))
                 y == c.rx \o s.data
                 x == [c EXCEPT !.rx = y, !.chip_seq = n]
      <4>1. n \in SeqNums /\ y \in Seq(Nat)
        BY <1>3, <1>4, ConnNumbers, SeqAddTyped
      <4>2. /\ conn' = [conn EXCEPT ![r] = x] /\ Emit(r, conn'[r], {"ACK"})
            /\ HandlerGoesTo("data_acked", r, s)
        BY <2>5, <3>1 DEF Collects
      <4> HIDE DEF n, y
      <4>3. x \in ConnType
        BY <1>3, <4>1 DEF ConnType
      <4> HIDE DEF x
      <4>4. QED
        BY <1>8, <4>2, <4>3
    <3>2. CASE s.data # <<>> /\ ~InOrder(r, s)
      <4>1. Emit(r, c, {"ACK"}) /\ UNCHANGED <<conn, handler>>
        BY <2>5, <3>2 DEF Collects
      <4>2. QED
        BY <1>3, <1>6, <4>1, EmitTyped DEF Flags
    <3>3. CASE s.data = <<>> /\ "FIN" \in s.flags
      <4> DEFINE n == seq_add(c.chip_seq, FinSpan)
                 x == [c EXCEPT !.chip_seq = n]
      <4>1. n \in SeqNums
        BY <1>3, ConnNumbers, SeqAddTyped, 1 \in Int DEF FinSpan
      <4>2. /\ conn' = [conn EXCEPT ![r] = x] /\ Emit(r, conn'[r], {"ACK"})
            /\ HandlerGoesTo("fin_acked", r, s)
        BY <2>5, <3>3 DEF Collects, AcksFin
      <4> HIDE DEF n
      <4>3. x \in ConnType
        BY <1>3, <4>1 DEF ConnType
      <4> HIDE DEF x
      <4>4. QED
        BY <1>8, <4>2, <4>3
    <3>4. CASE s.data = <<>> /\ "FIN" \notin s.flags
      BY <1>6, <2>5, <3>4, QuietTyped DEF Collects
    <3>5. QED
      BY <3>1, <3>2, <3>3, <3>4
  <2>6. QED
    BY <2>1, <2>2, <2>3, <2>4, <2>5
<1>12. QED
  BY <1>9, <1>10, <1>11

(* The bridge stops.                                                         *)
LEMMA StopTyped ==
  ASSUME InTypes, Emits(stop \/ shutdown)
  PROVE  InTypes'
<1>1. /\ to_chip' = to_chip \o out' /\ to_gw' = to_gw /\ server' = server
      /\ stop \/ shutdown
  BY DEF Emits
<1>2. /\ UNCHANGED <<task, handler>> /\ out' \in Seq(FrameType)
      /\ bridge' \in {"running", "stopping", "stopped"}
      /\ table' \subseteq Requests
  BY <1>1, QuietTyped, TypesAre DEF stop, shutdown
<1>3. conn' \in [Requests -> ConnType]
  <2>1. CASE stop
    BY <2>1, TypesAre DEF stop
  <2>2. CASE shutdown
    <3> DEFINE x(r) == [conn[r] EXCEPT !.reset = TRUE, !.finished = TRUE,
                                       !.established = TRUE]
               y(r) == IF r \in table THEN x(r) ELSE conn[r]
    <3>1. \A r \in Requests : y(r) \in ConnType
      <4>1. \A r \in Requests : conn[r] \in ConnType
        BY TypesAre
      <4>2. \A r \in Requests : x(r) \in ConnType
        BY <4>1 DEF ConnType
      <4> HIDE DEF x
      <4>3. QED
        BY <4>1, <4>2
    <3>2. conn' = [r \in Requests |-> y(r)]
      BY <2>2 DEF shutdown
    <3> HIDE DEF y
    <3>3. QED
      BY <3>1, <3>2
  <2>3. QED
    BY <1>1, <2>1, <2>2
<1>4. QED
  BY <1>1, <1>2, <1>3, GatewayTyped, TypesAre DEF InTypes

(* What the steps of the tunnel are.                                         *)
LEMMA StepsAre ==
  ASSUME TunnelNext
  PROVE  \/ \E r \in Requests : \/ ServerSends(r) \/ ServerFinishes(r)
                                \/ ServerRetransmits(r) \/ ServerAborts(r)
         \/ ServerReceives
         \/ GwReceives
         \/ Emits(HandlerRuns)
         \/ \E r \in Requests : Emits(http_into_chip(r) \/ Opens(r))
         \/ \E r \in Requests :
              Emits(\/ SynTimesOut(r) \/ Fails(r) \/ SendsRequest(r)
                    \/ RequestSent(r) \/ Wakes(r) \/ Polls(r)
                    \/ DeadlinePasses(r) \/ Forgets(r))
         \/ Emits(stop \/ shutdown)
BY DEF TunnelNext, TaskRuns, Emits

(* Every step keeps the types.                                               *)
LEMMA TypesStep ==
  ASSUME InTypes, \A r \in Requests : ServerOK(server[r]),
         [TunnelNext]_tunnelVars
  PROVE  InTypes'
<1>1. CASE UNCHANGED tunnelVars
  BY <1>1 DEF tunnelVars, inVars, chipVars, InTypes
<1>2. CASE TunnelNext
  <2>1. ASSUME NEW r \in Requests,
               Emits(\/ SynTimesOut(r) \/ Fails(r) \/ SendsRequest(r)
                     \/ RequestSent(r) \/ Wakes(r) \/ Polls(r)
                     \/ DeadlinePasses(r) \/ Forgets(r))
        PROVE  InTypes'
    <3>1. Emits(Runs(r))
      BY <2>1, TaskRunsOn DEF Emits
    <3>2. QED
      BY <3>1, RunsTyped
  <2>2. QED
    BY <1>2, <2>1, StepsAre, ServerTypes, ReceiveTypes, DeliverTyped,
       HandlerRunsTyped, OpensTyped, StopTyped
<1>3. QED
  BY <1>1, <1>2

-----------------------------------------------------------------------------
(* Steps of the server.                                                      *)

(* w has sent what v had, and may have sent more.                            *)
Grows(v, w) ==
    /\ v.next <= w.next
    /\ w.response = v.response \/ ~v.heard
    /\ v.fin => w.fin /\ w.next = v.next
    /\ w.fin /\ ~v.fin => v.next < w.next

(* What was a part of it still is.                                           *)
LEMMA FitsGrows ==
  ASSUME NEW v \in ServerType, NEW w \in ServerType, ServerOK(v), Grows(v, w),
         NEW off \in Nat, NEW s, s.data \in Seq(Nat), Fits(v, off, s)
  PROVE  Fits(w, off, s)
<1>1. /\ Span(s) \in Nat /\ Len(s.data) \in Nat /\ Len(s.data) <= Span(s)
      /\ v.next \in Nat /\ w.next \in Nat
      /\ s.data = <<>> <=> Len(s.data) = 0
  <2>1. /\ Span(s) \in Nat /\ Len(s.data) \in Nat
        /\ Span(s) = Len(s.data) \/ Span(s) = Len(s.data) + 1
        /\ s.data = <<>> <=> Len(s.data) = 0
    BY SpanTyped
  <2>2. v.next \in Nat /\ w.next \in Nat
    BY DEF ServerType
  <2> DEFINE n == Span(s)
             l == Len(s.data)
  <2>3. n \in Nat /\ l \in Nat /\ (n = l \/ n = l + 1)
    BY <2>1
  <2> HIDE DEF n, l
  <2>4. l <= n
    BY <2>3
  <2>5. QED
    BY <2>1, <2>2, <2>4 DEF n, l
<1> DEFINE n == Span(s)
           l == Len(s.data)
<1>2. /\ off + n <= v.next /\ v.next <= w.next
      /\ "SYN" \in s.flags => /\ off = 0 /\ s.data = <<>>
                              /\ "ACK" \in s.flags /\ "FIN" \notin s.flags
      /\ "SYN" \notin s.flags => off >= 1
  BY DEF Fits, Grows
<1>3. "FIN" \in s.flags => w.fin /\ off + n = w.next
  BY DEF Fits, Grows
<1>4. w.fin /\ "FIN" \notin s.flags => off + n < w.next
  <2> HIDE DEF n
  <2>1. SUFFICES ASSUME w.fin, "FIN" \notin s.flags
                 PROVE  off + n < w.next
    OBVIOUS
  <2>2. CASE v.fin
    BY <2>1, <2>2 DEF Fits, Grows, n
  <2>3. CASE ~v.fin
    <3>1. v.next < w.next
      BY <2>1, <2>3 DEF Grows
    <3>2. off + n \in Nat
      BY <1>1 DEF n
    <3>3. QED
      BY <1>1, <1>2, <3>1, <3>2
  <2>4. QED
    BY <2>2, <2>3
<1>5. \A i \in 1 .. l : s.data[i] = w.response[off + i - 1]
  <2>1. CASE w.response = v.response
    BY <2>1 DEF Fits
  <2>2. CASE ~v.heard
    <3>1. v.next <= 1
      BY <2>2 DEF ServerOK
    <3>2. l = 0
      <4>1. CASE "SYN" \in s.flags
        BY <1>1, <1>2, <4>1
      <4>2. CASE "SYN" \notin s.flags
        <5> HIDE DEF n, l
        <5>1. n \in Nat /\ l \in Nat /\ l <= n
          BY <1>1 DEF n, l
        <5>2. QED
          BY <1>1, <1>2, <3>1, <4>2, <5>1
      <4>3. QED
        BY <4>1, <4>2
    <3> HIDE DEF l
    <3>3. 1 .. l = {}
      BY <3>2
    <3>4. QED
      BY <3>3
  <2>3. QED
    BY <2>1, <2>2 DEF Grows
<1>6. off + n <= w.next
  <2> HIDE DEF n
  <2>1. off + n \in Nat
    BY <1>1 DEF n
  <2>2. QED
    BY <1>1, <1>2, <2>1
<1>7. QED
  BY <1>2, <1>3, <1>4, <1>5, <1>6 DEF Fits

(* What the server has sent is shorter than the sequence space.              *)
LEMMA NextBound ==
  ASSUME NEW v \in ServerType, ServerOK(v)
  PROVE  v.next \in 0 .. SeqMod - 1
<1>1. v.next \in Nat /\ v.response \in Seq(Nat)
  BY DEF ServerType
<1> DEFINE l == Len(v.response)
<1>2. l \in Nat /\ SeqMod \in Nat /\ SeqMod >= 2
  BY <1>1, SeqModAssumption
<1>3. CASE v.heard
  <2>1. l + 2 < SeqMod
    BY <1>3, ResponseAssumption DEF ServerOK
  <2>2. v.next <= l + 2
    <3>1. v.next <= l + 2 \/ v.next <= l + 1
      BY DEF ServerOK
    <3> HIDE DEF l
    <3>2. QED
      BY <1>1, <1>2, <3>1
  <2> HIDE DEF l
  <2>3. QED
    BY <1>1, <1>2, <2>1, <2>2
<1>4. CASE ~v.heard
  <2>1. v.next <= 1
    BY <1>4 DEF ServerOK
  <2>2. QED
    BY <1>1, <1>2, <2>1
<1>5. QED
  BY <1>3, <1>4

(* How far the gateway is, for a connection that still takes segments.       *)
LEMMA TakenTyped ==
  ASSUME InTypes, NEW r \in Requests, RespOK(r), conn[r].state # "CLOSED"
  PROVE  /\ Taken(r) \in Nat /\ Taken(r) <= server[r].next
         /\ Len(conn[r].rx) \in Nat /\ server[r].next \in Nat
         /\ server[r].next \in Int /\ Taken(r) \in Int
<1> DEFINE l == Len(conn[r].rx)
           n == server[r].next
<1>1. conn[r] \in ConnType /\ server[r] \in ServerType
  BY TypesAre
<1>2. conn[r].rx \in Seq(Nat) /\ n \in Nat
  BY <1>1 DEF ConnType, ServerType
<1>3. l \in Nat /\ (conn[r].rx = <<>> <=> l = 0)
  BY <1>2
<1>4. conn[r].state = "SYN_SENT" \/ conn[r].state = "ESTABLISHED"
  BY <1>1 DEF ConnType
<1>5. CASE conn[r].state = "SYN_SENT"
  <2>1. Taken(r) = 0
    BY <1>5 DEF Taken
  <2>2. QED
    BY <1>2, <1>3, <2>1
<1>6. CASE conn[r].state = "ESTABLISHED" /\ FinTaken(r)
  <2>1. Taken(r) = l + 2
    BY <1>6 DEF Taken
  <2>2. l = n - 2
    BY <1>6 DEF RespOK, ConnOK
  <2> HIDE DEF l, n
  <2>3. Taken(r) \in Nat /\ Taken(r) <= n
    BY <1>2, <1>3, <2>1, <2>2
  <2>4. QED
    BY <1>2, <1>3, <2>3 DEF l, n
<1>7. CASE conn[r].state = "ESTABLISHED" /\ ~FinTaken(r)
  <2>1. Taken(r) = l + 1
    BY <1>7 DEF Taken
  <2>2. n >= 1 /\ (conn[r].rx = <<>> \/ l + 1 <= n)
    BY <1>7 DEF RespOK, ConnOK
  <2> HIDE DEF l, n
  <2>3. Taken(r) \in Nat /\ Taken(r) <= n
    BY <1>2, <1>3, <2>1, <2>2
  <2>4. QED
    BY <1>2, <1>3, <2>3 DEF l, n
<1>8. QED
  BY <1>4, <1>5, <1>6, <1>7

(* A step of the server of r, which leaves w: it takes a frame or not, and   *)
(* sends nothing, something else than a part, a part of what it had sent, or *)
(* the next one.                                                             *)
ServerStep(r, w) ==
    /\ UNCHANGED inVars
    /\ w \in ServerType /\ ServerOK(w) /\ Grows(server[r], w)
    /\ server' = [server EXCEPT ![r] = w]
    /\ task[r].pc \notin {"new", "arp"}
    /\ \A i \in DOMAIN to_chip' : \E j \in DOMAIN to_chip :
         to_chip'[i] = to_chip[j]
    /\ \/ to_gw' = to_gw /\ w.next = server[r].next
       \/ \E e \in Queued :
            /\ to_gw' = Append(to_gw, e) /\ e.req = r
            /\ IsPart(e.seg) => Fits(w, From(e), e.seg)
            /\ \/ w.next = server[r].next
               \/ /\ IsPart(e.seg) /\ From(e) = server[r].next
                  /\ To(e) = w.next

(* The gateway is left where it was in what the server sends.                *)
LEMMA ConnGrows ==
  ASSUME InTypes, NEW r \in Requests, RespOK(r), NEW w, ServerStep(r, w)
  PROVE  ConnOK(r)'
<1> DEFINE v == server[r]
           c == conn[r]
           l == Len(c.rx)
<1>1. /\ server'[r] = w /\ conn' = conn /\ bridge' = bridge
      /\ handler' = handler
      /\ v \in ServerType /\ w \in ServerType /\ Grows(v, w)
      /\ ServerOK(v) /\ ServerOK(w) /\ ConnOK(r)
  BY TypesAre DEF ServerStep, inVars, RespOK
<1>2. v.next \in Nat /\ w.next \in Nat /\ c.rx \in Seq(Nat)
  BY <1>1, TypesAre DEF ServerType, ConnType
<1>3. l \in Nat /\ (c.rx = <<>> <=> l = 0)
  BY <1>2
<1>4. c.rx = <<>> \/ l + 1 <= w.next
  <2>1. (c.rx = <<>> \/ l + 1 <= v.next) /\ v.next <= w.next
    BY <1>1 DEF ConnOK, Grows
  <2> HIDE DEF l, v, c
  <2>2. QED
    BY <1>2, <1>3, <2>1
<1>5. w.fin => l + 2 <= w.next
  <2>1. CASE v.fin
    BY <1>1, <2>1 DEF ConnOK, Grows
  <2>2. CASE w.fin /\ ~v.fin
    <3>1. /\ c.rx = <<>> \/ l + 1 <= v.next
          /\ v.next < w.next /\ w.next >= 2
      BY <1>1, <2>2 DEF ConnOK, Grows, ServerOK
    <3> HIDE DEF l, v, c
    <3>2. QED
      BY <1>2, <1>3, <3>1
  <2>3. QED
    BY <2>1, <2>2
<1>6. \A i \in 1 .. l : c.rx[i] = w.response[i]
  <2>1. CASE w.response = v.response
    BY <1>1, <2>1 DEF ConnOK
  <2>2. CASE ~v.heard
    <3>1. v.next <= 1 /\ (c.rx = <<>> \/ l + 1 <= v.next)
      BY <1>1, <2>2 DEF ServerOK, ConnOK
    <3> HIDE DEF l, v, c
    <3>2. l = 0
      BY <1>2, <1>3, <3>1
    <3>3. 1 .. l = {}
      BY <3>2
    <3>4. QED
      BY <3>3
  <2>3. QED
    BY <1>1, <2>1, <2>2 DEF Grows
<1>7. c.state = "ESTABLISHED" => w.next >= 1
  <2>1. c.state = "ESTABLISHED" => v.next >= 1
    BY <1>1 DEF ConnOK
  <2>2. v.next <= w.next
    BY <1>1 DEF Grows
  <2>3. QED
    BY <1>2, <2>1, <2>2
<1>8. FinTaken(r) => w.fin /\ l = w.next - 2
  BY <1>1 DEF ConnOK, Grows
<1>9. (FinCounted(r) <=> FinCounted(r)') /\ (FinTaken(r) <=> FinTaken(r)')
  BY <1>1 DEF FinCounted, FinTaken
<1>10. /\ c.state = "SYN_SENT" => c.rx = <<>> /\ handler.req # r
       /\ c.state = "ESTABLISHED" =>
            c.chip_seq = SeqAt(IF FinCounted(r) THEN l + 2 ELSE l + 1)
       /\ c.state # "CLOSED" /\ bridge # "stopped" => ~c.reset /\ ~c.finished
  BY <1>1 DEF ConnOK
<1> HIDE DEF FinCounted, FinTaken
<1>11. QED
  BY <1>1, <1>4, <1>5, <1>6, <1>7, <1>8, <1>9, <1>10 DEF ConnOK

(* What is under way is what it has sent, and what the gateway needs.        *)
LEMMA SegsGrow ==
  ASSUME InTypes, NEW r \in Requests, RespOK(r), NEW w, ServerStep(r, w)
  PROVE  SegsOK(to_gw', r, w) /\ OrderOK(r)'
<1> DEFINE v == server[r]
           q == to_gw
<1>1. /\ server'[r] = w /\ conn' = conn /\ bridge' = bridge
      /\ handler' = handler /\ table' = table
      /\ v \in ServerType /\ w \in ServerType /\ Grows(v, w)
      /\ ServerOK(v) /\ ServerOK(w) /\ q \in Seq(Queued)
      /\ v.next \in Int /\ w.next \in Int
  BY TypesAre DEF ServerStep, inVars, RespOK, ServerType
<1>2. \A i \in PartsOf(q, r) : q[i] \in Queued
  BY <1>1 DEF PartsOf
<1>3. SegsOK(q, r, w)
  <2> SUFFICES ASSUME NEW i \in PartsOf(q, r)
               PROVE  Fits(w, From(q[i]), q[i].seg)
    BY DEF SegsOK
  <2>1. Fits(v, From(q[i]), q[i].seg)
    BY DEF RespOK, SegsOK
  <2>2. From(q[i]) \in Nat /\ q[i].seg.data \in Seq(Nat)
    BY <1>2, FromTyped DEF Queued, SegType
  <2>3. QED
    BY <1>1, <2>1, <2>2, FitsGrows
<1>4. Taken(r)' = Taken(r)
  BY <1>1 DEF Taken, FinTaken, FinCounted
<1> DEFINE live == bridge = "running" /\ r \in table /\ conn[r].state # "CLOSED"
<1>5. ASSUME live
      PROVE  /\ Ordered(q, r, Taken(r), v.next)
             /\ Taken(r) \in Int /\ Taken(r) <= v.next
  BY <1>5, TakenTyped DEF RespOK, OrderOK
<1>6. CASE to_gw' = q /\ w.next = v.next
  <2>1. OrderOK(r)'
    BY <1>1, <1>4, <1>5, <1>6 DEF OrderOK
  <2>2. QED
    BY <1>3, <1>6, <2>1
<1>7. CASE \E e \in Queued :
             /\ to_gw' = Append(to_gw, e) /\ e.req = r
             /\ IsPart(e.seg) => Fits(w, From(e), e.seg)
             /\ \/ w.next = v.next
                \/ /\ IsPart(e.seg) /\ From(e) = v.next
                   /\ To(e) = w.next
  <2>1. PICK e \in Queued :
          /\ to_gw' = Append(q, e) /\ e.req = r
          /\ IsPart(e.seg) => Fits(w, From(e), e.seg)
          /\ \/ w.next = v.next
             \/ IsPart(e.seg) /\ From(e) = v.next /\ To(e) = w.next
    BY <1>7
  <2> DEFINE p == Append(q, e)
             k == Len(q) + 1
  <2>2. /\ \A i \in PartsOf(q, r) : p[i] = q[i]
        /\ p[k] = e
        /\ PartsOf(p, r) = IF e.req = r /\ IsPart(e.seg)
                           THEN PartsOf(q, r) \cup {k} ELSE PartsOf(q, r)
    BY <1>1, PartsAppend DEF PartsOf
  <2>3. SegsOK(p, r, w)
    <3> HIDE DEF p, k
    <3>1. SUFFICES ASSUME NEW i \in PartsOf(p, r)
                   PROVE  Fits(w, From(p[i]), p[i].seg)
      BY DEF SegsOK
    <3>2. CASE i \in PartsOf(q, r)
      BY <1>3, <2>2, <3>2 DEF SegsOK
    <3>3. CASE i \notin PartsOf(q, r)
      <4>1. i = k /\ IsPart(e.seg)
        BY <2>2, <3>3
      <4>2. QED
        BY <2>1, <2>2, <4>1
    <3>4. QED
      BY <3>2, <3>3
  <2>4. ASSUME live
        PROVE  Ordered(p, r, Taken(r), w.next)
    <3>1. /\ Ordered(q, r, Taken(r), v.next)
          /\ Taken(r) \in Int /\ Taken(r) <= v.next
      BY <1>5, <2>4
    <3>2. CASE ~IsPart(e.seg)
      <4>1. w.next = v.next
        BY <2>1, <3>2
      <4>2. QED
        BY <1>1, <3>1, <3>2, <4>1, OrderedAside
    <3>3. CASE IsPart(e.seg) /\ w.next = v.next
      <4>1. To(e) <= v.next
        BY <2>1, <3>3 DEF Fits, To
      <4>2. QED
        BY <1>1, <3>1, <3>3, <4>1, OrderedAgain
    <3>4. CASE IsPart(e.seg) /\ From(e) = v.next /\ To(e) = w.next
      <4>1. \A i \in PartsOf(q, r) : To(q[i]) <= v.next
        BY DEF RespOK, SegsOK, Fits, To
      <4>2. QED
        BY <1>1, <2>1, <3>1, <3>4, <4>1, OrderedNext
    <3>5. QED
      BY <2>1, <3>2, <3>3, <3>4
  <2>5. to_gw' = p
    BY <2>1
  <2> HIDE DEF p
  <2>6. OrderOK(r)'
    BY <1>1, <1>4, <2>4, <2>5 DEF OrderOK
  <2>7. QED
    BY <2>3, <2>5, <2>6
<1>8. QED
  BY <1>6, <1>7 DEF ServerStep

(* Such a step keeps the invariant.                                          *)
LEMMA ServerKeeps ==
  ASSUME InTypes, \A d \in Requests : RespOK(d), NEW r \in Requests, NEW w,
         ServerStep(r, w)
  PROVE  \A d \in Requests : RespOK(d)'
<1>1. /\ server' = [server EXCEPT ![r] = w]
      /\ server \in [Requests -> ServerType]
      /\ UNCHANGED inVars /\ ServerOK(w) /\ task[r].pc \notin {"new", "arp"}
      /\ conn' = conn /\ task' = task /\ table' = table
      /\ bridge' = bridge /\ handler' = handler /\ to_gw \in Seq(Queued)
  BY TypesAre DEF ServerStep, inVars
<1>2. RespOK(r)'
  <2>1. server'[r] = w
    BY <1>1
  <2>2. ConnOK(r)' /\ SegsOK(to_gw', r, w) /\ OrderOK(r)'
    BY ConnGrows, SegsGrow
  <2>3. UnopenedOK(r)'
    BY <1>1 DEF UnopenedOK
  <2>4. QED
    BY <1>1, <2>1, <2>2, <2>3 DEF RespOK
<1>3. ASSUME NEW d \in Requests, d # r
      PROVE  RespOK(d)'
  <2>1. server'[d] = server[d] /\ RespOK(d)
    BY <1>1, <1>3
  <2>2. ConnOK(d)'
    BY <1>1, <2>1 DEF RespOK, ConnOK, FinTaken, FinCounted
  <2>3. /\ PartsOf(to_gw', d) = PartsOf(to_gw, d)
        /\ \A i \in PartsOf(to_gw, d) : to_gw'[i] = to_gw[i]
        /\ \A i \in DOMAIN to_gw' : to_gw'[i].req = d =>
             i \in DOMAIN to_gw /\ to_gw'[i] = to_gw[i]
    <3>1. CASE to_gw' = to_gw
      BY <3>1
    <3>2. CASE \E e \in Queued : to_gw' = Append(to_gw, e) /\ e.req = r
      <4>1. PICK e \in Queued : to_gw' = Append(to_gw, e) /\ e.req = r
        BY <3>2
      <4>2. /\ PartsOf(Append(to_gw, e), d) = PartsOf(to_gw, d)
            /\ \A i \in DOMAIN to_gw : Append(to_gw, e)[i] = to_gw[i]
            /\ Append(to_gw, e)[Len(to_gw) + 1] = e
        BY <1>1, <1>3, <4>1, PartsAppend
      <4>3. DOMAIN Append(to_gw, e) = DOMAIN to_gw \cup {Len(to_gw) + 1}
        BY <1>1, <4>1
      <4>4. QED
        BY <1>3, <4>1, <4>2, <4>3 DEF PartsOf
    <3>3. QED
      BY <3>1, <3>2 DEF ServerStep
  <2>4. SegsOK(to_gw', d, server[d])
    BY <2>1, <2>3 DEF RespOK, SegsOK
  <2>5. OrderOK(d)'
    <3>1. Taken(d)' = Taken(d)
      BY <1>1 DEF Taken, FinTaken, FinCounted
    <3>2. ASSUME NEW n, NEW m, Ordered(to_gw, d, n, m)
          PROVE  Ordered(to_gw', d, n, m)
      BY <2>3, <3>2 DEF Ordered, Old, Fresh
    <3>3. QED
      BY <1>1, <2>1, <3>1, <3>2 DEF RespOK, OrderOK
  <2>6. UnopenedOK(d)'
    <3>1. \A i \in DOMAIN to_chip' : \E j \in DOMAIN to_chip :
            to_chip'[i] = to_chip[j]
      BY DEF ServerStep
    <3>2. QED
      BY <1>1, <2>1, <2>3, <3>1 DEF RespOK, UnopenedOK
  <2>7. QED
    BY <2>1, <2>2, <2>4, <2>5, <2>6 DEF RespOK
<1>4. QED
  BY <1>2, <1>3

(* A part as it is sent: where it begins and ends.                           *)
LEMMA SentFits ==
  ASSUME NEW r \in Requests, NEW x \in ServerType, NEW p \in PartType,
         p.off \in 0 .. SeqMod - 1
  PROVE  /\ Sent(r, x, p) \in Queued /\ Sent(r, x, p).req = r
         /\ From(Sent(r, x, p)) = p.off
         /\ To(Sent(r, x, p)) = p.off + Span(p)
         /\ IsPart(Sent(r, x, p).seg) <=> IsPart(p)
         /\ \A w : Fits(w, p.off, Sent(r, x, p).seg) <=> Fits(w, p.off, p)
<1> DEFINE e == Sent(r, x, p)
<1>1. /\ e \in Queued /\ e.req = r /\ e.seg.seq = SeqAt(p.off)
      /\ e.seg.flags = p.flags /\ e.seg.data = p.data
  BY SentTyped DEF Sent
<1> HIDE DEF e
<1>2. From(e) = p.off
  BY <1>1, OffsetOfSeqAt DEF From
<1>3. Span(e.seg) = Span(p)
  BY <1>1 DEF Span
<1>4. IsPart(e.seg) <=> IsPart(p)
  BY <1>1, <1>3 DEF IsPart
<1>5. ASSUME NEW w
      PROVE  Fits(w, p.off, e.seg) <=> Fits(w, p.off, p)
  <2> DEFINE s == e.seg
  <2>1. s.flags = p.flags /\ s.data = p.data /\ Span(s) = Span(p)
    BY <1>1, <1>3
  <2> HIDE DEF s
  <2>2. Fits(w, p.off, s) <=> Fits(w, p.off, p)
    BY <2>1 DEF Fits
  <2>3. QED
    BY <2>2 DEF s
<1>6. QED
  BY <1>1, <1>2, <1>3, <1>4, <1>5 DEF To, e

(* What a step of the server of r leaves alone.                              *)
Besides(r) ==
    /\ UNCHANGED inVars /\ task[r].pc \notin {"new", "arp"}
    /\ \A i \in DOMAIN to_chip' : \E j \in DOMAIN to_chip :
         to_chip'[i] = to_chip[j]

(* It sends nothing, or what is no part or is one already sent.              *)
LEMMA PutSteps ==
  ASSUME InTypes, NEW r \in Requests, RespOK(r), Besides(r),
         NEW w \in ServerType, ServerOK(w), Grows(server[r], w),
         w.next = server[r].next, server' = [server EXCEPT ![r] = w],
         NEW x \in ServerType, NEW p \in PartType, p.off \in 0 .. SeqMod - 1,
         IsPart(p) => Fits(w, p.off, p),
         to_gw' = to_gw \/ PutPart(r, x, p)
  PROVE  \E y : ServerStep(r, y)
<1>1. CASE to_gw' = to_gw
  BY <1>1 DEF ServerStep, Besides
<1>2. CASE PutPart(r, x, p)
  <2> DEFINE e == Sent(r, x, p)
  <2>1. to_gw' = Append(to_gw, e)
    BY <1>2, PutTyped
  <2>2. e \in Queued /\ e.req = r /\ (IsPart(e.seg) => Fits(w, From(e), e.seg))
    BY SentFits
  <2> HIDE DEF e
  <2>3. QED
    BY <2>1, <2>2 DEF ServerStep, Besides
<1>3. QED
  BY <1>1, <1>2

(* What is no part.                                                          *)
LEMMA NotPart ==
  ASSUME NEW n \in Nat, NEW flags \in SUBSET Flags,
         "RST" \in flags \/ flags = {"ACK"}
  PROVE  /\ Part(n, flags, <<>>) \in PartType
         /\ Part(n, flags, <<>>).off = n
         /\ ~IsPart(Part(n, flags, <<>>))
<1> DEFINE p == Part(n, flags, <<>>)
<1>1. <<>> \in Seq(Nat) /\ Len(<<>>) = 0
  OBVIOUS
<1>2. p \in PartType /\ p.off = n /\ p.flags = flags /\ p.data = <<>>
  <2>1. p.off = n /\ p.flags = flags /\ p.data = <<>>
    BY DEF Part
  <2>2. p \in PartType
    BY <1>1 DEF Part, PartType
  <2>3. QED
    BY <2>1, <2>2
<1> HIDE DEF p
<1>3. CASE "RST" \in flags
  BY <1>2, <1>3 DEF IsPart, p
<1>4. CASE flags = {"ACK"}
  <2>1. "SYN" \notin p.flags /\ "FIN" \notin p.flags
    BY <1>2, <1>4
  <2>2. Span(p) = 0
    BY <1>1, <1>2, <2>1, SpanTyped
  <2>3. QED
    BY <1>2, <2>2 DEF IsPart, p
<1>5. QED
  BY <1>3, <1>4

(* The server's end changes in nothing its stream shows.                     *)
LEMMA SameStream ==
  ASSUME NEW v \in ServerType, ServerOK(v), NEW w \in ServerType,
         w.next = v.next, w.fin = v.fin, w.heard = v.heard,
         w.response = v.response, w.unacked \subseteq v.unacked,
         w.st \in {v.st, "gone", "reset"}
  PROVE  ServerOK(w) /\ Grows(v, w)
<1>1. Grows(v, w)
  BY DEF Grows, ServerType
<1>2. \A p \in w.unacked : IsPart(p) /\ Fits(w, p.off, p)
  BY DEF ServerOK, Fits
<1>3. QED
  BY <1>1, <1>2 DEF ServerOK

(* The next part of the stream leaves.                                       *)
LEMMA SendSteps ==
  ASSUME InTypes, NEW r \in Requests, RespOK(r), Besides(r),
         NEW v \in ServerType, v.st = "open", ~v.fin,
         v.next = server[r].next, v.fin = server[r].fin,
         v.heard = server[r].heard, v.response = server[r].response,
         v.unacked = server[r].unacked,
         NEW flags \in SUBSET Flags, NEW data \in Seq(Nat),
         "RST" \notin flags,
         data # <<>> \/ "SYN" \in flags \/ "FIN" \in flags,
         "SYN" \in flags => /\ v.next = 0 /\ data = <<>>
                            /\ "ACK" \in flags /\ "FIN" \notin flags,
         "SYN" \notin flags =>
           /\ v.next >= 1 /\ v.heard
           /\ v.next + Len(data) <= Len(v.response) + 1,
         \A i \in 1 .. Len(data) : data[i] = v.response[v.next + i - 1],
         Send(r, v, flags, data)
  PROVE  \E w : ServerStep(r, w)
<1> DEFINE p == Part(v.next, flags, data)
           n == Span(p)
           k == v.next + n
           l == Len(data)
           m == Len(v.response)
           w == [v EXCEPT !.next = k, !.unacked = v.unacked \cup {p},
                          !.fin = "FIN" \in flags]
<1>1. /\ p \in PartType /\ p.off = v.next /\ p.flags = flags /\ p.data = data
      /\ v.next \in Nat /\ v.response \in Seq(Nat) /\ m \in Nat /\ l \in Nat
  BY PartTyped DEF ServerType
<1>2. /\ n \in Nat
      /\ "SYN" \in flags \/ "FIN" \in flags => n = l + 1
      /\ "SYN" \notin flags /\ "FIN" \notin flags => n = l
      /\ data = <<>> <=> l = 0
  BY <1>1, SpanTyped, SMTT(30)
<1> HIDE DEF p, n, l, m
<1>3. k \in Nat /\ n >= 1 /\ v.next < k
  BY <1>1, <1>2, SMTT(30)
<1>4. IsPart(p)
  <2>1. "RST" \notin p.flags
    BY <1>1
  <2>2. Span(p) > 0
    <3>1. n > 0
      BY <1>2, <1>3
    <3>2. QED
      BY <3>1 DEF n
  <2>3. QED
    BY <2>1, <2>2 DEF IsPart
<1>5. /\ server' = [server EXCEPT ![r] = w] /\ PutPart(r, v, p)
  BY DEF Send, p, n
<1> HIDE DEF k
<1>6. /\ w \in ServerType /\ w.next = k /\ w.unacked = v.unacked \cup {p}
      /\ w.fin = ("FIN" \in flags) /\ w.st = "open" /\ w.heard = v.heard
      /\ w.response = v.response
  <2> DEFINE b == "FIN" \in flags
             u == v.unacked \cup {p}
  <2>1. b \in BOOLEAN /\ u \in SUBSET PartType
    BY <1>1 DEF ServerType
  <2> HIDE DEF b, u
  <2>2. /\ [v EXCEPT !.next = k, !.unacked = u, !.fin = b] \in ServerType
        /\ [v EXCEPT !.next = k, !.unacked = u, !.fin = b].fin = b
        /\ [v EXCEPT !.next = k, !.unacked = u, !.fin = b].next = k
        /\ [v EXCEPT !.next = k, !.unacked = u, !.fin = b].unacked = u
        /\ [v EXCEPT !.next = k, !.unacked = u, !.fin = b].st = "open"
        /\ [v EXCEPT !.next = k, !.unacked = u, !.fin = b].heard = v.heard
        /\ [v EXCEPT !.next = k, !.unacked = u, !.fin = b].response = v.response
    BY <1>3, <2>1 DEF ServerType
  <2>3. QED
    BY <2>2 DEF b, u
<1> HIDE DEF w
<1>7. server[r] \in ServerType /\ ServerOK(server[r])
  BY TypesAre DEF RespOK
<1>8. Grows(server[r], w)
  BY <1>1, <1>3, <1>6 DEF Grows
<1>9. Fits(w, p.off, p)
  <2>1. p.off + Span(p) = w.next
    BY <1>1, <1>6 DEF k, n
  <2>2. /\ "SYN" \in p.flags => /\ p.off = 0 /\ p.data = <<>>
                                /\ "ACK" \in p.flags /\ "FIN" \notin p.flags
        /\ "SYN" \notin p.flags => p.off >= 1
        /\ "FIN" \in p.flags => w.fin
        /\ w.fin => "FIN" \in p.flags
    BY <1>1, <1>6
  <2>5. \A i \in 1 .. Len(p.data) : p.data[i] = w.response[p.off + i - 1]
    BY <1>1, <1>6
  <2>3. w.next <= w.next
    BY <1>3, <1>6
  <2>4. QED
    BY <2>1, <2>2, <2>3, <2>5 DEF Fits
<1>10. ServerOK(w)
  <2>1. \A q \in w.unacked : IsPart(q) /\ Fits(w, q.off, q)
    <3>1. SUFFICES ASSUME NEW q \in server[r].unacked
                   PROVE  IsPart(q) /\ Fits(w, q.off, q)
      BY <1>4, <1>6, <1>9
    <3>2. IsPart(q) /\ Fits(server[r], q.off, q)
      BY <1>7 DEF ServerOK
    <3>3. q.off \in Nat /\ q.data \in Seq(Nat)
      BY <1>7 DEF ServerType, PartType
    <3>4. QED
      BY <1>6, <1>7, <1>8, <3>2, <3>3, FitsGrows
  <2>2. w.next >= 1 /\ (w.fin => w.next >= 2)
    <3>1. w.fin => v.next >= 1
      BY <1>6
    <3>2. QED
      BY <1>1, <1>3, <1>6, <3>1
  <2>3. /\ w.fin => w.next <= m + 2
        /\ ~w.fin => w.next <= m + 1
        /\ ~v.heard => w.next <= 1 /\ ~w.fin
    <3>1. CASE "SYN" \in flags
      <4>1. l = 0 /\ ~w.fin /\ k = 1
        <5>1. data = <<>> /\ "FIN" \notin flags /\ v.next = 0
          BY <3>1
        <5>2. l = 0 /\ n = l + 1 /\ ~w.fin
          BY <1>2, <1>6, <3>1, <5>1
        <5>3. QED
          BY <5>1, <5>2 DEF k
      <4>2. QED
        BY <1>1, <1>6, <4>1
    <3>2. CASE "SYN" \notin flags
      <4>1. v.next + l <= m + 1 /\ v.heard
        BY <3>2 DEF l, m
      <4>2. w.fin => k = v.next + (l + 1)
        BY <1>2, <1>6 DEF k
      <4>3. ~w.fin => k = v.next + l
        BY <1>2, <1>6, <3>2 DEF k
      <4>4. QED
        BY <1>1, <1>6, <4>1, <4>2, <4>3
    <3>3. QED
      BY <3>1, <3>2
  <2>4. /\ w.response \in Responses \cup {<<>>}
        /\ w.heard => w.response \in Responses
        /\ ~w.heard => w.response = <<>>
    BY <1>6, <1>7 DEF ServerOK
  <2>5. QED
    BY <1>6, <2>1, <2>2, <2>3, <2>4 DEF ServerOK, m
<1> DEFINE e == Sent(r, v, p)
<1>11. p.off \in 0 .. SeqMod - 1
  BY <1>1, <1>7, NextBound
<1>12. /\ e \in Queued /\ e.req = r /\ IsPart(e.seg)
       /\ From(e) = server[r].next /\ To(e) = w.next
       /\ Fits(w, From(e), e.seg)
  BY <1>1, <1>4, <1>6, <1>9, <1>11, SentFits DEF k, n
<1>13. to_gw' = Append(to_gw, e)
  BY <1>1, <1>5, PutTyped
<1> HIDE DEF e
<1>14. QED
  BY <1>5, <1>6, <1>8, <1>10, <1>12, <1>13 DEF ServerStep, Besides

(* It sends no part and its stream stays as it was.                          *)
LEMMA QuietSteps ==
  ASSUME InTypes, NEW r \in Requests, RespOK(r), Besides(r),
         NEW w \in ServerType, ServerOK(w), Grows(server[r], w),
         w.next = server[r].next, server' = [server EXCEPT ![r] = w],
         NEW x \in ServerType, x.next = server[r].next,
         NEW flags \in SUBSET Flags, "RST" \in flags \/ flags = {"ACK"},
         to_gw' = to_gw \/ Put(r, x, flags)
  PROVE  \E y : ServerStep(r, y)
<1> DEFINE p == Part(x.next, flags, <<>>)
<1>1. x.next \in 0 .. SeqMod - 1 /\ x.next \in Nat
  BY NextBound, TypesAre DEF RespOK, ServerType
<1>2. p \in PartType /\ p.off = x.next /\ ~IsPart(p)
  BY <1>1, NotPart
<1>3. to_gw' = to_gw \/ PutPart(r, x, p)
  BY DEF Put
<1> HIDE DEF p
<1>4. QED
  BY <1>1, <1>2, <1>3, PutSteps

(* The server acts by itself.                                                *)
LEMMA ServerActs ==
  ASSUME InTypes, NEW r \in Requests, RespOK(r),
         \/ ServerSends(r) \/ ServerFinishes(r)
         \/ ServerRetransmits(r) \/ ServerAborts(r)
  PROVE  \E w : ServerStep(r, w)
<1> DEFINE v == server[r]
<1>1. /\ v \in ServerType /\ ServerOK(v) /\ v.next \in Nat
      /\ v.response \in Seq(Nat) /\ Len(v.response) \in Nat
  BY TypesAre DEF RespOK, ServerType
<1>2. v.st = "open" /\ UNCHANGED <<inVars, to_chip>>
  BY DEF ServerSends, ServerFinishes, ServerRetransmits, ServerAborts, CanSend
<1>3. Besides(r)
  BY <1>2 DEF Besides, RespOK, UnopenedOK
<1>4. v.next >= 1
  BY <1>1, <1>2 DEF ServerOK
<1>5. CASE ServerSends(r)
  <2>1. PICK n \in Sizes, flags \in {{"ACK"}, {"ACK", "FIN"}} :
          /\ n <= Remaining(r)
          /\ Send(r, v, flags, SubSeq(v.response, v.next, v.next + n - 1))
    BY <1>5 DEF ServerSends
  <2> DEFINE x == v.response
             a == v.next
             b == v.next + n - 1
             data == SubSeq(x, a, b)
  <2>2. /\ n \in Nat /\ n >= 1 /\ b <= Len(x) /\ a \in Int /\ b \in Int
        /\ b = a + n - 1 /\ a >= 1 /\ x \in Seq(Nat)
    BY <1>1, <1>4, <2>1, InboundTunnelAssumption, SMTT(30) DEF Remaining
  <2>3. Send(r, v, flags, data)
    BY <2>1
  <2> HIDE DEF x, a, b
  <2>4. /\ data \in Seq(Nat) /\ Len(data) = n
        /\ \A i \in 1 .. n : data[i] = x[a + i - 1]
    <3>1. \A i \in a .. b : i \in 1 .. Len(x)
      BY <2>2
    <3>2. data \in Seq(Nat) /\ Len(data) = n
      BY <2>2, <3>1
    <3>3. \A i \in 1 .. n : data[i] = x[a + i - 1]
      BY <2>2, <3>1
    <3>4. QED
      BY <3>2, <3>3
  <2> HIDE DEF data
  <2>5. a + Len(data) <= Len(x) + 1 /\ data # <<>>
    BY <2>2, <2>4
  <2>6. v.heard /\ ~v.fin
    BY <1>5 DEF ServerSends, CanSend
  <2>7. flags \in SUBSET Flags /\ "RST" \notin flags /\ "SYN" \notin flags
    BY DEF Flags
  <2>8. /\ v.next >= 1 /\ v.next + Len(data) <= Len(v.response) + 1
        /\ \A i \in 1 .. Len(data) : data[i] = v.response[v.next + i - 1]
    BY <1>4, <2>4, <2>5 DEF x, a
  <2>9. QED
    BY <1>1, <1>2, <1>3, <2>3, <2>4, <2>5, <2>6, <2>7, <2>8, SendSteps
<1>6. CASE ServerFinishes(r)
  <2> DEFINE flags == {"ACK", "FIN"}
  <2>1. Send(r, v, flags, <<>>) /\ v.heard /\ ~v.fin
    BY <1>6 DEF ServerFinishes, CanSend
  <2>2. /\ flags \in SUBSET Flags /\ "RST" \notin flags /\ "SYN" \notin flags
        /\ "FIN" \in flags
    BY DEF Flags
  <2>3. <<>> \in Seq(Nat) /\ Len(<<>>) = 0
    OBVIOUS
  <2>4. v.next <= Len(v.response) + 1
    BY <1>1, <2>1 DEF ServerOK
  <2>5. /\ v.next + Len(<<>>) <= Len(v.response) + 1
        /\ \A i \in 1 .. Len(<<>>) : <<>>[i] = v.response[v.next + i - 1]
    BY <1>1, <2>3, <2>4
  <2> HIDE DEF flags
  <2>6. QED
    BY <1>1, <1>2, <1>3, <1>4, <2>1, <2>2, <2>3, <2>5, SendSteps
<1>7. CASE ServerRetransmits(r)
  <2>1. PICK p \in v.unacked : PutPart(r, v, p)
    BY <1>7 DEF ServerRetransmits
  <2> DEFINE w == [v EXCEPT !.retransmits = @ + 1]
  <2>2. server' = [server EXCEPT ![r] = w]
    BY <1>7 DEF ServerRetransmits
  <2>3. /\ w \in ServerType /\ w.next = v.next /\ w.fin = v.fin
        /\ w.heard = v.heard /\ w.response = v.response
        /\ w.unacked = v.unacked /\ w.st = v.st
    BY <1>1, SMTT(30) DEF ServerType
  <2> HIDE DEF w
  <2>4. ServerOK(w) /\ Grows(v, w)
    BY <1>1, <2>3, SameStream
  <2>5. p \in PartType /\ Fits(w, p.off, p)
    BY <1>1, <2>3, <2>4 DEF ServerType, ServerOK
  <2>6. p.off \in 0 .. SeqMod - 1
    <3>1. v.next \in 0 .. SeqMod - 1
      BY <1>1, NextBound
    <3>2. p.off \in Nat /\ Span(p) \in Nat
      BY <2>5, SpanTyped DEF PartType
    <3>3. p.off + Span(p) <= v.next
      BY <2>3, <2>5 DEF Fits
    <3> DEFINE n == Span(p)
               a == p.off
               m == v.next
    <3>4. a \in Nat /\ n \in Nat /\ m \in 0 .. SeqMod - 1 /\ a + n <= m
      BY <3>1, <3>2, <3>3
    <3> HIDE DEF a, n, m
    <3>5. a \in 0 .. SeqMod - 1
      BY <3>4, SeqModAssumption
    <3>6. QED
      BY <3>5 DEF a
  <2>7. QED
    BY <1>1, <1>3, <2>1, <2>2, <2>3, <2>4, <2>5, <2>6, PutSteps
<1>8. CASE ServerAborts(r)
  <2> DEFINE w == [v EXCEPT !.st = "gone"]
  <2>1. server' = [server EXCEPT ![r] = w] /\ Put(r, v, {"RST"})
    BY <1>8 DEF ServerAborts
  <2>2. /\ w \in ServerType /\ w.next = v.next /\ w.fin = v.fin
        /\ w.heard = v.heard /\ w.response = v.response
        /\ w.unacked = v.unacked /\ w.st = "gone"
    BY <1>1 DEF ServerType
  <2> HIDE DEF w
  <2>3. ServerOK(w) /\ Grows(v, w)
    BY <1>1, <2>2, SameStream
  <2>4. {"RST"} \in SUBSET Flags
    BY DEF Flags
  <2>5. QED
    BY <1>1, <1>3, <2>1, <2>2, <2>3, <2>4, QuietSteps
<1>9. QED
  BY <1>5, <1>6, <1>7, <1>8

(* What the server's end becomes when it takes an ACK, the request, or the   *)
(* end of the gateway's stream.                                              *)
LEMMA TakesOK ==
  ASSUME NEW v \in ServerType, ServerOK(v), v.st = "open",
         NEW w \in ServerType, w.st = "open", w.next = v.next, w.fin = v.fin,
         w.unacked \subseteq v.unacked,
         \/ w.heard = v.heard /\ w.response = v.response
         \/ w.heard /\ ~v.heard /\ w.response \in Responses
  PROVE  ServerOK(w) /\ Grows(v, w)
<1>1. CASE w.heard = v.heard /\ w.response = v.response
  BY <1>1, SameStream
<1>2. CASE w.heard /\ ~v.heard /\ w.response \in Responses
  <2>1. /\ v.next \in Nat /\ Len(w.response) \in Nat
        /\ v.next >= 1 /\ v.next <= 1 /\ ~v.fin
    BY <1>2 DEF ServerOK, ServerType
  <2>2. Grows(v, w)
    BY <1>2, <2>1 DEF Grows
  <2>3. ASSUME NEW p \in w.unacked
        PROVE  IsPart(p) /\ Fits(w, p.off, p)
    <3>1. p \in PartType /\ IsPart(p) /\ Fits(v, p.off, p)
      BY DEF ServerOK, ServerType
    <3>2. p.off \in Nat /\ p.data \in Seq(Nat)
      BY <3>1 DEF PartType
    <3>3. QED
      BY <2>2, <3>1, <3>2, FitsGrows
  <2>4. w.next <= Len(w.response) + 1
    BY <2>1
  <2>5. QED
    BY <1>2, <2>1, <2>2, <2>3, <2>4 DEF ServerOK
<1>3. QED
  BY <1>1, <1>2

(* The server takes a frame.                                                 *)
LEMMA ServerTakes ==
  ASSUME InTypes, \A r \in Requests : RespOK(r), ServerReceives
  PROVE  \E r \in Requests : \E w : ServerStep(r, w)
<1> DEFINE f == Head(to_chip)
           r == f.req
           v == server[r]
<1>1. /\ to_chip \in Seq(FrameType) /\ to_chip # <<>> /\ f \in FrameType
      /\ to_chip' = Tail(to_chip) /\ UNCHANGED inVars
      /\ Listens(r, f) \/ IsReset(r, f) \/ Takes(r, f) \/ Refuses(r, f)
  BY TypesAre DEF ServerReceives
<1>2. /\ r \in Requests /\ f.seq \in SeqNums /\ RespOK(r)
      /\ v \in ServerType /\ ServerOK(v) /\ v.next \in Nat
      /\ server = [server EXCEPT ![r] = v]
  BY <1>1, TypesAre DEF FrameType, RespOK, ServerType
<1>3. Besides(r)
  <2>1. 1 \in DOMAIN to_chip /\ to_chip[1] = f
    BY <1>1
  <2>2. task[r].pc \notin {"new", "arp"}
    BY <1>2, <2>1 DEF RespOK, UnopenedOK
  <2>3. \A i \in DOMAIN Tail(to_chip) : \E j \in DOMAIN to_chip :
          Tail(to_chip)[i] = to_chip[j]
    <3> SUFFICES ASSUME NEW i \in DOMAIN Tail(to_chip)
                 PROVE  \E j \in DOMAIN to_chip : Tail(to_chip)[i] = to_chip[j]
      OBVIOUS
    <3>1. i + 1 \in DOMAIN to_chip /\ Tail(to_chip)[i] = to_chip[i + 1]
      BY <1>1
    <3>2. QED
      BY <3>1
  <2>4. QED
    BY <1>1, <2>2, <2>3 DEF Besides
<1> HIDE DEF f, r
<1>4. /\ {"SYN", "ACK"} \in SUBSET Flags /\ {"RST", "ACK"} \in SUBSET Flags
      /\ {"ACK"} \in SUBSET Flags /\ {"RST"} \in SUBSET Flags
      /\ <<>> \in Seq(Nat) /\ Len(<<>>) = 0
  BY DEF Flags
<1>5. CASE Listens(r, f)
  <2> DEFINE x == [v EXCEPT !.st = "open", !.their_isn = f.seq]
             w == [v EXCEPT !.st = "gone"]
  <2>1. \/ Send(r, x, {"SYN", "ACK"}, <<>>)
        \/ server' = [server EXCEPT ![r] = w] /\ Put(r, x, {"RST", "ACK"})
    BY <1>5 DEF Listens
  <2>2. /\ x \in ServerType /\ x.st = "open" /\ x.next = v.next
        /\ x.fin = v.fin /\ x.heard = v.heard /\ x.response = v.response
        /\ x.unacked = v.unacked
    BY <1>2 DEF ServerType
  <2>3. /\ w \in ServerType /\ w.next = v.next /\ w.fin = v.fin
        /\ w.heard = v.heard /\ w.response = v.response
        /\ w.unacked = v.unacked /\ w.st = "gone"
    BY <1>2 DEF ServerType
  <2> HIDE DEF x, w
  <2>4. v.next = 0 /\ ~v.fin
    <3>1. v.next = 0
      BY <1>2, <1>5 DEF Listens, ServerOK
    <3>2. ~(v.next >= 2)
      BY <3>1
    <3>3. QED
      BY <1>2, <3>1, <3>2 DEF ServerOK
  <2>5. CASE Send(r, x, {"SYN", "ACK"}, <<>>)
    <3>1. \A i \in 1 .. Len(<<>>) : <<>>[i] = x.response[x.next + i - 1]
      BY <1>4
    <3>2. QED
      BY <1>2, <1>3, <1>4, <2>2, <2>4, <2>5, <3>1, SendSteps
  <2>6. CASE server' = [server EXCEPT ![r] = w] /\ Put(r, x, {"RST", "ACK"})
    <3>1. ServerOK(w) /\ Grows(v, w)
      BY <1>2, <2>3, SameStream
    <3>2. QED
      BY <1>2, <1>3, <1>4, <2>2, <2>3, <2>6, <3>1, QuietSteps
  <2>7. QED
    BY <2>1, <2>5, <2>6
<1>6. CASE IsReset(r, f)
  <2> DEFINE st == IF f.seq = Expects(v) /\ ~Over(v) THEN "reset" ELSE v.st
             w == [v EXCEPT !.st = st]
  <2>1. server' = [server EXCEPT ![r] = w] /\ to_gw' = to_gw
    BY <1>6 DEF IsReset
  <2>2. st \in {v.st, "gone", "reset"}
    OBVIOUS
  <2> HIDE DEF st
  <2>3. /\ w \in ServerType /\ w.next = v.next /\ w.fin = v.fin
        /\ w.heard = v.heard /\ w.response = v.response
        /\ w.unacked = v.unacked /\ w.st = st
    BY <1>2, <2>2 DEF ServerType
  <2> HIDE DEF w
  <2>4. ServerOK(w) /\ Grows(v, w)
    BY <1>2, <2>2, <2>3, SameStream
  <2>5. QED
    BY <1>2, <1>3, <1>4, <2>1, <2>3, <2>4, QuietSteps
<1>7. CASE Takes(r, f)
  <2> DEFINE next == f.seq = Expects(v)
             hear == next /\ f.len > 0 /\ ~v.heard
             u == StillUnacked(v, f)
             b == v.heard \/ hear
             d == v.their_fin \/ (next /\ "FIN" \in f.flags)
             Y(x) == IF hear THEN x ELSE v.response
             W(x) == [v EXCEPT !.unacked = u, !.heard = b,
                               !.response = Y(x), !.their_fin = d]
  <2>1. PICK x \in Responses :
          /\ server' = [server EXCEPT ![r] = W(x)]
          /\ to_gw' = to_gw \/ Put(r, W(x), {"ACK"})
    BY <1>7 DEF Takes
  <2>2. u \in SUBSET PartType /\ u \subseteq v.unacked
    BY <1>2 DEF StillUnacked, ServerType
  <2>3. b \in BOOLEAN /\ d \in BOOLEAN
    OBVIOUS
  <2>4. \/ b = v.heard /\ Y(x) = v.response
        \/ b /\ ~v.heard /\ Y(x) = x
    <3>1. v.heard \in BOOLEAN
      BY <1>2 DEF ServerType
    <3> HIDE DEF next
    <3>2. CASE hear
      BY <3>2
    <3>3. CASE ~hear
      BY <3>1, <3>3
    <3>4. QED
      BY <3>2, <3>3
  <2>5. Y(x) \in Seq(Nat)
    <3>1. x \in Seq(Nat) /\ v.response \in Seq(Nat)
      BY <1>2, InboundTunnelAssumption DEF ServerType
    <3>2. QED
      BY <2>4, <3>1
  <2> DEFINE y == Y(x)
             w == [v EXCEPT !.unacked = u, !.heard = b, !.response = y,
                            !.their_fin = d]
  <2>6. server' = [server EXCEPT ![r] = w]
        /\ (to_gw' = to_gw \/ Put(r, w, {"ACK"}))
    BY <2>1
  <2>7. y \in Seq(Nat) /\ (\/ b = v.heard /\ y = v.response
                           \/ b /\ ~v.heard /\ y \in Responses)
    BY <2>4, <2>5
  <2>8. v.st = "open"
    BY <1>7 DEF Takes
  <2> HIDE DEF u, b, d, y, Y, W
  <2>9. /\ w \in ServerType /\ w.next = v.next /\ w.fin = v.fin
        /\ w.heard = b /\ w.response = y /\ w.unacked = u /\ w.st = "open"
    BY <1>2, <2>2, <2>3, <2>7, <2>8 DEF ServerType
  <2> HIDE DEF w
  <2>10. ServerOK(w) /\ Grows(v, w)
    BY <1>2, <2>2, <2>7, <2>8, <2>9, TakesOK
  <2>11. QED
    BY <1>2, <1>3, <1>4, <2>6, <2>9, <2>10, QuietSteps
<1>8. CASE Refuses(r, f)
  <2>1. /\ server' = [server EXCEPT ![r] = v]
        /\ to_gw' = to_gw \/ Put(r, v, {"RST"})
    BY <1>2, <1>8 DEF Refuses
  <2>2. ServerOK(v) /\ Grows(v, v)
    BY <1>2, SameStream
  <2>3. QED
    BY <1>2, <1>3, <1>4, <2>1, <2>2, QuietSteps
<1>9. QED
  BY <1>1, <1>5, <1>6, <1>7, <1>8

-----------------------------------------------------------------------------
(* Steps of the gateway, seen from each request.                             *)

(* What remains when the oldest segment leaves was sent.                     *)
LEMMA TailSegs ==
  ASSUME NEW q \in Seq(Queued), q # <<>>, NEW d, NEW v, SegsOK(q, d, v)
  PROVE  SegsOK(Tail(q), d, v)
<1>1. \A i \in PartsOf(Tail(q), d) :
        i + 1 \in PartsOf(q, d) /\ Tail(q)[i] = q[i + 1]
  BY TailPlaces
<1>2. QED
  BY <1>1 DEF SegsOK

(* The connection of d changes in nothing that concerns the server's stream, *)
(* or closes.                                                                *)
LEMMA ConnKeeps ==
  ASSUME NEW d \in Requests, ConnOK(d), server'[d] = server[d],
         conn'[d].rx = conn[d].rx, conn'[d].chip_seq = conn[d].chip_seq,
         conn'[d].state \in {conn[d].state, "CLOSED"},
         handler' = handler \/ (handler.req # d /\ handler'.req # d),
         bridge' = "stopped" \/ bridge' = bridge \/ bridge # "stopped",
         \/ bridge' = "stopped"
         \/ conn'[d].state = "CLOSED"
         \/ /\ conn'[d].reset = conn[d].reset
            /\ conn'[d].finished = conn[d].finished
  PROVE  ConnOK(d)'
<1>1. (FinCounted(d) <=> FinCounted(d)') /\ (FinTaken(d) <=> FinTaken(d)')
      /\ (handler.req # d <=> handler'.req # d)
  BY DEF FinCounted, FinTaken
<1> HIDE DEF FinCounted, FinTaken
<1>2. /\ conn'[d].state = "SYN_SENT" => conn[d].state = "SYN_SENT"
      /\ conn'[d].state = "ESTABLISHED" => conn[d].state = "ESTABLISHED"
      /\ conn'[d].state # "CLOSED" => conn[d].state = conn'[d].state
  OBVIOUS
<1>3. conn'[d].state # "CLOSED" /\ bridge' # "stopped" =>
        ~conn'[d].reset /\ ~conn'[d].finished
  BY <1>2 DEF ConnOK
<1>4. QED
  BY <1>1, <1>2, <1>3 DEF ConnOK

(* A step that d has no part in.                                             *)
Apart(d) ==
    /\ server' = server /\ conn'[d] = conn[d] /\ task'[d] = task[d]
    /\ d \in table' => d \in table
    /\ handler' = handler \/ (handler.req # d /\ handler'.req # d)
    /\ bridge' = bridge \/ (bridge = "running" /\ bridge' = "stopping")
    /\ \A i \in DOMAIN to_chip' :
         to_chip'[i].req = d => i \in DOMAIN to_chip /\ to_chip'[i] = to_chip[i]
    /\ \/ to_gw' = to_gw
       \/ to_gw # <<>> /\ to_gw' = Tail(to_gw) /\ Head(to_gw).req # d

(* It keeps what the invariant says of d.                                    *)
LEMMA ApartOK ==
  ASSUME InTypes, NEW d \in Requests, RespOK(d), Apart(d)
  PROVE  RespOK(d)'
<1>1. ConnOK(d)'
  BY ConnKeeps DEF RespOK, Apart
<1>2. SegsOK(to_gw', d, server[d])
  BY TailSegs, TypesAre DEF RespOK, Apart
<1>3. UnopenedOK(d)'
  <2> SUFFICES ASSUME task'[d].pc \in {"new", "arp"}
               PROVE  /\ conn'[d] = NewConn(0) /\ d \notin table'
                      /\ handler'.req # d /\ server'[d].st = "listen"
                      /\ \A i \in DOMAIN to_chip' : to_chip'[i].req # d
                      /\ \A i \in DOMAIN to_gw' : to_gw'[i].req # d
    BY DEF UnopenedOK, NewConn
  <2>1. /\ conn[d] = NewConn(0) /\ d \notin table /\ handler.req # d
        /\ server[d].st = "listen"
        /\ \A i \in DOMAIN to_chip : to_chip[i].req # d
        /\ \A i \in DOMAIN to_gw : to_gw[i].req # d
    BY DEF RespOK, UnopenedOK, Apart
  <2>2. \A i \in DOMAIN to_gw' : to_gw'[i].req # d
    <3>1. CASE to_gw' = to_gw
      BY <2>1, <3>1
    <3>2. CASE to_gw # <<>> /\ to_gw' = Tail(to_gw)
      <4>1. \A i \in DOMAIN Tail(to_gw) :
              i + 1 \in DOMAIN to_gw /\ Tail(to_gw)[i] = to_gw[i + 1]
        BY <3>2, PartsTail, TypesAre
      <4>2. QED
        BY <2>1, <3>2, <4>1
    <3>3. QED
      BY <3>1, <3>2 DEF Apart
  <2>3. QED
    BY <2>1, <2>2 DEF Apart
<1>4. OrderOK(d)'
  <2>1. Taken(d)' = Taken(d)
    BY DEF Taken, FinTaken, FinCounted, Apart
  <2>2. SUFFICES ASSUME bridge' = "running" /\ d \in table'
                        /\ conn'[d].state # "CLOSED"
                 PROVE  Ordered(to_gw', d, Taken(d), server[d].next)
    BY <2>1 DEF OrderOK, Apart
  <2>3. bridge = "running" /\ d \in table /\ conn[d].state # "CLOSED"
    BY <2>2 DEF Apart
  <2>4. Ordered(to_gw, d, Taken(d), server[d].next)
    BY <2>3 DEF RespOK, OrderOK
  <2>5. /\ Taken(d) \in Int /\ server[d].next \in Int
        /\ Taken(d) <= server[d].next
    BY <2>3, TakenTyped
  <2>6. CASE to_gw' = to_gw
    BY <2>4, <2>6
  <2>7. CASE to_gw # <<>> /\ to_gw' = Tail(to_gw) /\ Head(to_gw).req # d
    <3>1. Taken(d) <= Taken(d)
      BY <2>5
    <3>2. QED
      BY <2>4, <2>5, <2>7, <3>1, OrderedTail, TypesAre
  <2>8. QED
    BY <2>6, <2>7 DEF Apart
<1>5. QED
  BY <1>1, <1>2, <1>3, <1>4 DEF RespOK, Apart

(* Frames of r join the websocket.                                           *)
LEMMA JoinOf ==
  ASSUME InTypes, NEW r, to_chip' = to_chip \o out',
         out' = <<>> \/ \E f \in FrameType : out' = <<f>> /\ f.req = r
  PROVE  \A i \in DOMAIN to_chip' : to_chip'[i].req # r =>
           i \in DOMAIN to_chip /\ to_chip'[i] = to_chip[i]
<1>1. to_chip \in Seq(FrameType)
  BY TypesAre
<1>2. CASE out' = <<>>
  BY <1>1, <1>2
<1>3. CASE \E f \in FrameType : out' = <<f>> /\ f.req = r
  <2>1. PICK f \in FrameType : out' = <<f>> /\ f.req = r
    BY <1>3
  <2>2. /\ DOMAIN (to_chip \o <<f>>) = DOMAIN to_chip \cup {Len(to_chip) + 1}
        /\ (to_chip \o <<f>>)[Len(to_chip) + 1] = f
        /\ \A i \in DOMAIN to_chip : (to_chip \o <<f>>)[i] = to_chip[i]
    BY <1>1
  <2>3. QED
    BY <2>1, <2>2
<1>4. QED
  BY <1>2, <1>3

(* The queue and the server stay; what the invariant says of r.              *)
LEMMA KeepsOK ==
  ASSUME NEW r \in Requests, RespOK(r), to_gw' = to_gw, server' = server,
         ConnOK(r)', UnopenedOK(r)',
         bridge' = "running" /\ r \in table' /\ conn'[r].state # "CLOSED" =>
           Ordered(to_gw, r, Taken(r)', server[r].next)
  PROVE  RespOK(r)'
BY DEF RespOK, OrderOK

(* The task of a request runs on.                                            *)
LEMMA RunsKeeps ==
  ASSUME InTypes, \A d \in Requests : RespOK(d), NEW r \in Requests,
         Emits(Runs(r))
  PROVE  \A d \in Requests : RespOK(d)'
<1>1. /\ Runs(r) /\ to_chip' = to_chip \o out'
      /\ to_gw' = to_gw /\ server' = server
  BY DEF Emits
<1>2. bridge' = bridge /\ handler' = handler /\ table' \subseteq table
  BY <1>1 DEF Runs
<1>3. ASSUME NEW d \in Requests, d # r
      PROVE  RespOK(d)'
  <2>1. out' = <<>> \/ \E f \in FrameType : out' = <<f>> /\ f.req = r
    BY <1>1 DEF Runs
  <2>2. Apart(d)
    BY <1>1, <1>2, <1>3, <2>1, JoinOf DEF Runs, Apart
  <2>3. QED
    BY <2>2, ApartOK
<1>4. RespOK(r)'
  <2>1. ConnOK(r)'
    BY <1>1, <1>2, ConnKeeps DEF Runs, RespOK
  <2>2. UnopenedOK(r)'
    BY <1>1 DEF Runs, UnopenedOK
  <2>3. ASSUME bridge' = "running", r \in table', conn'[r].state # "CLOSED"
        PROVE  Ordered(to_gw, r, Taken(r)', server[r].next)
    <3>1. /\ bridge = "running" /\ r \in table
          /\ conn[r].state # "CLOSED" /\ conn'[r].state = conn[r].state
          /\ conn'[r].rx = conn[r].rx
      BY <1>1, <1>2, <2>3 DEF Runs
    <3>2. Taken(r)' = Taken(r)
      BY <1>2, <3>1 DEF Taken, FinTaken, FinCounted
    <3>3. QED
      BY <3>1, <3>2 DEF RespOK, OrderOK
  <2>4. QED
    BY <1>1, <2>1, <2>2, <2>3, KeepsOK
<1>5. QED
  BY <1>3, <1>4

(* A request begins, and opens its connection.                               *)
LEMMA OpensKeeps ==
  ASSUME InTypes, \A d \in Requests : RespOK(d), NEW r \in Requests,
         Emits(http_into_chip(r) \/ Opens(r))
  PROVE  \A d \in Requests : RespOK(d)'
<1>1. /\ to_chip' = to_chip \o out' /\ to_gw' = to_gw /\ server' = server
      /\ http_into_chip(r) \/ Opens(r)
  BY DEF Emits
<1>2. bridge' = bridge /\ handler' = handler
  BY <1>1 DEF http_into_chip, Opens
<1>3. task[r].pc \in {"new", "arp"} /\ RespOK(r) /\ server[r] \in ServerType
  BY <1>1, TypesAre DEF http_into_chip, Opens, At
<1>4. /\ conn[r] = NewConn(0) /\ r \notin table /\ handler.req # r
      /\ server[r].st = "listen"
      /\ \A i \in DOMAIN to_chip : to_chip[i].req # r
      /\ \A i \in DOMAIN to_gw : to_gw[i].req # r
  BY <1>3 DEF RespOK, UnopenedOK
<1>5. CASE http_into_chip(r)
  <2>1. /\ out' = <<>> /\ UNCHANGED <<table, conn>>
        /\ GoesTo(r, "arp") \/ GoesTo(r, "gone")
    BY <1>5 DEF http_into_chip, Quiet
  <2>2. /\ \A d \in Requests \ {r} : task'[d] = task[d]
    BY <2>1, GoesToTyped
  <2>3. to_chip' = to_chip
    BY <1>1, <2>1, TypesAre
  <2>4. ASSUME NEW d \in Requests, d # r
        PROVE  RespOK(d)'
    <3>1. Apart(d)
      BY <1>1, <1>2, <2>1, <2>2, <2>3, <2>4 DEF Apart
    <3>2. QED
      BY <3>1, ApartOK
  <2>5. RespOK(r)'
    <3>1. ConnOK(r)'
      BY <1>1, <1>2, <1>3, <2>1, ConnKeeps DEF RespOK
    <3>2. UnopenedOK(r)'
      BY <1>1, <1>2, <1>4, <2>1, <2>3 DEF UnopenedOK, NewConn
    <3>3. QED
      BY <1>1, <1>3, <1>4, <2>1, <3>1, <3>2, KeepsOK
  <2>6. QED
    BY <2>4, <2>5
<1>6. CASE Opens(r)
  <2>1. PICK isn \in ISNs : /\ conn' = [conn EXCEPT ![r] = NewConn(isn)]
                            /\ Inject(Frame(r, {"SYN"}, isn, 0, 0))
    BY <1>6 DEF Opens
  <2> DEFINE f == Frame(r, {"SYN"}, isn, 0, 0)
  <2>2. isn \in SeqNums /\ f \in FrameType /\ f.req = r
    <3>1. isn \in SeqNums /\ 0 \in SeqNums /\ 0 \in Nat
          /\ {"SYN"} \in SUBSET Flags
      BY InboundAssumption, SeqNumsAreInts DEF Flags
    <3>2. QED
      BY <3>1, FrameTyped DEF Frame
  <2>3. out' = <<>> \/ out' = <<f>>
    BY <2>1 DEF Inject
  <2>4. /\ conn'[r] = NewConn(isn)
        /\ \A d \in Requests \ {r} : conn'[d] = conn[d]
    BY <2>1, TypesAre
  <2>5. /\ task'[r].pc = "await" /\ table' = table \cup {r}
        /\ \A d \in Requests \ {r} : task'[d] = task[d]
    BY <1>6, GoesToTyped DEF Opens
  <2> HIDE DEF f
  <2>6. ASSUME NEW d \in Requests, d # r
        PROVE  RespOK(d)'
    <3>1. \A i \in DOMAIN to_chip' : to_chip'[i].req # r =>
            i \in DOMAIN to_chip /\ to_chip'[i] = to_chip[i]
      BY <1>1, <2>2, <2>3, JoinOf
    <3>2. Apart(d)
      BY <1>1, <1>2, <2>4, <2>5, <2>6, <3>1 DEF Apart
    <3>3. QED
      BY <3>2, ApartOK
  <2>7. RespOK(r)'
    <3>1. /\ conn'[r].state = "SYN_SENT" /\ conn'[r].rx = <<>>
          /\ ~conn'[r].reset /\ ~conn'[r].finished
      BY <2>2, <2>4, NewConnTyped
    <3>2. server[r].next = 0 /\ (server[r].fin => server[r].next >= 2)
      BY <1>3, <1>4 DEF RespOK, ServerOK
    <3>3. ~FinTaken(r)'
      BY <1>2, <1>4 DEF FinTaken, FinCounted
    <3>4. ConnOK(r)'
      <4>1. Len(conn'[r].rx) = 0 /\ 1 .. Len(conn'[r].rx) = {}
        BY <3>1
      <4>2. ~server[r].fin
        BY <3>2
      <4>3. QED
        BY <1>1, <1>2, <1>4, <3>1, <3>3, <4>1, <4>2 DEF ConnOK
    <3>5. UnopenedOK(r)'
      BY <2>5 DEF UnopenedOK
    <3>6. Taken(r)' = 0
      BY <3>1 DEF Taken
    <3>7. Ordered(to_gw, r, 0, 0)
      <4>1. PartsOf(to_gw, r) = {}
        BY <1>4 DEF PartsOf
      <4>2. QED
        BY <4>1 DEF Ordered
    <3>8. QED
      BY <1>1, <1>3, <3>2, <3>4, <3>5, <3>6, <3>7, KeepsOK
  <2>8. QED
    BY <2>6, <2>7
<1>7. QED
  BY <1>1, <1>5, <1>6

(* The bridge stops.                                                         *)
LEMMA StopKeeps ==
  ASSUME InTypes, \A d \in Requests : RespOK(d), Emits(stop \/ shutdown)
  PROVE  \A d \in Requests : RespOK(d)'
<1>1. /\ to_chip' = to_chip \o out' /\ to_gw' = to_gw /\ server' = server
      /\ stop \/ shutdown
  BY DEF Emits
<1>2. to_chip' = to_chip /\ handler' = handler /\ task' = task
  <2>1. out' = <<>> /\ handler' = handler /\ task' = task
    BY <1>1 DEF stop, shutdown, Quiet
  <2>2. to_chip \in Seq(FrameType)
    BY TypesAre
  <2>3. to_chip \o <<>> = to_chip
    BY <2>2
  <2>4. QED
    BY <1>1, <2>1, <2>3
<1>3. CASE stop
  <2>1. /\ bridge = "running" /\ bridge' = "stopping"
        /\ conn' = conn /\ table' = table
    BY <1>3 DEF stop
  <2>2. \A d \in Requests : Apart(d)
    BY <1>1, <1>2, <2>1 DEF Apart
  <2>3. QED
    BY <2>2, ApartOK
<1>4. CASE shutdown
  <2> SUFFICES ASSUME NEW d \in Requests
               PROVE  RespOK(d)'
    OBVIOUS
  <2> DEFINE x == [conn[d] EXCEPT !.reset = TRUE, !.finished = TRUE,
                                  !.established = TRUE]
  <2>1. bridge' = "stopped" /\ table' = {}
    BY <1>4 DEF shutdown
  <2>2. conn'[d] = IF d \in table THEN x ELSE conn[d]
    BY <1>4 DEF shutdown
  <2>3. x.rx = conn[d].rx /\ x.chip_seq = conn[d].chip_seq
        /\ x.state = conn[d].state
    BY TypesAre DEF ConnType
  <2> HIDE DEF x
  <2>4. conn'[d].rx = conn[d].rx /\ conn'[d].chip_seq = conn[d].chip_seq
        /\ conn'[d].state = conn[d].state
    BY <2>2, <2>3
  <2>5. ConnOK(d)'
    BY <1>1, <1>2, <2>1, <2>4, ConnKeeps DEF RespOK
  <2>6. UnopenedOK(d)'
    <3>1. RespOK(d)
      OBVIOUS
    <3>2. QED
      BY <1>1, <1>2, <2>1, <2>2, <3>1 DEF RespOK, UnopenedOK, NewConn
  <2>7. QED
    BY <1>1, <2>1, <2>5, <2>6, KeepsOK
<1>5. QED
  BY <1>1, <1>3, <1>4

(* The handler moves on; the connection changes as little.                   *)
LEMMA ConnAlike ==
  ASSUME NEW d \in Requests, ConnOK(d), server'[d] = server[d],
         conn'[d].rx = conn[d].rx, conn'[d].chip_seq = conn[d].chip_seq,
         conn[d].state # "SYN_SENT",
         conn'[d].state = "CLOSED" \/
           /\ conn'[d].state = conn[d].state
           /\ FinCounted(d)' <=> FinCounted(d)
           /\ conn'[d].reset = conn[d].reset
           /\ conn'[d].finished = conn[d].finished,
         FinTaken(d)' => FinTaken(d), bridge' = bridge
  PROVE  ConnOK(d)'
<1> HIDE DEF FinCounted, FinTaken
<1>1. conn'[d].state # "SYN_SENT"
  OBVIOUS
<1>2. conn'[d].state = "CLOSED" => ConnOK(d)'
  BY <1>1 DEF ConnOK
<1>3. ASSUME /\ conn'[d].state = conn[d].state
             /\ FinCounted(d)' <=> FinCounted(d)
             /\ conn'[d].reset = conn[d].reset
             /\ conn'[d].finished = conn[d].finished
      PROVE  ConnOK(d)'
  BY <1>3 DEF ConnOK
<1>4. QED
  BY <1>2, <1>3

(* The handler goes on after a send for r.                                   *)
LEMMA HandlerMoves ==
  ASSUME InTypes, \A d \in Requests : RespOK(d), Emits(HandlerRuns),
         NEW r, r = handler.req
  PROVE  \A d \in Requests : RespOK(d)'
<1>1. /\ to_chip' = to_chip \o out' /\ to_gw' = to_gw /\ server' = server
      /\ Established \/ DataAcked \/ FinAcked \/ FinSent
  BY DEF Emits, HandlerRuns
<1>2. bridge' = bridge /\ table' = table /\ task' = task /\ handler.pc # "idle"
  BY <1>1 DEF Established, DataAcked, FinAcked, FinSent, HandlerAt
<1>3. r \in Requests /\ conn[r] \in ConnType /\ RespOK(r)
      /\ server[r] \in ServerType
  BY <1>2, HandlerHas, TypesAre
<1>4. conn[r].state # "SYN_SENT" /\ ConnOK(r)
      /\ task[r].pc \notin {"new", "arp"}
  BY <1>3 DEF RespOK, ConnOK, UnopenedOK
<1>5. UnopenedOK(r)'
  BY <1>2, <1>4 DEF UnopenedOK
<1>6. ASSUME ConnOK(r)',
             conn'[r].state # "CLOSED" =>
               conn[r].state # "CLOSED" /\ Taken(r)' = Taken(r)
      PROVE  RespOK(r)'
  <2>1. bridge' = "running" /\ r \in table' /\ conn'[r].state # "CLOSED" =>
          Ordered(to_gw, r, Taken(r)', server[r].next)
    BY <1>2, <1>3, <1>6 DEF RespOK, OrderOK
  <2>2. QED
    BY <1>1, <1>3, <1>5, <1>6, <2>1, KeepsOK
<1>7. ASSUME \A d \in Requests \ {r} : conn'[d] = conn[d],
             out' = <<>> \/ \E f \in FrameType : out' = <<f>> /\ f.req = r,
             handler'.req \in {r, None}
      PROVE  \A d \in Requests \ {r} : RespOK(d)'
  <2> SUFFICES ASSUME NEW d \in Requests, d # r
               PROVE  RespOK(d)'
    OBVIOUS
  <2>1. \A i \in DOMAIN to_chip' : to_chip'[i].req = d =>
          i \in DOMAIN to_chip /\ to_chip'[i] = to_chip[i]
    BY <1>1, <1>7, JoinOf
  <2>2. handler.req # d /\ handler'.req # d
    BY <1>7, InboundAssumption
  <2>3. Apart(d)
    BY <1>1, <1>2, <1>7, <2>1, <2>2 DEF Apart
  <2>4. QED
    BY <2>3, ApartOK
<1>8. ASSUME NEW c \in ConnType, NEW flags \in SUBSET Flags, Emit(r, c, flags)
      PROVE  out' = <<>> \/ \E f \in FrameType : out' = <<f>> /\ f.req = r
  <2> DEFINE f == Frame(r, flags, c.our_seq, c.chip_seq, 0)
  <2>1. f \in FrameType
    BY <1>3, ConnNumbers, FrameTyped, 0 \in Nat
  <2>2. f.req = r
    BY DEF Frame
  <2>3. out' = <<>> \/ out' = <<f>>
    BY <1>8 DEF Emit, Inject
  <2> HIDE DEF f
  <2>4. QED
    BY <2>1, <2>2, <2>3
<1>9. Idle.req = None /\ Idle.pc = "idle"
  BY DEF Idle
<1>10. CASE Established
  <2> DEFINE c == [conn[r] EXCEPT !.established = TRUE]
  <2>1. /\ conn' = [conn EXCEPT ![r] = c] /\ handler' = Idle /\ out' = <<>>
        /\ handler.pc = "established"
    BY <1>10 DEF Established, Quiet, HandlerAt
  <2>2. c.rx = conn[r].rx /\ c.chip_seq = conn[r].chip_seq
        /\ c.state = conn[r].state /\ c.reset = conn[r].reset
        /\ c.finished = conn[r].finished
    BY <1>3 DEF ConnType
  <2> HIDE DEF c
  <2>3. conn'[r] = c /\ \A d \in Requests \ {r} : conn'[d] = conn[d]
    BY <1>3, <2>1, TypesAre
  <2>4. ~FinTaken(r) /\ ~FinTaken(r)' /\ ~FinCounted(r) /\ ~FinCounted(r)'
    BY <1>9, <2>1 DEF FinTaken, FinCounted
  <2>5. ConnOK(r)'
    BY <1>1, <1>2, <1>3, <1>4, <2>2, <2>3, <2>4, ConnAlike
  <2>6. Taken(r)' = Taken(r)
    BY <2>2, <2>3, <2>4 DEF Taken
  <2>7. QED
    BY <1>6, <1>7, <1>9, <2>1, <2>2, <2>3, <2>5, <2>6
<1>11. CASE DataAcked
  <2> DEFINE c == [conn[r] EXCEPT !.data_event = Told]
  <2>1. c \in ConnType /\ c.rx = conn[r].rx /\ c.chip_seq = conn[r].chip_seq
        /\ c.state = conn[r].state /\ c.reset = conn[r].reset
        /\ c.finished = conn[r].finished
    BY <1>3 DEF ConnType, Told
  <2>2. handler.pc = "data_acked"
    BY <1>11 DEF DataAcked, HandlerAt
  <2>3. CASE ~handler.fin
    <3>1. conn' = [conn EXCEPT ![r] = c] /\ handler' = Idle /\ out' = <<>>
      BY <1>11, <2>3 DEF DataAcked, Quiet
    <3> HIDE DEF c
    <3>2. conn'[r] = c /\ \A d \in Requests \ {r} : conn'[d] = conn[d]
      BY <1>3, <3>1, TypesAre
    <3>3. ~FinTaken(r) /\ ~FinTaken(r)' /\ ~FinCounted(r) /\ ~FinCounted(r)'
      BY <1>9, <2>2, <2>3, <3>1 DEF FinTaken, FinCounted
    <3>4. ConnOK(r)'
      BY <1>1, <1>2, <1>3, <1>4, <2>1, <3>2, <3>3, ConnAlike
    <3>5. Taken(r)' = Taken(r)
      BY <2>1, <3>2, <3>3 DEF Taken
    <3>6. QED
      BY <1>6, <1>7, <1>9, <2>1, <3>1, <3>2, <3>4, <3>5
  <2>4. CASE handler.fin
    <3> DEFINE n == seq_add(c.chip_seq, FinSpan)
               x == [c EXCEPT !.chip_seq = n]
    <3>1. /\ conn' = [conn EXCEPT ![r] = x] /\ Emit(r, conn'[r], {"ACK"})
          /\ handler' = [handler EXCEPT !.pc = "fin_acked"]
      BY <1>11, <2>4 DEF DataAcked
    <3>2. n \in SeqNums
      BY <2>1, ConnNumbers, SeqAddTyped, 1 \in Int DEF FinSpan
    <3>3. n = seq_add(conn[r].chip_seq, 1)
      BY <2>1 DEF FinSpan
    <3> HIDE DEF n, c
    <3>4. /\ x \in ConnType /\ x.rx = conn[r].rx /\ x.chip_seq = n
          /\ x.state = conn[r].state /\ x.reset = conn[r].reset
          /\ x.finished = conn[r].finished
      BY <2>1, <3>2 DEF ConnType
    <3> HIDE DEF x
    <3>5. conn'[r] = x /\ \A d \in Requests \ {r} : conn'[d] = conn[d]
      BY <1>3, <3>1, TypesAre
    <3>6. out' = <<>> \/ \E f \in FrameType : out' = <<f>> /\ f.req = r
      BY <1>8, <3>1, <3>4, <3>5 DEF Flags
    <3>7. handler'.pc = "fin_acked" /\ handler'.req = r
      BY <3>1, TypesAre DEF HandlerType
    <3>8. FinTaken(r) /\ FinTaken(r)' /\ ~FinCounted(r) /\ FinCounted(r)'
      BY <2>2, <2>4, <3>7 DEF FinTaken, FinCounted
    <3>9. x.state = "ESTABLISHED" => n = SeqAt(Len(x.rx) + 2)
      <4>1. x.state = "ESTABLISHED" =>
              conn[r].chip_seq = SeqAt(Len(conn[r].rx) + 1)
        BY <1>4, <3>4, <3>8 DEF ConnOK
      <4> DEFINE l == Len(conn[r].rx)
      <4>2. l \in Nat
        BY <1>3, ConnNumbers
      <4>3. conn[r].chip_seq = SeqAt(l + 1) => n = SeqAt(l + 2)
        <5> HIDE DEF l
        <5>1. seq_add(SeqAt(l + 1), 1) = SeqAt((l + 1) + 1)
          BY <4>2, SeqAtMoves
        <5>2. (l + 1) + 1 = l + 2
          BY <4>2
        <5>3. QED
          BY <3>3, <5>1, <5>2
      <4>4. QED
        BY <3>4, <4>1, <4>3
    <3>10. ConnOK(r)'
      BY <1>1, <1>2, <1>4, <3>4, <3>5, <3>8, <3>9, SMTT(30)
      DEF ConnOK
    <3>11. Taken(r)' = Taken(r)
      BY <3>4, <3>5, <3>8 DEF Taken
    <3>12. QED
      BY <1>6, <1>7, <3>4, <3>5, <3>6, <3>7, <3>10, <3>11
  <2>5. QED
    BY <2>3, <2>4
<1>12. CASE FinAcked
  <2>1. /\ Emit(r, conn[r], {"ACK", "FIN"}) /\ conn' = conn
        /\ handler.pc = "fin_acked"
        /\ handler' = [handler EXCEPT !.pc = "fin_sent"]
    BY <1>12 DEF FinAcked, HandlerAt
  <2>2. out' = <<>> \/ \E f \in FrameType : out' = <<f>> /\ f.req = r
    BY <1>3, <1>8, <2>1 DEF Flags
  <2>3. handler'.pc = "fin_sent" /\ handler'.req = r
    BY <2>1, TypesAre DEF HandlerType
  <2>4. FinTaken(r) /\ FinTaken(r)' /\ FinCounted(r) /\ FinCounted(r)'
    BY <2>1, <2>3 DEF FinTaken, FinCounted
  <2>5. ConnOK(r)'
    BY <1>1, <1>2, <1>3, <1>4, <2>1, <2>4, ConnAlike
  <2>6. Taken(r)' = Taken(r)
    BY <2>1, <2>4 DEF Taken
  <2>7. QED
    BY <1>6, <1>7, <2>1, <2>2, <2>3, <2>5, <2>6
<1>13. CASE FinSent
  <2> DEFINE n == seq_add(conn[r].our_seq, 1)
             c == [conn[r] EXCEPT !.our_seq = n, !.state = "CLOSED",
                                  !.finished = TRUE]
  <2>1. /\ conn' = [conn EXCEPT ![r] = c] /\ handler' = Idle /\ out' = <<>>
    BY <1>13 DEF FinSent, Quiet
  <2> HIDE DEF n
  <2>2. c.rx = conn[r].rx /\ c.chip_seq = conn[r].chip_seq
        /\ c.state = "CLOSED"
    BY <1>3 DEF ConnType
  <2> HIDE DEF c
  <2>3. conn'[r] = c /\ \A d \in Requests \ {r} : conn'[d] = conn[d]
    BY <1>3, <2>1, TypesAre
  <2>4. ~FinTaken(r)'
    BY <1>9, <2>1 DEF FinTaken, FinCounted
  <2>5. ConnOK(r)'
    BY <1>1, <1>2, <1>3, <1>4, <2>2, <2>3, <2>4, ConnAlike
  <2>6. QED
    BY <1>6, <1>7, <1>9, <2>1, <2>2, <2>3, <2>5
<1>14. QED
  BY <1>1, <1>10, <1>11, <1>12, <1>13

(* Whoever it works for.                                                     *)
LEMMA HandlerKeeps ==
  ASSUME InTypes, \A d \in Requests : RespOK(d), Emits(HandlerRuns)
  PROVE  \A d \in Requests : RespOK(d)'
BY HandlerMoves

-----------------------------------------------------------------------------
(* The gateway takes the oldest segment.                                     *)

(* d takes it if it is the next part for it.                                 *)
LEMMA TailKeeps ==
  ASSUME InTypes, NEW d \in Requests, RespOK(d), to_gw # <<>>,
         to_gw' = Tail(to_gw), server' = server, ConnOK(d)', UnopenedOK(d)',
         bridge' = "running" /\ d \in table' /\ conn'[d].state # "CLOSED" =>
           /\ bridge = "running" /\ d \in table /\ conn[d].state # "CLOSED"
           /\ Taken(d)' \in Int /\ Taken(d) <= Taken(d)'
           /\ Taken(d)' <= server[d].next
           /\ Head(to_gw).req = d /\ IsPart(Head(to_gw).seg) =>
                To(Head(to_gw)) <= Taken(d)'
           /\ \/ Taken(d)' = Taken(d)
              \/ /\ Head(to_gw).req = d /\ IsPart(Head(to_gw).seg)
                 /\ From(Head(to_gw)) = Taken(d)
                 /\ To(Head(to_gw)) = Taken(d)'
  PROVE  RespOK(d)'
<1>1. SegsOK(to_gw', d, server[d])
  BY TailSegs, TypesAre DEF RespOK
<1>2. OrderOK(d)'
  <2> DEFINE k == Taken(d)'
  <2>1. SUFFICES ASSUME bridge' = "running", d \in table',
                        conn'[d].state # "CLOSED"
                 PROVE  Ordered(Tail(to_gw), d, k, server[d].next)
    BY DEF OrderOK
  <2>2. /\ bridge = "running" /\ d \in table /\ conn[d].state # "CLOSED"
        /\ k \in Int /\ Taken(d) <= k /\ k <= server[d].next
        /\ Head(to_gw).req = d /\ IsPart(Head(to_gw).seg) =>
             To(Head(to_gw)) <= k
        /\ \/ k = Taken(d)
           \/ /\ Head(to_gw).req = d /\ IsPart(Head(to_gw).seg)
              /\ From(Head(to_gw)) = Taken(d) /\ To(Head(to_gw)) = k
    BY <2>1
  <2> HIDE DEF k
  <2>3. /\ Ordered(to_gw, d, Taken(d), server[d].next)
        /\ Taken(d) \in Int /\ server[d].next \in Int
        /\ to_gw \in Seq(Queued)
    BY <2>2, TakenTyped, TypesAre DEF RespOK, OrderOK
  <2>4. QED
    BY <2>2, <2>3, OrderedTail
<1>3. QED
  BY <1>1, <1>2 DEF RespOK

(* The parts of a response that is collected join it.                        *)
LEMMA Joined ==
  ASSUME NEW x \in Seq(Nat), NEW y \in Seq(Nat), NEW z,
         \A i \in 1 .. Len(x) : x[i] = z[i],
         \A i \in 1 .. Len(y) : y[i] = z[(Len(x) + 1) + i - 1]
  PROVE  /\ Len(x \o y) = Len(x) + Len(y)
         /\ \A i \in 1 .. Len(x \o y) : (x \o y)[i] = z[i]
<1>1. /\ Len(x) \in Nat /\ Len(y) \in Nat
      /\ Len(x \o y) = Len(x) + Len(y)
  OBVIOUS
<1>2. ASSUME NEW i \in 1 .. Len(x) + Len(y)
      PROVE  (x \o y)[i] = z[i]
  <2>1. CASE i <= Len(x)
    <3>1. (x \o y)[i] = x[i] /\ i \in 1 .. Len(x)
      BY <1>1, <2>1
    <3>2. QED
      BY <3>1
  <2>2. CASE ~(i <= Len(x))
    <3> DEFINE j == i - Len(x)
    <3>1. (x \o y)[i] = y[j] /\ j \in 1 .. Len(y)
      BY <1>1, <2>2
    <3>2. (Len(x) + 1) + j - 1 = i
      BY <1>1
    <3> HIDE DEF j
    <3>3. y[j] = z[(Len(x) + 1) + j - 1]
      BY <3>1
    <3>4. QED
      BY <3>1, <3>2, <3>3
  <2>3. QED
    BY <2>1, <2>2
<1>3. QED
  BY <1>1, <1>2

(* What the oldest segment, e, is to the request r that it is of.            *)
LEMMA HeadIs ==
  ASSUME InTypes, to_gw # <<>>, NEW e, e = Head(to_gw), NEW r, r = e.req,
         RespOK(r)
  PROVE  /\ e \in Queued /\ r \in Requests /\ e.seg \in SegType
         /\ e.seg.data \in Seq(Nat) /\ e.seg.seq \in SeqNums
         /\ From(e) \in Nat /\ To(e) \in Nat /\ To(e) = From(e) + Span(e.seg)
         /\ SeqAt(From(e)) = e.seg.seq
         /\ IsPart(e.seg) => /\ Fits(server[r], From(e), e.seg)
                             /\ From(e) < To(e) /\ To(e) <= server[r].next
         /\ task[r].pc \notin {"new", "arp"}
<1>1. /\ e \in Queued /\ e = to_gw[1] /\ 1 \in DOMAIN to_gw
  BY PartsTail, TypesAre
<1>2. r \in Requests /\ e.seg \in SegType
  BY <1>1 DEF Queued
<1>3. e.seg.data \in Seq(Nat) /\ e.seg.seq \in SeqNums
  BY <1>2 DEF SegType
<1>4. From(e) \in Nat /\ To(e) \in Nat /\ To(e) = From(e) + Span(e.seg)
  BY <1>1, FromTyped DEF To
<1>5. SeqAt(From(e)) = e.seg.seq
  BY <1>3, SeqAtOffsetOf DEF From
<1>6. ASSUME IsPart(e.seg)
      PROVE  /\ Fits(server[r], From(e), e.seg)
             /\ From(e) < To(e) /\ To(e) <= server[r].next
  <2>1. 1 \in PartsOf(to_gw, r)
    BY <1>1, <1>6 DEF PartsOf
  <2>2. Fits(server[r], From(e), e.seg)
    BY <1>1, <2>1 DEF RespOK, SegsOK
  <2>3. QED
    BY <1>1, <1>6, <2>2, FromTyped DEF Fits, To
<1>7. task[r].pc \notin {"new", "arp"}
  BY <1>1 DEF RespOK, UnopenedOK
<1>8. QED
  BY <1>1, <1>2, <1>3, <1>4, <1>5, <1>6, <1>7

(* The gateway takes e, of r; nothing else moves.                            *)
GwTakes(e, r) ==
    /\ to_gw # <<>> /\ e = Head(to_gw) /\ r = e.req
    /\ to_gw' = Tail(to_gw) /\ server' = server
    /\ bridge' = bridge /\ table' = table /\ task' = task
    /\ handler.pc = "idle"

(* While the handler is idle it has taken no FIN.                            *)
LEMMA IdleHasNone ==
  ASSUME InTypes, NEW e, NEW r, GwTakes(e, r), RespOK(r)
  PROVE  /\ ~FinTaken(r) /\ ~FinCounted(r) /\ handler.req # r
         /\ UnopenedOK(r)'
<1>1. r \in Requests /\ task[r].pc \notin {"new", "arp"}
  BY HeadIs DEF GwTakes
<1>2. handler.req = None
  BY TypesAre DEF GwTakes
<1>3. handler.req # r
  BY <1>1, <1>2, InboundAssumption
<1>4. UnopenedOK(r)'
  BY <1>1 DEF UnopenedOK, GwTakes
<1>5. QED
  BY <1>3, <1>4 DEF FinTaken, FinCounted

(* What it does not need changes nothing.                                    *)
LEMMA UnmovedOK ==
  ASSUME InTypes, NEW e, NEW r, GwTakes(e, r), RespOK(r),
         conn' = conn, handler' = handler,
         bridge = "running" /\ r \in table /\ conn[r].state # "CLOSED"
           /\ IsPart(e.seg) => To(e) <= Taken(r)
  PROVE  RespOK(r)'
<1>1. r \in Requests
  BY HeadIs DEF GwTakes
<1>2. ConnOK(r)'
  BY <1>1, ConnKeeps DEF RespOK, GwTakes
<1>3. UnopenedOK(r)'
  BY IdleHasNone
<1>4. Taken(r)' = Taken(r)
  BY DEF Taken, FinTaken, FinCounted
<1>5. ASSUME bridge = "running", r \in table, conn[r].state # "CLOSED"
      PROVE  /\ Taken(r) \in Int /\ Taken(r) <= Taken(r)
             /\ Taken(r) <= server[r].next
  BY <1>1, <1>5, TakenTyped
<1>6. QED
  BY <1>1, <1>2, <1>3, <1>4, <1>5, TailKeeps DEF GwTakes

(* The connection is gone.                                                   *)
LEMMA ClosedOK ==
  ASSUME InTypes, NEW e, NEW r, GwTakes(e, r), RespOK(r), handler' = handler,
         conn'[r].rx = conn[r].rx, conn'[r].chip_seq = conn[r].chip_seq,
         conn'[r].state = "CLOSED"
  PROVE  RespOK(r)'
<1>1. r \in Requests
  BY HeadIs DEF GwTakes
<1>2. ConnOK(r)'
  BY <1>1, ConnKeeps DEF RespOK, GwTakes
<1>3. UnopenedOK(r)'
  BY IdleHasNone
<1>4. QED
  BY <1>1, <1>2, <1>3, TailKeeps DEF GwTakes

(* In SYN_SENT the SYN is what it takes.                                     *)
LEMMA SynAckedOK ==
  ASSUME InTypes, NEW e, NEW r, GwTakes(e, r), RespOK(r),
         bridge = "running", r \in table, SynAcked(r, e.seg)
  PROVE  RespOK(r)'
<1> DEFINE s == e.seg
           v == server[r]
           c == conn[r]
<1>1. /\ e \in Queued /\ r \in Requests /\ s.data \in Seq(Nat)
      /\ s.seq \in SeqNums /\ From(e) \in Nat /\ To(e) \in Nat
      /\ To(e) = From(e) + Span(s) /\ SeqAt(From(e)) = s.seq
      /\ IsPart(s) => /\ Fits(v, From(e), s)
                      /\ From(e) < To(e) /\ To(e) <= v.next
  BY HeadIs DEF GwTakes
<1>2. c.state = "SYN_SENT" /\ "RST" \notin s.flags
  BY DEF SynAcked
<1>3. /\ c \in ConnType /\ v \in ServerType /\ v.next \in Nat
      /\ to_gw \in Seq(Queued)
  BY <1>1, TypesAre DEF ServerType
<1>4. /\ ~FinTaken(r) /\ ~FinCounted(r) /\ handler.req # r
      /\ UnopenedOK(r)'
  BY IdleHasNone
<1>5. Taken(r) = 0 /\ c.rx = <<>>
  BY <1>2 DEF Taken, RespOK, ConnOK
<1>6. Ordered(to_gw, r, 0, v.next)
  BY <1>2, <1>5 DEF RespOK, OrderOK
<1>7. IsPart(s) => From(e) = 0
  <2>1. IsPart(s) => To(e) <= 0 \/ From(e) = 0
    BY <1>3, <1>6, HeadIsOldOrNext DEF GwTakes
  <2>2. QED
    BY <1>1, <2>1
<1>8. CASE ~({"SYN", "ACK"} \subseteq s.flags)
  <2>1. conn' = conn /\ handler' = handler
    BY <1>8 DEF SynAcked
  <2>2. ~IsPart(s)
    <3>1. IsPart(s) => "SYN" \in s.flags /\ "ACK" \in s.flags
      BY <1>1, <1>7 DEF Fits
    <3>2. QED
      BY <1>8, <3>1
  <2>3. QED
    BY <2>1, <2>2, UnmovedOK
<1>9. CASE {"SYN", "ACK"} \subseteq s.flags
  <2> DEFINE n == seq_add(s.seq, 1)
             x == [c EXCEPT !.chip_seq = n, !.state = "ESTABLISHED"]
  <2>1. conn' = [conn EXCEPT ![r] = x] /\ HandlerGoesTo("established", r, s)
    BY <1>9 DEF SynAcked
  <2>2. n \in SeqNums
    BY <1>1, SeqAddTyped, SeqNumsAreInts, 1 \in Int
  <2>3. Span(s) = Len(s.data) + 1 /\ Len(s.data) \in Nat
    BY <1>1, <1>9, SpanTyped
  <2>4. IsPart(s)
    BY <1>2, <2>3 DEF IsPart
  <2>5. From(e) = 0 /\ Len(s.data) = 0 /\ To(e) = 1 /\ v.next >= 1
    <3>1. From(e) = 0 /\ s.data = <<>>
      BY <1>1, <1>7, <1>9, <2>4 DEF Fits
    <3>2. To(e) <= v.next
      BY <1>1, <2>4
    <3>3. QED
      BY <1>1, <1>3, <2>3, <3>1, <3>2
  <2>6. n = SeqAt(0 + 1)
    <3>1. 0 \in Int /\ 1 \in Int
      OBVIOUS
    <3>2. seq_add(SeqAt(0), 1) = SeqAt(0 + 1)
      BY <3>1, SeqAtMoves
    <3>3. s.seq = SeqAt(0)
      BY <1>1, <2>5
    <3>4. QED
      BY <3>2, <3>3
  <2> HIDE DEF n
  <2>7. /\ x.rx = c.rx /\ x.chip_seq = n /\ x.state = "ESTABLISHED"
        /\ x.reset = c.reset /\ x.finished = c.finished
    BY <1>3 DEF ConnType
  <2> HIDE DEF x
  <2>8. conn'[r] = x
    BY <1>1, <2>1, TypesAre
  <2>9. handler'.pc = "established"
    BY <2>1 DEF HandlerGoesTo
  <2>10. ~FinTaken(r)' /\ ~FinCounted(r)'
    BY <2>9 DEF FinTaken, FinCounted
  <2>11. Len(c.rx) = 0 /\ 1 .. Len(c.rx) = {}
    BY <1>5
  <2>12. ConnOK(r)'
    <3>1. v.fin => Len(c.rx) + 2 <= v.next
      BY DEF RespOK, ConnOK
    <3>2. ~c.reset /\ ~c.finished
      BY <1>2 DEF RespOK, ConnOK
    <3>3. n = SeqAt(Len(c.rx) + 1)
      BY <2>6, <2>11
    <3>4. conn'[r].rx = <<>> /\ server'[r] = v
      BY <1>5, <2>7, <2>8 DEF GwTakes
    <3>5. \A i \in 1 .. Len(conn'[r].rx) :
            conn'[r].rx[i] = server'[r].response[i]
      BY <2>7, <2>8, <2>11
    <3>6. QED
      BY <2>5, <2>7, <2>8, <2>10, <3>1, <3>2, <3>3, <3>4, <3>5 DEF ConnOK
  <2>13. Taken(r)' = 1
    <3>1. Taken(r)' = Len(conn'[r].rx) + 1
      BY <2>7, <2>8, <2>10 DEF Taken
    <3>2. QED
      BY <2>7, <2>8, <2>11, <3>1
  <2>14. QED
    <3>1. /\ Taken(r)' \in Int /\ Taken(r) <= Taken(r)'
          /\ Taken(r)' <= server[r].next /\ To(e) <= Taken(r)'
      BY <1>5, <2>5, <2>13
    <3>2. bridge = "running" /\ r \in table /\ conn[r].state # "CLOSED"
      BY <1>2
    <3>3. From(e) = Taken(r) /\ To(e) = Taken(r)'
      BY <1>5, <2>5, <2>13
    <3>4. QED
      BY <1>1, <1>4, <2>4, <2>12, <3>1, <3>2, <3>3, TailKeeps DEF GwTakes
<1>10. QED
  BY <1>8, <1>9

(* In ESTABLISHED it takes what comes next, and nothing else.                *)
LEMMA CollectsOK ==
  ASSUME InTypes, NEW e, NEW r, GwTakes(e, r), RespOK(r),
         bridge = "running", r \in table, Collects(r, e.seg)
  PROVE  RespOK(r)'
<1> DEFINE s == e.seg
           v == server[r]
           c == conn[r]
           l == Len(c.rx)
           m == Len(s.data)
           n == l + 1
<1>1. /\ e \in Queued /\ r \in Requests /\ s.data \in Seq(Nat)
      /\ s.seq \in SeqNums /\ From(e) \in Nat /\ To(e) \in Nat
      /\ To(e) = From(e) + Span(s) /\ SeqAt(From(e)) = s.seq
      /\ IsPart(s) => /\ Fits(v, From(e), s)
                      /\ From(e) < To(e) /\ To(e) <= v.next
  BY HeadIs DEF GwTakes
<1>2. c.state = "ESTABLISHED" /\ "RST" \notin s.flags
  BY DEF Collects
<1>3. /\ c \in ConnType /\ v \in ServerType /\ v.next \in Nat
      /\ to_gw \in Seq(Queued) /\ c.rx \in Seq(Nat)
  BY <1>1, TypesAre DEF ServerType, ConnType
<1>4. /\ ~FinTaken(r) /\ ~FinCounted(r) /\ handler.req # r
      /\ UnopenedOK(r)'
  BY IdleHasNone
<1>5. Taken(r) = n /\ c.chip_seq = SeqAt(n)
  <2>1. Taken(r) = n
    BY <1>2, <1>4 DEF Taken
  <2>2. c.chip_seq = SeqAt(n)
    BY <1>2, <1>4 DEF RespOK, ConnOK
  <2>3. QED
    BY <2>1, <2>2
<1>6. l \in Nat /\ m \in Nat /\ Span(s) \in Nat /\ n \in Nat /\ n <= v.next
  <2>1. l \in Nat /\ m \in Nat /\ Span(s) \in Nat
    BY <1>1, <1>3, SpanTyped, SMTT(30)
  <2>2. n <= v.next
    BY <1>1, <1>2, <1>5, TakenTyped
  <2>3. QED
    BY <2>1, <2>2
<1>7. Ordered(to_gw, r, n, v.next)
  BY <1>2, <1>5 DEF RespOK, OrderOK
<1>8. IsPart(s) => To(e) <= n \/ From(e) = n
  BY <1>3, <1>7, HeadIsOldOrNext DEF GwTakes
<1>9. v.next \in 0 .. SeqMod - 1
  BY <1>3, NextBound DEF RespOK
<1>10. s.seq = c.chip_seq /\ IsPart(s) => From(e) = n
  <2> SUFFICES ASSUME s.seq = c.chip_seq, IsPart(s)
               PROVE  From(e) = n
    OBVIOUS
  <2> DEFINE a == From(e)
             b == v.next
  <2>1. /\ a \in Nat /\ n \in Nat /\ b \in 0 .. SeqMod - 1 /\ n <= b
        /\ a <= b /\ SeqAt(a) = SeqAt(n)
    BY <1>1, <1>3, <1>5, <1>6, <1>9
  <2> HIDE DEF a, b, n
  <2>2. a \in 0 .. SeqMod - 1 /\ n \in 0 .. SeqMod - 1
    BY <2>1, SeqModAssumption
  <2>3. a = n
    BY <2>1, <2>2, SeqAtInjective
  <2>4. QED
    BY <2>3 DEF a
<1>11. /\ v.fin => l + 2 <= v.next
       /\ \A i \in 1 .. l : c.rx[i] = v.response[i]
       /\ ~c.reset /\ ~c.finished
  BY <1>2 DEF RespOK, ConnOK
<1>12. ASSUME NEW k \in Nat, Taken(r)' = k, ConnOK(r)', IsPart(s),
              From(e) = n, To(e) = k
       PROVE  RespOK(r)'
  <2>1. k <= v.next /\ n <= k
    BY <1>1, <1>12
  <2>2. /\ Taken(r)' \in Int /\ Taken(r) <= Taken(r)'
        /\ Taken(r)' <= server[r].next /\ To(e) <= Taken(r)'
        /\ From(e) = Taken(r) /\ To(e) = Taken(r)'
    BY <1>5, <1>12, <2>1
  <2>3. bridge = "running" /\ r \in table /\ conn[r].state # "CLOSED"
    BY <1>2
  <2>4. QED
    BY <1>1, <1>4, <1>12, <2>2, <2>3, TailKeeps DEF GwTakes
<1>13. CASE s.data # <<>> /\ InOrder(r, s)
  <2> DEFINE y == seq_add(c.chip_seq, m)
             z == c.rx \o s.data
             x == [c EXCEPT !.rx = z, !.chip_seq = y]
  <2>1. conn' = [conn EXCEPT ![r] = x] /\ HandlerGoesTo("data_acked", r, s)
    BY <1>13 DEF Collects
  <2>2. IsPart(s) /\ "SYN" \notin s.flags /\ m >= 1
    <3>1. m >= 1
      BY <1>1, <1>13
    <3>2. Span(s) = m \/ Span(s) = m + 1
      BY <1>1, SpanTyped
    <3>3. Span(s) > 0
      BY <1>6, <3>1, <3>2
    <3>4. IsPart(s)
      BY <1>2, <3>3 DEF IsPart
    <3>5. "SYN" \notin s.flags
      BY <1>1, <1>13, <3>4 DEF Fits
    <3>6. QED
      BY <3>1, <3>4, <3>5
  <2>3. From(e) = n
    BY <1>10, <1>13, <2>2 DEF InOrder
  <2>4. /\ \A i \in 1 .. m : s.data[i] = v.response[n + i - 1]
        /\ "FIN" \in s.flags => v.fin /\ n + Span(s) = v.next
        /\ v.fin /\ "FIN" \notin s.flags => n + Span(s) < v.next
        /\ n + Span(s) <= v.next
    BY <1>1, <2>2, <2>3 DEF Fits
  <2>5. /\ "FIN" \in s.flags => Span(s) = m + 1
        /\ "FIN" \notin s.flags => Span(s) = m
    BY <1>1, <2>2, SpanTyped
  <2>6. /\ Len(z) = l + m
        /\ \A i \in 1 .. Len(z) : z[i] = v.response[i]
    <3>1. \A i \in 1 .. Len(s.data) :
            s.data[i] = v.response[(Len(c.rx) + 1) + i - 1]
      BY <2>4
    <3>2. \A i \in 1 .. Len(c.rx) : c.rx[i] = v.response[i]
      BY <1>11
    <3> DEFINE g == c.rx
               h == s.data
               j == v.response
    <3>3. /\ g \in Seq(Nat) /\ h \in Seq(Nat)
          /\ \A i \in 1 .. Len(g) : g[i] = j[i]
          /\ \A i \in 1 .. Len(h) : h[i] = j[(Len(g) + 1) + i - 1]
      BY <1>1, <1>3, <3>1, <3>2
    <3> HIDE DEF g, h, j
    <3>4. /\ Len(g \o h) = Len(g) + Len(h)
          /\ \A i \in 1 .. Len(g \o h) : (g \o h)[i] = j[i]
      BY <3>3, Joined
    <3>5. QED
      BY <3>4 DEF g, h, j
  <2>7. y = SeqAt(n + m)
    <3>1. n \in Int /\ m \in Int
      BY <1>6
    <3> HIDE DEF n, m
    <3>2. seq_add(SeqAt(n), m) = SeqAt(n + m)
      BY <3>1, SeqAtMoves
    <3>3. QED
      BY <1>5, <3>2
  <2> HIDE DEF y, z
  <2>8. /\ x.rx = z /\ x.chip_seq = y /\ x.state = "ESTABLISHED"
        /\ x.reset = c.reset /\ x.finished = c.finished
    BY <1>2, <1>3 DEF ConnType
  <2> HIDE DEF x
  <2>9. conn'[r] = x /\ server'[r] = v
    BY <1>1, <2>1, TypesAre DEF GwTakes
  <2>10. /\ handler'.pc = "data_acked" /\ handler'.req = r
         /\ handler'.fin = ("FIN" \in s.flags)
    BY <2>1 DEF HandlerGoesTo
  <2>11. ~FinCounted(r)' /\ (FinTaken(r)' <=> "FIN" \in s.flags)
    BY <2>10 DEF FinTaken, FinCounted
  <2> DEFINE k == Len(z)
             p == Span(s)
             b == v.next
             t == To(e)
             f == "FIN" \in s.flags
  <2>12. /\ l \in Nat /\ m \in Nat /\ k = l + m /\ n = l + 1 /\ p \in Nat
         /\ b \in Nat /\ t = n + p
         /\ (f /\ p = m + 1) \/ (~f /\ p = m)
         /\ f => v.fin /\ n + p = b
         /\ v.fin /\ ~f => n + p < b
         /\ n + p <= b
    BY <1>1, <1>3, <1>6, <2>3, <2>4, <2>5, <2>6
  <2> HIDE DEF k, p, b, t, f, l, m
  <2>13. /\ k + 1 <= b /\ n + m = k + 1 /\ t \in Nat
         /\ f => t = k + 2
         /\ ~f => t = k + 1
    BY <2>12
  <2>14. f => v.fin /\ k = b - 2
    BY <2>12
  <2>15. v.fin => k + 2 <= b
    BY <2>12
  <2>16. ConnOK(r)'
    <3>1. /\ conn'[r].rx = z /\ server'[r] = v /\ conn'[r].chip_seq = y
          /\ conn'[r].state = "ESTABLISHED"
          /\ ~conn'[r].reset /\ ~conn'[r].finished
      BY <1>11, <2>8, <2>9
    <3>2. y = SeqAt(k + 1)
      BY <2>7, <2>13
    <3>3. b >= 1
      BY <2>12, <2>13
    <3>4. /\ Len(z) + 1 <= v.next /\ (v.fin => Len(z) + 2 <= v.next)
          /\ y = SeqAt(Len(z) + 1) /\ v.next >= 1
          /\ "FIN" \in s.flags => v.fin /\ Len(z) = v.next - 2
      BY <2>13, <2>14, <2>15, <3>2, <3>3 DEF k, b, f
    <3>5. QED
      BY <2>6, <2>11, <3>1, <3>4 DEF ConnOK
  <2>17. Taken(r)' = To(e) /\ To(e) \in Nat
    <3>1. Taken(r)' = IF f THEN k + 2 ELSE k + 1
      BY <2>8, <2>9, <2>11 DEF Taken, k, f
    <3>2. Taken(r)' = t /\ t \in Nat
      BY <2>13, <3>1
    <3>3. QED
      BY <3>2 DEF t
  <2>18. QED
    BY <1>12, <2>2, <2>3, <2>16, <2>17
<1>14. CASE s.data # <<>> /\ ~InOrder(r, s)
  <2>1. conn' = conn /\ handler' = handler
    BY <1>14 DEF Collects
  <2>2. IsPart(s) => To(e) <= n
    BY <1>1, <1>5, <1>8, <1>14 DEF InOrder
  <2>3. QED
    BY <1>5, <2>1, <2>2, UnmovedOK
<1>15. CASE s.data = <<>> /\ "FIN" \in s.flags
  <2> DEFINE y == seq_add(c.chip_seq, FinSpan)
             x == [c EXCEPT !.chip_seq = y]
  <2>1. conn' = [conn EXCEPT ![r] = x] /\ HandlerGoesTo("fin_acked", r, s)
    BY <1>15 DEF Collects, AcksFin
  <2>2. m = 0 /\ Span(s) = 1
    <3>1. m = 0
      BY <1>15
    <3>2. Span(s) = m + 1
      BY <1>1, <1>15, SpanTyped
    <3>3. QED
      BY <3>1, <3>2
  <2>3. IsPart(s)
    BY <1>2, <2>2 DEF IsPart
  <2>4. v.fin /\ To(e) = v.next
    BY <1>1, <1>15, <2>3 DEF Fits
  <2>5. From(e) = n /\ n + 1 = v.next
    <3>1. l + 2 <= v.next
      BY <1>11, <2>4
    <3>2. ~(To(e) <= n)
      BY <1>3, <1>6, <2>4, <3>1
    <3>3. From(e) = n
      BY <1>8, <2>3, <3>2
    <3>4. QED
      BY <1>1, <2>2, <2>4, <3>3
  <2>6. y = SeqAt(n + 1)
    <3>1. n \in Int /\ 1 \in Int
      BY <1>6
    <3> HIDE DEF n
    <3>2. seq_add(SeqAt(n), 1) = SeqAt(n + 1)
      BY <3>1, SeqAtMoves
    <3>3. QED
      BY <1>5, <3>2 DEF FinSpan
  <2> HIDE DEF y
  <2>7. /\ x.rx = c.rx /\ x.chip_seq = y /\ x.state = "ESTABLISHED"
        /\ x.reset = c.reset /\ x.finished = c.finished
    BY <1>2, <1>3 DEF ConnType
  <2> HIDE DEF x
  <2>8. conn'[r] = x /\ server'[r] = v
    BY <1>1, <2>1, TypesAre DEF GwTakes
  <2>9. handler'.pc = "fin_acked" /\ handler'.req = r
    BY <2>1 DEF HandlerGoesTo
  <2>10. FinTaken(r)' /\ FinCounted(r)'
    BY <2>9 DEF FinTaken, FinCounted
  <2>11. l = v.next - 2 /\ n + 1 = l + 2 /\ v.next >= 1 /\ l + 1 <= v.next
    <3>1. l \in Nat /\ n = l + 1 /\ v.next \in Nat /\ n + 1 = v.next
      BY <1>3, <1>6, <2>5
    <3> HIDE DEF l
    <3>2. QED
      BY <3>1
  <2>12. ConnOK(r)'
    BY <1>11, <2>4, <2>6, <2>7, <2>8, <2>10, <2>11 DEF ConnOK
  <2>13. Taken(r)' = l + 2
    BY <2>7, <2>8, <2>10 DEF Taken
  <2>14. Taken(r)' = To(e) /\ To(e) \in Nat
    BY <1>1, <2>4, <2>5, <2>11, <2>13
  <2>15. QED
    BY <1>12, <2>3, <2>5, <2>12, <2>14
<1>16. CASE s.data = <<>> /\ "FIN" \notin s.flags
  <2>1. conn' = conn /\ handler' = handler
    BY <1>16 DEF Collects
  <2>2. ASSUME IsPart(s)
        PROVE  To(e) <= n
    <3>1. m = 0
      BY <1>16
    <3>2. "SYN" \in s.flags
      <4>1. "SYN" \notin s.flags => Span(s) = m
        BY <1>1, <1>16, SpanTyped
      <4>2. QED
        BY <2>2, <3>1, <4>1 DEF IsPart
    <3>3. From(e) = 0 /\ Span(s) = m + 1
      BY <1>1, <2>2, <3>2, SpanTyped DEF Fits
    <3>4. QED
      BY <1>1, <1>6, <3>1, <3>3
  <2>3. QED
    BY <1>5, <2>1, <2>2, UnmovedOK
<1>17. QED
  BY <1>13, <1>14, <1>15, <1>16

(* What a segment makes the gateway send is for its request.                 *)
LEMMA DeliverEmits ==
  ASSUME InTypes, to_gw # <<>>, NEW e, e = Head(to_gw), NEW r, r = e.req,
         deliver_packet_out(r, e.seg), InTypes'
  PROVE  /\ out' = <<>> \/ \E f \in FrameType : out' = <<f>> /\ f.req = r
         /\ \A d \in Requests \ {r} : conn'[d] = conn[d]
         /\ handler' = handler \/ (handler.req = None /\ handler'.req = r)
<1> DEFINE s == e.seg
<1>1. e \in Queued /\ r \in Requests /\ s \in SegType
  <2>1. e \in Queued
    <3>1. to_gw \in Seq(Queued)
      BY TypesAre
    <3>2. QED
      BY <3>1, PartsTail
  <2>2. QED
    BY <2>1 DEF Queued
<1>2. /\ conn \in [Requests -> ConnType] /\ conn[r] \in ConnType
      /\ conn' \in [Requests -> ConnType] /\ conn'[r] \in ConnType
      /\ handler.req = None
  BY <1>1, TypesAre DEF InTypes, deliver_packet_out, HandlerAt
<1>3. /\ s.seq \in SeqNums /\ s.ack \in SeqNums /\ Len(s.data) \in Nat
  <2>1. s.seq \in SeqNums /\ s.ack \in SeqNums /\ s.data \in Seq(Nat)
    BY <1>1 DEF SegType
  <2>2. QED
    BY <2>1, SpanTyped
<1> HIDE DEF s
<1>4. \A d \in Requests \ {r} : conn'[d] = conn[d]
  <2>1. conn' = conn \/ \E x : conn' = [conn EXCEPT ![r] = x]
    <3>1. CASE ChipRst(r, s)
      <4> DEFINE z == [conn[r] EXCEPT !.reset = TRUE, !.state = "CLOSED",
                                      !.established = TRUE, !.finished = TRUE]
      <4>1. conn' = [conn EXCEPT ![r] = z]
        BY <3>1 DEF ChipRst
      <4> HIDE DEF z
      <4>2. QED
        BY <4>1
    <3>2. CASE SynAcked(r, s)
      <4> DEFINE y == seq_add(s.seq, 1)
                 z == [conn[r] EXCEPT !.chip_seq = y, !.state = "ESTABLISHED"]
      <4>1. CASE {"SYN", "ACK"} \subseteq s.flags
        <5>1. conn' = [conn EXCEPT ![r] = z]
          BY <3>2, <4>1 DEF SynAcked
        <5> HIDE DEF z
        <5>2. QED
          BY <5>1
      <4>2. CASE ~({"SYN", "ACK"} \subseteq s.flags)
        BY <3>2, <4>2 DEF SynAcked
      <4>3. QED
        BY <4>1, <4>2
    <3>3. CASE Collects(r, s)
      <4> DEFINE y == seq_add(conn[r].chip_seq, Len(s.data))
                 l == conn[r].rx \o s.data
                 x == [conn[r] EXCEPT !.rx = l, !.chip_seq = y]
                 n == seq_add(conn[r].chip_seq, FinSpan)
                 z == [conn[r] EXCEPT !.chip_seq = n]
      <4>1. CASE s.data # <<>> /\ InOrder(r, s)
        <5>1. conn' = [conn EXCEPT ![r] = x]
          BY <3>3, <4>1 DEF Collects
        <5> HIDE DEF x
        <5>2. QED
          BY <5>1, ZenonT(40)
      <4>2. CASE s.data = <<>> /\ "FIN" \in s.flags
        <5>1. conn' = [conn EXCEPT ![r] = z]
          BY <3>3, <4>2 DEF Collects, AcksFin
        <5> HIDE DEF z
        <5>2. QED
          BY <5>1
      <4>3. CASE ~(s.data # <<>> /\ InOrder(r, s))
                 /\ ~(s.data = <<>> /\ "FIN" \in s.flags)
        BY <3>3, <4>3 DEF Collects
      <4>4. QED
        BY <4>1, <4>2, <4>3
    <3>4. conn' = conn \/ ChipRst(r, s) \/ SynAcked(r, s) \/ Collects(r, s)
      BY DEF deliver_packet_out, TimeWait, Stray, s
    <3>5. QED
      BY <3>1, <3>2, <3>3, <3>4
  <2>2. QED
    BY <1>1, <1>2, <2>1
<1>5. handler' = handler \/ (handler.req = None /\ handler'.req = r)
  <2>1. ASSUME NEW pc, HandlerGoesTo(pc, r, s)
        PROVE  handler'.req = r
    BY <2>1 DEF HandlerGoesTo
  <2>2. CASE \E pc : HandlerGoesTo(pc, r, s)
    BY <1>2, <2>1, <2>2
  <2>3. handler' = handler \/ \E pc : HandlerGoesTo(pc, r, s)
    <3>1. CASE SynAcked(r, s)
      BY <3>1, SMTT(30) DEF SynAcked
    <3>2. CASE Collects(r, s)
      BY <3>2 DEF Collects, AcksFin
    <3>3. CASE handler' = handler
      BY <3>3, SMTT(30)
    <3>4. SynAcked(r, s) \/ Collects(r, s) \/ handler' = handler
      BY SMTT(30) DEF deliver_packet_out, ChipRst, TimeWait, Stray, s
    <3>5. QED
      BY <3>1, <3>2, <3>3, <3>4
  <2>4. QED
    BY <2>2, <2>3
<1>6. ASSUME NEW flags \in SUBSET Flags, NEW x \in SeqNums, NEW y \in SeqNums,
             Inject(Frame(r, flags, x, y, 0))
      PROVE  out' = <<>> \/ \E f \in FrameType : out' = <<f>> /\ f.req = r
  <2> DEFINE f == Frame(r, flags, x, y, 0)
  <2>1. f \in FrameType
    BY <1>1, <1>6, FrameTyped, 0 \in Nat
  <2>2. f.req = r
    BY DEF Frame
  <2>3. out' = <<>> \/ out' = <<f>>
    BY <1>6 DEF Inject
  <2> HIDE DEF f
  <2>4. QED
    BY <2>1, <2>2, <2>3
<1>7. ASSUME NEW c \in ConnType, Emit(r, c, {"ACK"})
      PROVE  out' = <<>> \/ \E f \in FrameType : out' = <<f>> /\ f.req = r
  <2>1. c.our_seq \in SeqNums /\ c.chip_seq \in SeqNums
        /\ {"ACK"} \in SUBSET Flags
    BY <1>7 DEF ConnType, Flags
  <2>2. QED
    BY <1>6, <1>7, <2>1 DEF Emit
<1>8. ASSUME Quiet
      PROVE  out' = <<>> \/ \E f \in FrameType : out' = <<f>> /\ f.req = r
  BY <1>8 DEF Quiet
<1>9. ASSUME Stray(r, s)
      PROVE  out' = <<>> \/ \E f \in FrameType : out' = <<f>> /\ f.req = r
  <2> DEFINE n == IF "SYN" \in s.flags THEN 1 ELSE Len(s.data)
             y == seq_add(s.seq, n)
  <2>1. n \in Int
    BY <1>3
  <2> HIDE DEF n
  <2>2. y \in SeqNums /\ {"RST", "ACK"} \in SUBSET Flags
    BY <1>3, <2>1, SeqAddTyped, SeqNumsAreInts DEF Flags
  <2>3. Quiet \/ Inject(Frame(r, {"RST", "ACK"}, s.ack, y, 0))
    BY <1>9 DEF Stray, n
  <2> HIDE DEF y
  <2>4. QED
    BY <1>3, <1>6, <1>8, <2>2, <2>3
<1>10. ASSUME SynAcked(r, s)
      PROVE  out' = <<>> \/ \E f \in FrameType : out' = <<f>> /\ f.req = r
  BY <1>2, <1>7, <1>8, <1>10 DEF SynAcked
<1>11. ASSUME TimeWait(r, s)
      PROVE  out' = <<>> \/ \E f \in FrameType : out' = <<f>> /\ f.req = r
  <2>1. conn[r].our_seq \in SeqNums /\ conn[r].chip_seq \in SeqNums
        /\ {"ACK"} \in SUBSET Flags
    BY <1>2, SMTT(30) DEF ConnType, Flags
  <2>2. QED
    BY <1>6, <1>8, <1>11, <2>1 DEF TimeWait, AcksCollected
<1>12. ASSUME Collects(r, s)
      PROVE  out' = <<>> \/ \E f \in FrameType : out' = <<f>> /\ f.req = r
  BY <1>2, <1>7, <1>8, <1>12 DEF Collects, AcksFin
<1>13. QED
  BY <1>4, <1>5, <1>8, <1>9, <1>10, <1>11, <1>12
     DEF deliver_packet_out, ChipRst, s

(* The gateway takes a segment.                                              *)
LEMMA GwKeeps ==
  ASSUME InTypes, \A d \in Requests : RespOK(d), GwReceives, InTypes'
  PROVE  \A d \in Requests : RespOK(d)'
<1>1. PICK e, r : e = Head(to_gw) /\ r = e.req
  OBVIOUS
<1>2. /\ to_gw # <<>> /\ to_gw' = Tail(to_gw) /\ to_chip' = to_chip \o out'
      /\ server' = server /\ deliver_packet_out(r, e.seg)
  BY <1>1 DEF GwReceives
<1>3. e \in Queued /\ r \in Requests
  BY <1>1, <1>2, PartsTail, TypesAre DEF Queued
<1>4. GwTakes(e, r)
  BY <1>1, <1>2 DEF GwTakes, deliver_packet_out, HandlerAt
<1>5. /\ out' = <<>> \/ \E f \in FrameType : out' = <<f>> /\ f.req = r
      /\ \A d \in Requests \ {r} : conn'[d] = conn[d]
      /\ handler' = handler \/ (handler.req = None /\ handler'.req = r)
  BY <1>1, <1>2, DeliverEmits
<1>6. ASSUME NEW d \in Requests, d # r
      PROVE  RespOK(d)'
  <2>1. \A i \in DOMAIN to_chip' : to_chip'[i].req = d =>
          i \in DOMAIN to_chip /\ to_chip'[i] = to_chip[i]
    BY <1>2, <1>5, <1>6, JoinOf
  <2>2. handler' = handler \/ (handler.req # d /\ handler'.req # d)
    BY <1>5, <1>6, InboundAssumption
  <2>3. Apart(d)
    BY <1>1, <1>4, <1>5, <1>6, <2>1, <2>2 DEF Apart, GwTakes
  <2>4. QED
    BY <2>3, ApartOK
<1>7. RespOK(r)'
  <2> DEFINE s == e.seg
  <2>1. RespOK(r) /\ conn[r] \in ConnType
    BY <1>3, TypesAre
  <2>2. CASE bridge # "running" \/ r \notin table
    <3>1. conn' = conn /\ handler' = handler
      BY <1>2, <2>2 DEF deliver_packet_out, Stray
    <3>2. QED
      BY <1>4, <2>1, <2>2, <3>1, UnmovedOK
  <2>3. CASE bridge = "running" /\ r \in table
    <3>1. ChipRst(r, s) \/ SynAcked(r, s) \/ TimeWait(r, s) \/ Collects(r, s)
      BY <1>2, <2>3 DEF deliver_packet_out
    <3>2. CASE ChipRst(r, s)
      <4> DEFINE x == [conn[r] EXCEPT !.reset = TRUE, !.state = "CLOSED",
                                      !.established = TRUE, !.finished = TRUE]
      <4>1. x.rx = conn[r].rx /\ x.chip_seq = conn[r].chip_seq
            /\ x.state = "CLOSED"
        BY <2>1 DEF ConnType
      <4>2. conn' = [conn EXCEPT ![r] = x] /\ handler' = handler
        BY <3>2 DEF ChipRst
      <4> HIDE DEF x
      <4>3. conn'[r] = x
        BY <1>3, <4>2, TypesAre
      <4>4. QED
        BY <1>4, <2>1, <4>1, <4>2, <4>3, ClosedOK
    <3>3. CASE SynAcked(r, s)
      BY <1>4, <2>1, <2>3, <3>3, SynAckedOK
    <3>4. CASE TimeWait(r, s)
      <4>1. conn' = conn /\ handler' = handler /\ conn[r].state = "CLOSED"
        BY <3>4 DEF TimeWait
      <4>2. QED
        BY <1>4, <2>1, <4>1, UnmovedOK
    <3>5. CASE Collects(r, s)
      BY <1>4, <2>1, <2>3, <3>5, CollectsOK
    <3>6. QED
      BY <3>1, <3>2, <3>3, <3>4, <3>5
  <2>4. QED
    BY <2>2, <2>3
<1>8. QED
  BY <1>6, <1>7

-----------------------------------------------------------------------------
(* The theorems.                                                             *)

(* The invariant holds at the start.                                         *)
LEMMA InvInit == TunnelInit => InboundInv
<1> SUFFICES ASSUME TunnelInit
             PROVE  InboundInv
  OBVIOUS
<1>1. /\ bridge = "running" /\ table = {} /\ handler = Idle
      /\ conn = [r \in Requests |-> NewConn(0)]
      /\ task = [r \in Requests |-> [pc |-> "new", late |-> FALSE,
                                     how |-> None]]
      /\ to_gw = <<>> /\ to_chip = <<>>
      /\ server = [r \in Requests |-> NewServer]
  BY DEF TunnelInit, InboundInit
<1>2. NewConn(0) \in ConnType /\ NewConn(0).state = "SYN_SENT"
      /\ NewConn(0).rx = <<>> /\ ~NewConn(0).reset /\ ~NewConn(0).finished
  BY NewConnTyped, SeqNumsAreInts
<1>3. NewServer \in ServerType
  <2>1. 0 \in SeqNums /\ 0 \in Nat /\ <<>> \in Seq(Nat)
        /\ {} \in SUBSET PartType
    BY SeqNumsAreInts
  <2>2. QED
    BY <2>1 DEF NewServer, ServerType
<1>4. Len(<<>>) = 0 /\ DOMAIN <<>> = {}
  OBVIOUS
<1>5. ServerOK(NewServer)
  BY <1>4 DEF NewServer, ServerOK
<1>6. InTypes
  <2>1. to_gw \in Seq([req : Requests, seg : SegType])
        /\ to_chip \in Seq(FrameType)
    BY <1>1
  <2>2. task \in [Requests -> TaskType]
    BY <1>1 DEF TaskType
  <2>3. conn \in [Requests -> ConnType] /\ server \in [Requests -> ServerType]
    BY <1>1, <1>2, <1>3
  <2>4. handler \in HandlerType /\ (handler.pc = "idle" <=> handler.req = None)
    BY <1>1, IdleTyped
  <2>5. QED
    BY <1>1, <2>1, <2>2, <2>3, <2>4 DEF InTypes
<1>7. ASSUME NEW r \in Requests
      PROVE  RespOK(r)
  <2>1. conn[r] = NewConn(0) /\ server[r] = NewServer /\ handler.req # r
        /\ ~FinTaken(r)
    BY <1>1, InboundAssumption DEF Idle, FinTaken, FinCounted
  <2>2. NewServer.st = "listen" /\ ~NewServer.fin
    BY DEF NewServer
  <2>3. SegsOK(to_gw, r, server[r])
    BY <1>1, <1>4 DEF SegsOK, PartsOf
  <2>4. Len(conn[r].rx) = 0 /\ 1 .. Len(conn[r].rx) = {}
    BY <1>2, <1>4, <2>1
  <2>5. ConnOK(r)
    BY <1>2, <2>1, <2>2, <2>4 DEF ConnOK
  <2>6. UnopenedOK(r)
    BY <1>1, <1>4, <2>1, <2>2 DEF UnopenedOK
  <2>7. OrderOK(r)
    BY <1>1 DEF OrderOK
  <2>8. QED
    BY <1>5, <2>1, <2>3, <2>5, <2>6, <2>7 DEF RespOK
<1>8. QED
  BY <1>6, <1>7 DEF InboundInv

(* Every step keeps it.                                                      *)
LEMMA InvStep == InboundInv /\ [TunnelNext]_tunnelVars => InboundInv'
<1> SUFFICES ASSUME InboundInv, [TunnelNext]_tunnelVars
             PROVE  InboundInv'
  OBVIOUS
<1>1. InTypes /\ \A r \in Requests : RespOK(r)
  BY DEF InboundInv
<1>2. InTypes'
  BY <1>1, TypesStep DEF RespOK
<1>3. \A d \in Requests : RespOK(d)'
  <2>1. CASE UNCHANGED tunnelVars
    <3>1. /\ UNCHANGED <<bridge, table, conn, task, handler>>
          /\ UNCHANGED <<to_gw, to_chip, server>>
      BY <2>1 DEF tunnelVars, inVars, chipVars
    <3> SUFFICES ASSUME NEW d \in Requests
                 PROVE  RespOK(d)'
      OBVIOUS
    <3>2. ConnOK(d)' /\ UnopenedOK(d)'
      <4>1. ConnOK(d)'
        BY <1>1, <3>1, ConnKeeps DEF RespOK
      <4>2. UnopenedOK(d)'
        BY <1>1, <3>1 DEF RespOK, UnopenedOK, NewConn
      <4>3. QED
        BY <4>1, <4>2
    <3>3. Taken(d)' = Taken(d)
      BY <3>1 DEF Taken, FinTaken, FinCounted
    <3>4. QED
      BY <1>1, <3>1, <3>2, <3>3 DEF RespOK, OrderOK
  <2>2. CASE TunnelNext
    <3>1. CASE \E r \in Requests : \/ ServerSends(r) \/ ServerFinishes(r)
                                   \/ ServerRetransmits(r) \/ ServerAborts(r)
      BY <1>1, <3>1, ServerActs, ServerKeeps
    <3>2. CASE ServerReceives
      BY <1>1, <3>2, ServerTakes, ServerKeeps
    <3>3. CASE GwReceives
      BY <1>1, <1>2, <3>3, GwKeeps
    <3>4. CASE Emits(HandlerRuns)
      BY <1>1, <3>4, HandlerKeeps
    <3>5. CASE \E r \in Requests : Emits(http_into_chip(r) \/ Opens(r))
      BY <1>1, <3>5, OpensKeeps
    <3>6. CASE \E r \in Requests :
                 Emits(\/ SynTimesOut(r) \/ Fails(r) \/ SendsRequest(r)
                       \/ RequestSent(r) \/ Wakes(r) \/ Polls(r)
                       \/ DeadlinePasses(r) \/ Forgets(r))
      <4>1. PICK r \in Requests :
              Emits(\/ SynTimesOut(r) \/ Fails(r) \/ SendsRequest(r)
                    \/ RequestSent(r) \/ Wakes(r) \/ Polls(r)
                    \/ DeadlinePasses(r) \/ Forgets(r))
        BY <3>6
      <4>2. Emits(Runs(r))
        BY <1>1, <4>1, TaskRunsOn DEF Emits
      <4>3. QED
        BY <1>1, <4>2, RunsKeeps
    <3>7. CASE Emits(stop \/ shutdown)
      BY <1>1, <3>7, StopKeeps
    <3>8. QED
      BY <2>2, <3>1, <3>2, <3>3, <3>4, <3>5, <3>6, <3>7, StepsAre
  <2>3. QED
    BY <2>1, <2>2
<1>4. QED
  BY <1>2, <1>3 DEF InboundInv

(* What the server has sent, what is under way and what has been collected   *)
(* fit together in every state, whatever the requests, the responses, the    *)
(* cuts into segments and the faults (tcp_inbound.py:105-230).               *)
THEOREM InboundInvariance == TunnelSpec => []InboundInv
BY InvInit, InvStep, PTL DEF TunnelSpec

-----------------------------------------------------------------------------
(* No wakeup is lost.                                                        *)

(* r, if it waits with a complete response, has been or will be told.        *)
ToldOf(r) ==
    task[r].pc = "wait" /\ http_response_complete(conn[r].rx) =>
        \/ conn[r].data_event
        \/ handler.pc = "data_acked" /\ handler.req = r

(* What leaves the response, data_event and the handler is no matter.        *)
LEMMA ToldKept ==
  ASSUME NEW r, ToldOf(r), task'[r].pc = "wait" => task[r].pc = "wait",
         conn'[r].rx = conn[r].rx, conn'[r].data_event = conn[r].data_event,
         handler.pc = "data_acked" /\ handler.req = r => handler' = handler
  PROVE  ToldOf(r)'
<1>1. http_response_complete(conn[r].rx)' <=> http_response_complete(conn[r].rx)
  BY DEF http_response_complete, http_headers_complete, Find, Min
<1>2. QED
  BY <1>1 DEF ToldOf

(* Neither is a step of another request.                                     *)
LEMMA ToldApart ==
  ASSUME NEW r, ToldOf(r), conn'[r] = conn[r], task'[r] = task[r],
         handler.pc = "data_acked" /\ handler.req = r => handler' = handler
  PROVE  ToldOf(r)'
BY ToldKept

(* The task of d goes to wait only with a response that is not complete.     *)
LEMMA TaskTells ==
  ASSUME InTypes, NEW r \in Requests, ToldOf(r),
         \/ SynTimesOut(r) \/ Fails(r) \/ SendsRequest(r) \/ RequestSent(r)
         \/ Wakes(r) \/ Polls(r) \/ DeadlinePasses(r) \/ Forgets(r)
  PROVE  ToldOf(r)'
<1>0. conn[r] \in ConnType /\ task[r] \in TaskType
  BY TypesAre
<1>1. ASSUME task'[r].pc # "wait"
      PROVE  ToldOf(r)'
  BY <1>1 DEF ToldOf
<1>2. ASSUME NEW c, NEW how, Returns(r, c, how)
      PROVE  ToldOf(r)'
  <2>1. task'[r].pc = "over"
    BY <1>0, <1>2, TypesAre DEF Returns, TaskType
  <2>2. QED
    BY <1>1, <2>1
<1>3. ASSUME NEW pc \in {"sending", "gone"}, GoesTo(r, pc)
      PROVE  ToldOf(r)'
  <2>1. task'[r].pc = pc
    BY <1>3, GoesToTyped
  <2>2. QED
    BY <1>1, <2>1
<1>4. ASSUME NEW c \in ConnType, Round(r, c)
      PROVE  ToldOf(r)'
  <2>1. CASE \E how : Returns(r, c, how)
    BY <1>2, <2>1
  <2>2. CASE /\ ~http_response_complete(c.rx)
             /\ conn' = [conn EXCEPT ![r] = [c EXCEPT !.data_event = FALSE]]
    <3> DEFINE x == [c EXCEPT !.data_event = FALSE]
    <3>1. x.rx = c.rx
      BY <1>4 DEF ConnType
    <3>2. conn' = [conn EXCEPT ![r] = x]
      BY <2>2
    <3> HIDE DEF x
    <3>3. conn'[r].rx = c.rx
      BY <3>1, <3>2, TypesAre
    <3>4. ~http_response_complete(conn'[r].rx)
      BY <2>2, <3>3
    <3>5. QED
      BY <3>4 DEF ToldOf
  <2>3. QED
    BY <1>4, <2>1, <2>2 DEF Round
<1>5. CASE RequestSent(r)
  <2> DEFINE n == seq_add(conn[r].our_seq, RequestLen)
             c == [conn[r] EXCEPT !.our_seq = n]
  <2>1. n \in SeqNums
    BY <1>0, ConnNumbers, SeqAddTyped, InboundAssumption
  <2> HIDE DEF n
  <2>2. c \in ConnType
    BY <1>0, <2>1 DEF ConnType
  <2>3. Round(r, c)
    BY <1>5 DEF RequestSent, n
  <2> HIDE DEF c
  <2>4. QED
    BY <1>4, <2>2, <2>3
<1>6. CASE DeadlinePasses(r)
  <2> DEFINE t == [task[r] EXCEPT !.late = TRUE]
  <2>1. t.pc = task[r].pc /\ task' = [task EXCEPT ![r] = t]
        /\ conn' = conn /\ handler' = handler
    BY <1>0, <1>6 DEF DeadlinePasses, TaskType
  <2> HIDE DEF t
  <2>2. task'[r].pc = task[r].pc
    BY <2>1, TypesAre
  <2>3. QED
    BY <2>1, <2>2, ToldKept
<1>7. CASE SynTimesOut(r) \/ Fails(r)
  BY <1>2, <1>7 DEF SynTimesOut, Fails
<1>8. CASE SendsRequest(r) \/ Forgets(r)
  BY <1>3, <1>8 DEF SendsRequest, Forgets
<1>9. CASE Wakes(r) \/ Polls(r)
  BY <1>0, <1>2, <1>4, <1>9 DEF Wakes, Polls
<1>10. QED
  BY <1>5, <1>6, <1>7, <1>8, <1>9

(* The handler sets data_event whenever it has collected something.          *)
LEMMA HandlerTells ==
  ASSUME InTypes, NEW d \in Requests, ToldOf(d), HandlerRuns
  PROVE  ToldOf(d)'
<1>1. PICK r : r = handler.req
  OBVIOUS
<1>2. task' = task /\ handler.pc # "idle"
  BY DEF HandlerRuns, Established, DataAcked, FinAcked, FinSent, HandlerAt
<1>3. r \in Requests /\ conn[r] \in ConnType
  BY <1>1, <1>2, HandlerHas, TypesAre
<1>4. CASE DataAcked /\ d = r
  <2>1. conn'[r].data_event = TRUE
    <3> DEFINE c == [conn[r] EXCEPT !.data_event = Told]
               n == seq_add(c.chip_seq, FinSpan)
               x == [c EXCEPT !.chip_seq = n]
    <3>1. c \in ConnType /\ c.data_event = TRUE
      BY <1>3 DEF ConnType, Told
    <3>2. conn' = [conn EXCEPT ![r] = x] \/ conn' = [conn EXCEPT ![r] = c]
      BY <1>1, <1>4 DEF DataAcked
    <3> HIDE DEF c, n
    <3>3. x.data_event = TRUE
      BY <3>1 DEF ConnType
    <3> HIDE DEF x
    <3>4. QED
      BY <1>3, <3>1, <3>2, <3>3, TypesAre
  <2>2. QED
    BY <1>4, <2>1 DEF ToldOf
<1>5. CASE d # r
  <2>1. conn'[d] = conn[d]
    BY <1>1, <1>5, TypesAre
       DEF HandlerRuns, Established, DataAcked, FinAcked, FinSent
  <2>2. QED
    BY <1>1, <1>2, <1>5, <2>1, ToldApart
<1>6. CASE ~DataAcked /\ d = r
  <2>1. handler.pc # "data_acked"
    BY <1>6 DEF HandlerRuns, Established, FinAcked, FinSent, HandlerAt
  <2>2. conn'[r].rx = conn[r].rx /\ conn'[r].data_event = conn[r].data_event
    <3>1. CASE Established
      <4> DEFINE c == [conn[r] EXCEPT !.established = TRUE]
      <4>1. c.rx = conn[r].rx /\ c.data_event = conn[r].data_event
        BY <1>3 DEF ConnType
      <4>2. conn' = [conn EXCEPT ![r] = c]
        BY <1>1, <3>1 DEF Established
      <4> HIDE DEF c
      <4>3. QED
        BY <1>3, <4>1, <4>2, TypesAre
    <3>2. CASE FinSent
      <4> DEFINE n == seq_add(conn[r].our_seq, 1)
                 c == [conn[r] EXCEPT !.our_seq = n, !.state = "CLOSED",
                                      !.finished = TRUE]
      <4>1. conn' = [conn EXCEPT ![r] = c]
        BY <1>1, <3>2 DEF FinSent
      <4> HIDE DEF n
      <4>2. c.rx = conn[r].rx /\ c.data_event = conn[r].data_event
        BY <1>3 DEF ConnType
      <4> HIDE DEF c
      <4>3. QED
        BY <1>3, <4>1, <4>2, TypesAre
    <3>3. CASE FinAcked
      BY <3>3 DEF FinAcked
    <3>4. QED
      BY <1>6, <3>1, <3>2, <3>3 DEF HandlerRuns
  <2>3. QED
    BY <1>1, <1>2, <1>6, <2>1, <2>2, ToldKept
<1>7. QED
  BY <1>4, <1>5, <1>6

(* What is collected is on its way to data_event.                            *)
LEMMA DeliveryTells ==
  ASSUME InTypes, InTypes', NEW d \in Requests, ToldOf(d), GwReceives
  PROVE  ToldOf(d)'
<1>1. PICK e, r : e = Head(to_gw) /\ r = e.req
  OBVIOUS
<1>2. to_gw # <<>> /\ deliver_packet_out(r, e.seg)
  BY <1>1 DEF GwReceives
<1>3. r \in Requests /\ conn[r] \in ConnType
  BY <1>1, <1>2, PartsTail, TypesAre DEF Queued
<1>4. task' = task /\ handler.pc = "idle"
  BY <1>2 DEF deliver_packet_out, HandlerAt
<1>5. \A c \in Requests \ {r} : conn'[c] = conn[c]
  BY <1>1, <1>2, DeliverEmits
<1>6. CASE d # r
  BY <1>4, <1>5, <1>6, ToldApart
<1>7. CASE d = r
  <2> DEFINE s == e.seg
  <2>1. ASSUME NEW x, conn' = [conn EXCEPT ![r] = x],
               x.rx = conn[r].rx, x.data_event = conn[r].data_event
        PROVE  ToldOf(d)'
    <3>1. conn'[r] = x
      BY <1>3, <2>1, TypesAre
    <3>2. QED
      BY <1>4, <1>7, <2>1, <3>1, ToldKept
  <2>2. ASSUME conn' = conn
        PROVE  ToldOf(d)'
    BY <1>4, <2>2, ToldKept
  <2>3. CASE ChipRst(r, s)
    <3> DEFINE x == [conn[r] EXCEPT !.reset = TRUE, !.state = "CLOSED",
                                    !.established = TRUE, !.finished = TRUE]
    <3>1. x.rx = conn[r].rx /\ x.data_event = conn[r].data_event
      BY <1>3 DEF ConnType
    <3>2. conn' = [conn EXCEPT ![r] = x]
      BY <2>3 DEF ChipRst
    <3> HIDE DEF x
    <3>3. QED
      BY <2>1, <3>1, <3>2
  <2>4. CASE SynAcked(r, s)
    <3> DEFINE n == seq_add(s.seq, 1)
               x == [conn[r] EXCEPT !.chip_seq = n, !.state = "ESTABLISHED"]
    <3>1. conn' = conn \/ conn' = [conn EXCEPT ![r] = x]
      BY <2>4 DEF SynAcked
    <3> HIDE DEF n
    <3>2. x.rx = conn[r].rx /\ x.data_event = conn[r].data_event
      BY <1>3 DEF ConnType
    <3> HIDE DEF x
    <3>3. QED
      BY <2>1, <2>2, <3>1, <3>2
  <2>5. CASE Collects(r, s)
    <3>1. CASE s.data # <<>> /\ InOrder(r, s)
      <4>1. HandlerGoesTo("data_acked", r, s)
        BY <2>5, <3>1 DEF Collects
      <4>2. handler'.pc = "data_acked" /\ handler'.req = r
        BY <4>1 DEF HandlerGoesTo
      <4>3. QED
        BY <1>7, <4>2 DEF ToldOf
    <3>2. CASE AcksFin(r, s)
      <4> DEFINE n == seq_add(conn[r].chip_seq, FinSpan)
                 x == [conn[r] EXCEPT !.chip_seq = n]
      <4>1. conn' = [conn EXCEPT ![r] = x]
        BY <3>2 DEF AcksFin
      <4> HIDE DEF n
      <4>2. x.rx = conn[r].rx /\ x.data_event = conn[r].data_event
        BY <1>3 DEF ConnType
      <4> HIDE DEF x
      <4>3. QED
        BY <2>1, <4>1, <4>2
    <3>3. CASE conn' = conn
      BY <2>2, <3>3
    <3>4. QED
      BY <2>5, <3>1, <3>2, <3>3 DEF Collects
  <2>6. QED
    BY <1>2, <2>2, <2>3, <2>4, <2>5 DEF deliver_packet_out, TimeWait, Stray
<1>8. QED
  BY <1>6, <1>7

(* No wakeup is lost, whoever runs when (tcp_inbound.py:143-144, 191-200).   *)
THEOREM CompleteIsToldTheorem == TunnelSpec => []CompleteIsTold
<1>1. TunnelInit => CompleteIsTold
  BY DEF TunnelInit, InboundInit, CompleteIsTold
<1>2. InboundInv /\ CompleteIsTold /\ [TunnelNext]_tunnelVars
        /\ InboundInv' => CompleteIsTold'
  <2> SUFFICES ASSUME InboundInv, CompleteIsTold, [TunnelNext]_tunnelVars,
                      InboundInv', NEW d \in Requests
               PROVE  ToldOf(d)'
    BY DEF CompleteIsTold, ToldOf
  <2>1. InTypes /\ InTypes' /\ ToldOf(d) /\ RespOK(d)
    BY DEF InboundInv, CompleteIsTold, ToldOf
  <2>2. CASE UNCHANGED inVars
    BY <2>1, <2>2, ToldApart DEF inVars
  <2>3. CASE TunnelNext
    <3>1. CASE \E r \in Requests : \/ ServerSends(r) \/ ServerFinishes(r)
                                   \/ ServerRetransmits(r) \/ ServerAborts(r)
      BY <2>2, <3>1
         DEF ServerSends, ServerFinishes, ServerRetransmits, ServerAborts
    <3>2. CASE ServerReceives
      BY <2>2, <3>2 DEF ServerReceives
    <3>3. CASE GwReceives
      BY <2>1, <3>3, DeliveryTells
    <3>4. CASE Emits(HandlerRuns)
      BY <2>1, <3>4, HandlerTells DEF Emits
    <3>5. CASE \E r \in Requests : Emits(http_into_chip(r) \/ Opens(r))
      <4>1. PICK r \in Requests : http_into_chip(r) \/ Opens(r)
        BY <3>5 DEF Emits
      <4>2. handler' = handler /\ (d # r => conn'[d] = conn[d])
            /\ \E pc \in {"arp", "gone", "await"} : GoesTo(r, pc)
        <5>1. CASE http_into_chip(r)
          <6>1. GoesTo(r, "arp") \/ GoesTo(r, "gone")
            BY <5>1 DEF http_into_chip
          <6>2. handler' = handler /\ conn' = conn
            BY <5>1 DEF http_into_chip
          <6>3. QED
            BY <6>1, <6>2
        <5>2. CASE Opens(r)
          <6>1. PICK isn \in ISNs : conn' = [conn EXCEPT ![r] = NewConn(isn)]
            BY <5>2 DEF Opens
          <6>2. d # r => conn'[d] = conn[d]
            BY <2>1, <6>1, TypesAre
          <6>3. handler' = handler /\ GoesTo(r, "await")
            BY <5>2 DEF Opens
          <6>4. QED
            BY <6>2, <6>3
        <5>3. QED
          BY <4>1, <5>1, <5>2
      <4>3. task'[r].pc # "wait" /\ (d # r => task'[d] = task[d])
        BY <2>1, <4>2, GoesToTyped
      <4>4. CASE d = r
        BY <4>3, <4>4 DEF ToldOf
      <4>5. CASE d # r
        BY <2>1, <4>2, <4>3, <4>5, ToldApart
      <4>6. QED
        BY <4>4, <4>5
    <3>6. CASE \E r \in Requests :
                 Emits(\/ SynTimesOut(r) \/ Fails(r) \/ SendsRequest(r)
                       \/ RequestSent(r) \/ Wakes(r) \/ Polls(r)
                       \/ DeadlinePasses(r) \/ Forgets(r))
      <4>1. PICK r \in Requests :
              \/ SynTimesOut(r) \/ Fails(r) \/ SendsRequest(r)
              \/ RequestSent(r) \/ Wakes(r) \/ Polls(r)
              \/ DeadlinePasses(r) \/ Forgets(r)
        BY <3>6 DEF Emits
      <4>2. CASE d = r
        BY <2>1, <4>1, <4>2, TaskTells
      <4>3. CASE d # r
        <5>1. Runs(r)
          BY <2>1, <4>1, TaskRunsOn
        <5>2. conn'[d] = conn[d] /\ task'[d] = task[d] /\ handler' = handler
          BY <4>3, <5>1 DEF Runs
        <5>3. QED
          BY <2>1, <5>2, ToldApart
      <4>4. QED
        BY <4>2, <4>3
    <3>7. CASE Emits(stop \/ shutdown)
      <4>1. CASE stop
        BY <2>1, <4>1, ToldApart DEF stop
      <4>2. CASE shutdown
        <5> DEFINE x == [conn[d] EXCEPT !.reset = TRUE, !.finished = TRUE,
                                        !.established = TRUE]
        <5>1. x.rx = conn[d].rx /\ x.data_event = conn[d].data_event
          BY <2>1, TypesAre DEF ConnType
        <5>2. conn'[d] = x \/ conn'[d] = conn[d]
          BY <4>2 DEF shutdown
        <5> HIDE DEF x
        <5>3. task' = task /\ handler' = handler
          BY <4>2 DEF shutdown
        <5>4. QED
          BY <2>1, <5>1, <5>2, <5>3, ToldKept
      <4>3. QED
        BY <3>7, <4>1, <4>2 DEF Emits
    <3>8. QED
      BY <2>3, <3>1, <3>2, <3>3, <3>4, <3>5, <3>6, <3>7, StepsAre
  <2>4. QED
    BY <2>2, <2>3 DEF tunnelVars
<1>3. QED
  BY <1>1, <1>2, InboundInvariance, PTL DEF TunnelSpec

-----------------------------------------------------------------------------
(* A response is a stream.                                                   *)

(* What the server's end v has sent of its response, and how much that is.   *)
BytesOf(v) == SubSeq(v.response, 1, v.next - 1 - One(v.fin))

LEMMA BytesAre ==
  ASSUME NEW v \in ServerType, ServerOK(v)
  PROVE  /\ BytesOf(v) \in Seq(Nat) /\ Len(BytesOf(v)) \in Nat /\ v.next \in Nat
         /\ v.next >= 1 /\ ~v.fin => Len(BytesOf(v)) = v.next - 1
         /\ v.fin => Len(BytesOf(v)) = v.next - 2 /\ v.next >= 2
         /\ v.next = 0 => Len(BytesOf(v)) = 0
         /\ \A i \in 1 .. Len(BytesOf(v)) : BytesOf(v)[i] = v.response[i]
<1> DEFINE k == v.next - 1 - One(v.fin)
           x == v.response
           b == v.next
<1>1. x \in Seq(Nat) /\ b \in Nat /\ Len(x) \in Nat
  BY DEF ServerType
<1>2. /\ v.fin => k = b - 1 - 1
      /\ ~v.fin => k = b - 1 - 0
  BY DEF One
<1>3. /\ v.fin => b <= Len(x) + 2 /\ b >= 2
      /\ ~v.fin => b <= Len(x) + 1
  BY DEF ServerOK
<1>4. BytesOf(v) = SubSeq(x, 1, k)
  BY DEF BytesOf
<1> DEFINE f == v.fin
<1>5. (f /\ k = b - 1 - 1 /\ b <= Len(x) + 2 /\ b >= 2)
        \/ (~f /\ k = b - 1 - 0 /\ b <= Len(x) + 1)
  BY <1>2, <1>3
<1> HIDE DEF k, x, b, f
<1>6. /\ k \in Int /\ k <= Len(x) /\ (f => k = b - 2 /\ b >= 2)
      /\ b >= 1 /\ ~f => k = b - 1
      /\ b = 0 => k = -1
  BY <1>1, <1>5
<1>7. /\ SubSeq(x, 1, k) \in Seq(Nat)
      /\ Len(SubSeq(x, 1, k)) = IF k >= 0 THEN k ELSE 0
      /\ \A i \in 1 .. k : SubSeq(x, 1, k)[i] = x[i]
  <2>1. \A i \in 1 .. k : i \in 1 .. Len(x)
    BY <1>1, <1>6
  <2>2. SubSeq(x, 1, k) \in Seq(Nat)
    BY <1>1, <1>6, <2>1
  <2>3. Len(SubSeq(x, 1, k)) = IF k >= 0 THEN k ELSE 0
    BY <1>1, <1>6, <2>1
  <2>4. \A i \in 1 .. k : SubSeq(x, 1, k)[i] = x[i]
    BY <1>1, <1>6, <2>1
  <2>5. QED
    BY <2>2, <2>3, <2>4
<1> DEFINE y == SubSeq(x, 1, k)
           l == Len(y)
<1>8. /\ y \in Seq(Nat) /\ (l = IF k >= 0 THEN k ELSE 0)
      /\ \A i \in 1 .. k : y[i] = x[i]
  BY <1>7
<1> HIDE DEF y, l
<1>9. /\ l \in Nat /\ (b >= 1 /\ ~f => l = b - 1)
      /\ f => l = b - 2 /\ b >= 2
      /\ b = 0 => l = 0
      /\ \A i \in 1 .. l : i \in 1 .. k
  BY <1>1, <1>6, <1>8
<1>10. BytesOf(v) = y /\ l = Len(y)
  BY <1>4 DEF y, l
<1>11. \A i \in 1 .. l : y[i] = x[i]
  BY <1>8, <1>9
<1>12. QED
  BY <1>1, <1>8, <1>9, <1>10, <1>11 DEF x, b, f

(* A prefix agrees at every position it has.                                 *)
LEMMA PrefixIs ==
  ASSUME NEW x \in Seq(Nat), NEW y \in Seq(Nat), Len(x) <= Len(y),
         \A i \in 1 .. Len(x) : x[i] = y[i]
  PROVE  Response!IsPrefix(x, y)
<1>1. SubSeq(x, 1, Len(x)) = [i \in 1 .. Len(x) |-> x[i]]
      /\ SubSeq(y, 1, Len(x)) = [i \in 1 .. Len(x) |-> y[i]]
  OBVIOUS
<1>2. QED
  BY <1>1 DEF Response!IsPrefix

(* Sequences that agree at every position are the same.                      *)
LEMMA SameSequence ==
  ASSUME NEW x \in Seq(Nat), NEW y \in Seq(Nat), Len(x) = Len(y),
         \A i \in 1 .. Len(x) : x[i] = y[i]
  PROVE  x = y
BY SMTT(30)

(* The end of a stream as the request sees it.                               *)
EndOf(c) == IF c.reset THEN "broken" ELSE IF c.finished THEN "ended" ELSE "open"

(* The steps of a stream, of this system.                                    *)
StaysS(r) ==
    /\ BytesOf(server'[r]) = BytesOf(server[r])
    /\ server'[r].fin = server[r].fin

GotSame(r) ==
    conn'[r].rx = conn[r].rx /\ EndOf(conn'[r]) = EndOf(conn[r])

SendsS(r) ==
    /\ ~server[r].fin /\ GotSame(r) /\ server'[r].fin \in BOOLEAN
    /\ BytesOf(server'[r]) \in Seq(Nat)
    /\ Response!IsPrefix(BytesOf(server[r]), BytesOf(server'[r]))

DeliversS(r) ==
    /\ EndOf(conn[r]) = "open" /\ conn'[r].rx \in Seq(Nat) /\ StaysS(r)
    /\ Response!IsPrefix(conn[r].rx, conn'[r].rx)
    /\ Response!IsPrefix(conn'[r].rx, BytesOf(server[r]))
    /\ \/ EndOf(conn'[r]) = "open"
       \/ /\ EndOf(conn'[r]) = "ended" /\ server[r].fin
          /\ conn'[r].rx = BytesOf(server[r])

BreaksS(r) ==
    EndOf(conn'[r]) = "broken" /\ conn'[r].rx = conn[r].rx /\ StaysS(r)

RestsS(r) == GotSame(r) /\ StaysS(r)

StreamS(r) == RestsS(r) \/ SendsS(r) \/ DeliversS(r) \/ BreaksS(r)

(* They are those of ByteStream.                                             *)
LEMMA StreamSteps ==
  ASSUME \A r \in Requests : StreamS(r)
  PROVE  Response!Next
<1> SUFFICES ASSUME NEW r \in Requests
             PROVE  Response!Rests(r) \/ Response!Sends(r)
                    \/ Response!Delivers(r) \/ Response!Breaks(r)
  BY DEF Response!Next
<1>1. CASE RestsS(r)
  BY <1>1 DEF RestsS, GotSame, StaysS, EndOf, BytesOf, SentBytes,
     Response!Rests, Response!Stays
<1>2. CASE SendsS(r)
  BY <1>2 DEF SendsS, GotSame, EndOf, BytesOf, SentBytes, Response!Sends
<1>3. CASE DeliversS(r)
  BY <1>3 DEF DeliversS, StaysS, EndOf, BytesOf, SentBytes,
     Response!Delivers, Response!Stays
<1>4. CASE BreaksS(r)
  BY <1>4 DEF BreaksS, StaysS, EndOf, BytesOf, SentBytes, Response!Breaks,
     Response!Stays
<1>5. QED
  BY <1>1, <1>2, <1>3, <1>4 DEF StreamS

(* Steps of the server: it sends, or the stream rests.                       *)
LEMMA ServerStreams ==
  ASSUME InTypes, \A d \in Requests : RespOK(d), NEW r \in Requests, NEW w,
         ServerStep(r, w)
  PROVE  \A d \in Requests : StreamS(d)
<1> DEFINE v == server[r]
<1>1. /\ v \in ServerType /\ w \in ServerType /\ ServerOK(v) /\ ServerOK(w)
      /\ Grows(v, w) /\ conn' = conn
  BY TypesAre DEF RespOK, ServerStep, inVars
<1>2. server'[r] = w /\ \A d \in Requests \ {r} : server'[d] = server[d]
  BY TypesAre DEF ServerStep
<1>3. \A d \in Requests : GotSame(d)
  BY <1>1 DEF GotSame
<1>4. ASSUME NEW d \in Requests \ {r}
      PROVE  StreamS(d)
  <2>1. StaysS(d)
    BY <1>2 DEF StaysS
  <2>2. QED
    BY <1>3, <2>1 DEF RestsS, StreamS
<1>5. /\ v.next \in Nat /\ w.next \in Nat /\ v.fin \in BOOLEAN
      /\ w.fin \in BOOLEAN /\ v.next <= w.next
      /\ v.fin => w.fin /\ w.next = v.next
      /\ w.fin /\ ~v.fin => v.next < w.next
  BY <1>1 DEF ServerType, Grows
<1> DEFINE x == BytesOf(v)
           y == BytesOf(w)
<1>6. /\ x \in Seq(Nat) /\ Len(x) \in Nat
      /\ v.next >= 1 /\ ~v.fin => Len(x) = v.next - 1
      /\ v.next = 0 => Len(x) = 0
      /\ \A i \in 1 .. Len(x) : x[i] = v.response[i]
  BY <1>1, BytesAre
<1>7. /\ y \in Seq(Nat) /\ Len(y) \in Nat
      /\ w.next >= 1 /\ ~w.fin => Len(y) = w.next - 1
      /\ w.fin => Len(y) = w.next - 2 /\ w.next >= 2
      /\ w.next = 0 => Len(y) = 0
      /\ \A i \in 1 .. Len(y) : y[i] = w.response[i]
  BY <1>1, BytesAre
<1>8. w.response = v.response \/ (Len(x) = 0 /\ v.next <= 1 /\ ~v.fin)
  <2>1. CASE v.heard
    BY <1>1, <2>1 DEF Grows
  <2>2. CASE ~v.heard
    <3>1. v.next <= 1 /\ ~v.fin
      BY <1>1, <2>2 DEF ServerOK
    <3>2. Len(x) = 0
      BY <1>5, <1>6, <3>1
    <3>3. QED
      BY <3>1, <3>2
  <2>3. QED
    BY <2>1, <2>2
<1>9. StreamS(r)
  <2>1. CASE w.next = v.next
    <3>1. w.fin = v.fin
      BY <1>5, <2>1
    <3>2. y = x
      <4>1. CASE w.response = v.response
        BY <2>1, <3>1, <4>1 DEF BytesOf
      <4>2. CASE Len(x) = 0 /\ v.next <= 1 /\ ~v.fin
        <5>1. Len(y) = 0
          BY <1>5, <1>7, <2>1, <3>1, <4>2
        <5> HIDE DEF x, y
        <5>2. QED
          BY <1>6, <1>7, <4>2, <5>1, SameSequence
      <4>3. QED
        BY <1>8, <4>1, <4>2
    <3>3. StaysS(r)
      BY <1>2, <3>1, <3>2 DEF StaysS
    <3>4. QED
      BY <1>3, <3>3 DEF RestsS, StreamS
  <2>2. CASE w.next # v.next
    <3>1. v.next < w.next /\ ~v.fin
      BY <1>5, <2>2
    <3>2. Len(x) <= Len(y)
      <4> DEFINE f == w.fin
                 k == Len(x)
                 m == Len(y)
                 a == v.next
                 b == w.next
      <4>1. /\ a \in Nat /\ b \in Nat /\ k \in Nat /\ m \in Nat /\ a < b
            /\ (a >= 1 /\ k = a - 1) \/ (a = 0 /\ k = 0)
            /\ (f /\ m = b - 2 /\ b >= 2) \/ (~f /\ m = b - 1)
        BY <1>5, <1>6, <1>7, <3>1, SMTT(30)
      <4> HIDE DEF f, k, m, a, b
      <4>2. k <= m
        BY <4>1
      <4>3. QED
        BY <4>2 DEF k, m
    <3>3. \A i \in 1 .. Len(x) : x[i] = y[i]
      <4>1. \A i \in 1 .. Len(x) : i \in 1 .. Len(y)
        BY <1>6, <1>7, <3>2
      <4>2. CASE w.response = v.response
        BY <1>6, <1>7, <4>1, <4>2
      <4>3. CASE Len(x) = 0
        BY <4>3
      <4>4. QED
        BY <1>8, <4>2, <4>3
    <3> HIDE DEF x, y
    <3>4. Response!IsPrefix(x, y)
      BY <1>6, <1>7, <3>2, <3>3, PrefixIs
    <3>5. SendsS(r)
      BY <1>2, <1>3, <1>5, <1>7, <3>1, <3>4 DEF SendsS, x, y
    <3>6. QED
      BY <3>5 DEF StreamS
  <2>3. QED
    BY <2>1, <2>2
<1>10. QED
  BY <1>4, <1>9

(* What has been collected is a beginning of what was sent, and with the     *)
(* FIN taken it is all of it.                                                *)
LEMMA CollectedIs ==
  ASSUME NEW v \in ServerType, ServerOK(v), NEW x \in Seq(Nat),
         x = <<>> \/ Len(x) + 1 <= v.next, v.fin => Len(x) + 2 <= v.next,
         \A i \in 1 .. Len(x) : x[i] = v.response[i]
  PROVE  /\ Response!IsPrefix(x, BytesOf(v))
         /\ v.fin /\ Len(x) = v.next - 2 => x = BytesOf(v)
<1> DEFINE y == BytesOf(v)
<1>1. /\ y \in Seq(Nat) /\ Len(y) \in Nat /\ v.next \in Nat
      /\ v.next >= 1 /\ ~v.fin => Len(y) = v.next - 1
      /\ v.fin => Len(y) = v.next - 2 /\ v.next >= 2
      /\ v.next = 0 => Len(y) = 0
      /\ \A i \in 1 .. Len(y) : y[i] = v.response[i]
  BY BytesAre
<1>2. Len(x) \in Nat /\ (x = <<>> => Len(x) = 0)
  OBVIOUS
<1>3. Len(x) <= Len(y)
  <2> DEFINE k == Len(x)
             m == Len(y)
             b == v.next
             f == v.fin
  <2>1. /\ k \in Nat /\ m \in Nat /\ b \in Nat /\ (k = 0 \/ k + 1 <= b)
        /\ (f /\ k + 2 <= b /\ m = b - 2 /\ b >= 2)
           \/ (~f /\ b >= 1 /\ m = b - 1) \/ (b = 0 /\ m = 0)
    BY <1>1, <1>2
  <2> HIDE DEF k, m, b, f
  <2>2. k <= m
    BY <2>1
  <2>3. QED
    BY <2>2 DEF k, m
<1>4. \A i \in 1 .. Len(x) : x[i] = y[i]
  <2>1. \A i \in 1 .. Len(x) : i \in 1 .. Len(y)
    BY <1>1, <1>2, <1>3
  <2>2. QED
    BY <1>1, <2>1
<1> HIDE DEF y
<1>5. Response!IsPrefix(x, y)
  BY <1>1, <1>3, <1>4, PrefixIs
<1>6. v.fin /\ Len(x) = v.next - 2 => x = y
  BY <1>1, <1>4, SameSequence
<1>7. QED
  BY <1>5, <1>6 DEF y

(* A step of the gateway that leaves the server's end, and of this           *)
(* connection what it has collected and whether it is over.                  *)
LEMMA GwRests ==
  ASSUME NEW d, server' = server, conn'[d].rx = conn[d].rx,
         conn'[d].reset = conn[d].reset, conn'[d].finished = conn[d].finished
  PROVE  StreamS(d)
BY DEF StreamS, RestsS, StaysS, GotSame, EndOf

(* One that ends it.                                                         *)
LEMMA GwBreaks ==
  ASSUME NEW d, server' = server, conn'[d].rx = conn[d].rx, conn'[d].reset
  PROVE  StreamS(d)
BY DEF StreamS, BreaksS, StaysS, EndOf

(* The handler, after an await: it may set finished.                         *)
LEMMA HandlerStreams ==
  ASSUME InTypes, \A d \in Requests : RespOK(d), HandlerRuns, server' = server
  PROVE  \A d \in Requests : StreamS(d)
<1>1. PICK r : r = handler.req
  OBVIOUS
<1>2. r \in Requests
  BY <1>1, HandlerHas DEF HandlerRuns, Established, DataAcked, FinAcked,
     FinSent, HandlerAt
<1> DEFINE c == conn[r]
           v == server[r]
<1>3. conn \in [Requests -> ConnType] /\ c \in ConnType /\ v \in ServerType
  BY <1>2, TypesAre
<1>4. CASE FinSent
  <2> DEFINE n == seq_add(c.our_seq, 1)
             x == [c EXCEPT !.our_seq = n, !.state = "CLOSED",
                            !.finished = TRUE]
  <2>1. conn' = [conn EXCEPT ![r] = x]
    BY <1>1, <1>4 DEF FinSent
  <2> HIDE DEF n
  <2>2. x.rx = c.rx /\ x.reset = c.reset /\ x.finished = TRUE
    BY <1>3 DEF ConnType
  <2> HIDE DEF x
  <2>3. conn'[r] = x /\ \A d \in Requests \ {r} : conn'[d] = conn[d]
    BY <1>2, <1>3, <2>1
  <2>4. FinTaken(r)
    BY <1>1, <1>4 DEF FinSent, HandlerAt, FinTaken, FinCounted
  <2>5. ServerOK(v) /\ ConnOK(r) /\ v.fin /\ Len(c.rx) = v.next - 2
    BY <1>2, <2>4 DEF RespOK, ConnOK
  <2>6. /\ c.rx \in Seq(Nat) /\ c.reset \in BOOLEAN /\ c.finished \in BOOLEAN
    BY <1>3 DEF ConnType
  <2>7. c.rx = BytesOf(v)
    BY <1>3, <2>5, <2>6, CollectedIs DEF ConnOK
  <2>8. StreamS(r)
    <3>1. CASE c.reset \/ c.finished
      BY <2>2, <2>3, <3>1 DEF StreamS, RestsS, StaysS, GotSame, EndOf
    <3>2. CASE ~c.reset /\ ~c.finished
      <4>1. EndOf(conn[r]) = "open" /\ EndOf(conn'[r]) = "ended"
        BY <2>2, <2>3, <3>2 DEF EndOf
      <4>2. Response!IsPrefix(c.rx, c.rx)
        BY <2>6, PrefixIs
      <4>3. DeliversS(r)
        BY <2>2, <2>3, <2>5, <2>6, <2>7, <4>1, <4>2 DEF DeliversS, StaysS
      <4>4. QED
        BY <4>3 DEF StreamS
    <3>3. QED
      BY <3>1, <3>2
  <2>9. QED
    BY <2>3, <2>8, GwRests
<1>5. CASE ~FinSent
  <2>1. /\ conn'[r].rx = c.rx /\ conn'[r].reset = c.reset
        /\ conn'[r].finished = c.finished
        /\ \A d \in Requests \ {r} : conn'[d] = conn[d]
    <3>1. CASE Established
      <4> DEFINE x == [c EXCEPT !.established = TRUE]
      <4>1. conn' = [conn EXCEPT ![r] = x]
        BY <1>1, <3>1 DEF Established
      <4>2. x.rx = c.rx /\ x.reset = c.reset /\ x.finished = c.finished
        BY <1>3 DEF ConnType
      <4> HIDE DEF x
      <4>3. conn'[r] = x /\ \A d \in Requests \ {r} : conn'[d] = conn[d]
        BY <1>2, <1>3, <4>1
      <4>4. QED
        BY <4>2, <4>3
    <3>2. CASE DataAcked
      <4> DEFINE n == seq_add(c.chip_seq, FinSpan)
                 x == [c EXCEPT !.data_event = TRUE]
                 y == [x EXCEPT !.chip_seq = n]
      <4>1. conn' = [conn EXCEPT ![r] = x] \/ conn' = [conn EXCEPT ![r] = y]
        <5>1. CASE handler.fin
          BY <1>1, <3>2, <5>1 DEF DataAcked, Told
        <5>2. CASE ~handler.fin
          BY <1>1, <3>2, <5>2 DEF DataAcked, Told
        <5>3. QED
          BY <5>1, <5>2
      <4> HIDE DEF n
      <4>2. /\ x.rx = c.rx /\ x.reset = c.reset /\ x.finished = c.finished
            /\ y.rx = c.rx /\ y.reset = c.reset /\ y.finished = c.finished
        BY <1>3 DEF ConnType
      <4> HIDE DEF x, y
      <4>3. /\ conn'[r] = x \/ conn'[r] = y
            /\ \A d \in Requests \ {r} : conn'[d] = conn[d]
        BY <1>2, <1>3, <4>1
      <4>4. QED
        BY <4>2, <4>3
    <3>3. CASE FinAcked
      BY <3>3 DEF FinAcked
    <3>4. QED
      BY <1>5, <3>1, <3>2, <3>3 DEF HandlerRuns
  <2>2. QED
    BY <2>1, GwRests
<1>6. QED
  BY <1>4, <1>5

(* In ESTABLISHED it takes what comes next, or nothing.                      *)
LEMMA CollectsStreams ==
  ASSUME InTypes, NEW e \in Queued, NEW r, r = e.req, RespOK(r), RespOK(r)',
         bridge = "running", server' = server, Collects(r, e.seg)
  PROVE  StreamS(r)
<1> DEFINE s == e.seg
           c == conn[r]
           v == server[r]
<1>1. /\ r \in Requests /\ conn \in [Requests -> ConnType]
      /\ c \in ConnType /\ v \in ServerType /\ s.data \in Seq(Nat)
  BY TypesAre, SMTT(30) DEF Queued, SegType
<1>2. ServerOK(v) /\ ~c.reset /\ ~c.finished /\ c.rx \in Seq(Nat)
  <2>1. c.rx \in Seq(Nat)
    BY <1>1 DEF ConnType
  <2>2. QED
    BY <2>1 DEF RespOK, ConnOK, Collects
<1>3. CASE s.data # <<>> /\ InOrder(r, s)
  <2> DEFINE y == seq_add(c.chip_seq, Len(s.data))
             z == c.rx \o s.data
             x == [c EXCEPT !.rx = z, !.chip_seq = y]
  <2>1. conn' = [conn EXCEPT ![r] = x]
    BY <1>3 DEF Collects
  <2>2. /\ z \in Seq(Nat) /\ Len(c.rx) <= Len(z)
        /\ \A i \in 1 .. Len(c.rx) : c.rx[i] = z[i]
    <3> DEFINE g == c.rx
               h == s.data
    <3>1. g \in Seq(Nat) /\ h \in Seq(Nat)
      BY <1>1, <1>2
    <3> HIDE DEF g, h
    <3>2. /\ g \o h \in Seq(Nat) /\ Len(g) <= Len(g \o h)
          /\ \A i \in 1 .. Len(g) : g[i] = (g \o h)[i]
      BY <3>1
    <3>3. QED
      BY <3>2 DEF g, h
  <2> HIDE DEF y, z
  <2>3. x.rx = z /\ ~x.reset /\ ~x.finished
    BY <1>1, <1>2 DEF ConnType
  <2> HIDE DEF x
  <2>4. conn'[r] = x /\ server'[r] = v
    BY <1>1, <2>1
  <2>5. /\ z = <<>> \/ Len(z) + 1 <= v.next
        /\ v.fin => Len(z) + 2 <= v.next
        /\ \A i \in 1 .. Len(z) : z[i] = v.response[i]
    BY <2>3, <2>4 DEF RespOK, ConnOK
  <2>6. Response!IsPrefix(z, BytesOf(v))
    BY <1>1, <1>2, <2>2, <2>5, CollectedIs
  <2>7. Response!IsPrefix(c.rx, z)
    BY <1>2, <2>2, PrefixIs
  <2>8. EndOf(conn[r]) = "open" /\ EndOf(conn'[r]) = "open"
    BY <1>2, <2>3, <2>4 DEF EndOf
  <2>9. DeliversS(r)
    BY <2>2, <2>3, <2>4, <2>6, <2>7, <2>8 DEF DeliversS, StaysS
  <2>10. QED
    BY <2>9 DEF StreamS
<1>4. CASE s.data = <<>> /\ "FIN" \in s.flags
  <2> DEFINE y == seq_add(c.chip_seq, FinSpan)
             x == [c EXCEPT !.chip_seq = y]
  <2>1. conn' = [conn EXCEPT ![r] = x]
    BY <1>4 DEF Collects, AcksFin
  <2> HIDE DEF y
  <2>2. x.rx = c.rx /\ x.reset = c.reset /\ x.finished = c.finished
    BY <1>1 DEF ConnType
  <2> HIDE DEF x
  <2>3. conn'[r] = x
    BY <1>1, <2>1
  <2>4. QED
    BY <2>2, <2>3, GwRests
<1>5. CASE conn' = conn
  BY <1>5, GwRests
<1>6. QED
  BY <1>3, <1>4, <1>5 DEF Collects

(* The gateway takes a segment.                                              *)
LEMMA GwStreams ==
  ASSUME InTypes, \A d \in Requests : RespOK(d), GwReceives, InTypes',
         \A d \in Requests : RespOK(d)'
  PROVE  \A d \in Requests : StreamS(d)
<1>1. PICK e, r : e = Head(to_gw) /\ r = e.req
  OBVIOUS
<1>2. to_gw # <<>> /\ server' = server /\ deliver_packet_out(r, e.seg)
  BY <1>1 DEF GwReceives
<1>3. e \in Queued /\ r \in Requests
  BY <1>1, <1>2, PartsTail, TypesAre DEF Queued
<1>4. \A d \in Requests \ {r} : conn'[d] = conn[d]
  BY <1>1, <1>2, DeliverEmits
<1> DEFINE c == conn[r]
<1>5. conn \in [Requests -> ConnType] /\ c \in ConnType
  BY <1>3, TypesAre
<1>6. StreamS(r)
  <2>1. CASE conn' = conn
    BY <1>2, <2>1, GwRests
  <2>2. CASE ChipRst(r, e.seg)
    <3> DEFINE x == [c EXCEPT !.reset = TRUE, !.state = "CLOSED",
                              !.established = TRUE, !.finished = TRUE]
    <3>1. conn' = [conn EXCEPT ![r] = x]
      BY <2>2 DEF ChipRst
    <3>2. x.rx = c.rx /\ x.reset
      BY <1>5 DEF ConnType
    <3> HIDE DEF x
    <3>3. conn'[r] = x
      BY <1>3, <1>5, <3>1
    <3>4. QED
      BY <1>2, <3>2, <3>3, GwBreaks
  <2>3. CASE SynAcked(r, e.seg) /\ conn' # conn
    <3> DEFINE n == seq_add(e.seg.seq, 1)
               x == [c EXCEPT !.chip_seq = n, !.state = "ESTABLISHED"]
    <3>1. conn' = [conn EXCEPT ![r] = x]
      BY <2>3 DEF SynAcked
    <3> HIDE DEF n
    <3>2. x.rx = c.rx /\ x.reset = c.reset /\ x.finished = c.finished
      BY <1>5 DEF ConnType
    <3> HIDE DEF x
    <3>3. conn'[r] = x
      BY <1>3, <1>5, <3>1
    <3>4. QED
      BY <1>2, <3>2, <3>3, GwRests
  <2>4. CASE bridge = "running" /\ Collects(r, e.seg)
    BY <1>1, <1>2, <1>3, <2>4, CollectsStreams
  <2>5. QED
    BY <1>2, <2>1, <2>2, <2>3, <2>4 DEF deliver_packet_out, TimeWait, Stray
<1>7. QED
  BY <1>2, <1>4, <1>6, GwRests

(* A connection is opened: nothing was collected on it.                      *)
LEMMA OpensStreams ==
  ASSUME InTypes, \A d \in Requests : RespOK(d), NEW r \in Requests,
         http_into_chip(r) \/ Opens(r), server' = server
  PROVE  \A d \in Requests : StreamS(d)
<1>1. CASE http_into_chip(r)
  BY <1>1, GwRests DEF http_into_chip
<1>2. CASE Opens(r)
  <2>1. PICK isn \in ISNs : conn' = [conn EXCEPT ![r] = NewConn(isn)]
    BY <1>2 DEF Opens
  <2>2. conn'[r] = NewConn(isn) /\ \A d \in Requests \ {r} : conn'[d] = conn[d]
    BY <2>1, TypesAre
  <2>3. conn[r] = NewConn(0)
    BY <1>2 DEF RespOK, UnopenedOK, Opens, At
  <2>4. /\ NewConn(isn).rx = NewConn(0).rx
        /\ NewConn(isn).reset = NewConn(0).reset
        /\ NewConn(isn).finished = NewConn(0).finished
    BY DEF NewConn
  <2>5. QED
    BY <2>2, <2>3, <2>4, GwRests
<1>3. QED
  BY <1>1, <1>2

(* The bridge goes: its connections are reset.                               *)
LEMMA StopStreams ==
  ASSUME InTypes, stop \/ shutdown, server' = server
  PROVE  \A d \in Requests : StreamS(d)
<1>1. CASE stop
  BY <1>1, GwRests DEF stop
<1>2. CASE shutdown
  <2> SUFFICES ASSUME NEW d \in Requests
               PROVE  StreamS(d)
    OBVIOUS
  <2>1. conn'[d] = IF d \in table
                   THEN [conn[d] EXCEPT !.reset = TRUE, !.finished = TRUE,
                                        !.established = TRUE]
                   ELSE conn[d]
    BY <1>2 DEF shutdown
  <2>2. CASE d \in table
    <3> DEFINE x == [conn[d] EXCEPT !.reset = TRUE, !.finished = TRUE,
                                    !.established = TRUE]
    <3>1. conn[d] \in ConnType
      BY TypesAre
    <3>2. x.rx = conn[d].rx /\ x.reset
      BY <3>1 DEF ConnType
    <3> HIDE DEF x
    <3>3. QED
      BY <2>1, <2>2, <3>2, GwBreaks DEF x
  <2>3. CASE d \notin table
    BY <2>1, <2>3, GwRests
  <2>4. QED
    BY <2>2, <2>3
<1>3. QED
  BY <1>1, <1>2

(* Every step is one of the streams.                                         *)
LEMMA StreamsStep ==
  ASSUME InboundInv, InboundInv', TunnelNext
  PROVE  \A d \in Requests : StreamS(d)
<1>1. InTypes /\ InTypes' /\ (\A d \in Requests : RespOK(d))
      /\ \A d \in Requests : RespOK(d)'
  BY DEF InboundInv
<1>2. CASE \E r \in Requests : \/ ServerSends(r) \/ ServerFinishes(r)
                               \/ ServerRetransmits(r) \/ ServerAborts(r)
  BY <1>1, <1>2, ServerActs, ServerStreams
<1>3. CASE ServerReceives
  BY <1>1, <1>3, ServerTakes, ServerStreams
<1>4. CASE GwReceives
  BY <1>1, <1>4, GwStreams
<1>5. CASE Emits(HandlerRuns)
  BY <1>1, <1>5, HandlerStreams DEF Emits
<1>6. CASE \E r \in Requests : Emits(http_into_chip(r) \/ Opens(r))
  BY <1>1, <1>6, OpensStreams DEF Emits
<1>7. CASE \E r \in Requests :
             Emits(\/ SynTimesOut(r) \/ Fails(r) \/ SendsRequest(r)
                   \/ RequestSent(r) \/ Wakes(r) \/ Polls(r)
                   \/ DeadlinePasses(r) \/ Forgets(r))
  <2>1. PICK r \in Requests :
          Emits(\/ SynTimesOut(r) \/ Fails(r) \/ SendsRequest(r)
                \/ RequestSent(r) \/ Wakes(r) \/ Polls(r)
                \/ DeadlinePasses(r) \/ Forgets(r))
    BY <1>7
  <2>2. Runs(r) /\ server' = server
    BY <1>1, <2>1, TaskRunsOn DEF Emits
  <2>3. /\ conn'[r].rx = conn[r].rx /\ conn'[r].reset = conn[r].reset
        /\ conn'[r].finished = conn[r].finished
        /\ \A d \in Requests \ {r} : conn'[d] = conn[d]
    BY <2>2 DEF Runs
  <2>4. QED
    BY <2>2, <2>3, GwRests
<1>8. CASE Emits(stop \/ shutdown)
  BY <1>1, <1>8, StopStreams DEF Emits
<1>9. QED
  BY <1>2, <1>3, <1>4, <1>5, <1>6, <1>7, <1>8, StepsAre

(* At the start every stream is empty and open.                              *)
LEMMA StreamsInit == TunnelInit => Response!Init
<1> SUFFICES ASSUME TunnelInit
             PROVE  Response!Init
  OBVIOUS
<1>1. conn = [r \in Requests |-> NewConn(0)]
      /\ server = [r \in Requests |-> NewServer]
  BY DEF TunnelInit, InboundInit
<1>2. NewServer.response = <<>> /\ NewServer.next = 0 /\ ~NewServer.fin
      /\ NewServer.fin = FALSE
  BY DEF NewServer
<1>3. NewConn(0).rx = <<>> /\ ~NewConn(0).reset /\ ~NewConn(0).finished
  BY DEF NewConn
<1>4. \A r \in Requests : SentBytes(r) = <<>>
  <2>1. SubSeq(<<>>, 1, 0 - 1 - 0) = <<>>
    OBVIOUS
  <2>2. QED
    BY <1>1, <1>2, <2>1 DEF SentBytes, One
<1>5. QED
  BY <1>1, <1>2, <1>3, <1>4 DEF Response!Init

(* The response of every request is a ByteStream: it is collected in order   *)
(* and each byte once, from whatever segments, and finished is set without   *)
(* reset only once all that the server sent has been collected               *)
(* (tcp_inbound.py:137-156).                                                 *)
THEOREM ResponseIsAStreamTheorem == TunnelSpec => ResponseIsAStream
<1>1. InboundInv /\ InboundInv' /\ [TunnelNext]_tunnelVars
        => [Response!Next]_(Response!vars)
  <2> SUFFICES ASSUME InboundInv, InboundInv', [TunnelNext]_tunnelVars
               PROVE  [Response!Next]_(Response!vars)
    OBVIOUS
  <2>1. CASE UNCHANGED tunnelVars
    <3>1. conn' = conn /\ server' = server
      BY <2>1 DEF tunnelVars, inVars, chipVars
    <3>2. UNCHANGED Response!vars
      BY <3>1 DEF Response!vars, SentBytes, One
    <3>3. QED
      BY <3>2
  <2>2. CASE TunnelNext
    BY <2>2, StreamsStep, StreamSteps
  <2>3. QED
    BY <2>1, <2>2
<1>2. QED
  BY <1>1, StreamsInit, InboundInvariance, PTL
     DEF TunnelSpec, ResponseIsAStream, Response!Spec

-----------------------------------------------------------------------------
(* A request that ends by its length has the whole response.                 *)

(* Such a request is over, and what it has collected is complete.            *)
WholeOf(r) ==
    task[r].how = "complete" =>
        /\ task[r].pc \in {"over", "gone"} /\ conn[r].state = "CLOSED"
        /\ http_response_complete(conn[r].rx)

(* What leaves how it ended and what it has collected is no matter.          *)
LEMMA WholeKept ==
  ASSUME NEW r, WholeOf(r), task'[r].how = task[r].how,
         task[r].pc \in {"over", "gone"} => task'[r].pc \in {"over", "gone"},
         conn[r].state = "CLOSED" =>
           conn'[r].state = "CLOSED" /\ conn'[r].rx = conn[r].rx
  PROVE  WholeOf(r)'
BY DEF WholeOf

(* A step of its task.                                                       *)
LEMMA TaskWholes ==
  ASSUME InTypes, NEW r \in Requests, WholeOf(r),
         \/ http_into_chip(r) \/ Opens(r)
         \/ SynTimesOut(r) \/ Fails(r) \/ SendsRequest(r) \/ RequestSent(r)
         \/ Wakes(r) \/ Polls(r) \/ DeadlinePasses(r) \/ Forgets(r)
  PROVE  WholeOf(r)'
<1>0. conn[r] \in ConnType /\ task[r] \in TaskType
  BY TypesAre
<1>1. ASSUME NEW pc, GoesTo(r, pc)
      PROVE  task'[r].how = task[r].how /\ task'[r].pc = pc
  <2> DEFINE t == [task[r] EXCEPT !.pc = pc]
  <2>1. t.how = task[r].how /\ t.pc = pc
    BY <1>0 DEF TaskType
  <2>2. task' = [task EXCEPT ![r] = t]
    BY <1>1 DEF GoesTo
  <2> HIDE DEF t
  <2>3. task'[r] = t
    BY <2>2, TypesAre
  <2>4. QED
    BY <2>1, <2>3
<1>2. ASSUME NEW c \in ConnType, NEW how, Returns(r, c, how),
             how = "complete" => http_response_complete(c.rx)
      PROVE  WholeOf(r)'
  <2> DEFINE t == [task[r] EXCEPT !.pc = "over", !.how = how]
             x == [c EXCEPT !.state = "CLOSED"]
  <2>1. t.how = how /\ t.pc = "over" /\ x.state = "CLOSED" /\ x.rx = c.rx
    BY <1>0 DEF TaskType, ConnType
  <2>2. task' = [task EXCEPT ![r] = t] /\ conn' = [conn EXCEPT ![r] = x]
    BY <1>2 DEF Returns
  <2> HIDE DEF t, x
  <2>3. task'[r] = t /\ conn'[r] = x
    BY <2>2, TypesAre
  <2>4. http_response_complete(conn[r].rx)' <=> http_response_complete(x.rx)
    BY <2>3 DEF http_response_complete, http_headers_complete, Find, Min
  <2>5. QED
    BY <1>2, <2>1, <2>3 DEF WholeOf
<1>3. ASSUME task[r].pc \notin {"over", "gone"}, NEW pc, GoesTo(r, pc)
      PROVE  WholeOf(r)'
  BY <1>1, <1>3 DEF WholeOf
<1>4. ASSUME task[r].pc = "wait" \/ task[r].pc = "sending",
             NEW c \in ConnType, Round(r, c)
      PROVE  WholeOf(r)'
  <2>1. CASE GoesTo(r, "wait")
    BY <1>3, <1>4, <2>1
  <2>2. CASE Returns(r, c, "fin") \/ Returns(r, c, "deadline")
    BY <1>2, <2>2
  <2>3. CASE http_response_complete(c.rx) /\ Returns(r, c, "complete")
    BY <1>2, <2>3
  <2>4. QED
    BY <1>4, <2>1, <2>2, <2>3 DEF Round
<1>5. CASE RequestSent(r)
  <2> DEFINE n == seq_add(conn[r].our_seq, RequestLen)
             c == [conn[r] EXCEPT !.our_seq = n]
  <2>1. n \in SeqNums
    BY <1>0, ConnNumbers, SeqAddTyped, InboundAssumption
  <2> HIDE DEF n
  <2>2. c \in ConnType
    BY <1>0, <2>1 DEF ConnType
  <2>3. Round(r, c) /\ task[r].pc = "sending"
    BY <1>5 DEF RequestSent, At, n
  <2> HIDE DEF c
  <2>4. QED
    BY <1>4, <2>2, <2>3
<1>6. CASE DeadlinePasses(r)
  <2> DEFINE t == [task[r] EXCEPT !.late = TRUE]
  <2>1. t.how = task[r].how /\ t.pc = task[r].pc
        /\ task' = [task EXCEPT ![r] = t] /\ conn' = conn
    BY <1>0, <1>6 DEF DeadlinePasses, TaskType
  <2> HIDE DEF t
  <2>2. task'[r] = t
    BY <2>1, TypesAre
  <2>3. QED
    BY <2>1, <2>2, WholeKept
<1>7. CASE SynTimesOut(r) \/ Fails(r)
  BY <1>0, <1>2, <1>7 DEF SynTimesOut, Fails
<1>8. CASE http_into_chip(r) \/ Opens(r) \/ SendsRequest(r)
  <2>1. task[r].pc \notin {"over", "gone"} /\ \E pc : GoesTo(r, pc)
    BY <1>8 DEF http_into_chip, Opens, SendsRequest, At
  <2>2. QED
    BY <1>3, <2>1
<1>9. CASE Forgets(r)
  <2>1. GoesTo(r, "gone") /\ conn' = conn
    BY <1>9 DEF Forgets
  <2>2. QED
    BY <1>1, <2>1, WholeKept
<1>10. CASE Wakes(r)
  BY <1>0, <1>4, <1>10 DEF Wakes, At
<1>11. CASE Polls(r)
  <2>1. Returns(r, conn[r], "idle") \/ Round(r, conn[r])
    BY <1>11 DEF Polls
  <2>2. task[r].pc = "wait"
    BY <1>11 DEF Polls, At
  <2>3. QED
    BY <1>0, <1>2, <1>4, <2>1, <2>2
<1>12. QED
  BY <1>5, <1>6, <1>7, <1>8, <1>9, <1>10, <1>11

(* A step of the task of r is none of another.                               *)
LEMMA TaskAlone ==
  ASSUME InTypes, NEW r \in Requests,
         \/ http_into_chip(r) \/ Opens(r)
         \/ SynTimesOut(r) \/ Fails(r) \/ SendsRequest(r) \/ RequestSent(r)
         \/ Wakes(r) \/ Polls(r) \/ DeadlinePasses(r) \/ Forgets(r),
         NEW d \in Requests \ {r}
  PROVE  conn'[d] = conn[d] /\ task'[d] = task[d]
<1>1. CASE http_into_chip(r) \/ Opens(r)
  BY <1>1, TypesAre DEF http_into_chip, Opens, GoesTo
<1>2. QED
  BY <1>1, TaskRunsOn DEF Runs

(* What the handler does after an await leaves what was collected, and       *)
(* CLOSED.                                                                   *)
LEMMA HandlerLeaves ==
  ASSUME InTypes, HandlerRuns, NEW d \in Requests
  PROVE  /\ conn'[d].rx = conn[d].rx /\ task' = task
         /\ conn'[d].state \in {conn[d].state, "CLOSED"}
<1>1. PICK r : r = handler.req
  OBVIOUS
<1>2. task' = task /\ handler.pc # "idle"
  BY DEF HandlerRuns, Established, DataAcked, FinAcked, FinSent, HandlerAt
<1> DEFINE c == conn[d]
<1>3. c \in ConnType /\ conn \in [Requests -> ConnType]
  BY TypesAre
<1>4. CASE d # r
  BY <1>1, <1>2, <1>4, TypesAre
     DEF HandlerRuns, Established, DataAcked, FinAcked, FinSent
<1>5. CASE d = r
  <2>1. CASE Established
    <3> DEFINE x == [c EXCEPT !.established = TRUE]
    <3>1. conn' = [conn EXCEPT ![d] = x]
      BY <1>1, <1>5, <2>1 DEF Established
    <3>2. x.rx = c.rx /\ x.state = c.state
      BY <1>3 DEF ConnType
    <3> HIDE DEF x
    <3>3. QED
      BY <1>2, <1>3, <3>1, <3>2
  <2>2. CASE DataAcked
    <3> DEFINE n == seq_add(c.chip_seq, FinSpan)
               x == [c EXCEPT !.data_event = TRUE]
               y == [x EXCEPT !.chip_seq = n]
    <3>1. conn' = [conn EXCEPT ![d] = x] \/ conn' = [conn EXCEPT ![d] = y]
      <4>1. CASE handler.fin
        BY <1>1, <1>5, <2>2, <4>1 DEF DataAcked, Told
      <4>2. CASE ~handler.fin
        BY <1>1, <1>5, <2>2, <4>2 DEF DataAcked, Told
      <4>3. QED
        BY <4>1, <4>2
    <3> HIDE DEF n
    <3>2. x.rx = c.rx /\ x.state = c.state /\ y.rx = c.rx /\ y.state = c.state
      BY <1>3 DEF ConnType
    <3> HIDE DEF x, y
    <3>3. QED
      BY <1>2, <1>3, <3>1, <3>2
  <2>3. CASE FinSent
    <3> DEFINE n == seq_add(c.our_seq, 1)
               x == [c EXCEPT !.our_seq = n, !.state = "CLOSED",
                              !.finished = TRUE]
    <3>1. conn' = [conn EXCEPT ![d] = x]
      BY <1>1, <1>5, <2>3 DEF FinSent
    <3> HIDE DEF n
    <3>2. x.rx = c.rx /\ x.state = "CLOSED"
      BY <1>3 DEF ConnType
    <3> HIDE DEF x
    <3>3. QED
      BY <1>2, <1>3, <3>1, <3>2
  <2>4. CASE FinAcked
    BY <1>2, <2>4 DEF FinAcked
  <2>5. QED
    BY <2>1, <2>2, <2>3, <2>4 DEF HandlerRuns
<1>6. QED
  BY <1>4, <1>5

(* Once CLOSED, a connection collects nothing more.                          *)
LEMMA GwLeaves ==
  ASSUME InTypes, GwReceives, NEW d \in Requests, conn[d].state = "CLOSED"
  PROVE  conn'[d].state = "CLOSED" /\ conn'[d].rx = conn[d].rx
<1>1. PICK e, r : e = Head(to_gw) /\ r = e.req
  OBVIOUS
<1>2. to_gw # <<>> /\ deliver_packet_out(r, e.seg)
  BY <1>1 DEF GwReceives
<1>3. r \in Requests /\ conn \in [Requests -> ConnType]
  BY <1>1, <1>2, PartsTail, TypesAre DEF Queued
<1>4. CASE conn' = conn
  BY <1>4
<1>5. CASE conn' # conn
  <2>1. CASE ChipRst(r, e.seg)
    <3> DEFINE x == [conn[r] EXCEPT !.reset = TRUE, !.state = "CLOSED",
                                    !.established = TRUE, !.finished = TRUE]
    <3>1. conn' = [conn EXCEPT ![r] = x]
      BY <2>1 DEF ChipRst
    <3>2. conn[r] \in ConnType
      BY <1>3
    <3>3. x.rx = conn[r].rx /\ x.state = "CLOSED"
      BY <3>2 DEF ConnType
    <3> HIDE DEF x
    <3>4. QED
      BY <1>3, <3>1, <3>3
  <2>2. CASE SynAcked(r, e.seg) \/ Collects(r, e.seg)
    <3>1. conn[r].state # "CLOSED"
      BY <2>2 DEF SynAcked, Collects
    <3>2. d # r
      BY <3>1
    <3>3. conn'[d] = conn[d]
      BY <1>3, <2>2, <3>2 DEF SynAcked, Collects, AcksFin
    <3>4. QED
      BY <3>3
  <2>3. QED
    BY <1>2, <1>5, <2>1, <2>2 DEF deliver_packet_out, TimeWait, Stray
<1>6. QED
  BY <1>4, <1>5

(* A shutdown too leaves them.                                               *)
LEMMA StopLeaves ==
  ASSUME InTypes, stop \/ shutdown, NEW d \in Requests
  PROVE  /\ conn'[d].state = conn[d].state /\ conn'[d].rx = conn[d].rx
         /\ conn'[d].chip_seq = conn[d].chip_seq /\ task' = task
<1>1. CASE stop
  BY <1>1 DEF stop
<1>2. CASE shutdown
  <2> DEFINE x == [conn[d] EXCEPT !.reset = TRUE, !.finished = TRUE,
                                  !.established = TRUE]
  <2>1. conn[d] \in ConnType
    BY TypesAre
  <2>2. /\ x.state = conn[d].state /\ x.rx = conn[d].rx
        /\ x.chip_seq = conn[d].chip_seq
    BY <2>1 DEF ConnType
  <2>3. conn'[d] = x \/ conn'[d] = conn[d]
    BY <1>2 DEF shutdown
  <2> HIDE DEF x
  <2>4. QED
    BY <1>2, <2>2, <2>3 DEF shutdown
<1>3. QED
  BY <1>1, <1>2

(* Every step keeps WholeOf.                                                 *)
LEMMA WholeStep ==
  ASSUME InTypes, [TunnelNext]_tunnelVars, NEW d \in Requests, WholeOf(d)
  PROVE  WholeOf(d)'
<1>1. CASE UNCHANGED tunnelVars
  BY <1>1, WholeKept DEF tunnelVars, inVars
<1>2. CASE TunnelNext
  <2>1. CASE \/ ServerReceives
             \/ \E r \in Requests : \/ ServerSends(r) \/ ServerFinishes(r)
                                    \/ ServerRetransmits(r) \/ ServerAborts(r)
    <3>1. conn' = conn /\ task' = task
      BY <2>1 DEF ServerReceives, ServerSends, ServerFinishes,
         ServerRetransmits, ServerAborts, inVars
    <3>2. QED
      BY <3>1, WholeKept
  <2>2. CASE GwReceives
    <3>1. task' = task
      BY <2>2 DEF GwReceives, deliver_packet_out
    <3>2. QED
      BY <2>2, <3>1, GwLeaves, WholeKept
  <2>3. CASE Emits(HandlerRuns)
    BY <2>3, HandlerLeaves, WholeKept DEF Emits
  <2>4. CASE Emits(stop \/ shutdown)
    BY <2>4, StopLeaves, WholeKept DEF Emits
  <2>5. ASSUME NEW r \in Requests,
               \/ http_into_chip(r) \/ Opens(r)
               \/ SynTimesOut(r) \/ Fails(r) \/ SendsRequest(r)
               \/ RequestSent(r) \/ Wakes(r) \/ Polls(r)
               \/ DeadlinePasses(r) \/ Forgets(r)
        PROVE  WholeOf(d)'
    <3>1. CASE d = r
      BY <2>5, <3>1, TaskWholes
    <3>2. CASE d # r
      <4>1. conn'[d] = conn[d] /\ task'[d] = task[d]
        BY <2>5, <3>2, TaskAlone
      <4>2. QED
        BY <4>1, WholeKept
    <3>3. QED
      BY <3>1, <3>2
  <2>6. QED
    BY <1>2, <2>1, <2>2, <2>3, <2>4, <2>5, StepsAre DEF Emits
<1>3. QED
  BY <1>1, <1>2

(* Nothing is not complete.                                                  *)
LEMMA NothingIsPart == ~http_response_complete(<<>>)
<1>1. Len(CrLf2) = 4 /\ Len(Lf2) = 2 /\ Len(<<>>) = 0
  BY DEF CrLf2, Lf2
<1>2. Find(<<>>, CrLf2) = {} /\ Find(<<>>, Lf2) = {}
  BY <1>1 DEF Find
<1>3. QED
  BY <1>2 DEF http_response_complete, http_headers_complete

(* A complete beginning of a response is all of it.                          *)
LEMMA CompleteIsAll ==
  ASSUME WellDeclared, NEW v \in ServerType, ServerOK(v), NEW x \in Seq(Nat),
         http_response_complete(x), x = <<>> \/ Len(x) + 1 <= v.next,
         v.fin => Len(x) + 2 <= v.next,
         \A i \in 1 .. Len(x) : x[i] = v.response[i]
  PROVE  x = v.response
<1> DEFINE k == Len(x)
           z == v.response
           m == Len(z)
           b == v.next
           f == v.fin
<1>1. x # <<>>
  BY NothingIsPart
<1>2. /\ k \in Nat /\ k >= 1 /\ k + 1 <= b /\ b \in Nat /\ f \in BOOLEAN
      /\ z \in Seq(Nat) /\ m \in Nat
  BY <1>1 DEF ServerType
<1>3. v.heard /\ z \in Responses
  BY <1>2 DEF ServerOK
<1>4. (f /\ b <= m + 2 /\ k + 2 <= b) \/ (~f /\ b <= m + 1)
  BY DEF ServerOK
<1>5. /\ \A i \in 1 .. k : x[i] = z[i]
      /\ \A n \in 1 .. m : http_response_complete(SubSeq(z, 1, n)) => n = m
  BY <1>3 DEF WellDeclared
<1> HIDE DEF b, f, m, z, k
<1>6. k <= m
  BY <1>2, <1>4
<1>7. /\ SubSeq(z, 1, k) \in Seq(Nat) /\ Len(SubSeq(z, 1, k)) = k
      /\ \A i \in 1 .. k : SubSeq(z, 1, k)[i] = z[i]
  <2>1. m = Len(z)
    BY DEF m
  <2>2. \A i \in 1 .. k : i \in 1 .. Len(z)
    BY <1>2, <1>6, <2>1
  <2>3. QED
    BY <1>2, <1>6, <2>1, <2>2
<1>8. SubSeq(z, 1, k) = x
  <2>1. Len(x) = k
    BY DEF k
  <2>2. QED
    BY <1>5, <1>7, <2>1, SameSequence
<1>9. k = m
  <2>1. k \in 1 .. m
    BY <1>2, <1>6
  <2>2. http_response_complete(SubSeq(z, 1, k)) => k = m
    BY <1>5, <2>1
  <2>3. http_response_complete(SubSeq(z, 1, k))
    BY <1>8
  <2>4. QED
    BY <2>2, <2>3
<1>10. QED
  <2>1. Len(x) = Len(z)
    BY <1>9 DEF k, m
  <2>2. \A i \in 1 .. Len(x) : x[i] = z[i]
    BY <1>5 DEF k
  <2>3. QED
    BY <1>2, <2>1, <2>2, SameSequence DEF z

(* A request that ends by Content-Length has the whole response, however it  *)
(* was cut into segments and whatever was sent again, from a server whose    *)
(* lengths are those of its bodies (tcp_inbound.py:271-291).                 *)
THEOREM CompleteIsWholeTheorem ==
  ASSUME WellDeclared
  PROVE  TunnelSpec => []CompleteIsWhole
<1> DEFINE Whole == \A r \in Requests : WholeOf(r)
<1>1. TunnelInit => Whole
  BY InboundAssumption DEF TunnelInit, InboundInit, WholeOf
<1>2. InboundInv /\ Whole /\ [TunnelNext]_tunnelVars => Whole'
  BY WholeStep DEF InboundInv
<1>3. InboundInv /\ Whole => CompleteIsWhole
  <2> SUFFICES ASSUME InboundInv, Whole, NEW r \in Requests,
                      task[r].how = "complete"
               PROVE  conn[r].rx = server[r].response
    BY DEF CompleteIsWhole
  <2>1. RespOK(r) /\ InTypes
    BY DEF InboundInv
  <2>2. conn[r].rx \in Seq(Nat) /\ server[r] \in ServerType
    BY <2>1, TypesAre DEF ConnType
  <2>3. http_response_complete(conn[r].rx)
    BY DEF WholeOf
  <2>4. QED
    BY <2>1, <2>2, <2>3, CompleteIsAll DEF RespOK, ConnOK
<1>4. TunnelSpec => []InboundInv
  BY InboundInvariance
<1> HIDE DEF Whole
<1>5. QED
  BY <1>1, <1>2, <1>3, <1>4, PTL DEF TunnelSpec

-----------------------------------------------------------------------------
(* What the server takes for acknowledged has been collected.                *)

FramesOf(q, r) == {i \in DOMAIN q : q[i].req = r}

IsSyn(f) == f.flags = {"SYN"}
IsRst(f) == "RST" \in f.flags

(* There is one SYN of r, before anything else.                              *)
SynFirst(r) ==
    /\ \A i, j \in FramesOf(to_chip, r) :
         IsSyn(to_chip[i]) /\ IsSyn(to_chip[j]) => i = j
    /\ \A i \in FramesOf(to_chip, r) :
         IsSyn(to_chip[i]) => server[r].st = "listen"
    /\ conn[r].state = "SYN_SENT" =>
         \A i \in FramesOf(to_chip, r) : IsSyn(to_chip[i]) \/ IsRst(to_chip[i])

(* l bytes are all that the server's end v sends, its FIN included.          *)
AllIn(v, l) == v.fin /\ l = v.next - 2

(* x acknowledges no more than l bytes, unless the FIN follows them.         *)
Counts(v, l, x) ==
    \E k \in 0 .. v.next : x = SeqAt(k) /\ (k <= l + 1 \/ AllIn(v, l))

(* The handler is at bytes of r, and has not yet counted their FIN.          *)
AtData(r) == handler.req = r /\ handler.pc = "data_acked"

SyncedTo(v, l, x, atData) ==
    \E k \in 0 .. v.next :
        x = SeqAt(k) /\ (k <= l + 1 \/ (AllIn(v, l) /\ ~atData))

Synced(r) ==
    SyncedTo(server[r], Len(conn[r].rx), conn[r].chip_seq, AtData(r))

(* A connection that was never established has sent no request, whatever it  *)
(* acknowledges.                                                             *)
Mute(r) ==
    /\ conn[r].state # "ESTABLISHED" /\ ~server[r].heard
    /\ \A i \in FramesOf(to_chip, r) : to_chip[i].len = 0

Counted(r) ==
    /\ Synced(r)
    /\ \A i \in FramesOf(to_chip, r) :
         \/ IsSyn(to_chip[i]) \/ IsRst(to_chip[i])
         \/ Counts(server[r], Len(conn[r].rx), to_chip[i].ack)

(* The server keeps every byte after the first l.                            *)
Covers(v, l) ==
    \A o \in Nat : l < o /\ o < v.next - One(v.fin) =>
        \E p \in v.unacked : p.off <= o /\ o < p.off + Span(p)

AckOK(r) ==
    /\ SynFirst(r) /\ (Mute(r) \/ Counted(r))
    /\ Covers(server[r], Len(conn[r].rx))

(* The frames of r after one more.                                           *)
LEMMA JoinFrames ==
  ASSUME NEW q \in Seq(FrameType), NEW f \in FrameType, NEW r
  PROVE  \A i \in FramesOf(q \o <<f>>, r) :
           \/ i \in FramesOf(q, r) /\ (q \o <<f>>)[i] = q[i]
           \/ i = Len(q) + 1 /\ (q \o <<f>>)[i] = f /\ f.req = r
<1>1. /\ Len(q) \in Nat /\ DOMAIN q = 1 .. Len(q)
      /\ DOMAIN (q \o <<f>>) = 1 .. (Len(q) + 1)
      /\ \A i \in 1 .. Len(q) : (q \o <<f>>)[i] = q[i]
      /\ (q \o <<f>>)[Len(q) + 1] = f
  OBVIOUS
<1> DEFINE z == q \o <<f>>
           n == Len(q)
<1> SUFFICES ASSUME NEW i \in FramesOf(z, r)
             PROVE  \/ i \in FramesOf(q, r) /\ z[i] = q[i]
                    \/ i = n + 1 /\ z[i] = f /\ f.req = r
  OBVIOUS
<1>2. /\ n \in Nat /\ DOMAIN q = 1 .. n /\ DOMAIN z = 1 .. (n + 1)
      /\ \A j \in 1 .. n : z[j] = q[j]
      /\ z[n + 1] = f
  BY <1>1
<1>3. i \in DOMAIN z /\ z[i].req = r
  BY DEF FramesOf
<1> HIDE DEF z, n
<1>4. i \in 1 .. n \/ i = n + 1
  BY <1>2, <1>3
<1>5. QED
  BY <1>2, <1>3, <1>4 DEF FramesOf

(* After a step of the gateway.                                              *)
LEMMA GwFrames ==
  ASSUME InTypes, NEW r, to_chip' = to_chip \o out',
         out' = <<>> \/ \E f \in FrameType : out' = <<f>>
  PROVE  \A i \in FramesOf(to_chip', r) :
           \/ i \in FramesOf(to_chip, r) /\ to_chip'[i] = to_chip[i]
           \/ /\ i = Len(to_chip) + 1
              /\ \E f \in FrameType : /\ out' = <<f>> /\ f.req = r
                                      /\ to_chip'[i] = f
<1>1. to_chip \in Seq(FrameType)
  BY TypesAre
<1>2. CASE out' = <<>>
  BY <1>1, <1>2
<1>3. CASE \E f \in FrameType : out' = <<f>>
  <2>1. PICK f \in FrameType : out' = <<f>>
    BY <1>3
  <2>2. to_chip' = to_chip \o <<f>>
    BY <2>1
  <2> DEFINE z == to_chip \o <<f>>
  <2>3. \A i \in FramesOf(z, r) :
          \/ i \in FramesOf(to_chip, r) /\ z[i] = to_chip[i]
          \/ i = Len(to_chip) + 1 /\ z[i] = f /\ f.req = r
    BY <1>1, JoinFrames
  <2>4. to_chip' = z
    BY <2>2
  <2> HIDE DEF z
  <2>5. QED
    BY <2>1, <2>3, <2>4
<1>4. QED
  BY <1>2, <1>3

(* The same, of where the frames come from alone.                            *)
LEMMA GwFramesFrom ==
  ASSUME InTypes, NEW r, to_chip' = to_chip \o out',
         out' = <<>> \/ \E f \in FrameType : out' = <<f>>
  PROVE  \A i \in FramesOf(to_chip', r) :
           \/ i \in FramesOf(to_chip, r) /\ to_chip'[i] = to_chip[i]
           \/ \E f \in FrameType : out' = <<f>> /\ f.req = r /\ to_chip'[i] = f
<1> TAKE i \in FramesOf(to_chip', r)
<1>1. \/ i \in FramesOf(to_chip, r) /\ to_chip'[i] = to_chip[i]
      \/ /\ i = Len(to_chip) + 1
         /\ \E f \in FrameType : /\ out' = <<f>> /\ f.req = r
                                 /\ to_chip'[i] = f
  BY GwFrames
<1>2. QED
  BY ONLY <1>1

(* The frames of r after the oldest was taken.                               *)
LEMMA TailFrames ==
  ASSUME NEW q \in Seq(FrameType), q # <<>>, NEW r
  PROVE  /\ Head(q) \in FrameType /\ Head(q) = q[1] /\ 1 \in DOMAIN q
         /\ \A i \in FramesOf(Tail(q), r) :
              i \in Nat /\ i >= 1 /\ i + 1 \in FramesOf(q, r)
              /\ Tail(q)[i] = q[i + 1]
<1>1. Head(q) \in FrameType /\ Head(q) = q[1] /\ 1 \in DOMAIN q
  OBVIOUS
<1>2. \A i \in DOMAIN Tail(q) :
        i \in Nat /\ i >= 1 /\ i + 1 \in DOMAIN q /\ Tail(q)[i] = q[i + 1]
  OBVIOUS
<1>3. QED
  BY <1>1, <1>2 DEF FramesOf

(* A frame that the gateway sends for r, other than its SYN.                 *)
Answers(r, f) ==
    /\ ~IsSyn(f) /\ (f.len = 0 \/ conn[r].state = "ESTABLISHED")
    /\ \/ IsRst(f)
       \/ f.ack = conn'[r].chip_seq /\ conn'[r].state # "SYN_SENT"

(* While ESTABLISHED, chip_seq is what has been collected.                   *)
LEMMA SyncedWhile ==
  ASSUME NEW r \in Requests, NEW c \in ConnType, NEW v \in ServerType, NEW h,
         c.state = "ESTABLISHED", NEW counted \in BOOLEAN,
         NEW taken \in BOOLEAN, counted => taken, counted => ~h,
         v.next >= 1, c.rx = <<>> \/ Len(c.rx) + 1 <= v.next,
         c.chip_seq = SeqAt(IF counted THEN Len(c.rx) + 2 ELSE Len(c.rx) + 1),
         taken => v.fin /\ Len(c.rx) = v.next - 2
  PROVE  SyncedTo(v, Len(c.rx), c.chip_seq, h)
<1> DEFINE l == Len(c.rx)
           n == v.next
<1>1. l \in Nat /\ n \in Nat /\ n >= 1 /\ (l = 0 \/ l + 1 <= n)
  <2>1. c.rx \in Seq(Nat)
    BY DEF ConnType
  <2>2. Len(c.rx) \in Nat /\ (c.rx = <<>> => Len(c.rx) = 0)
    BY <2>1
  <2>3. QED
    BY <2>2 DEF ServerType
<1>2. CASE counted
  <2>1. c.chip_seq = SeqAt(l + 2) /\ l = n - 2 /\ v.fin /\ ~h
    BY <1>2
  <2> HIDE DEF l, n
  <2>2. l + 2 \in 0 .. n
    BY <1>1, <2>1
  <2>3. QED
    BY <2>1, <2>2 DEF l, n, SyncedTo, AllIn
<1>3. CASE ~counted
  <2>1. c.chip_seq = SeqAt(l + 1)
    BY <1>3
  <2> HIDE DEF l, n
  <2>2. l + 1 \in 0 .. n /\ l + 1 <= l + 1
    BY <1>1
  <2>3. QED
    BY <2>1, <2>2 DEF l, n, SyncedTo
<1>4. QED
  BY <1>2, <1>3

(* A step of the gateway.                                                    *)
LEMMA GwAcks ==
  ASSUME InTypes, InTypes', NEW r \in Requests, RespOK(r), RespOK(r)',
         AckOK(r), server' = server, to_chip' = to_chip \o out',
         out' = <<>> \/ \E f \in FrameType : /\ out' = <<f>>
                                             /\ f.req = r => Answers(r, f),
         Len(conn[r].rx) <= Len(conn'[r].rx),
         conn'[r].state = "SYN_SENT" => conn[r].state = "SYN_SENT",
         conn'[r].state = "ESTABLISHED" => conn[r].state # "CLOSED",
         conn'[r].state # "ESTABLISHED" /\ Synced(r) => Synced(r)'
  PROVE  AckOK(r)'
<1> DEFINE v == server[r]
           c == conn[r]
           d == conn'[r]
<1>1. /\ v \in ServerType /\ c \in ConnType /\ d \in ConnType /\ server'[r] = v
      /\ v.next \in Nat /\ Len(c.rx) \in Nat /\ Len(d.rx) \in Nat
      /\ Len(c.rx) <= Len(d.rx)
  <2>1. v \in ServerType /\ c \in ConnType /\ server'[r] = v
    BY TypesAre
  <2>2. d \in ConnType
    BY DEF InTypes
  <2>3. c.rx \in Seq(Nat) /\ d.rx \in Seq(Nat) /\ v.next \in Nat
    BY <2>1, <2>2 DEF ConnType, ServerType
  <2>4. QED
    BY <2>1, <2>2, <2>3
<1>2. ASSUME NEW i \in FramesOf(to_chip', r)
      PROVE  \/ i \in FramesOf(to_chip, r) /\ to_chip'[i] = to_chip[i]
             \/ Answers(r, to_chip'[i])
                /\ \A j \in FramesOf(to_chip', r) :
                     j \in FramesOf(to_chip, r) \/ ~IsSyn(to_chip'[j])
  <2>1. \A j \in FramesOf(to_chip', r) :
          \/ j \in FramesOf(to_chip, r) /\ to_chip'[j] = to_chip[j]
          \/ \E f \in FrameType : out' = <<f>> /\ f.req = r /\ to_chip'[j] = f
    BY GwFramesFrom
  <2>2. ASSUME NEW f \in FrameType, out' = <<f>>, f.req = r
        PROVE  Answers(r, f)
    <3>1. PICK g \in FrameType : out' = <<g>> /\ (g.req = r => Answers(r, g))
      BY <2>2
    <3>2. g = f
      BY <2>2, <3>1
    <3>3. QED
      BY <2>2, <3>1, <3>2
  <2>3. \A j \in FramesOf(to_chip', r) :
          \/ j \in FramesOf(to_chip, r) /\ to_chip'[j] = to_chip[j]
          \/ Answers(r, to_chip'[j])
    BY <2>1, <2>2
  <2>4. \A j \in FramesOf(to_chip', r) :
          j \in FramesOf(to_chip, r) \/ ~IsSyn(to_chip'[j])
    BY <2>3 DEF Answers
  <2>5. QED
    BY <2>3, <2>4
<1> DEFINE l == Len(c.rx)
           m == Len(d.rx)
<1>3. AllIn(v, l) => AllIn(v, m)
  <2> SUFFICES ASSUME v.fin, l = v.next - 2
               PROVE  m = v.next - 2
    BY DEF AllIn
  <2>1. m + 2 <= v.next
    BY <1>1 DEF RespOK, ConnOK
  <2> DEFINE n == v.next
  <2>2. l \in Nat /\ m \in Nat /\ n \in Nat /\ l <= m /\ l = n - 2 /\ m + 2 <= n
    BY <1>1, <2>1
  <2> HIDE DEF l, m, n
  <2>3. m = n - 2
    BY <2>2
  <2>4. QED
    BY <2>3 DEF n
<1>4. ASSUME NEW x, Counts(v, l, x)
      PROVE  Counts(v, m, x)
  <2>1. l \in Nat /\ m \in Nat /\ l <= m /\ v.next \in Nat
    BY <1>1
  <2> HIDE DEF l, m, v
  <2>2. PICK k \in 0 .. v.next : x = SeqAt(k) /\ (k <= l + 1 \/ AllIn(v, l))
    BY <1>4 DEF Counts
  <2>3. k <= m + 1 \/ AllIn(v, m)
    BY <1>3, <2>1, <2>2
  <2>4. QED
    BY <2>2, <2>3 DEF Counts
<1>5. SynFirst(r)'
  <2>1. \A i, j \in FramesOf(to_chip', r) :
          IsSyn(to_chip'[i]) /\ IsSyn(to_chip'[j]) => i = j
    BY <1>2 DEF AckOK, SynFirst, Answers
  <2>2. \A i \in FramesOf(to_chip', r) :
          IsSyn(to_chip'[i]) => server'[r].st = "listen"
    BY <1>1, <1>2 DEF AckOK, SynFirst, Answers
  <2>3. d.state = "SYN_SENT" =>
          \A i \in FramesOf(to_chip', r) :
            IsSyn(to_chip'[i]) \/ IsRst(to_chip'[i])
    BY <1>2 DEF AckOK, SynFirst, Answers
  <2>4. QED
    BY <2>1, <2>2, <2>3 DEF SynFirst
<1>6. ASSUME d.state = "ESTABLISHED"
      PROVE  Synced(r)'
  <2> DEFINE h == handler'.req = r /\ handler'.pc = "data_acked"
             counted == FinCounted(r)'
             taken == FinTaken(r)'
  <2>1. /\ counted \in BOOLEAN /\ taken \in BOOLEAN /\ (counted => taken)
        /\ counted => ~h
    BY DEF FinCounted, FinTaken
  <2>2. ConnOK(r)'
    BY DEF RespOK
  <2>3. /\ v.next >= 1 /\ (d.rx = <<>> \/ Len(d.rx) + 1 <= v.next)
        /\ d.chip_seq = SeqAt(IF counted THEN Len(d.rx) + 2
                              ELSE Len(d.rx) + 1)
        /\ taken => v.fin /\ Len(d.rx) = v.next - 2
    BY <1>1, <1>6, <2>2 DEF ConnOK
  <2> HIDE DEF counted, taken, h
  <2>4. SyncedTo(v, Len(d.rx), d.chip_seq, h)
    BY <1>1, <1>6, <2>1, <2>3, SyncedWhile
  <2>5. h <=> AtData(r)'
    BY DEF h, AtData
  <2>6. QED
    BY <1>1, <2>4, <2>5 DEF Synced, SyncedTo
<1>7. ASSUME Synced(r)'
      PROVE  Counts(v, m, d.chip_seq)
  <2>1. SyncedTo(v, m, d.chip_seq, AtData(r)')
    BY <1>1, <1>7 DEF Synced
  <2> HIDE DEF v, m, d
  <2>2. QED
    BY <2>1 DEF SyncedTo, Counts
<1>8. ASSUME Synced(r)',
             \A i \in FramesOf(to_chip, r) :
               \/ IsSyn(to_chip[i]) \/ IsRst(to_chip[i])
               \/ Counts(v, l, to_chip[i].ack)
      PROVE  Counted(r)'
  <2>1. ASSUME NEW i \in FramesOf(to_chip', r)
        PROVE  \/ IsSyn(to_chip'[i]) \/ IsRst(to_chip'[i])
               \/ Counts(v, m, to_chip'[i].ack)
    <3>1. CASE i \in FramesOf(to_chip, r) /\ to_chip'[i] = to_chip[i]
      <4>1. \/ IsSyn(to_chip'[i]) \/ IsRst(to_chip'[i])
            \/ Counts(v, l, to_chip'[i].ack)
        BY <1>8, <3>1
      <4> HIDE DEF v, l, m
      <4>2. QED
        BY <1>4, <4>1
    <3>2. CASE Answers(r, to_chip'[i])
      <4>1. IsRst(to_chip'[i]) \/ to_chip'[i].ack = d.chip_seq
        BY <3>2 DEF Answers
      <4> HIDE DEF v, m, d
      <4>2. QED
        BY <1>7, <1>8, <4>1
    <3>3. QED
      BY <1>2, <3>1, <3>2
  <2>2. QED
    BY <1>1, <1>8, <2>1 DEF Counted
<1>9. Mute(r)' \/ Counted(r)'
  <2>1. CASE Counted(r)
    <3>1. Synced(r)'
      BY <1>6, <2>1 DEF Counted
    <3>2. QED
      BY <1>8, <2>1, <3>1 DEF Counted
  <2>2. CASE Mute(r) /\ d.state = "ESTABLISHED"
    <3>1. c.state = "SYN_SENT"
      BY <1>1, <2>2 DEF Mute, ConnType
    <3>2. QED
      BY <1>6, <1>8, <2>2, <3>1 DEF AckOK, SynFirst
  <2>3. CASE Mute(r) /\ d.state # "ESTABLISHED"
    <3>1. \A i \in FramesOf(to_chip', r) : to_chip'[i].len = 0
      BY <1>2, <2>3 DEF Mute, Answers
    <3>2. QED
      BY <1>1, <2>3, <3>1 DEF Mute
  <2>4. QED
    BY <2>1, <2>2, <2>3 DEF AckOK
<1>10. Covers(server[r], Len(conn[r].rx))'
  <2> SUFFICES ASSUME NEW o \in Nat, Len(d.rx) < o, o < v.next - One(v.fin)
               PROVE  \E p \in v.unacked : p.off <= o /\ o < p.off + Span(p)
    BY <1>1 DEF Covers, One, Span
  <2>1. Len(c.rx) < o
    BY <1>1
  <2>2. QED
    BY <2>1 DEF AckOK, Covers
<1>11. QED
  BY <1>5, <1>9, <1>10 DEF AckOK

(* What leaves chip_seq and what has been collected leaves them in step.     *)
LEMMA SyncedKept ==
  ASSUME NEW r \in Requests, Synced(r), server' = server,
         conn'[r].rx = conn[r].rx, conn'[r].chip_seq = conn[r].chip_seq,
         AtData(r)' => AtData(r)
  PROVE  Synced(r)'
<1> DEFINE v == server[r]
           l == Len(conn[r].rx)
           x == conn[r].chip_seq
           h == AtData(r)
           i == AtData(r)'
<1>1. SyncedTo(v, l, x, h) /\ (i => h)
  BY DEF Synced
<1>2. Synced(r)' <=> SyncedTo(v, l, x, i)
  BY DEF Synced
<1> HIDE DEF v, l, x, h, i
<1>3. SyncedTo(v, l, x, i)
  BY <1>1 DEF SyncedTo
<1>4. QED
  BY <1>2, <1>3

(* A step that is none of d.                                                 *)
LEMMA AsideAcks ==
  ASSUME InTypes, InTypes', NEW d \in Requests, RespOK(d), RespOK(d)',
         AckOK(d), server' = server, to_chip' = to_chip \o out',
         out' = <<>> \/ \E f \in FrameType : out' = <<f>> /\ f.req # d,
         conn'[d] = conn[d], AtData(d)' => AtData(d)
  PROVE  AckOK(d)'
<1>1. Len(conn[d].rx) <= Len(conn'[d].rx)
  <2>1. conn[d].rx \in Seq(Nat)
    BY TypesAre DEF ConnType
  <2>2. QED
    BY <2>1
<1>2. conn'[d].state # "ESTABLISHED" /\ Synced(d) => Synced(d)'
  BY SyncedKept
<1>3. conn'[d].state = "ESTABLISHED" => conn[d].state # "CLOSED"
  OBVIOUS
<1>4. QED
  BY <1>1, <1>2, <1>3, GwAcks

(* A frame that _inject was given for r.                                     *)
LEMMA EmitAnswers ==
  ASSUME NEW r \in Requests, NEW c \in ConnType, NEW flags \in SUBSET Flags,
         "ACK" \in flags, Emit(r, c, flags)
  PROVE  out' = <<>> \/ \E f \in FrameType :
           /\ out' = <<f>> /\ f.req = r /\ ~IsSyn(f) /\ f.len = 0
           /\ f.ack = c.chip_seq /\ f.flags = flags
<1> DEFINE f == Frame(r, flags, c.our_seq, c.chip_seq, 0)
<1>1. c.our_seq \in SeqNums /\ c.chip_seq \in SeqNums
  BY DEF ConnType
<1>2. f \in FrameType
  BY <1>1, FrameTyped, 0 \in Nat
<1>3. f.req = r /\ f.flags = flags /\ f.len = 0 /\ f.ack = c.chip_seq
  BY DEF Frame
<1>4. ~IsSyn(f)
  BY <1>3 DEF IsSyn
<1>5. out' = <<>> \/ out' = <<f>>
  BY DEF Emit, Inject
<1> HIDE DEF f
<1>6. QED
  BY <1>2, <1>3, <1>4, <1>5

(* The task of a request runs on.                                            *)
LEMMA RunsAcks ==
  ASSUME InTypes, InTypes', NEW r \in Requests, NEW d \in Requests,
         RespOK(d), RespOK(d)', AckOK(d), Emits(Runs(r))
  PROVE  AckOK(d)'
<1>1. /\ server' = server /\ to_chip' = to_chip \o out' /\ Runs(r)
      /\ handler' = handler
  BY DEF Emits, Runs
<1>2. AtData(d)' => AtData(d)
  BY <1>1 DEF AtData
<1>3. CASE d # r
  <2>1. conn'[d] = conn[d]
    BY <1>1, <1>3 DEF Runs
  <2>2. out' = <<>> \/ \E f \in FrameType : out' = <<f>> /\ f.req # d
    BY <1>1, <1>3 DEF Runs
  <2>3. QED
    BY <1>1, <1>2, <2>1, <2>2, AsideAcks
<1>4. CASE d = r
  <2>1. /\ conn'[r].rx = conn[r].rx /\ conn'[r].chip_seq = conn[r].chip_seq
        /\ conn'[r].state \in {conn[r].state, "CLOSED"}
    BY <1>1 DEF Runs
  <2>2. conn[r].rx \in Seq(Nat)
    BY <1>4, TypesAre DEF ConnType
  <2>3. Len(conn[r].rx) <= Len(conn'[r].rx)
    BY <2>1, <2>2
  <2>4. Synced(r) => Synced(r)'
    BY <1>1, <1>2, <1>4, <2>1, SyncedKept
  <2>5. out' = <<>> \/ \E f \in FrameType : /\ out' = <<f>>
                                            /\ f.req = r => Answers(r, f)
    <3>1. ASSUME NEW f \in FrameType, out' = <<f>>, f.flags = {"ACK"},
                 f.ack = conn[r].chip_seq, conn[r].state = "ESTABLISHED"
          PROVE  Answers(r, f)
      <4>1. "ACK" # "SYN" /\ ~IsSyn(f)
        BY <3>1 DEF IsSyn
      <4>2. conn'[r].state # "SYN_SENT" /\ f.ack = conn'[r].chip_seq
        BY <2>1, <3>1
      <4>3. QED
        BY <3>1, <4>1, <4>2 DEF Answers
    <3>2. QED
      BY <1>1, <3>1 DEF Runs
  <2>6. /\ conn'[r].state = "SYN_SENT" => conn[r].state = "SYN_SENT"
        /\ conn'[r].state = "ESTABLISHED" => conn[r].state # "CLOSED"
    BY <2>1
  <2>7. QED
    BY <1>1, <1>4, <2>3, <2>4, <2>5, <2>6, GwAcks
<1>5. QED
  BY <1>3, <1>4

(* A connection is opened: its SYN comes first.                              *)
LEMMA OpensAcks ==
  ASSUME InTypes, InTypes', NEW r \in Requests, NEW d \in Requests,
         RespOK(d), RespOK(d)', AckOK(d), Emits(http_into_chip(r) \/ Opens(r))
  PROVE  AckOK(d)'
<1>1. /\ server' = server /\ to_chip' = to_chip \o out'
      /\ http_into_chip(r) \/ Opens(r)
      /\ handler' = handler
  BY DEF Emits, http_into_chip, Opens
<1>2. AtData(d)' => AtData(d)
  BY <1>1 DEF AtData
<1>3. CASE http_into_chip(r)
  <2>1. conn' = conn /\ out' = <<>>
    BY <1>3 DEF http_into_chip, Quiet
  <2>2. QED
    BY <1>1, <1>2, <2>1, AsideAcks
<1>4. CASE Opens(r)
  <2>1. PICK isn \in ISNs : /\ conn' = [conn EXCEPT ![r] = NewConn(isn)]
                            /\ Inject(Frame(r, {"SYN"}, isn, 0, 0))
    BY <1>4 DEF Opens
  <2> DEFINE g == Frame(r, {"SYN"}, isn, 0, 0)
  <2>2. g \in FrameType /\ g.req = r /\ IsSyn(g) /\ g.len = 0
    <3>1. isn \in SeqNums /\ 0 \in SeqNums /\ 0 \in Nat
          /\ {"SYN"} \in SUBSET Flags
      BY InboundAssumption, SeqNumsAreInts DEF Flags
    <3>2. g \in FrameType
      BY <3>1, FrameTyped
    <3>3. QED
      BY <3>2 DEF Frame, IsSyn
  <2>3. out' = <<>> \/ out' = <<g>>
    BY <2>1 DEF Inject
  <2>4. conn'[r] = NewConn(isn) /\ (d # r => conn'[d] = conn[d])
    BY <2>1, TypesAre
  <2> HIDE DEF g
  <2>5. CASE d # r
    BY <1>1, <1>2, <2>2, <2>3, <2>4, <2>5, AsideAcks
  <2>6. CASE d = r
    <3>1. /\ server[r].st = "listen"
          /\ \A i \in DOMAIN to_chip : to_chip[i].req # r
      BY <1>4, <2>6 DEF RespOK, UnopenedOK, Opens, At
    <3>2. /\ \A i \in FramesOf(to_chip', r) : to_chip'[i] = g
          /\ \A i, j \in FramesOf(to_chip', r) : i = j
      <4>1. \A i \in FramesOf(to_chip', r) :
              \/ i \in FramesOf(to_chip, r)
              \/ /\ i = Len(to_chip) + 1
                 /\ \E f \in FrameType : out' = <<f>> /\ to_chip'[i] = f
        <5>1. out' = <<>> \/ \E f \in FrameType : out' = <<f>>
          BY <2>2, <2>3
        <5>2. QED
          <6>1. \A i \in FramesOf(to_chip', r) :
                  \/ i \in FramesOf(to_chip, r) /\ to_chip'[i] = to_chip[i]
                  \/ /\ i = Len(to_chip) + 1
                     /\ \E f \in FrameType : /\ out' = <<f>> /\ f.req = r
                                             /\ to_chip'[i] = f
            BY <1>1, <5>1, GwFrames
          <6>2. QED
            BY <6>1
      <4>2. FramesOf(to_chip, r) = {}
        BY <3>1 DEF FramesOf
      <4>3. \A f : out' = <<f>> => f = g
        BY <2>3
      <4>4. QED
        BY <4>1, <4>2, <4>3
    <3>3. SynFirst(r)'
      BY <1>1, <2>2, <3>1, <3>2 DEF SynFirst
    <3>4. /\ server[r] \in ServerType /\ server[r].next = 0 /\ ~server[r].heard
          /\ ~server[r].fin
      <4>1. server[r] \in ServerType /\ ServerOK(server[r])
        BY <2>6, TypesAre DEF RespOK
      <4>2. server[r].next = 0
        BY <3>1, <4>1 DEF ServerOK
      <4>3. QED
        BY <4>1, <4>2 DEF ServerOK
    <3>5. Mute(r)'
      <4>1. conn'[r].state = "SYN_SENT"
        BY <2>4 DEF NewConn
      <4>2. QED
        BY <1>1, <2>2, <3>2, <3>4, <4>1 DEF Mute
    <3>6. Covers(server[r], Len(conn[r].rx))'
      <4> SUFFICES ASSUME NEW o \in Nat, o < server[r].next - One(server[r].fin)
                   PROVE  FALSE
        BY <1>1 DEF Covers, One, Span
      <4>1. o < 0 - 0
        BY <3>4 DEF One
      <4>2. QED
        BY <4>1
    <3>7. QED
      BY <2>6, <3>3, <3>5, <3>6 DEF AckOK
  <2>7. QED
    BY <2>5, <2>6
<1>5. QED
  BY <1>1, <1>3, <1>4

(* The bridge goes.                                                          *)
LEMMA StopAcks ==
  ASSUME InTypes, InTypes', NEW d \in Requests, RespOK(d), RespOK(d)',
         AckOK(d), Emits(stop \/ shutdown)
  PROVE  AckOK(d)'
<1>1. /\ server' = server /\ to_chip' = to_chip \o out' /\ out' = <<>>
      /\ handler' = handler
  BY DEF Emits, stop, shutdown, Quiet
<1>2. AtData(d)' => AtData(d)
  BY <1>1 DEF AtData
<1>3. /\ conn'[d].state = conn[d].state /\ conn'[d].rx = conn[d].rx
      /\ conn'[d].chip_seq = conn[d].chip_seq
  BY StopLeaves DEF Emits
<1>4. conn[d].rx \in Seq(Nat)
  BY TypesAre DEF ConnType
<1>5. Len(conn[d].rx) <= Len(conn'[d].rx)
  BY <1>3, <1>4
<1>6. Synced(d) => Synced(d)'
  BY <1>1, <1>2, <1>3, SyncedKept
<1>7. QED
  BY <1>1, <1>3, <1>5, <1>6, GwAcks

(* The handler, after an await.                                              *)
LEMMA HandlerAcks ==
  ASSUME InTypes, InTypes', NEW d \in Requests, RespOK(d), RespOK(d)',
         AckOK(d), Emits(HandlerRuns)
  PROVE  AckOK(d)'
<1>1. server' = server /\ to_chip' = to_chip \o out' /\ HandlerRuns
  BY DEF Emits
<1>2. PICK r : r = handler.req
  OBVIOUS
<1>3. r \in Requests
  BY <1>1, <1>2, HandlerHas DEF HandlerRuns, Established, DataAcked, FinAcked,
     FinSent, HandlerAt
<1> DEFINE c == conn[r]
           e == conn'[r]
<1>4. c \in ConnType /\ conn \in [Requests -> ConnType] /\ e \in ConnType
      /\ c.rx \in Seq(Nat) /\ {"ACK"} \in SUBSET Flags
      /\ {"ACK", "FIN"} \in SUBSET Flags
  <2>1. c \in ConnType /\ conn \in [Requests -> ConnType]
    BY <1>3, TypesAre
  <2>2. e \in ConnType
    BY <1>3 DEF InTypes
  <2>3. QED
    BY <2>1, <2>2 DEF ConnType, Flags
<1>5. out' = <<>> \/ \E f \in FrameType :
        /\ out' = <<f>> /\ f.req = r /\ ~IsSyn(f) /\ f.len = 0
        /\ f.ack = e.chip_seq
  <2>1. CASE Quiet
    BY <2>1 DEF Quiet
  <2>2. CASE Emit(r, e, {"ACK"}) \/ Emit(r, e, {"ACK", "FIN"})
    BY <1>3, <1>4, <2>2, EmitAnswers, SMTT(30)
  <2>3. Quiet \/ Emit(r, e, {"ACK"}) \/ Emit(r, e, {"ACK", "FIN"})
    BY <1>1, <1>2 DEF HandlerRuns, Established, DataAcked, FinAcked, FinSent
  <2>4. QED
    BY <2>1, <2>2, <2>3
<1>6. handler'.req = r => handler'.pc # "data_acked"
  <2>1. CASE Established \/ FinSent
    <3>1. handler'.pc = "idle"
      BY <2>1 DEF Established, FinSent, Idle
    <3>2. QED
      BY <3>1
  <2>2. CASE DataAcked
    BY <2>2, TypesAre DEF DataAcked, Idle, HandlerType
  <2>3. CASE FinAcked
    BY <2>3, TypesAre DEF FinAcked, HandlerType
  <2>4. QED
    BY <1>1, <2>1, <2>2, <2>3 DEF HandlerRuns
<1>7. CASE d # r
  <2>1. conn'[d] = conn[d]
    BY <1>1, <1>2, <1>7, <1>4
       DEF HandlerRuns, Established, DataAcked, FinAcked, FinSent
  <2>2. handler'.req \in {r, None}
    BY <1>1, <1>2, TypesAre DEF HandlerRuns, Established, DataAcked, FinAcked,
       FinSent, Idle, HandlerType
  <2>3. ~AtData(d)'
    BY <1>7, <2>2, InboundAssumption DEF AtData
  <2>4. out' = <<>> \/ \E f \in FrameType : out' = <<f>> /\ f.req # d
    BY <1>5, <1>7
  <2>5. QED
    BY <1>1, <2>1, <2>3, <2>4, AsideAcks, SMTT(30)
<1>8. CASE d = r
  <2>1. e.rx = c.rx /\ e.state \in {c.state, "CLOSED"}
    BY <1>1, <1>3, HandlerLeaves
  <2>2. c.state # "SYN_SENT" /\ e.state # "SYN_SENT"
    BY <1>2, <1>8, <2>1 DEF RespOK, ConnOK
  <2>3. Len(c.rx) <= Len(e.rx)
    BY <1>4, <2>1
  <2>4. out' = <<>> \/ \E f \in FrameType : /\ out' = <<f>>
                                            /\ f.req = r => Answers(r, f)
    BY <1>5, <2>2 DEF Answers
  <2>5. ASSUME Synced(r)
        PROVE  Synced(r)'
    <3>1. CASE e.chip_seq = c.chip_seq
      BY <1>1, <1>3, <1>6, <2>1, <2>5, <3>1, SyncedKept DEF AtData
    <3>2. CASE e.chip_seq # c.chip_seq
      <4>1. DataAcked /\ handler.fin
        <5>1. CASE Established
          <6> DEFINE x == [c EXCEPT !.established = TRUE]
          <6>1. conn' = [conn EXCEPT ![r] = x]
            BY <1>2, <5>1 DEF Established
          <6>2. x.chip_seq = c.chip_seq
            BY <1>4 DEF ConnType
          <6> HIDE DEF x
          <6>3. QED
            BY <1>3, <1>4, <3>2, <6>1, <6>2
        <5>2. CASE FinSent
          <6> DEFINE n == seq_add(c.our_seq, 1)
                     x == [c EXCEPT !.our_seq = n, !.state = "CLOSED",
                                    !.finished = TRUE]
          <6>1. conn' = [conn EXCEPT ![r] = x]
            BY <1>2, <5>2 DEF FinSent
          <6> HIDE DEF n
          <6>2. x.chip_seq = c.chip_seq
            BY <1>4 DEF ConnType
          <6> HIDE DEF x
          <6>3. QED
            BY <1>3, <1>4, <3>2, <6>1, <6>2
        <5>3. CASE FinAcked
          BY <3>2, <5>3 DEF FinAcked
        <5>4. CASE DataAcked /\ ~handler.fin
          <6> DEFINE x == [c EXCEPT !.data_event = TRUE]
          <6>1. conn' = [conn EXCEPT ![r] = x]
            BY <1>2, <5>4 DEF DataAcked, Told
          <6>2. x.chip_seq = c.chip_seq
            BY <1>4 DEF ConnType
          <6> HIDE DEF x
          <6>3. QED
            BY <1>3, <1>4, <3>2, <6>1, <6>2
        <5>5. QED
          BY <1>1, <5>1, <5>2, <5>3, <5>4 DEF HandlerRuns
      <4>2. e.chip_seq = seq_add(c.chip_seq, 1)
        <5> DEFINE n == seq_add(c.chip_seq, 1)
                   y == [c EXCEPT !.data_event = TRUE, !.chip_seq = n]
        <5>1. conn' = [conn EXCEPT ![r] = y]
          <6> DEFINE x == [c EXCEPT !.data_event = Told]
          <6>1. x.chip_seq = c.chip_seq
            BY <1>4 DEF ConnType
          <6>2. conn' = [conn EXCEPT ![r] = [x EXCEPT !.chip_seq =
                           seq_add(x.chip_seq, FinSpan)]]
            BY <1>2, <4>1 DEF DataAcked
          <6>3. QED
            BY <6>1, <6>2 DEF FinSpan, Told
        <5> HIDE DEF n
        <5>2. y.chip_seq = n
          BY <1>4 DEF ConnType
        <5> HIDE DEF y
        <5>3. QED
          BY <1>3, <1>4, <5>1, <5>2 DEF n
      <4>3. AtData(r) /\ FinTaken(r)
        BY <1>2, <4>1 DEF DataAcked, HandlerAt, AtData, FinTaken
      <4> DEFINE v == server[r]
                 l == Len(c.rx)
                 n == v.next
      <4>4. v.fin /\ l = n - 2 /\ l \in Nat /\ n \in Nat
        <5>1. v.fin /\ l = n - 2
          BY <1>8, <4>3 DEF RespOK, ConnOK
        <5>2. v \in ServerType
          BY <1>3, TypesAre
        <5>3. QED
          BY <1>4, <5>1, <5>2 DEF ServerType
      <4>5. PICK k \in 0 .. n : c.chip_seq = SeqAt(k) /\ k <= l + 1
        BY <2>5, <4>3 DEF Synced, SyncedTo
      <4>6. e.chip_seq = SeqAt(k + 1) /\ k + 1 \in 0 .. n
        <5>1. k \in Int /\ 1 \in Int
          BY <4>4, <4>5
        <5>2. seq_add(SeqAt(k), 1) = SeqAt(k + 1)
          BY <5>1, SeqAtMoves
        <5>3. e.chip_seq = SeqAt(k + 1)
          BY <4>2, <4>5, <5>2
        <5> HIDE DEF l, n, e
        <5>4. k + 1 \in 0 .. n
          BY <4>4, <4>5, <5>1
        <5>5. QED
          BY <5>3, <5>4
      <4> DEFINE m == Len(e.rx)
                 x == e.chip_seq
      <4>7. AllIn(v, m) /\ ~AtData(r)'
        BY <1>6, <2>1, <4>4 DEF AllIn, AtData
      <4>8. Synced(r)' <=> SyncedTo(v, m, x, AtData(r)')
        BY <1>1 DEF Synced
      <4>9. SyncedTo(v, m, x, AtData(r)')
        <5> HIDE DEF m, x
        <5>1. x = SeqAt(k + 1)
          BY <4>6 DEF x
        <5>2. QED
          BY <4>6, <4>7, <5>1 DEF SyncedTo
      <4>10. QED
        BY <4>8, <4>9
    <3>3. QED
      BY <3>1, <3>2
  <2>6. QED
    BY <1>1, <1>8, <2>1, <2>2, <2>3, <2>4, <2>5, GwAcks
<1>9. QED
  BY <1>7, <1>8

(* The gateway takes a segment of r.                                         *)
LEMMA DeliverAcks ==
  ASSUME InTypes, InTypes', NEW e, NEW r, GwTakes(e, r), RespOK(r),
         RespOK(r)', AckOK(r), to_chip' = to_chip \o out',
         deliver_packet_out(r, e.seg)
  PROVE  AckOK(r)'
<1> DEFINE s == e.seg
           c == conn[r]
           x == conn'[r]
<1>1. /\ e \in Queued /\ r \in Requests /\ s.data \in Seq(Nat)
      /\ s.seq \in SeqNums /\ s.ack \in SeqNums /\ server' = server
  BY HeadIs DEF GwTakes, SegType
<1>2. /\ c \in ConnType /\ conn \in [Requests -> ConnType] /\ x \in ConnType
      /\ c.rx \in Seq(Nat) /\ x.rx \in Seq(Nat) /\ {"ACK"} \in SUBSET Flags
  <2>1. c \in ConnType /\ conn \in [Requests -> ConnType]
    BY <1>1, TypesAre
  <2>2. x \in ConnType
    BY <1>1 DEF InTypes
  <2>3. QED
    BY <2>1, <2>2 DEF ConnType, Flags
<1>3. ASSUME Quiet \/ (Emit(r, x, {"ACK"}) /\ x.state # "SYN_SENT")
      PROVE  out' = <<>> \/ \E f \in FrameType : /\ out' = <<f>>
                                                 /\ f.req = r => Answers(r, f)
  <2>1. CASE Quiet
    BY <2>1 DEF Quiet
  <2>2. CASE Emit(r, x, {"ACK"}) /\ x.state # "SYN_SENT"
    <3>1. out' = <<>> \/ \E f \in FrameType :
            /\ out' = <<f>> /\ f.req = r /\ ~IsSyn(f) /\ f.len = 0
            /\ f.ack = x.chip_seq /\ f.flags = {"ACK"}
      <4> DEFINE flags == {"ACK"}
      <4>1. flags \in SUBSET Flags /\ "ACK" \in flags
        BY <1>2
      <4>2. Emit(r, x, flags)
        BY <2>2
      <4>3. flags = {"ACK"}
        OBVIOUS
      <4> HIDE DEF flags
      <4>4. out' = <<>> \/ \E f \in FrameType :
              /\ out' = <<f>> /\ f.req = r /\ ~IsSyn(f) /\ f.len = 0
              /\ f.ack = x.chip_seq /\ f.flags = flags
        <5>1. x \in ConnType /\ r \in Requests
          BY <1>1, <1>2
        <5> HIDE DEF x
        <5>2. QED
          BY <4>1, <4>2, <5>1, EmitAnswers
      <4>5. QED
        BY <4>3, <4>4
    <3>2. QED
      BY <2>2, <3>1 DEF Answers
  <2>3. QED
    BY <1>3, <2>1, <2>2
<1>4. ASSUME x.rx = c.rx, x.chip_seq = c.chip_seq, handler' = handler,
             x.state \in {c.state, "CLOSED"},
             out' = <<>> \/ \E f \in FrameType : /\ out' = <<f>>
                                                 /\ f.req = r => Answers(r, f)
      PROVE  AckOK(r)'
  <2>1. Len(c.rx) <= Len(x.rx)
    BY <1>2, <1>4
  <2>2. Synced(r) => Synced(r)'
    BY <1>1, <1>4, SyncedKept DEF AtData
  <2>3. /\ x.state = "SYN_SENT" => c.state = "SYN_SENT"
        /\ x.state = "ESTABLISHED" => c.state # "CLOSED"
    BY <1>4
  <2>4. QED
    BY <1>1, <1>4, <2>1, <2>2, <2>3, GwAcks
<1>5. ASSUME Len(c.rx) <= Len(x.rx), x.state = "ESTABLISHED",
             c.state # "CLOSED", Quiet \/ Emit(r, x, {"ACK"})
      PROVE  AckOK(r)'
  <2>1. x.state # "SYN_SENT"
    BY <1>5
  <2>2. out' = <<>> \/ \E f \in FrameType : /\ out' = <<f>>
                                            /\ f.req = r => Answers(r, f)
    BY <1>3, <1>5, <2>1
  <2>3. QED
    BY <1>1, <1>5, <2>2, GwAcks
<1>6. CASE Stray(r, s)
  <2>1. conn' = conn /\ handler' = handler
    BY <1>6 DEF Stray
  <2> DEFINE n == IF "SYN" \in s.flags THEN 1 ELSE Len(s.data)
             y == seq_add(s.seq, n)
             f == Frame(r, {"RST", "ACK"}, s.ack, y, 0)
  <2>2. out' = <<>> \/ out' = <<f>>
    BY <1>6 DEF Stray, Quiet, Inject
  <2>3. f \in FrameType /\ Answers(r, f)
    <3>1. n \in Int
      <4>1. Len(s.data) \in Int
        BY <1>1
      <4>2. QED
        BY <4>1
    <3> HIDE DEF n
    <3>2. y \in SeqNums /\ {"RST", "ACK"} \in SUBSET Flags /\ 0 \in Nat
      BY <1>1, <3>1, SeqAddTyped, SeqNumsAreInts DEF Flags
    <3> HIDE DEF y
    <3>3. f \in FrameType
      BY <1>1, <3>2, FrameTyped
    <3>4. f.flags = {"RST", "ACK"} /\ f.len = 0
      BY DEF Frame
    <3> HIDE DEF f
    <3>5. IsRst(f) /\ ~IsSyn(f)
      BY <3>4 DEF IsRst, IsSyn
    <3>6. QED
      BY <3>3, <3>4, <3>5 DEF Answers
  <2> HIDE DEF f
  <2>4. QED
    BY <1>4, <2>1, <2>2, <2>3
<1>7. CASE bridge # "running" /\ Quiet /\ UNCHANGED <<conn, handler>>
  BY <1>4, <1>7 DEF Quiet
<1>8. CASE ChipRst(r, s)
  <2> DEFINE z == [c EXCEPT !.reset = TRUE, !.state = "CLOSED",
                            !.established = TRUE, !.finished = TRUE]
  <2>1. z.rx = c.rx /\ z.chip_seq = c.chip_seq /\ z.state = "CLOSED"
    BY <1>2 DEF ConnType
  <2>2. conn' = [conn EXCEPT ![r] = z] /\ handler' = handler /\ out' = <<>>
    BY <1>8 DEF ChipRst, Quiet
  <2> HIDE DEF z
  <2>3. x = z
    BY <1>1, <1>2, <2>2
  <2>4. QED
    BY <1>4, <2>1, <2>2, <2>3
<1>9. CASE SynAcked(r, s)
  <2>1. CASE {"SYN", "ACK"} \subseteq s.flags
    <3> DEFINE y == seq_add(s.seq, 1)
               z == [c EXCEPT !.chip_seq = y, !.state = "ESTABLISHED"]
    <3>1. /\ conn' = [conn EXCEPT ![r] = z] /\ Emit(r, x, {"ACK"})
          /\ c.state = "SYN_SENT"
      BY <1>9, <2>1 DEF SynAcked
    <3> HIDE DEF y
    <3>2. z.rx = c.rx /\ z.state = "ESTABLISHED"
      BY <1>2 DEF ConnType
    <3> HIDE DEF z
    <3>3. x = z
      BY <1>1, <1>2, <3>1
    <3>4. Len(c.rx) <= Len(x.rx)
      BY <1>2, <3>2, <3>3
    <3>5. QED
      BY <1>5, <3>1, <3>2, <3>3, <3>4
  <2>2. CASE ~({"SYN", "ACK"} \subseteq s.flags)
    <3>1. Quiet /\ conn' = conn /\ handler' = handler
      BY <1>9, <2>2 DEF SynAcked
    <3>2. QED
      BY <1>4, <3>1 DEF Quiet
  <2>3. QED
    BY <2>1, <2>2
<1>10. CASE TimeWait(r, s)
  <2>1. conn' = conn /\ handler' = handler /\ c.state = "CLOSED"
        /\ (Quiet \/ Emit(r, c, {"ACK"}))
    BY <1>10 DEF TimeWait, Emit, AcksCollected
  <2>2. out' = <<>> \/ \E f \in FrameType : /\ out' = <<f>>
                                            /\ f.req = r => Answers(r, f)
    BY <1>3, <2>1
  <2>3. QED
    BY <1>4, <2>1, <2>2
<1>11. CASE Collects(r, s)
  <2>1. c.state = "ESTABLISHED"
    BY <1>11 DEF Collects
  <2>2. CASE conn' = conn /\ (Quiet \/ Emit(r, c, {"ACK"}))
    <3>1. Len(c.rx) <= Len(x.rx)
      BY <1>2, <2>2
    <3>2. QED
      BY <1>5, <2>1, <2>2, <3>1
  <2>3. CASE /\ s.data # <<>> /\ InOrder(r, s) /\ Emit(r, x, {"ACK"})
             /\ conn' = [conn EXCEPT ![r].rx = @ \o s.data,
                           ![r].chip_seq = seq_add(@, Len(s.data))]
    <3> DEFINE q == c.rx \o s.data
               y == seq_add(c.chip_seq, Len(s.data))
               z == [c EXCEPT !.rx = q, !.chip_seq = y]
    <3>1. conn' = [conn EXCEPT ![r] = z]
      BY <2>3
    <3>2. Len(c.rx) <= Len(q)
      <4> DEFINE g == c.rx
                 h == s.data
      <4>1. g \in Seq(Nat) /\ h \in Seq(Nat)
        BY <1>1, <1>2
      <4> HIDE DEF g, h
      <4>2. Len(g) <= Len(g \o h)
        BY <4>1
      <4>3. QED
        BY <4>2 DEF g, h
    <3> HIDE DEF q, y
    <3>3. z.rx = q /\ z.state = "ESTABLISHED"
      BY <1>2, <2>1 DEF ConnType
    <3> HIDE DEF z
    <3>4. x = z
      BY <1>1, <1>2, <3>1
    <3>5. QED
      BY <1>5, <2>1, <2>3, <3>2, <3>3, <3>4
  <2>4. CASE /\ Emit(r, x, {"ACK"})
             /\ conn' = [conn EXCEPT ![r].chip_seq = seq_add(@, FinSpan)]
    <3> DEFINE y == seq_add(c.chip_seq, FinSpan)
               z == [c EXCEPT !.chip_seq = y]
    <3>1. conn' = [conn EXCEPT ![r] = z]
      BY <2>4
    <3> HIDE DEF y
    <3>2. z.rx = c.rx /\ z.state = "ESTABLISHED"
      BY <1>2, <2>1 DEF ConnType
    <3> HIDE DEF z
    <3>3. x = z
      BY <1>1, <1>2, <3>1
    <3>4. Len(c.rx) <= Len(x.rx)
      BY <1>2, <3>2, <3>3
    <3>5. QED
      BY <1>5, <2>1, <2>4, <3>2, <3>3, <3>4
  <2>5. QED
    BY <1>11, <2>2, <2>3, <2>4 DEF Collects, AcksFin
<1>12. QED
  BY <1>6, <1>7, <1>8, <1>9, <1>10, <1>11 DEF deliver_packet_out

(* The gateway takes a segment, of d or not.                                 *)
LEMMA ReceiveAcks ==
  ASSUME InTypes, InTypes', \A d \in Requests : RespOK(d),
         \A d \in Requests : RespOK(d)', GwReceives, NEW d \in Requests,
         AckOK(d)
  PROVE  AckOK(d)'
<1>1. PICK e, r : e = Head(to_gw) /\ r = e.req
  OBVIOUS
<1>2. /\ to_gw # <<>> /\ to_gw' = Tail(to_gw) /\ to_chip' = to_chip \o out'
      /\ server' = server /\ deliver_packet_out(r, e.seg)
  BY <1>1 DEF GwReceives
<1>3. e \in Queued /\ r \in Requests
  BY <1>1, <1>2, PartsTail, TypesAre DEF Queued
<1>4. GwTakes(e, r)
  BY <1>1, <1>2 DEF GwTakes, deliver_packet_out, HandlerAt
<1>5. /\ out' = <<>> \/ \E f \in FrameType : out' = <<f>> /\ f.req = r
      /\ \A b \in Requests \ {r} : conn'[b] = conn[b]
      /\ handler' = handler \/ (handler.req = None /\ handler'.req = r)
  BY <1>1, <1>2, DeliverEmits
<1>6. CASE d # r
  <2>1. AtData(d)' => AtData(d)
    BY <1>5, <1>6 DEF AtData
  <2>2. out' = <<>> \/ \E f \in FrameType : out' = <<f>> /\ f.req # d
    BY <1>5, <1>6
  <2>3. conn'[d] = conn[d]
    BY <1>5, <1>6
  <2>4. QED
    BY <1>2, <2>1, <2>2, <2>3, AsideAcks
<1>7. CASE d = r
  BY <1>2, <1>4, <1>7, DeliverAcks
<1>8. QED
  BY <1>6, <1>7

(* The queue to the chip stays, or its oldest frame, which is no longer r's, *)
(* leaves it.                                                                *)
Shifts(q, z, k) ==
    \/ k = 0 /\ z = q
    \/ k = 1 /\ q # <<>> /\ z = Tail(q)

(* Where its frames were.                                                    *)
LEMMA ShiftFrames ==
  ASSUME NEW q \in Seq(FrameType), NEW z, NEW k, Shifts(q, z, k), NEW r
  PROVE  /\ k \in Nat
         /\ \A i \in FramesOf(z, r) :
              /\ i \in Nat /\ i + k \in FramesOf(q, r) /\ z[i] = q[i + k]
              /\ k = 1 => i + k # 1
<1>1. CASE k = 0 /\ z = q
  <2>1. \A i \in DOMAIN q : i \in Nat /\ i + 0 = i
    OBVIOUS
  <2>2. \A i \in FramesOf(q, r) : i \in DOMAIN q
    BY DEF FramesOf
  <2>3. QED
    BY <1>1, <2>1, <2>2
<1>2. CASE k = 1 /\ q # <<>> /\ z = Tail(q)
  <2>1. \A i \in FramesOf(Tail(q), r) :
          i \in Nat /\ i >= 1 /\ i + 1 \in FramesOf(q, r)
          /\ Tail(q)[i] = q[i + 1]
    BY <1>2, TailFrames
  <2>2. \A i \in Nat : i >= 1 => i + 1 # 1
    OBVIOUS
  <2>3. QED
    BY <1>2, <2>1, <2>2
<1>3. QED
  BY <1>1, <1>2 DEF Shifts

(* What was counted still is when the server has sent more.                  *)
LEMMA CountsGrows ==
  ASSUME NEW v \in ServerType, NEW w \in ServerType, Grows(v, w), NEW l
  PROVE  /\ AllIn(v, l) => AllIn(w, l)
         /\ \A x : Counts(v, l, x) => Counts(w, l, x)
         /\ \A x, h : SyncedTo(v, l, x, h) => SyncedTo(w, l, x, h)
<1>1. v.next \in Nat /\ w.next \in Nat /\ v.next <= w.next
  BY DEF ServerType, Grows
<1>2. \A k \in 0 .. v.next : k \in 0 .. w.next
  BY <1>1
<1>3. AllIn(v, l) => AllIn(w, l)
  BY DEF AllIn, Grows
<1>4. \A x : Counts(v, l, x) => Counts(w, l, x)
  BY <1>2, <1>3 DEF Counts
<1>5. \A x, h : SyncedTo(v, l, x, h) => SyncedTo(w, l, x, h)
  BY <1>2, <1>3 DEF SyncedTo
<1>6. QED
  BY <1>3, <1>4, <1>5

(* A step of the chip leaves the server's end of r at w.                     *)
LEMMA ChipAcks ==
  ASSUME NEW r \in Requests, AckOK(r), conn' = conn, handler' = handler,
         server[r] \in ServerType, NEW w \in ServerType, server'[r] = w,
         Grows(server[r], w), to_chip \in Seq(FrameType),
         NEW k, Shifts(to_chip, to_chip', k),
         \/ w.st = server[r].st \/ server[r].st # "listen"
         \/ \A i \in FramesOf(to_chip', r) : ~IsSyn(to_chip'[i]),
         Mute(r) => ~w.heard,
         Covers(w, Len(conn[r].rx))
  PROVE  AckOK(r)'
<1> DEFINE v == server[r]
           l == Len(conn[r].rx)
<1>1. /\ k \in Nat
      /\ \A i \in FramesOf(to_chip', r) :
           /\ i \in Nat /\ i + k \in FramesOf(to_chip, r)
           /\ to_chip'[i] = to_chip[i + k]
  <2>1. PICK z : z = to_chip'
    OBVIOUS
  <2>2. /\ k \in Nat
        /\ \A i \in FramesOf(z, r) :
             /\ i \in Nat /\ i + k \in FramesOf(to_chip, r)
             /\ z[i] = to_chip[i + k]
    BY <2>1, ShiftFrames
  <2>3. QED
    BY <2>1, <2>2
<1>2. SynFirst(r)'
  <2>1. \A i, j \in FramesOf(to_chip', r) :
          IsSyn(to_chip'[i]) /\ IsSyn(to_chip'[j]) => i = j
    <3>1. SUFFICES ASSUME NEW i \in FramesOf(to_chip', r),
                          NEW j \in FramesOf(to_chip', r),
                          IsSyn(to_chip'[i]), IsSyn(to_chip'[j])
                   PROVE  i = j
      OBVIOUS
    <3>2. i + k = j + k
      BY <1>1, <3>1 DEF AckOK, SynFirst
    <3>3. i \in Nat /\ j \in Nat /\ k \in Nat
      BY <1>1
    <3>4. QED
      BY <3>2, <3>3
  <2>2. \A i \in FramesOf(to_chip', r) :
          IsSyn(to_chip'[i]) => server'[r].st = "listen"
    <3>1. \A i \in FramesOf(to_chip', r) :
            IsSyn(to_chip'[i]) => v.st = "listen"
      BY <1>1 DEF AckOK, SynFirst
    <3>2. QED
      BY <3>1
  <2>3. conn'[r].state = "SYN_SENT" =>
          \A i \in FramesOf(to_chip', r) :
            IsSyn(to_chip'[i]) \/ IsRst(to_chip'[i])
    BY <1>1 DEF AckOK, SynFirst
  <2>4. QED
    BY <2>1, <2>2, <2>3 DEF SynFirst
<1>3. Mute(r) => Mute(r)'
  <2> SUFFICES ASSUME Mute(r)
               PROVE  Mute(r)'
    OBVIOUS
  <2>1. \A i \in FramesOf(to_chip', r) : to_chip'[i].len = 0
    BY <1>1 DEF Mute
  <2>2. QED
    BY <2>1 DEF Mute
<1>4. /\ \A x : Counts(v, l, x) => Counts(w, l, x)
      /\ \A x, h : SyncedTo(v, l, x, h) => SyncedTo(w, l, x, h)
  BY CountsGrows
<1>5. Counted(r) => Counted(r)'
  <2> SUFFICES ASSUME Counted(r)
               PROVE  Counted(r)'
    OBVIOUS
  <2>1. Synced(r)'
    <3> DEFINE x == conn[r].chip_seq
               h == AtData(r)
    <3>1. SyncedTo(v, l, x, h)
      BY DEF Counted, Synced
    <3>2. Synced(r)' <=> SyncedTo(w, l, x, h)
      BY DEF Synced, AtData
    <3> HIDE DEF v, l, x, h
    <3>3. QED
      BY <1>4, <3>1, <3>2
  <2>2. ASSUME NEW i \in FramesOf(to_chip', r)
        PROVE  \/ IsSyn(to_chip'[i]) \/ IsRst(to_chip'[i])
               \/ Counts(w, l, to_chip'[i].ack)
    <3> DEFINE f == to_chip[i + k]
    <3>1. to_chip'[i] = f /\ i + k \in FramesOf(to_chip, r)
      BY <1>1
    <3>2. IsSyn(f) \/ IsRst(f) \/ Counts(v, l, f.ack)
      BY <3>1 DEF Counted
    <3> HIDE DEF v, l, f
    <3>3. QED
      BY <1>4, <3>1, <3>2
  <2>3. QED
    BY <2>1, <2>2 DEF Counted
<1>6. Covers(server[r], Len(conn[r].rx))'
  <2> SUFFICES ASSUME NEW o \in Nat, l < o, o < w.next - One(w.fin)
               PROVE  \E p \in w.unacked : p.off <= o /\ o < p.off + Span(p)
    BY DEF Covers, One, Span
  <2>1. QED
    BY DEF Covers
<1>7. QED
  BY <1>2, <1>3, <1>5, <1>6 DEF AckOK

(* What the server's end still covers when nothing of it is acknowledged.    *)
LEMMA CoversKept ==
  ASSUME NEW v, NEW w, NEW l, Covers(v, l), w.next = v.next, w.fin = v.fin,
         w.unacked = v.unacked
  PROVE  Covers(w, l)
BY DEF Covers

(* And when it sends p next.                                                 *)
LEMMA CoversSent ==
  ASSUME NEW v \in ServerType, NEW w \in ServerType, NEW l, Covers(v, l),
         NEW p \in PartType, p.off = v.next, w.next = v.next + Span(p),
         w.unacked = v.unacked \cup {p}, ~v.fin
  PROVE  Covers(w, l)
<1> SUFFICES ASSUME NEW o \in Nat, l < o, o < w.next - One(w.fin)
             PROVE  \E q \in w.unacked : q.off <= o /\ o < q.off + Span(q)
  BY DEF Covers
<1>1. v.next \in Nat /\ w.next \in Nat /\ One(w.fin) \in Nat
      /\ v.next - One(v.fin) = v.next
  BY DEF ServerType, One
<1>2. CASE o < v.next
  BY <1>1, <1>2 DEF Covers
<1>3. CASE ~(o < v.next)
  <2>1. o < w.next
    <3> DEFINE a == One(w.fin)
    <3>1. a \in Nat /\ o < w.next - a
      BY <1>1
    <3> HIDE DEF a
    <3>2. QED
      BY <1>1, <3>1
  <2>2. p.off <= o
    BY <1>1, <1>3
  <2>3. o < p.off + Span(p)
    BY <2>1
  <2>4. QED
    BY <2>2, <2>3
<1>4. QED
  BY <1>2, <1>3

(* And when an acknowledgement that has been counted arrives.                *)
LEMMA CoversTaken ==
  ASSUME NEW v \in ServerType, ServerOK(v), NEW w, NEW f, NEW l \in Nat,
         Covers(v, l), w.next = v.next, w.fin = v.fin,
         w.unacked = StillUnacked(v, f),
         v.next <= 1 \/ Counts(v, l, f.ack)
  PROVE  Covers(w, l)
<1> DEFINE n == v.next
<1>1. n \in Nat /\ n \in 0 .. SeqMod - 1 /\ v.fin \in BOOLEAN
      /\ v.unacked \subseteq PartType
  BY NextBound DEF ServerType
<1>2. SUFFICES ASSUME NEW o \in Nat, l < o, o < n - One(v.fin)
               PROVE  \E p \in w.unacked : p.off <= o /\ o < p.off + Span(p)
  BY DEF Covers
<1>3. o < n
  <2> DEFINE a == One(v.fin)
  <2>1. a \in Nat /\ o < n - a
    BY <1>2 DEF One
  <2> HIDE DEF a, n
  <2>2. QED
    BY <1>1, <2>1
<1>4. PICK p \in v.unacked : p.off <= o /\ o < p.off + Span(p)
  BY <1>2 DEF Covers
<1>5. Counts(v, l, f.ack)
  <2>1. CASE n <= 1
    <3> HIDE DEF n
    <3>1. FALSE
      BY <1>1, <1>2, <1>3, <2>1
    <3>2. QED
      BY <3>1
  <2>2. QED
    BY <2>1
<1>6. ~AllIn(v, l)
  <2> SUFFICES ASSUME v.fin, l = n - 2
               PROVE  FALSE
    BY DEF AllIn
  <2>1. o < n - 1
    BY <1>2 DEF One
  <2> HIDE DEF n
  <2>2. QED
    BY <1>1, <1>2, <2>1
<1>7. PICK k \in 0 .. n : f.ack = SeqAt(k) /\ k <= l + 1
  BY <1>5, <1>6 DEF Counts
<1>8. p \in w.unacked
  <2> SUFFICES ASSUME NEW b \in p.off + Span(p) .. n, f.ack = SeqAt(b)
               PROVE  FALSE
    BY <1>4 DEF StillUnacked
  <2> DEFINE a == p.off + Span(p)
  <2>1. a \in Nat /\ o < a /\ b \in a .. n
    <3>1. p \in PartType
      BY <1>1, <1>4
    <3>2. p.off \in Nat /\ Span(p) \in Nat
      BY <3>1, SpanTyped DEF PartType
    <3>3. QED
      BY <1>4, <3>2
  <2> HIDE DEF a, n
  <2>2. b \in 0 .. SeqMod - 1 /\ k \in 0 .. SeqMod - 1
    BY <1>1, <1>7, <2>1, SeqModAssumption
  <2>3. b = k
    BY <1>7, <2>2, SeqAtInjective
  <2>4. QED
    BY <1>1, <1>2, <1>7, <2>1, <2>3
<1>9. QED
  BY <1>4, <1>8

(* The server sends p next, and keeps it.                                    *)
LEMMA SendAcks ==
  ASSUME InTypes, NEW r \in Requests, NEW v \in ServerType, ~v.fin,
         v.next = server[r].next, v.unacked = server[r].unacked,
         server[r].fin = v.fin, NEW flags \in SUBSET Flags,
         NEW data \in Seq(Nat), Send(r, v, flags, data),
         NEW l, Covers(server[r], l)
  PROVE  \E w : /\ server' = [server EXCEPT ![r] = w] /\ w.st = v.st
                /\ w.heard = v.heard /\ Covers(w, l)
<1> DEFINE p == Part(v.next, flags, data)
           n == v.next + Span(p)
           u == v.unacked \cup {p}
           b == "FIN" \in flags
           w == [v EXCEPT !.next = n, !.unacked = u, !.fin = b]
<1>1. server' = [server EXCEPT ![r] = w]
  BY DEF Send
<1>2. p \in PartType /\ p.off = v.next /\ v.next \in Nat
  BY PartTyped DEF ServerType
<1>3. n \in Nat
  <2>1. Span(p) \in Nat
    BY <1>2, SpanTyped DEF PartType
  <2> DEFINE a == Span(p)
  <2> HIDE DEF a
  <2>2. QED
    BY <1>2, <2>1 DEF a
<1>4. u \in SUBSET PartType /\ b \in BOOLEAN
  BY <1>2 DEF ServerType
<1>5. Covers(v, l)
  BY DEF Covers
<1> DEFINE m == n
<1>6. m = v.next + Span(p) /\ u = v.unacked \cup {p}
  OBVIOUS
<1> HIDE DEF p, n, u, b
<1>7. /\ w \in ServerType /\ w.st = v.st /\ w.heard = v.heard /\ w.next = n
      /\ w.unacked = u
  BY <1>3, <1>4 DEF ServerType
<1> HIDE DEF w
<1>8. Covers(w, l)
  BY <1>2, <1>5, <1>6, <1>7, CoversSent
<1>9. QED
  BY <1>1, <1>7, <1>8

(* The server acts by itself.                                                *)
LEMMA ServerActsAcks ==
  ASSUME InTypes, NEW r \in Requests, RespOK(r),
         \/ ServerSends(r) \/ ServerFinishes(r)
         \/ ServerRetransmits(r) \/ ServerAborts(r),
         NEW l, Covers(server[r], l)
  PROVE  \E w : /\ server' = [server EXCEPT ![r] = w]
                /\ w.heard = server[r].heard /\ server[r].st # "listen"
                /\ Covers(w, l)
<1> DEFINE v == server[r]
<1>1. /\ v \in ServerType /\ v.response \in Seq(Nat) /\ v.st = "open"
      /\ v.next \in Nat
  <2>1. v \in ServerType /\ v.st = "open"
    BY TypesAre DEF ServerSends, ServerFinishes, ServerRetransmits,
       ServerAborts, CanSend
  <2>2. QED
    BY <2>1 DEF ServerType
<1>2. /\ {"ACK"} \in SUBSET Flags /\ {"ACK", "FIN"} \in SUBSET Flags
  BY DEF Flags
<1>3. CASE ServerSends(r)
  <2>1. PICK n \in Sizes, flags \in {{"ACK"}, {"ACK", "FIN"}} :
          /\ n <= Remaining(r)
          /\ Send(r, v, flags, SubSeq(v.response, v.next, v.next + n - 1))
    BY <1>3 DEF ServerSends
  <2> DEFINE x == v.response
             a == v.next
             b == v.next + n - 1
             data == SubSeq(x, a, b)
  <2>2. /\ n \in Nat /\ n >= 1 /\ b <= Len(x) /\ a \in Int /\ b \in Int
        /\ a >= 1 /\ x \in Seq(Nat)
    <3>1. v.next >= 1
      BY <1>1 DEF RespOK, ServerOK
    <3>2. n \in Nat /\ n >= 1
      BY InboundTunnelAssumption
    <3>3. Len(v.response) \in Nat
      BY <1>1
    <3>4. QED
      BY <1>1, <2>1, <3>1, <3>2, <3>3 DEF Remaining
  <2>3. Send(r, v, flags, data)
    BY <2>1
  <2> HIDE DEF x, a, b
  <2>4. data \in Seq(Nat)
    BY <2>2
  <2>5. ~v.fin
    BY <1>3 DEF ServerSends, CanSend
  <2>6. flags \in SUBSET Flags
    BY <1>2
  <2> HIDE DEF data
  <2>7. QED
    BY <1>1, <2>3, <2>4, <2>5, <2>6, SendAcks
<1>4. CASE ServerFinishes(r)
  <2>1. Send(r, v, {"ACK", "FIN"}, <<>>) /\ ~v.fin /\ <<>> \in Seq(Nat)
    BY <1>4 DEF ServerFinishes, CanSend
  <2>2. QED
    BY <1>1, <1>2, <2>1, SendAcks
<1>5. CASE ServerRetransmits(r)
  <2> DEFINE w == [v EXCEPT !.retransmits = @ + 1]
  <2>1. server' = [server EXCEPT ![r] = w]
    BY <1>5 DEF ServerRetransmits
  <2>2. /\ w.heard = v.heard /\ w.next = v.next /\ w.fin = v.fin
        /\ w.unacked = v.unacked
    BY <1>1 DEF ServerType
  <2> HIDE DEF w
  <2>3. Covers(w, l)
    BY <2>2, CoversKept
  <2>4. QED
    BY <1>1, <2>1, <2>2, <2>3
<1>6. CASE ServerAborts(r)
  <2> DEFINE w == [v EXCEPT !.st = "gone"]
  <2>1. server' = [server EXCEPT ![r] = w]
    BY <1>6 DEF ServerAborts
  <2>2. /\ w.heard = v.heard /\ w.next = v.next /\ w.fin = v.fin
        /\ w.unacked = v.unacked
    BY <1>1 DEF ServerType
  <2> HIDE DEF w
  <2>3. Covers(w, l)
    BY <2>2, CoversKept
  <2>4. QED
    BY <1>1, <2>1, <2>2, <2>3
<1>7. QED
  BY <1>3, <1>4, <1>5, <1>6

(* The server takes a frame of r.                                            *)
LEMMA TakesAcks ==
  ASSUME InTypes, NEW r \in Requests, RespOK(r), AckOK(r), to_chip # <<>>,
         NEW f, f = Head(to_chip), f.req = r,
         Listens(r, f) \/ IsReset(r, f) \/ Takes(r, f) \/ Refuses(r, f)
  PROVE  \E w : /\ server' = [server EXCEPT ![r] = w]
                /\ Mute(r) => ~w.heard
                /\ Covers(w, Len(conn[r].rx))
                /\ server[r].st = "listen" => IsSyn(f)
<1> DEFINE v == server[r]
           l == Len(conn[r].rx)
<1>1. /\ v \in ServerType /\ ServerOK(v) /\ v.next \in Nat
      /\ server = [server EXCEPT ![r] = v] /\ Covers(v, l)
      /\ f \in FrameType /\ f = to_chip[1] /\ 1 \in FramesOf(to_chip, r)
      /\ l \in Nat
  <2>1. /\ v \in ServerType /\ server = [server EXCEPT ![r] = v]
        /\ to_chip \in Seq(FrameType) /\ conn[r].rx \in Seq(Nat)
    BY TypesAre DEF ConnType
  <2>2. f \in FrameType /\ f = to_chip[1] /\ 1 \in DOMAIN to_chip
    BY <2>1, TailFrames
  <2>3. l \in Nat
    BY <2>1
  <2>4. QED
    BY <2>1, <2>2, <2>3 DEF RespOK, AckOK, ServerType, FramesOf
<1>2. CASE Listens(r, f)
  <2> DEFINE x == [v EXCEPT !.st = "open", !.their_isn = f.seq]
             w == [v EXCEPT !.st = "gone"]
  <2>1. \/ Send(r, x, {"SYN", "ACK"}, <<>>)
        \/ server' = [server EXCEPT ![r] = w]
    BY <1>2 DEF Listens
  <2>2. IsSyn(f) /\ v.st = "listen"
    BY <1>2 DEF Listens, IsSyn
  <2>3. ~v.fin
    <3>1. v.next = 0
      BY <1>1, <2>2 DEF ServerOK
    <3>2. ~(v.next >= 2)
      BY <3>1
    <3>3. QED
      BY <1>1, <3>2 DEF ServerOK
  <2>4. f.seq \in SeqNums
    BY <1>1 DEF FrameType
  <2>5. /\ x \in ServerType /\ x.next = v.next /\ x.fin = v.fin
        /\ x.heard = v.heard /\ x.unacked = v.unacked
    BY <1>1, <2>4 DEF ServerType
  <2>6. /\ w.heard = v.heard /\ w.next = v.next /\ w.fin = v.fin
        /\ w.unacked = v.unacked
    BY <1>1 DEF ServerType
  <2> HIDE DEF x, w
  <2>7. CASE Send(r, x, {"SYN", "ACK"}, <<>>)
    <3>1. {"SYN", "ACK"} \in SUBSET Flags /\ <<>> \in Seq(Nat)
      BY DEF Flags
    <3>2. \E y : /\ server' = [server EXCEPT ![r] = y] /\ y.st = x.st
                 /\ y.heard = x.heard /\ Covers(y, l)
      BY <1>1, <2>3, <2>5, <2>7, <3>1, SendAcks
    <3>3. PICK y : /\ server' = [server EXCEPT ![r] = y]
                   /\ y.heard = x.heard /\ Covers(y, l)
      BY <3>2
    <3>4. QED
      BY <2>2, <2>5, <3>3 DEF Mute
  <2>8. CASE server' = [server EXCEPT ![r] = w]
    <3>1. Covers(w, l)
      BY <1>1, <2>6, CoversKept
    <3>2. Mute(r) => ~w.heard
      BY <2>6 DEF Mute
    <3>3. QED
      BY <2>2, <2>8, <3>1, <3>2
  <2>9. QED
    BY <2>1, <2>7, <2>8
<1>3. CASE IsReset(r, f)
  <2> DEFINE st == IF f.seq = Expects(v) /\ ~Over(v) THEN "reset" ELSE v.st
             w == [v EXCEPT !.st = st]
  <2>1. server' = [server EXCEPT ![r] = w] /\ v.st = "open"
    BY <1>3 DEF IsReset
  <2> HIDE DEF st
  <2>2. /\ w.heard = v.heard /\ w.next = v.next /\ w.fin = v.fin
        /\ w.unacked = v.unacked
    BY <1>1 DEF ServerType
  <2> HIDE DEF w
  <2>3. Covers(w, l)
    BY <1>1, <2>2, CoversKept
  <2>4. Mute(r) => ~w.heard
    BY <2>2 DEF Mute
  <2>5. QED
    BY <2>1, <2>3, <2>4
<1>4. CASE Takes(r, f)
  <2> DEFINE next == f.seq = Expects(v)
             hear == next /\ f.len > 0 /\ ~v.heard
             u == StillUnacked(v, f)
             b == v.heard \/ hear
             d == v.their_fin \/ (next /\ "FIN" \in f.flags)
             Y(x) == IF hear THEN x ELSE v.response
             W(x) == [v EXCEPT !.unacked = u, !.heard = b,
                               !.response = Y(x), !.their_fin = d]
  <2>1. PICK x \in Responses : server' = [server EXCEPT ![r] = W(x)]
    BY <1>4 DEF Takes
  <2>2. v.st = "open" /\ ~IsRst(f)
    BY <1>4 DEF Takes, IsRst
  <2>3. ~IsSyn(f)
    BY <1>1, <2>2 DEF AckOK, SynFirst
  <2>4. Mute(r) => ~b
    <3> SUFFICES ASSUME Mute(r)
                 PROVE  ~b
      OBVIOUS
    <3>1. f.len = 0 /\ ~v.heard
      BY <1>1 DEF Mute
    <3>2. ~(f.len > 0)
      BY <3>1
    <3>3. QED
      BY <3>1, <3>2
  <2>5. v.next <= 1 \/ Counts(v, l, f.ack)
    <3>1. CASE Mute(r)
      BY <1>1, <3>1 DEF Mute, ServerOK
    <3>2. CASE Counted(r)
      BY <1>1, <2>2, <2>3, <3>2 DEF Counted
    <3>3. QED
      BY <3>1, <3>2 DEF AckOK
  <2> DEFINE y == Y(x)
             w == [v EXCEPT !.unacked = u, !.heard = b, !.response = y,
                            !.their_fin = d]
  <2>6. server' = [server EXCEPT ![r] = w] /\ u = StillUnacked(v, f)
    BY <2>1
  <2> HIDE DEF u, b, d, y, Y, W
  <2>7. w.next = v.next /\ w.fin = v.fin /\ w.heard = b /\ w.unacked = u
    BY <1>1 DEF ServerType
  <2> HIDE DEF w
  <2>8. Covers(w, l)
    BY <1>1, <2>5, <2>6, <2>7, CoversTaken
  <2>9. QED
    BY <2>2, <2>4, <2>6, <2>7, <2>8
<1>5. CASE Refuses(r, f)
  <2>1. server' = [server EXCEPT ![r] = v] /\ v.st # "listen"
    BY <1>1, <1>5 DEF Refuses
  <2>2. QED
    BY <1>1, <2>1 DEF Mute
<1>6. QED
  BY <1>2, <1>3, <1>4, <1>5

(* A step of the server of r.                                                *)
LEMMA ServerStepAcks ==
  ASSUME InTypes, NEW r \in Requests, NEW d \in Requests, AckOK(d),
         RespOK(d), RespOK(r), NEW s \in Requests, NEW y, ServerStep(s, y),
         NEW w, server' = [server EXCEPT ![r] = w],
         NEW k, Shifts(to_chip, to_chip', k),
         d = r => /\ \/ server[r].st # "listen"
                     \/ \A i \in FramesOf(to_chip', r) : ~IsSyn(to_chip'[i])
                  /\ Mute(r) => ~w.heard
                  /\ Covers(w, Len(conn[r].rx))
  PROVE  AckOK(d)'
<1>1. /\ conn' = conn /\ handler' = handler /\ server[d] \in ServerType
      /\ to_chip \in Seq(FrameType) /\ server \in [Requests -> ServerType]
      /\ y \in ServerType /\ Grows(server[s], y)
      /\ server' = [server EXCEPT ![s] = y]
  BY TypesAre DEF ServerStep, inVars
<1>2. server'[r] = w /\ w \in ServerType /\ Grows(server[r], w)
  <2>1. CASE s = r
    BY <1>1, <2>1
  <2>2. CASE s # r
    <3>1. server'[r] = w /\ w = server[r] /\ w \in ServerType
      BY <1>1, <2>2
    <3>2. QED
      BY <3>1, SameStream DEF RespOK
  <2>3. QED
    BY <2>1, <2>2
<1>3. CASE d = r
  BY <1>1, <1>2, <1>3, ChipAcks
<1>4. CASE d # r
  <2> DEFINE v == server[d]
  <2>1. server'[d] = v
    BY <1>1, <1>4
  <2>2. Grows(v, v)
    BY <1>1, SameStream DEF RespOK
  <2>3. Mute(d) => ~v.heard
    BY DEF Mute
  <2>4. Covers(v, Len(conn[d].rx))
    BY DEF AckOK
  <2>5. QED
    BY <1>1, <2>1, <2>2, <2>3, <2>4, ChipAcks
<1>5. QED
  BY <1>3, <1>4

(* The steps of the server.                                                  *)
LEMMA ServerAcks ==
  ASSUME InTypes, \A d \in Requests : RespOK(d) /\ AckOK(d),
         \/ \E r \in Requests : \/ ServerSends(r) \/ ServerFinishes(r)
                                \/ ServerRetransmits(r) \/ ServerAborts(r)
         \/ ServerReceives
  PROVE  \A d \in Requests : AckOK(d)'
<1>1. SUFFICES ASSUME NEW d \in Requests
               PROVE  AckOK(d)'
  OBVIOUS
<1>2. CASE \E r \in Requests : \/ ServerSends(r) \/ ServerFinishes(r)
                               \/ ServerRetransmits(r) \/ ServerAborts(r)
  <2>1. PICK r \in Requests : \/ ServerSends(r) \/ ServerFinishes(r)
                              \/ ServerRetransmits(r) \/ ServerAborts(r)
    BY <1>2
  <2>2. PICK y : ServerStep(r, y)
    BY <2>1, ServerActs
  <2>3. Covers(server[r], Len(conn[r].rx))
    BY DEF AckOK
  <2>4. PICK w : /\ server' = [server EXCEPT ![r] = w]
                 /\ w.heard = server[r].heard /\ server[r].st # "listen"
                 /\ Covers(w, Len(conn[r].rx))
    BY <2>1, <2>3, ServerActsAcks
  <2>5. to_chip' = to_chip
    BY <2>1 DEF ServerSends, ServerFinishes, ServerRetransmits, ServerAborts
  <2>6. Shifts(to_chip, to_chip', 0)
    BY <2>5 DEF Shifts
  <2>7. Mute(r) => ~w.heard
    BY <2>4 DEF Mute
  <2>8. QED
    BY <2>2, <2>4, <2>6, <2>7, ServerStepAcks
<1>3. CASE ServerReceives
  <2>1. PICK f, r : f = Head(to_chip) /\ r = f.req
    OBVIOUS
  <2>2. /\ to_chip # <<>> /\ to_chip' = Tail(to_chip)
        /\ Listens(r, f) \/ IsReset(r, f) \/ Takes(r, f) \/ Refuses(r, f)
    BY <1>3, <2>1 DEF ServerReceives
  <2>3. to_chip \in Seq(FrameType)
    BY TypesAre
  <2>4. f \in FrameType /\ f = to_chip[1] /\ 1 \in DOMAIN to_chip
    BY <2>1, <2>2, <2>3, TailFrames
  <2>5. r \in Requests
    BY <2>1, <2>4 DEF FrameType
  <2>6. PICK w : /\ server' = [server EXCEPT ![r] = w]
                 /\ Mute(r) => ~w.heard
                 /\ Covers(w, Len(conn[r].rx))
                 /\ server[r].st = "listen" => IsSyn(f)
    BY <2>1, <2>2, <2>5, TakesAcks
  <2>7. Shifts(to_chip, to_chip', 1)
    BY <2>2 DEF Shifts
  <2>8. ASSUME server[r].st = "listen", NEW i \in FramesOf(to_chip', r)
        PROVE  ~IsSyn(to_chip'[i])
    <3>1. 1 \in FramesOf(to_chip, r) /\ IsSyn(to_chip[1])
      BY <2>1, <2>4, <2>6, <2>8 DEF FramesOf
    <3>2. PICK z : z = to_chip'
      OBVIOUS
    <3>3. /\ i + 1 \in FramesOf(to_chip, r) /\ z[i] = to_chip[i + 1]
          /\ i + 1 # 1
      BY <2>3, <2>7, <2>8, <3>2, ShiftFrames
    <3>4. ~IsSyn(to_chip[i + 1])
      BY <2>5, <3>1, <3>3 DEF AckOK, SynFirst
    <3>5. QED
      BY <3>2, <3>3, <3>4
  <2>9. PICK s \in Requests : \E y : ServerStep(s, y)
    BY <1>3, ServerTakes
  <2>10. PICK y : ServerStep(s, y)
    BY <2>9
  <2>11. QED
    BY <2>5, <2>6, <2>7, <2>8, <2>10, ServerStepAcks
<1>4. QED
  BY <1>2, <1>3

-----------------------------------------------------------------------------
AckInv == \A r \in Requests : AckOK(r)

(* Every step keeps it.                                                      *)
LEMMA AckStep ==
  InboundInv /\ AckInv /\ [TunnelNext]_tunnelVars => AckInv'
<1> SUFFICES ASSUME InboundInv, AckInv, [TunnelNext]_tunnelVars
             PROVE  AckInv'
  OBVIOUS
<1>1. InboundInv'
  BY InvStep
<1>2. /\ InTypes /\ InTypes' /\ \A d \in Requests : RespOK(d)
      /\ \A d \in Requests : RespOK(d)'
      /\ \A d \in Requests : AckOK(d)
  BY <1>1 DEF InboundInv, AckInv
<1>3. CASE UNCHANGED tunnelVars
  <2>1. conn' = conn /\ server' = server /\ to_chip' = to_chip
        /\ handler' = handler
    BY <1>3 DEF tunnelVars, inVars, chipVars
  <2> SUFFICES ASSUME NEW d \in Requests
               PROVE  AckOK(d)'
    BY DEF AckInv
  <2>2. Shifts(to_chip, to_chip', 0)
    BY <2>1 DEF Shifts
  <2> DEFINE v == server[d]
  <2>3. v \in ServerType /\ server'[d] = v /\ to_chip \in Seq(FrameType)
    BY <2>1, TypesAre, <1>2
  <2>4. Grows(v, v)
    BY <1>2, <2>3, SameStream DEF RespOK
  <2>5. AckOK(d) /\ (Mute(d) => ~v.heard) /\ Covers(v, Len(conn[d].rx))
    BY <1>2 DEF Mute, AckOK
  <2>6. QED
    BY <2>1, <2>2, <2>3, <2>4, <2>5, ChipAcks
<1>4. CASE TunnelNext
  <2>1. CASE \/ \E r \in Requests : \/ ServerSends(r) \/ ServerFinishes(r)
                                    \/ ServerRetransmits(r) \/ ServerAborts(r)
             \/ ServerReceives
    <3>1. \A d \in Requests : AckOK(d)'
      BY <1>2, <2>1, ServerAcks
    <3>2. QED
      BY <3>1 DEF AckInv
  <2>2. CASE GwReceives
    <3>1. \A d \in Requests : AckOK(d)'
      BY <1>2, <2>2, ReceiveAcks
    <3>2. QED
      BY <3>1 DEF AckInv
  <2>3. CASE Emits(HandlerRuns)
    <3>1. \A d \in Requests : AckOK(d)'
      BY <1>2, <2>3, HandlerAcks
    <3>2. QED
      BY <3>1 DEF AckInv
  <2>4. CASE \E r \in Requests : Emits(http_into_chip(r) \/ Opens(r))
    <3>1. \A d \in Requests : AckOK(d)'
      BY <1>2, <2>4, OpensAcks
    <3>2. QED
      BY <3>1 DEF AckInv
  <2>5. CASE \E r \in Requests :
               Emits(\/ SynTimesOut(r) \/ Fails(r) \/ SendsRequest(r)
                     \/ RequestSent(r) \/ Wakes(r) \/ Polls(r)
                     \/ DeadlinePasses(r) \/ Forgets(r))
    <3>1. PICK r \in Requests :
            Emits(\/ SynTimesOut(r) \/ Fails(r) \/ SendsRequest(r)
                  \/ RequestSent(r) \/ Wakes(r) \/ Polls(r)
                  \/ DeadlinePasses(r) \/ Forgets(r))
      BY <2>5
    <3>2. Emits(Runs(r))
      BY <1>2, <3>1, TaskRunsOn DEF Emits
    <3>3. \A d \in Requests : AckOK(d)'
      BY <1>2, <3>2, RunsAcks
    <3>4. QED
      BY <3>3 DEF AckInv
  <2>6. CASE Emits(stop \/ shutdown)
    <3>1. \A d \in Requests : AckOK(d)'
      BY <1>2, <2>6, StopAcks
    <3>2. QED
      BY <3>1 DEF AckInv
  <2>7. QED
    BY <1>4, <2>1, <2>2, <2>3, <2>4, <2>5, <2>6, StepsAre
<1>5. QED
  BY <1>3, <1>4

(* It holds at the start: nothing has been sent.                             *)
LEMMA AckInit == TunnelInit => AckInv
<1> SUFFICES ASSUME TunnelInit, NEW r \in Requests
             PROVE  AckOK(r)
  BY DEF AckInv
<1>1. to_chip = <<>> /\ server[r] = NewServer /\ conn[r] = NewConn(0)
  BY DEF TunnelInit, InboundInit
<1>2. FramesOf(to_chip, r) = {}
  BY <1>1 DEF FramesOf
<1>3. SynFirst(r)
  BY <1>2 DEF SynFirst
<1>4. Mute(r)
  <2>1. conn[r].state = "SYN_SENT" /\ ~server[r].heard
    BY <1>1 DEF NewServer, NewConn
  <2>2. QED
    BY <1>2, <2>1 DEF Mute
<1>5. Covers(server[r], Len(conn[r].rx))
  <2>1. server[r].next = 0 /\ ~server[r].fin
    BY <1>1 DEF NewServer
  <2> SUFFICES ASSUME NEW o \in Nat, o < server[r].next - One(server[r].fin)
               PROVE  FALSE
    BY DEF Covers
  <2>2. o < 0 - 0
    BY <2>1 DEF One
  <2>3. QED
    BY <2>2
<1>6. QED
  BY <1>3, <1>4, <1>5 DEF AckOK

(* Nothing is lost when the server has nothing left to send again.           *)
LEMMA AcksCollectedIs ==
  InboundInv /\ AckInv => AckedIsCollected
<1> SUFFICES ASSUME InboundInv, AckInv, NEW r \in Requests,
                    server[r].unacked = {}
             PROVE  Len(SentBytes(r)) <= Len(conn[r].rx)
  BY DEF AckedIsCollected
<1> DEFINE v == server[r]
           l == Len(conn[r].rx)
           x == v.response
           m == v.next - 1 - One(v.fin)
<1>1. /\ v \in ServerType /\ ServerOK(v) /\ v.next \in Nat /\ x \in Seq(Nat)
      /\ l \in Nat /\ Covers(v, l) /\ Len(x) \in Nat
  <2>1. InTypes /\ RespOK(r) /\ AckOK(r)
    BY DEF InboundInv, AckInv
  <2>2. v \in ServerType /\ conn[r].rx \in Seq(Nat)
    BY <2>1, TypesAre DEF ConnType
  <2>3. x \in Seq(Nat) /\ v.next \in Nat
    BY <2>2 DEF ServerType
  <2>4. l \in Nat /\ Len(x) \in Nat
    BY <2>2, <2>3
  <2>5. QED
    BY <2>1, <2>2, <2>3, <2>4 DEF RespOK, AckOK
<1>2. m \in Int /\ m <= Len(x) /\ m + 1 = v.next - One(v.fin)
  <2>1. CASE v.fin
    <3>1. One(v.fin) = 1 /\ v.next <= Len(x) + 2
      BY <1>1, <2>1 DEF One, ServerOK
    <3>2. QED
      BY <1>1, <3>1
  <2>2. CASE ~v.fin
    <3>1. One(v.fin) = 0 /\ v.next <= Len(x) + 1
      BY <1>1, <2>2 DEF One, ServerOK
    <3>2. QED
      BY <1>1, <3>1, SMTT(30)
  <2>3. QED
    BY <2>1, <2>2
<1>3. m <= l
  <2> SUFFICES ASSUME ~(m <= l)
               PROVE  FALSE
    OBVIOUS
  <2>1. m \in Nat /\ l < m /\ m < m + 1
    <3> HIDE DEF m, l
    <3>1. QED
      BY <1>1, <1>2
  <2>2. m < v.next - One(v.fin)
    BY <1>2, <2>1
  <2> HIDE DEF m, l
  <2>3. QED
    BY <1>1, <2>1, <2>2 DEF Covers
<1>4. Len(SubSeq(x, 1, m)) <= l
  <2> HIDE DEF m, x, l
  <2>1. CASE 1 <= m
    <3>1. Len(SubSeq(x, 1, m)) = m
      BY <1>1, <1>2, <2>1
    <3>2. QED
      BY <1>3, <3>1
  <2>2. CASE ~(1 <= m)
    <3>1. Len(SubSeq(x, 1, m)) = 0
      BY <1>1, <1>2, <2>2
    <3> DEFINE n == Len(SubSeq(x, 1, m))
    <3>2. n = 0 /\ l \in Nat
      BY <1>1, <3>1
    <3> HIDE DEF n
    <3>3. n <= l
      BY <3>2
    <3>4. QED
      BY <3>3 DEF n
  <2>3. QED
    BY <2>1, <2>2
<1>5. QED
  BY <1>4 DEF SentBytes

(* No byte is lost by an ACK that runs ahead: once the server has nothing    *)
(* left that is not acknowledged, all it has sent was collected, with        *)
(* segments sent again or late, and the response cut short                   *)
(* (tcp_inbound.py:139-147, 226-229).                                        *)
THEOREM AckedIsCollectedTheorem == TunnelSpec => []AckedIsCollected
<1>1. TunnelInit => AckInv
  BY AckInit
<1>2. InboundInv /\ AckInv /\ [TunnelNext]_tunnelVars => AckInv'
  BY AckStep
<1>3. InboundInv /\ AckInv => AckedIsCollected
  BY AcksCollectedIs
<1>4. TunnelSpec => []InboundInv
  BY InboundInvariance
<1>5. QED
  BY <1>1, <1>2, <1>3, <1>4, PTL DEF TunnelSpec

-----------------------------------------------------------------------------
(* A connection that is kept in TIME_WAIT is not reset.                      *)

(* r is in the table from its SYN on until it is forgotten.                  *)
InTime(r) ==
    bridge = "running" /\ task[r].pc \notin {"new", "arp", "gone"} =>
        r \in table

(* No RST of the gateway is under way to it before.                          *)
RstLate(r) ==
    task[r].pc # "gone" =>
        /\ server[r].st # "reset"
        /\ \A i \in FramesOf(to_chip, r) : ~IsRst(to_chip[i])

LateOK(r) == InTime(r) /\ RstLate(r)

LateInv == \A r \in Requests : LateOK(r)

(* A step of the gateway, that sends r no RST before it is forgotten.        *)
LEMMA GwLate ==
  ASSUME InTypes, NEW r \in Requests, LateOK(r), InTime(r)', server' = server,
         to_chip' = to_chip \o out',
         out' = <<>> \/ \E f \in FrameType :
           /\ out' = <<f>>
           /\ f.req = r /\ IsRst(f) => task[r].pc = "gone",
         task[r].pc = "gone" => task'[r].pc = "gone"
  PROVE  LateOK(r)'
<1>1. out' = <<>> \/ \E f \in FrameType : out' = <<f>>
  OBVIOUS
<1>2. \A i \in FramesOf(to_chip', r) :
        \/ i \in FramesOf(to_chip, r) /\ to_chip'[i] = to_chip[i]
        \/ \E f \in FrameType : out' = <<f>> /\ f.req = r /\ to_chip'[i] = f
  BY <1>1, GwFramesFrom
<1>3. SUFFICES ASSUME task'[r].pc # "gone"
               PROVE  /\ server'[r].st # "reset"
                      /\ \A i \in FramesOf(to_chip', r) : ~IsRst(to_chip'[i])
  BY DEF LateOK, RstLate
<1>4. /\ task[r].pc # "gone" /\ server[r].st # "reset"
      /\ \A i \in FramesOf(to_chip, r) : ~IsRst(to_chip[i])
  BY <1>3 DEF LateOK, RstLate
<1>5. \A f \in FrameType : out' = <<f>> /\ f.req = r => ~IsRst(f)
  <2>1. SUFFICES ASSUME NEW f \in FrameType, out' = <<f>>, f.req = r
                 PROVE  ~IsRst(f)
    OBVIOUS
  <2>2. PICK g \in FrameType : /\ out' = <<g>>
                               /\ g.req = r /\ IsRst(g) => task[r].pc = "gone"
    BY <2>1
  <2>3. g = f
    BY <2>1, <2>2
  <2>4. QED
    BY <1>4, <2>1, <2>2, <2>3
<1>6. QED
  BY <1>2, <1>4, <1>5

(* The task of a request runs on.                                            *)
LEMMA TaskTables ==
  ASSUME InTypes, NEW r \in Requests,
         \/ SynTimesOut(r) \/ Fails(r) \/ SendsRequest(r) \/ RequestSent(r)
         \/ Wakes(r) \/ Polls(r) \/ DeadlinePasses(r) \/ Forgets(r)
  PROVE  /\ task[r].pc # "gone"
         /\ \/ table' = table
            \/ table' = table \ {r} /\ task'[r].pc = "gone"
<1>1. CASE Forgets(r)
  <2>1. task[r].pc = "over" /\ table' = table \ {r} /\ GoesTo(r, "gone")
    BY <1>1 DEF Forgets, At
  <2>2. QED
    BY <2>1, GoesToTyped
<1>2. ASSUME NEW c, Round(r, c)
      PROVE  table' = table
  BY <1>2 DEF Round, Returns, KeptInTimeWait
<1>3. CASE SynTimesOut(r) \/ Fails(r) \/ SendsRequest(r)
  BY <1>3 DEF SynTimesOut, Fails, SendsRequest, At, Returns, KeptInTimeWait
<1>4. CASE RequestSent(r)
  BY <1>2, <1>4 DEF RequestSent, At
<1>5. CASE Wakes(r)
  BY <1>2, <1>5 DEF Wakes, At
<1>6. CASE Polls(r)
  BY <1>2, <1>6 DEF Polls, At, Returns, KeptInTimeWait
<1>7. CASE DeadlinePasses(r)
  BY <1>7 DEF DeadlinePasses, At
<1>8. QED
  BY <1>1, <1>3, <1>4, <1>5, <1>6, <1>7

LEMMA RunsLate ==
  ASSUME InTypes, NEW r \in Requests, NEW d \in Requests, LateOK(d),
         Emits(\/ SynTimesOut(r) \/ Fails(r) \/ SendsRequest(r)
               \/ RequestSent(r) \/ Wakes(r) \/ Polls(r)
               \/ DeadlinePasses(r) \/ Forgets(r))
  PROVE  LateOK(d)'
<1>1. /\ \/ SynTimesOut(r) \/ Fails(r) \/ SendsRequest(r) \/ RequestSent(r)
         \/ Wakes(r) \/ Polls(r) \/ DeadlinePasses(r) \/ Forgets(r)
      /\ to_chip' = to_chip \o out' /\ server' = server
  BY DEF Emits
<1>2. Runs(r)
  BY <1>1, TaskRunsOn
<1>3. /\ task[r].pc # "gone"
      /\ \/ table' = table
         \/ table' = table \ {r} /\ task'[r].pc = "gone"
  BY <1>1, TaskTables
<1>4. bridge' = bridge /\ task[r].pc \notin {"new", "arp"}
      /\ (d # r => task'[d] = task[d])
  BY <1>2 DEF Runs
<1>5. InTime(d)'
  BY <1>3, <1>4 DEF LateOK, InTime
<1>6. out' = <<>> \/ \E f \in FrameType :
        /\ out' = <<f>>
        /\ f.req = d /\ IsRst(f) => task[d].pc = "gone"
  BY <1>2 DEF Runs, IsRst
<1>7. task[d].pc = "gone" => task'[d].pc = "gone"
  BY <1>3, <1>4
<1>8. QED
  BY <1>1, <1>5, <1>6, <1>7, GwLate

(* A request begins, or opens its connection.                                *)
LEMMA OpensLate ==
  ASSUME InTypes, NEW r \in Requests, NEW d \in Requests, LateOK(d),
         Emits(http_into_chip(r) \/ Opens(r))
  PROVE  LateOK(d)'
<1>1. /\ http_into_chip(r) \/ Opens(r)
      /\ to_chip' = to_chip \o out' /\ server' = server
  BY DEF Emits
<1>2. CASE http_into_chip(r)
  <2>1. /\ task[r].pc = "new" /\ out' = <<>> /\ table' = table
        /\ bridge' = bridge
        /\ GoesTo(r, IF bridge = "running" THEN "arp" ELSE "gone")
    BY <1>2 DEF http_into_chip, Quiet, At
  <2>2. task'[r].pc \in {"arp", "gone"} /\ (d # r => task'[d] = task[d])
    <3>1. CASE bridge = "running"
      BY <2>1, <3>1, GoesToTyped
    <3>2. CASE bridge # "running"
      BY <2>1, <3>2, GoesToTyped
    <3>3. QED
      BY <3>1, <3>2
  <2>3. InTime(d)'
    BY <2>1, <2>2 DEF LateOK, InTime
  <2>4. task[d].pc = "gone" => task'[d].pc = "gone"
    BY <2>1, <2>2
  <2>5. QED
    BY <1>1, <2>1, <2>3, <2>4, GwLate
<1>3. CASE Opens(r)
  <2>1. PICK isn \in ISNs : Inject(Frame(r, {"SYN"}, isn, 0, 0))
    BY <1>3 DEF Opens
  <2>2. /\ task[r].pc = "arp" /\ table' = table \cup {r} /\ bridge' = bridge
        /\ GoesTo(r, "await")
    BY <1>3 DEF Opens, At
  <2>3. task'[r].pc = "await" /\ (d # r => task'[d] = task[d])
    BY <2>2, GoesToTyped
  <2> DEFINE g == Frame(r, {"SYN"}, isn, 0, 0)
  <2>4. g \in FrameType /\ ~IsRst(g)
    <3>1. isn \in SeqNums /\ 0 \in SeqNums /\ 0 \in Nat
          /\ {"SYN"} \in SUBSET Flags
      BY InboundAssumption, SeqNumsAreInts DEF Flags
    <3>2. g \in FrameType
      BY <3>1, FrameTyped
    <3>3. QED
      BY <3>2 DEF Frame, IsRst
  <2>5. out' = <<>> \/ out' = <<g>>
    BY <2>1 DEF Inject
  <2> HIDE DEF g
  <2>6. InTime(d)'
    BY <2>2, <2>3 DEF LateOK, InTime
  <2>7. task[d].pc = "gone" => task'[d].pc = "gone"
    BY <2>2, <2>3
  <2>8. QED
    BY <1>1, <2>4, <2>5, <2>6, <2>7, GwLate
<1>4. QED
  BY <1>1, <1>2, <1>3

(* The bridge goes, or the handler goes on after a send.                     *)
LEMMA MovesLate ==
  ASSUME InTypes, NEW d \in Requests, LateOK(d), InTypes',
         Emits(stop \/ shutdown) \/ Emits(HandlerRuns)
  PROVE  LateOK(d)'
<1>1. to_chip' = to_chip \o out' /\ server' = server
      /\ (stop \/ shutdown \/ HandlerRuns)
  BY DEF Emits
<1>2. CASE stop \/ shutdown
  <2>1. out' = <<>> /\ task' = task /\ bridge' # "running"
    BY <1>2 DEF stop, shutdown, Quiet
  <2>2. InTime(d)'
    BY <2>1 DEF InTime
  <2>3. QED
    BY <1>1, <2>1, <2>2, GwLate
<1>3. CASE HandlerRuns
  <2>1. PICK r : r = handler.req
    OBVIOUS
  <2>2. r \in Requests
    BY <1>3, <2>1, HandlerHas DEF HandlerRuns, Established, DataAcked,
       FinAcked, FinSent, HandlerAt
  <2>3. task' = task /\ bridge' = bridge /\ table' = table
    BY <1>3 DEF HandlerRuns, Established, DataAcked, FinAcked, FinSent
  <2>4. conn'[r] \in ConnType /\ conn[r] \in ConnType
    BY <2>2, TypesAre DEF InTypes
  <2>5. out' = <<>> \/ \E f \in FrameType : out' = <<f>> /\ ~IsRst(f)
    <3>1. \/ Quiet
          \/ Emit(r, conn'[r], {"ACK"})
          \/ Emit(r, conn'[r], {"ACK", "FIN"})
      BY <1>3, <2>1 DEF HandlerRuns, Established, DataAcked, FinAcked, FinSent
    <3>2. CASE Quiet
      BY <3>2 DEF Quiet
    <3>3. ASSUME NEW flags \in {{"ACK"}, {"ACK", "FIN"}},
                 Emit(r, conn'[r], flags)
          PROVE  out' = <<>> \/ \E f \in FrameType : out' = <<f>> /\ ~IsRst(f)
      <4>1. flags \in SUBSET Flags /\ "ACK" \in flags /\ "RST" \notin flags
        BY DEF Flags
      <4>2. out' = <<>> \/ \E f \in FrameType :
              /\ out' = <<f>> /\ f.req = r /\ ~IsSyn(f) /\ f.len = 0
              /\ f.ack = conn'[r].chip_seq /\ f.flags = flags
        BY <2>2, <2>4, <3>3, <4>1, EmitAnswers
      <4>3. QED
        BY <4>1, <4>2 DEF IsRst
    <3>4. QED
      BY <3>1, <3>2, <3>3
  <2>6. InTime(d)'
    BY <2>3 DEF LateOK, InTime
  <2>7. QED
    BY <1>1, <2>3, <2>5, <2>6, GwLate
<1>4. QED
  BY <1>1, <1>2, <1>3

(* The gateway takes a segment: it resets what it does not know.             *)
LEMMA ReceivesLate ==
  ASSUME InTypes, \A d \in Requests : RespOK(d) /\ LateOK(d), InTypes',
         GwReceives, NEW d \in Requests
  PROVE  LateOK(d)'
<1>1. PICK e, r : e = Head(to_gw) /\ r = e.req
  OBVIOUS
<1> DEFINE s == e.seg
<1>2. /\ to_gw # <<>> /\ to_gw' = Tail(to_gw) /\ to_chip' = to_chip \o out'
      /\ server' = server /\ deliver_packet_out(r, e.seg)
      /\ task' = task /\ bridge' = bridge /\ table' = table
  BY <1>1 DEF GwReceives, deliver_packet_out
<1>3. e \in Queued /\ r \in Requests
  BY <1>1, <1>2, PartsTail, TypesAre DEF Queued
<1>4. task[r].pc \notin {"new", "arp"} /\ s.data \in Seq(Nat)
      /\ s.seq \in SeqNums /\ s.ack \in SeqNums
  BY <1>1, <1>2, <1>3, HeadIs DEF SegType
<1>5. conn[r] \in ConnType /\ conn'[r] \in ConnType
      /\ {"ACK"} \in SUBSET Flags
  BY <1>3, TypesAre DEF InTypes, Flags
<1>6. out' = <<>> \/ \E f \in FrameType :
        /\ out' = <<f>> /\ f.req = r
        /\ IsRst(f) => task[r].pc = "gone"
  <2>1. CASE Quiet
    BY <2>1 DEF Quiet
  <2>2. ASSUME NEW c \in ConnType, Emit(r, c, {"ACK"})
        PROVE  out' = <<>> \/ \E f \in FrameType :
                 out' = <<f>> /\ f.req = r /\ ~IsRst(f)
    <3>1. out' = <<>> \/ \E f \in FrameType :
            /\ out' = <<f>> /\ f.req = r /\ ~IsSyn(f) /\ f.len = 0
            /\ f.ack = c.chip_seq /\ f.flags = {"ACK"}
      BY <1>3, <1>5, <2>2, EmitAnswers
    <3>2. QED
      BY <3>1 DEF IsRst
  <2>3. CASE SynAcked(r, s) \/ TimeWait(r, s) \/ Collects(r, s)
    <3>1. Quiet \/ \E c \in ConnType : Emit(r, c, {"ACK"})
      <4>1. CASE SynAcked(r, s)
        BY <1>5, <4>1 DEF SynAcked
      <4>2. CASE TimeWait(r, s)
        BY <1>5, <4>2 DEF TimeWait, Emit, AcksCollected
      <4>3. CASE Collects(r, s)
        BY <1>5, <4>3 DEF Collects, AcksFin
      <4>4. QED
        BY <2>3, <4>1, <4>2, <4>3
    <3>2. QED
      BY <2>1, <2>2, <3>1
  <2>4. CASE bridge = "running" /\ r \notin table /\ Stray(r, s)
    <3>1. task[r].pc = "gone"
      BY <1>3, <1>4, <2>4 DEF LateOK, InTime
    <3>2. out' = <<>> \/ \E f \in FrameType : out' = <<f>> /\ f.req = r
      BY <1>1, <1>2, DeliverEmits
    <3>3. QED
      BY <3>1, <3>2
  <2>5. QED
    BY <1>2, <2>1, <2>3, <2>4 DEF deliver_packet_out, ChipRst
<1>7. InTime(d)'
  BY <1>2 DEF LateOK, InTime
<1>8. QED
  BY <1>2, <1>6, <1>7, GwLate

(* A step of the server: only a RST resets it.                               *)
LEMMA ServerLate ==
  ASSUME InTypes, \A d \in Requests : RespOK(d) /\ LateOK(d),
         \/ \E r \in Requests : \/ ServerSends(r) \/ ServerFinishes(r)
                                \/ ServerRetransmits(r) \/ ServerAborts(r)
         \/ ServerReceives,
         NEW d \in Requests
  PROVE  LateOK(d)'
<1>1. to_chip \in Seq(FrameType) /\ server \in [Requests -> ServerType]
  BY TypesAre
<1>2. UNCHANGED inVars
  BY DEF ServerSends, ServerFinishes, ServerRetransmits, ServerAborts,
     ServerReceives
<1>3. task' = task /\ bridge' = bridge /\ table' = table
  BY <1>2 DEF inVars
<1>4. InTime(d)'
  BY <1>3 DEF LateOK, InTime
<1>5. ASSUME NEW k, Shifts(to_chip, to_chip', k),
             task[d].pc # "gone" => server'[d].st # "reset"
      PROVE  LateOK(d)'
  <2>1. PICK z : z = to_chip'
    OBVIOUS
  <2>2. \A i \in FramesOf(z, d) :
          i + k \in FramesOf(to_chip, d) /\ z[i] = to_chip[i + k]
    BY <1>1, <1>5, <2>1, ShiftFrames
  <2>3. SUFFICES ASSUME task[d].pc # "gone"
                 PROVE  /\ server'[d].st # "reset"
                        /\ \A i \in FramesOf(z, d) : ~IsRst(z[i])
    BY <1>3, <1>4, <2>1 DEF LateOK, RstLate
  <2>4. QED
    BY <1>5, <2>2, <2>3 DEF LateOK, RstLate
<1>6. ASSUME NEW r \in Requests, NEW v \in ServerType, NEW flags, NEW data,
             Send(r, v, flags, data)
      PROVE  server'[d].st \in {server[d].st, v.st}
  <2> DEFINE p == Part(v.next, flags, data)
             n == v.next + Span(p)
             u == v.unacked \cup {p}
             b == "FIN" \in flags
             w == [v EXCEPT !.next = n, !.unacked = u, !.fin = b]
  <2>1. server' = [server EXCEPT ![r] = w]
    BY <1>6 DEF Send
  <2> HIDE DEF n, u, b
  <2>2. w.st = v.st
    BY DEF ServerType
  <2> HIDE DEF w
  <2>3. QED
    BY <1>1, <2>1, <2>2
<1>7. CASE \E r \in Requests : \/ ServerSends(r) \/ ServerFinishes(r)
                               \/ ServerRetransmits(r) \/ ServerAborts(r)
  <2>1. PICK r \in Requests : \/ ServerSends(r) \/ ServerFinishes(r)
                              \/ ServerRetransmits(r) \/ ServerAborts(r)
    BY <1>7
  <2>2. Shifts(to_chip, to_chip', 0)
    BY <2>1 DEF ServerSends, ServerFinishes, ServerRetransmits, ServerAborts,
       Shifts
  <2> DEFINE v == server[r]
  <2>3. v \in ServerType
    BY <1>1
  <2>4. server'[d].st \in {server[d].st, v.st, "gone"} /\ v.st = "open"
    <3>1. CASE ServerSends(r) \/ ServerFinishes(r)
      <4>1. \E flags, data : Send(r, v, flags, data)
        BY <3>1 DEF ServerSends, ServerFinishes
      <4>2. v.st = "open"
        BY <3>1 DEF ServerSends, ServerFinishes, CanSend
      <4> HIDE DEF v
      <4>3. QED
        BY <1>6, <2>3, <4>1, <4>2
    <3>2. CASE ServerRetransmits(r)
      <4> DEFINE w == [v EXCEPT !.retransmits = @ + 1]
      <4>1. server' = [server EXCEPT ![r] = w] /\ v.st = "open"
        BY <3>2 DEF ServerRetransmits
      <4>2. w.st = v.st
        BY <2>3 DEF ServerType
      <4> HIDE DEF w
      <4>3. QED
        BY <1>1, <4>1, <4>2
    <3>3. CASE ServerAborts(r)
      <4> DEFINE w == [v EXCEPT !.st = "gone"]
      <4>1. server' = [server EXCEPT ![r] = w] /\ v.st = "open"
        BY <3>3 DEF ServerAborts
      <4>2. w.st = "gone"
        BY <2>3 DEF ServerType
      <4> HIDE DEF w
      <4>3. QED
        BY <1>1, <4>1, <4>2
    <3>4. QED
      BY <2>1, <3>1, <3>2, <3>3
  <2>5. task[d].pc # "gone" => server'[d].st # "reset"
    BY <2>4 DEF LateOK, RstLate
  <2>6. QED
    BY <1>5, <2>2, <2>5
<1>8. CASE ServerReceives
  <2>1. PICK f, r : f = Head(to_chip) /\ r = f.req
    OBVIOUS
  <2>2. /\ to_chip # <<>> /\ to_chip' = Tail(to_chip)
        /\ Listens(r, f) \/ IsReset(r, f) \/ Takes(r, f) \/ Refuses(r, f)
    BY <1>8, <2>1 DEF ServerReceives
  <2>3. f \in FrameType /\ f = to_chip[1] /\ 1 \in DOMAIN to_chip
    BY <1>1, <2>1, <2>2, TailFrames
  <2>4. r \in Requests /\ f.seq \in SeqNums /\ 1 \in FramesOf(to_chip, r)
    BY <2>1, <2>3 DEF FrameType, FramesOf
  <2> DEFINE v == server[r]
  <2>5. v \in ServerType
    BY <1>1, <2>4
  <2>6. Shifts(to_chip, to_chip', 1)
    BY <2>2 DEF Shifts
  <2>7. task[d].pc # "gone" => server'[d].st # "reset"
    <3>1. CASE Listens(r, f)
      <4> DEFINE x == [v EXCEPT !.st = "open", !.their_isn = f.seq]
                 w == [v EXCEPT !.st = "gone"]
      <4>1. \/ Send(r, x, {"SYN", "ACK"}, <<>>)
            \/ server' = [server EXCEPT ![r] = w]
        BY <3>1 DEF Listens
      <4>2. x \in ServerType /\ x.st = "open" /\ w.st = "gone"
        BY <2>4, <2>5 DEF ServerType
      <4> HIDE DEF x, w
      <4>3. server'[d].st \in {server[d].st, "open", "gone"}
        BY <1>1, <1>6, <2>4, <4>1, <4>2
      <4>4. QED
        BY <4>3 DEF LateOK, RstLate
    <3>2. CASE IsReset(r, f)
      <4>1. IsRst(f)
        BY <3>2 DEF IsReset, IsRst
      <4>2. task[r].pc = "gone"
        BY <2>3, <2>4, <4>1 DEF LateOK, RstLate
      <4>3. d # r => server'[d] = server[d]
        BY <1>1, <3>2 DEF IsReset
      <4>4. QED
        BY <4>2, <4>3 DEF LateOK, RstLate
    <3>3. CASE Takes(r, f)
      <4>1. PICK response \in Responses :
              LET next == f.seq = Expects(v)
                  hear == next /\ f.len > 0 /\ ~v.heard
              IN  server' = [server EXCEPT ![r] = [v EXCEPT
                    !.unacked = StillUnacked(v, f),
                    !.heard = @ \/ hear,
                    !.response = IF hear THEN response ELSE @,
                    !.their_fin = @ \/ (next /\ "FIN" \in f.flags)]]
        BY <3>3 DEF Takes
      <4> DEFINE next == f.seq = Expects(v)
                 hear == next /\ f.len > 0 /\ ~v.heard
                 u == StillUnacked(v, f)
                 b == v.heard \/ hear
                 y == IF hear THEN response ELSE v.response
                 t == v.their_fin \/ (next /\ "FIN" \in f.flags)
                 w == [v EXCEPT !.unacked = u, !.heard = b, !.response = y,
                                !.their_fin = t]
      <4>2. server' = [server EXCEPT ![r] = w]
        BY <4>1
      <4> HIDE DEF u, b, y, t
      <4>3. w.st = v.st
        BY <2>5 DEF ServerType
      <4> HIDE DEF w
      <4>4. server'[d].st = server[d].st
        BY <1>1, <2>4, <4>2, <4>3
      <4>5. QED
        BY <4>4 DEF LateOK, RstLate
    <3>4. CASE Refuses(r, f)
      BY <3>4 DEF Refuses, LateOK, RstLate
    <3>5. QED
      BY <2>2, <3>1, <3>2, <3>3, <3>4
  <2>8. QED
    BY <1>5, <2>6, <2>7
<1>9. QED
  BY <1>7, <1>8

(* It holds at the start, and every step keeps it.                           *)
LEMMA LateInit == TunnelInit => LateInv
<1> SUFFICES ASSUME TunnelInit, NEW r \in Requests
             PROVE  LateOK(r)
  BY DEF LateInv
<1>1. to_chip = <<>> /\ server[r] = NewServer /\ task[r].pc = "new"
  BY DEF TunnelInit, InboundInit
<1>2. FramesOf(to_chip, r) = {} /\ server[r].st = "listen"
  BY <1>1 DEF FramesOf, NewServer
<1>3. QED
  BY <1>1, <1>2 DEF LateOK, InTime, RstLate

LEMMA LateStep ==
  InboundInv /\ LateInv /\ [TunnelNext]_tunnelVars => LateInv'
<1> SUFFICES ASSUME InboundInv, LateInv, [TunnelNext]_tunnelVars,
                    NEW d \in Requests
             PROVE  LateOK(d)'
  BY DEF LateInv
<1>1. InTypes /\ \A r \in Requests : RespOK(r) /\ LateOK(r)
  BY DEF InboundInv, LateInv
<1>2. InTypes'
  BY InvStep DEF InboundInv
<1>3. CASE UNCHANGED tunnelVars
  <2>1. UNCHANGED <<bridge, table, task, to_chip, server>>
    BY <1>3 DEF tunnelVars, inVars, chipVars
  <2>2. QED
    BY <1>1, <2>1 DEF LateOK, InTime, RstLate, FramesOf
<1>4. CASE TunnelNext
  BY <1>1, <1>2, <1>4, StepsAre, ServerLate, ReceivesLate, MovesLate,
     OpensLate, RunsLate
<1>5. QED
  BY <1>3, <1>4

(* However a request ends, and whatever the server still sends, it is not    *)
(* reset while the connection is kept in TIME_WAIT (tcp_inbound.py:206-213). *)
THEOREM LateIsAbsorbedTheorem == TunnelSpec => []LateIsAbsorbed
<1>1. TunnelInit => LateInv
  BY LateInit
<1>2. InboundInv /\ LateInv /\ [TunnelNext]_tunnelVars => LateInv'
  BY LateStep
<1>3. LateInv => LateIsAbsorbed
  BY DEF LateInv, LateOK, RstLate, LateIsAbsorbed
<1>4. TunnelSpec => []InboundInv
  BY InboundInvariance
<1>5. QED
  BY <1>1, <1>2, <1>3, <1>4, PTL DEF TunnelSpec

-----------------------------------------------------------------------------
(* A request that ended by the server's FIN leaves nothing half open, when   *)
(* its sends do not suspend.                                                 *)

(* The task has sent the request, and has counted it.                        *)
Asked(r) ==
    \/ task[r].pc = "wait"
    \/ task[r].how \in {"fin", "complete", "deadline", "idle"}

HasAsked(r) == task[r].pc = "sending" \/ Asked(r)

OurStart(r) == seq_add(conn[r].our_isn, 1)
OurEnd(r)   == seq_add(OurStart(r), RequestLen)

(* The server knows the gateway's initial number, or will.                   *)
SameStart(r) ==
    /\ server[r].st = "open" => server[r].their_isn = conn[r].our_isn
    /\ \A i \in FramesOf(to_chip, r) :
         IsSyn(to_chip[i]) => to_chip[i].seq = conn[r].our_isn

(* The server hears of the request when it has been sent, no sooner.         *)
HeardLater(r) ==
    server[r].heard \/ (\E i \in FramesOf(to_chip, r) : to_chip[i].len > 0)
        => HasAsked(r)

(* our_seq counts it from then on, until the FIN.                            *)
OurSeqOK(r) ==
    ~conn[r].finished =>
        conn[r].our_seq = IF Asked(r) THEN OurEnd(r) ELSE OurStart(r)

(* A handler is in the middle of a segment of a connection that goes on, and *)
(* what is forgotten is in the table no more.                                *)
BusyOK(r) ==
    /\ handler.req = r => /\ task[r].pc # "gone"
                          /\ bridge # "stopped" => ~conn[r].finished
    /\ task[r].pc = "gone" => r \notin table
    /\ task[r].pc \notin {"over", "gone"} => task[r].how = None
    /\ task[r].how = "fin" => conn[r].finished

(* What the handler has counted, also when the task has closed meanwhile.    *)
CountedOK(r) ==
    /\ AtData(r) => conn[r].chip_seq = SeqAt(Len(conn[r].rx) + 1)
    /\ FinCounted(r) => conn[r].chip_seq = SeqAt(Len(conn[r].rx) + 2)

(* The gateway's FIN, which counts all that the server has sent.             *)
LastFin(r, f) ==
    /\ "FIN" \in f.flags /\ f.seq = OurEnd(r) /\ f.ack = SeqAt(server[r].next)

FinDue(r) ==
    /\ task[r].pc # "gone" /\ server[r].st = "open"
    /\ \E i \in FramesOf(to_chip, r) : LastFin(r, to_chip[i])

FinSentOf(r) ==
    /\ bridge = "running" /\ ~conn[r].reset
    /\ conn[r].finished \/ (handler.req = r /\ handler.pc = "fin_sent")

(* Once it was sent the server has it, or will before r is forgotten.        *)
FinComes(r) ==
    FinSentOf(r) =>
        /\ server[r].fin
        /\ server[r].st = "gone" \/ Over(server[r]) \/ FinDue(r)

ClosesOK(r) ==
    /\ SameStart(r) /\ HeardLater(r) /\ OurSeqOK(r) /\ BusyOK(r)
    /\ CountedOK(r) /\ FinComes(r)

CloseInv == \A r \in Requests : ClosesOK(r)

(* What was under way stays, after a step of the gateway; and what it sends  *)
(* is there.                                                                 *)
LEMMA GwFramesStay ==
  ASSUME InTypes, NEW r, to_chip' = to_chip \o out',
         out' = <<>> \/ \E f \in FrameType : out' = <<f>>
  PROVE  /\ \A i \in FramesOf(to_chip, r) :
              i \in FramesOf(to_chip', r) /\ to_chip'[i] = to_chip[i]
         /\ \A f \in FrameType : out' = <<f>> /\ f.req = r =>
              \E i \in FramesOf(to_chip', r) : to_chip'[i] = f
<1>1. to_chip \in Seq(FrameType)
  BY TypesAre
<1>2. CASE out' = <<>>
  <2>1. to_chip' = to_chip
    BY <1>1, <1>2
  <2>2. \A f \in FrameType : out' # <<f>>
    BY <1>2
  <2>3. QED
    BY <2>1, <2>2
<1>3. ASSUME NEW f \in FrameType, out' = <<f>>
      PROVE  /\ \A i \in FramesOf(to_chip, r) :
                  i \in FramesOf(to_chip', r) /\ to_chip'[i] = to_chip[i]
             /\ f.req = r =>
                  \E i \in FramesOf(to_chip', r) : to_chip'[i] = f
  <2> DEFINE z == to_chip \o <<f>>
             n == Len(to_chip) + 1
  <2>1. \A i \in DOMAIN to_chip : i \in DOMAIN z /\ z[i] = to_chip[i]
    BY <1>1
  <2>2. n \in DOMAIN z /\ z[n] = f
    BY <1>1
  <2>3. to_chip' = z
    BY <1>3
  <2> HIDE DEF z, n
  <2>4. \A i \in FramesOf(to_chip, r) :
          i \in FramesOf(z, r) /\ z[i] = to_chip[i]
    BY <2>1 DEF FramesOf
  <2>5. f.req = r => n \in FramesOf(z, r) /\ z[n] = f
    BY <2>2 DEF FramesOf
  <2>6. QED
    BY <2>3, <2>4, <2>5
<1>4. \A f, g \in FrameType : out' = <<f>> /\ out' = <<g>> => f = g
  OBVIOUS
<1>5. CASE \E f \in FrameType : out' = <<f>>
  BY <1>3, <1>5
<1>6. QED
  BY <1>2, <1>5

(* A step of the gateway, which begins no connection, keeps what is known of *)
(* its start.                                                                *)
LEMMA GwStarts ==
  ASSUME InTypes, NEW r \in Requests, SameStart(r), HeardLater(r),
         server' = server, to_chip' = to_chip \o out',
         out' = <<>> \/ \E f \in FrameType :
           /\ out' = <<f>>
           /\ f.req = r => ~IsSyn(f) /\ (f.len = 0 \/ HasAsked(r)'),
         conn'[r].our_isn = conn[r].our_isn, HasAsked(r) => HasAsked(r)'
  PROVE  SameStart(r)' /\ HeardLater(r)'
<1>1. out' = <<>> \/ \E f \in FrameType : out' = <<f>>
  OBVIOUS
<1>2. \A i \in FramesOf(to_chip', r) :
        \/ i \in FramesOf(to_chip, r) /\ to_chip'[i] = to_chip[i]
        \/ \E f \in FrameType : out' = <<f>> /\ f.req = r /\ to_chip'[i] = f
  BY <1>1, GwFramesFrom
<1>3. \A f \in FrameType : out' = <<f>> /\ f.req = r =>
        ~IsSyn(f) /\ (f.len = 0 \/ HasAsked(r)')
  <2>1. SUFFICES ASSUME NEW f \in FrameType, out' = <<f>>, f.req = r
                 PROVE  ~IsSyn(f) /\ (f.len = 0 \/ HasAsked(r)')
    OBVIOUS
  <2>2. PICK g \in FrameType :
          /\ out' = <<g>>
          /\ g.req = r => ~IsSyn(g) /\ (g.len = 0 \/ HasAsked(r)')
    BY <2>1
  <2>3. g = f
    BY <2>1, <2>2
  <2>4. QED
    BY <2>1, <2>2, <2>3
<1>4. SameStart(r)'
  BY <1>2, <1>3 DEF SameStart
<1>5. HeardLater(r)'
  <2>1. SUFFICES ASSUME server[r].heard
                        \/ \E i \in FramesOf(to_chip', r) : to_chip'[i].len > 0
                 PROVE  HasAsked(r)'
    BY DEF HeardLater
  <2>2. CASE server[r].heard
    BY <2>2 DEF HeardLater
  <2>3. ASSUME NEW i \in FramesOf(to_chip', r), to_chip'[i].len > 0
        PROVE  HasAsked(r)'
    <3>1. CASE i \in FramesOf(to_chip, r) /\ to_chip'[i] = to_chip[i]
      BY <2>3, <3>1 DEF HeardLater
    <3>2. CASE \E f \in FrameType : out' = <<f>> /\ f.req = r /\ to_chip'[i] = f
      <4>1. PICK f \in FrameType : out' = <<f>> /\ f.req = r /\ to_chip'[i] = f
        BY <3>2
      <4>2. f.len = 0 \/ HasAsked(r)'
        BY <1>3, <4>1
      <4>3. f.len > 0
        BY <2>3, <4>1
      <4>4. f.len # 0
        BY <4>3
      <4>5. QED
        BY <4>2, <4>4
    <3>3. QED
      BY <1>2, <2>3, <3>1, <3>2
  <2>4. QED
    BY <2>1, <2>2, <2>3
<1>6. QED
  BY <1>4, <1>5

(* A step of the gateway that ends no connection, and forgets one only when  *)
(* nothing of it is under way.                                               *)
LEMMA GwFins ==
  ASSUME InTypes, NEW r \in Requests, FinComes(r),
         server' = server, to_chip' = to_chip \o out',
         out' = <<>> \/ \E f \in FrameType : out' = <<f>>,
         conn'[r].our_isn = conn[r].our_isn, FinSentOf(r)' => FinSentOf(r),
         \/ task'[r].pc = "gone" => task[r].pc = "gone"
         \/ FramesOf(to_chip, r) = {}
  PROVE  FinComes(r)'
<1>1. \A i \in FramesOf(to_chip, r) :
        i \in FramesOf(to_chip', r) /\ to_chip'[i] = to_chip[i]
  BY GwFramesStay
<1>2. SUFFICES ASSUME FinSentOf(r)'
               PROVE  /\ server'[r].fin
                      /\ \/ server'[r].st = "gone" \/ Over(server'[r])
                         \/ FinDue(r)'
  BY DEF FinComes
<1>3. /\ server[r].fin
      /\ server[r].st = "gone" \/ Over(server[r]) \/ FinDue(r)
  BY <1>2 DEF FinComes
<1>4. ASSUME FinDue(r)
      PROVE  FinDue(r)'
  <2>1. PICK i \in FramesOf(to_chip, r) : LastFin(r, to_chip[i])
    BY <1>4 DEF FinDue
  <2>2. i \in FramesOf(to_chip', r) /\ to_chip'[i] = to_chip[i]
    BY <1>1, <2>1
  <2>3. task'[r].pc # "gone" /\ server'[r].st = "open"
    BY <1>4, <2>1 DEF FinDue
  <2>4. LastFin(r, to_chip[i])'
    BY <2>1, <2>2 DEF LastFin, OurEnd, OurStart
  <2>5. QED
    BY <2>2, <2>3, <2>4 DEF FinDue
<1>5. QED
  BY <1>3, <1>4

(* A step of the gateway that is not about d.                                *)
LEMMA AsideCloses ==
  ASSUME InTypes, NEW d \in Requests, ClosesOK(d), server' = server,
         to_chip' = to_chip \o out',
         out' = <<>> \/ \E f \in FrameType : out' = <<f>> /\ f.req # d,
         conn'[d] = conn[d], task'[d] = task[d], bridge' = bridge,
         d \in table' => d \in table, handler'.req = d => handler' = handler
  PROVE  ClosesOK(d)'
<1>1. Asked(d)' = Asked(d) /\ HasAsked(d)' = HasAsked(d)
  BY DEF Asked, HasAsked
<1>2. out' = <<>> \/ \E f \in FrameType :
        /\ out' = <<f>>
        /\ f.req = d => ~IsSyn(f) /\ (f.len = 0 \/ HasAsked(d)')
  OBVIOUS
<1>3. SameStart(d)' /\ HeardLater(d)'
  BY <1>1, <1>2, GwStarts DEF ClosesOK
<1>4. FinSentOf(d)' => FinSentOf(d)
  BY DEF FinSentOf
<1>5. FinComes(d)'
  BY <1>4, GwFins DEF ClosesOK
<1>6. OurSeqOK(d)'
  BY <1>1 DEF ClosesOK, OurSeqOK, OurStart, OurEnd
<1>7. BusyOK(d)'
  BY DEF ClosesOK, BusyOK
<1>8. CountedOK(d)'
  BY DEF ClosesOK, CountedOK, AtData, FinCounted
<1>9. QED
  BY <1>3, <1>5, <1>6, <1>7, <1>8 DEF ClosesOK

(* The connection is the same but for its state and its event.               *)
SameSeqs(r, c) ==
    /\ conn'[r].our_isn = c.our_isn /\ conn'[r].our_seq = c.our_seq
    /\ conn'[r].finished = c.finished

(* A return, and a round of the loop.                                        *)
LEMMA ReturnsTo ==
  ASSUME InTypes, NEW r \in Requests, NEW c \in ConnType,
         NEW how \in {"timeout", "failed", "fin", "complete", "deadline",
                      "idle"},
         Returns(r, c, how)
  PROVE  /\ SameSeqs(r, c)
         /\ task'[r].pc = "over" /\ task'[r].how = how
<1> DEFINE z == [c EXCEPT !.state = "CLOSED"]
           t == [task[r] EXCEPT !.pc = "over", !.how = how]
<1>1. /\ z.our_isn = c.our_isn /\ z.our_seq = c.our_seq
      /\ z.finished = c.finished
  BY DEF ConnType
<1>2. t.pc = "over" /\ t.how = how
  BY TypesAre DEF TaskType
<1>3. conn' = [conn EXCEPT ![r] = z] /\ task' = [task EXCEPT ![r] = t]
  BY DEF Returns
<1> HIDE DEF z, t
<1>4. conn'[r] = z /\ task'[r] = t
  BY <1>3, TypesAre
<1>5. QED
  BY <1>1, <1>2, <1>4 DEF SameSeqs

LEMMA RoundTo ==
  ASSUME InTypes, NEW r \in Requests, NEW c \in ConnType, Round(r, c),
         task[r].how = None
  PROVE  /\ SameSeqs(r, c) /\ Asked(r)'
         /\ \/ task'[r].pc = "wait" /\ task'[r].how = None
            \/ task'[r].pc = "over" /\ (task'[r].how = "fin" => c.finished)
<1>1. CASE c.finished /\ Returns(r, c, "fin")
  BY <1>1, ReturnsTo DEF Asked
<1>2. CASE Returns(r, c, "complete") \/ Returns(r, c, "deadline")
  BY <1>2, ReturnsTo DEF Asked
<1>3. CASE /\ conn' = [conn EXCEPT ![r] = [c EXCEPT !.data_event = FALSE]]
           /\ GoesTo(r, "wait")
  <2> DEFINE z == [c EXCEPT !.data_event = FALSE]
  <2>1. /\ z.our_isn = c.our_isn /\ z.our_seq = c.our_seq
        /\ z.finished = c.finished
    BY DEF ConnType
  <2>2. conn' = [conn EXCEPT ![r] = z]
    BY <1>3
  <2> HIDE DEF z
  <2>3. conn'[r] = z
    BY <2>2, TypesAre
  <2>4. task'[r].pc = "wait" /\ task'[r].how = None
    <3> DEFINE t == [task[r] EXCEPT !.pc = "wait"]
    <3>1. t.pc = "wait" /\ t.how = task[r].how
      BY TypesAre DEF TaskType
    <3>2. task' = [task EXCEPT ![r] = t]
      BY <1>3 DEF GoesTo
    <3> HIDE DEF t
    <3>3. task'[r] = t
      BY <3>2, TypesAre
    <3>4. QED
      BY <3>1, <3>3
  <2>5. QED
    BY <2>1, <2>3, <2>4 DEF SameSeqs, Asked
<1>4. QED
  BY <1>1, <1>2, <1>3 DEF Round

(* The task goes on, or has gone.                                            *)
LEMMA GoesToHow ==
  ASSUME InTypes, NEW r \in Requests, NEW pc, GoesTo(r, pc)
  PROVE  task'[r].pc = pc /\ task'[r].how = task[r].how
<1> DEFINE t == [task[r] EXCEPT !.pc = pc]
<1>1. t.pc = pc /\ t.how = task[r].how
  BY TypesAre DEF TaskType
<1>2. task' = [task EXCEPT ![r] = t]
  BY DEF GoesTo
<1> HIDE DEF t
<1>3. task'[r] = t
  BY <1>2, TypesAre
<1>4. QED
  BY <1>1, <1>3

(* What a step of the task of r does to its numbers.                         *)
Advances(r) ==
    /\ conn'[r].our_isn = conn[r].our_isn
    /\ OurSeqOK(r)'
    /\ HasAsked(r) => HasAsked(r)'
    /\ task'[r].pc \notin {"over", "gone"} => task'[r].how = None
    /\ task'[r].how = "fin" => conn[r].finished
    /\ out' = <<>> \/ HasAsked(r)'
    /\ task'[r].pc = "gone" => Forgets(r)

LEMMA TaskAdvances ==
  ASSUME InTypes, NEW r \in Requests, ClosesOK(r),
         \/ SynTimesOut(r) \/ Fails(r) \/ SendsRequest(r) \/ RequestSent(r)
         \/ Wakes(r) \/ Polls(r) \/ DeadlinePasses(r) \/ Forgets(r)
  PROVE  Advances(r)
<1>0. /\ conn[r] \in ConnType /\ OurSeqOK(r)
      /\ task[r].pc \notin {"over", "gone"} => task[r].how = None
      /\ task[r].how = "fin" => conn[r].finished
      /\ None \notin {"timeout", "failed", "fin", "complete", "deadline",
                      "idle"}
  BY TypesAre, InboundAssumption DEF ClosesOK, BusyOK
<1>1. ASSUME SameSeqs(r, conn[r]), (Asked(r)' <=> Asked(r))
      PROVE  conn'[r].our_isn = conn[r].our_isn /\ OurSeqOK(r)'
  BY <1>0, <1>1 DEF SameSeqs, OurSeqOK, OurStart, OurEnd
<1>2. ASSUME task[r].pc = "await",
             Returns(r, conn[r], "timeout") \/ Returns(r, conn[r], "failed")
      PROVE  out' = <<>> => Advances(r)
  <2>1. SameSeqs(r, conn[r]) /\ task'[r].pc = "over"
        /\ task'[r].how \in {"timeout", "failed"}
    BY <1>0, <1>2, ReturnsTo
  <2>2. ~HasAsked(r) /\ ~Asked(r) /\ ~Asked(r)'
    BY <1>0, <1>2, <2>1 DEF HasAsked, Asked
  <2>3. QED
    BY <1>1, <2>1, <2>2 DEF Advances
<1>3. CASE SynTimesOut(r) \/ Fails(r)
  BY <1>2, <1>3 DEF SynTimesOut, Fails, At, Quiet
<1>4. CASE SendsRequest(r)
  <2>1. conn' = conn /\ task[r].pc = "await" /\ GoesTo(r, "sending")
    BY <1>4 DEF SendsRequest, At
  <2>2. task'[r].pc = "sending" /\ task'[r].how = None
    BY <1>0, <2>1, GoesToHow
  <2>3. ~Asked(r) /\ ~Asked(r)' /\ HasAsked(r)' /\ SameSeqs(r, conn[r])
    BY <1>0, <2>1, <2>2 DEF Asked, HasAsked, SameSeqs
  <2>4. QED
    BY <1>0, <1>1, <2>2, <2>3 DEF Advances
<1>5. CASE RequestSent(r)
  <2> DEFINE y == seq_add(conn[r].our_seq, RequestLen)
             c == [conn[r] EXCEPT !.our_seq = y]
  <2>1. Round(r, c) /\ task[r].pc = "sending" /\ out' = <<>>
    BY <1>5 DEF RequestSent, At, Quiet
  <2>2. y \in SeqNums
    BY <1>0, ConnNumbers, SeqNumsAreInts, SeqAddTyped, InboundAssumption
  <2> HIDE DEF y
  <2>3. /\ c \in ConnType /\ c.our_isn = conn[r].our_isn /\ c.our_seq = y
        /\ c.finished = conn[r].finished
    BY <1>0, <2>2 DEF ConnType
  <2> HIDE DEF c
  <2>4. /\ SameSeqs(r, c) /\ Asked(r)'
        /\ \/ task'[r].pc = "wait" /\ task'[r].how = None
           \/ task'[r].pc = "over" /\ (task'[r].how = "fin" => c.finished)
    BY <1>0, <2>1, <2>3, RoundTo
  <2>5. OurSeqOK(r)'
    <3>1. ~Asked(r)
      BY <1>0, <2>1 DEF Asked
    <3>2. ~conn[r].finished => conn[r].our_seq = OurStart(r)
      BY <1>0, <3>1 DEF OurSeqOK
    <3>3. ~conn[r].finished => y = OurEnd(r)
      BY <3>2 DEF y, OurEnd
    <3>4. OurEnd(r)' = OurEnd(r)
      BY <2>3, <2>4 DEF SameSeqs, OurEnd, OurStart
    <3>5. QED
      BY <2>3, <2>4, <3>3, <3>4 DEF SameSeqs, OurSeqOK
  <2>6. QED
    BY <1>0, <2>1, <2>3, <2>4, <2>5 DEF Advances, HasAsked, SameSeqs
<1>6. ASSUME Round(r, conn[r]), task[r].pc = "wait", out' = <<>>
      PROVE  Advances(r)
  <2>1. /\ SameSeqs(r, conn[r]) /\ Asked(r)' /\ Asked(r)
        /\ \/ task'[r].pc = "wait" /\ task'[r].how = None
           \/ task'[r].pc = "over"
              /\ (task'[r].how = "fin" => conn[r].finished)
    BY <1>0, <1>6, RoundTo DEF Asked
  <2>2. QED
    BY <1>0, <1>1, <1>6, <2>1 DEF Advances, HasAsked
<1>7. CASE Wakes(r)
  BY <1>6, <1>7 DEF Wakes, At, Quiet
<1>8. CASE Polls(r)
  <2>1. CASE Returns(r, conn[r], "idle")
    <3>1. SameSeqs(r, conn[r]) /\ task'[r].pc = "over" /\ task'[r].how = "idle"
      BY <1>0, <2>1, ReturnsTo
    <3>2. Asked(r) /\ Asked(r)'
      BY <1>8, <3>1 DEF Asked, Polls, At
    <3>3. QED
      BY <1>1, <1>8, <3>1, <3>2 DEF Advances, HasAsked, Polls, Quiet
  <2>2. QED
    BY <1>6, <1>8, <2>1 DEF Polls, At, Quiet
<1>9. CASE DeadlinePasses(r)
  <2> DEFINE t == [task[r] EXCEPT !.late = TRUE]
  <2>1. t.pc = task[r].pc /\ t.how = task[r].how
    BY TypesAre DEF TaskType
  <2>2. /\ task' = [task EXCEPT ![r] = t] /\ conn' = conn
        /\ out' = <<>> /\ task[r].pc = "wait"
    BY <1>9 DEF DeadlinePasses, At, Quiet
  <2> HIDE DEF t
  <2>3. task'[r] = t
    BY <2>2, TypesAre
  <2>4. (Asked(r)' <=> Asked(r)) /\ (HasAsked(r)' <=> HasAsked(r))
        /\ SameSeqs(r, conn[r])
    BY <2>1, <2>2, <2>3 DEF Asked, HasAsked, SameSeqs
  <2>5. QED
    BY <1>0, <1>1, <2>1, <2>2, <2>3, <2>4 DEF Advances
<1>10. CASE Forgets(r)
  <2>1. /\ conn' = conn /\ task[r].pc = "over" /\ GoesTo(r, "gone")
        /\ out' = <<>>
    BY <1>10 DEF Forgets, At, Quiet
  <2>2. task'[r].pc = "gone" /\ task'[r].how = task[r].how
    BY <2>1, GoesToHow
  <2>3. (Asked(r)' <=> Asked(r)) /\ (HasAsked(r) => HasAsked(r)')
        /\ SameSeqs(r, conn[r])
    BY <2>1, <2>2 DEF Asked, HasAsked, SameSeqs
  <2>4. QED
    BY <1>0, <1>1, <1>10, <2>1, <2>2, <2>3 DEF Advances
<1>11. QED
  BY <1>3, <1>4, <1>5, <1>7, <1>8, <1>9, <1>10

(* A task runs on.                                                           *)
LEMMA RunsCloses ==
  ASSUME InTypes, NEW r \in Requests, NEW d \in Requests, ClosesOK(d),
         Emits(\/ SynTimesOut(r) \/ Fails(r) \/ SendsRequest(r)
               \/ RequestSent(r) \/ Wakes(r) \/ Polls(r)
               \/ DeadlinePasses(r) \/ Forgets(r)),
         Forgets(r) => Quiescent(r)
  PROVE  ClosesOK(d)'
<1>1. /\ \/ SynTimesOut(r) \/ Fails(r) \/ SendsRequest(r) \/ RequestSent(r)
         \/ Wakes(r) \/ Polls(r) \/ DeadlinePasses(r) \/ Forgets(r)
      /\ to_chip' = to_chip \o out' /\ server' = server
  BY DEF Emits
<1>2. Runs(r)
  BY <1>1, TaskRunsOn
<1>3. /\ bridge' = bridge /\ handler' = handler /\ table' \subseteq table
      /\ \A b \in Requests \ {r} : conn'[b] = conn[b] /\ task'[b] = task[b]
      /\ conn'[r].reset = conn[r].reset /\ conn'[r].finished = conn[r].finished
      /\ conn'[r].rx = conn[r].rx /\ conn'[r].chip_seq = conn[r].chip_seq
      /\ out' = <<>> \/ \E f \in FrameType :
           out' = <<f>> /\ f.req = r /\ f.flags = {"ACK"}
  BY <1>2 DEF Runs
<1>4. CASE d # r
  <2>1. out' = <<>> \/ \E f \in FrameType : out' = <<f>> /\ f.req # d
    BY <1>3, <1>4
  <2>2. d \in table' => d \in table
    BY <1>3
  <2>3. QED
    BY <1>1, <1>3, <1>4, <2>1, <2>2, AsideCloses
<1>5. CASE d = r
  <2>1. Advances(r) /\ ClosesOK(r)
    BY <1>1, <1>5, TaskAdvances
  <2>2. out' = <<>> \/ \E f \in FrameType :
          /\ out' = <<f>>
          /\ f.req = r => ~IsSyn(f) /\ (f.len = 0 \/ HasAsked(r)')
    BY <1>3, <2>1 DEF IsSyn, Advances
  <2>3. SameStart(r)' /\ HeardLater(r)'
    BY <1>1, <2>1, <2>2, GwStarts DEF ClosesOK, Advances
  <2>4. Forgets(r) => FramesOf(to_chip, r) = {} /\ handler.req # r
                      /\ r \notin table'
    BY DEF Quiescent, FramesOf, Forgets
  <2>5. FinSentOf(r)' => FinSentOf(r)
    BY <1>3 DEF FinSentOf
  <2>6. FinComes(r)'
    BY <1>1, <1>3, <2>1, <2>4, <2>5, GwFins DEF ClosesOK, Advances
  <2>7. BusyOK(r)'
    BY <1>3, <2>1, <2>4 DEF ClosesOK, BusyOK, Advances
  <2>8. CountedOK(r)'
    BY <1>3, <2>1 DEF ClosesOK, CountedOK, AtData, FinCounted
  <2>9. QED
    BY <1>5, <2>1, <2>3, <2>6, <2>7, <2>8 DEF ClosesOK, Advances
<1>6. QED
  BY <1>4, <1>5

(* A request begins, or opens its connection.                                *)
LEMMA OpensCloses ==
  ASSUME InTypes, NEW r \in Requests, NEW d \in Requests, ClosesOK(d),
         RespOK(r), Emits(http_into_chip(r) \/ Opens(r))
  PROVE  ClosesOK(d)'
<1>1. /\ http_into_chip(r) \/ Opens(r)
      /\ to_chip' = to_chip \o out' /\ server' = server
  BY DEF Emits
<1>2. /\ bridge' = bridge /\ handler' = handler
      /\ task[r].pc \in {"new", "arp"}
      /\ table' = table \/ (table' = table \cup {r} /\ Opens(r))
  BY <1>1 DEF http_into_chip, Opens, At
<1>3. \A b \in Requests \ {r} : conn'[b] = conn[b] /\ task'[b] = task[b]
  BY <1>1, TypesAre DEF http_into_chip, Opens, GoesTo
<1>4. /\ conn[r] = NewConn(0) /\ r \notin table /\ handler.req # r
      /\ server[r].st = "listen" /\ FramesOf(to_chip, r) = {}
  BY <1>2 DEF RespOK, UnopenedOK, FramesOf
<1>5. ~server[r].heard
  <2>1. server[r] \in ServerType /\ ServerOK(server[r])
    BY TypesAre DEF RespOK
  <2>2. server[r].next = 0
    BY <1>4, <2>1 DEF ServerOK
  <2>3. server[r].heard => server[r].next >= 1
    BY <2>1 DEF ServerOK
  <2>4. QED
    BY <2>2, <2>3
<1>6. CASE http_into_chip(r)
  <2>1. /\ GoesTo(r, IF bridge = "running" THEN "arp" ELSE "gone")
        /\ conn' = conn /\ out' = <<>> /\ table' = table
    BY <1>6 DEF http_into_chip, Quiet
  <2>2. task'[r].pc \in {"arp", "gone"} /\ task'[r].how = task[r].how
    BY <2>1, GoesToHow
  <2>3. CASE d # r
    BY <1>1, <1>2, <1>3, <2>1, <2>3, AsideCloses
  <2>4. CASE d = r
    <3>1. ClosesOK(r) /\ ~conn[r].finished /\ ~HasAsked(r)
      <4>1. ~conn[r].finished
        BY <1>4 DEF NewConn
      <4>2. task[r].how = None
        BY <1>2, <2>4 DEF ClosesOK, BusyOK
      <4>3. QED
        BY <1>2, <2>4, <4>1, <4>2, InboundAssumption DEF HasAsked, Asked
    <3>2. Asked(r)' <=> Asked(r)
      BY <1>2, <2>2 DEF Asked
    <3>3. SameStart(r)' /\ HeardLater(r)'
      BY <1>1, <2>1, <3>1, GwStarts DEF ClosesOK
    <3>4. OurSeqOK(r)'
      BY <2>1, <3>1, <3>2 DEF ClosesOK, OurSeqOK, OurEnd, OurStart
    <3>5. BusyOK(r)'
      BY <1>2, <1>4, <2>1, <2>2, <3>1 DEF ClosesOK, BusyOK
    <3>6. ~FinSentOf(r)'
      BY <1>2, <1>4, <2>1, <3>1 DEF FinSentOf
    <3>7. CountedOK(r)'
      BY <1>2, <1>4 DEF CountedOK, AtData, FinCounted
    <3>8. QED
      BY <2>4, <3>3, <3>4, <3>5, <3>6, <3>7 DEF ClosesOK, FinComes
  <2>5. QED
    BY <2>3, <2>4
<1>7. CASE Opens(r)
  <2>1. PICK isn \in ISNs : /\ conn' = [conn EXCEPT ![r] = NewConn(isn)]
                            /\ Inject(Frame(r, {"SYN"}, isn, 0, 0))
    BY <1>7 DEF Opens
  <2> DEFINE g == Frame(r, {"SYN"}, isn, 0, 0)
             c == NewConn(isn)
  <2>2. g \in FrameType
    <3>1. isn \in SeqNums /\ 0 \in SeqNums /\ 0 \in Nat
          /\ {"SYN"} \in SUBSET Flags
      BY InboundAssumption, SeqNumsAreInts DEF Flags
    <3>2. QED
      BY <3>1, FrameTyped
  <2>3. /\ g.req = r /\ g.seq = isn /\ g.len = 0
        /\ c.our_isn = isn /\ c.our_seq = seq_add(isn, 1) /\ ~c.finished
    BY DEF Frame, NewConn
  <2>4. out' = <<>> \/ out' = <<g>>
    BY <2>1 DEF Inject
  <2> HIDE DEF g, c
  <2>5. conn'[r] = c
    BY <2>1, TypesAre DEF c
  <2>6. task'[r].pc = "await" /\ task'[r].how = task[r].how
    BY <1>7, GoesToHow DEF Opens
  <2>7. CASE d # r
    <3>1. out' = <<>> \/ \E f \in FrameType : out' = <<f>> /\ f.req # d
      BY <2>2, <2>3, <2>4, <2>7
    <3>2. d \in table' => d \in table
      BY <1>2, <2>7
    <3>3. QED
      BY <1>1, <1>2, <1>3, <2>7, <3>1, <3>2, AsideCloses
  <2>8. CASE d = r
    <3>1. task[r].how = None
      BY <1>2, <2>8 DEF ClosesOK, BusyOK
    <3>2. ~Asked(r)'
      BY <2>6, <3>1, InboundAssumption DEF Asked
    <3>3. \A i \in FramesOf(to_chip', r) : to_chip'[i] = g
      <4>1. out' = <<>> \/ \E f \in FrameType : out' = <<f>>
        BY <2>2, <2>4
      <4>2. \A i \in FramesOf(to_chip', r) :
              \/ i \in FramesOf(to_chip, r) /\ to_chip'[i] = to_chip[i]
              \/ \E f \in FrameType :
                   out' = <<f>> /\ f.req = r /\ to_chip'[i] = f
        BY <1>1, <4>1, GwFramesFrom
      <4>3. FramesOf(to_chip, r) = {}
        BY <1>4 DEF FramesOf
      <4>4. \A f : out' = <<f>> => f = g
        BY <2>4
      <4>5. QED
        BY ONLY <4>2, <4>3, <4>4
    <3>4. SameStart(r)'
      BY <1>1, <1>4, <2>3, <2>5, <3>3 DEF SameStart
    <3>5. HeardLater(r)'
      <4>1. \A i \in FramesOf(to_chip', r) : ~(to_chip'[i].len > 0)
        BY <2>3, <3>3
      <4>2. ~server'[r].heard
        BY <1>1, <1>5
      <4>3. QED
        BY <4>1, <4>2 DEF HeardLater
    <3>6. OurSeqOK(r)'
      BY <2>3, <2>5, <3>2 DEF OurSeqOK, OurStart
    <3>7. BusyOK(r)'
      BY <1>2, <1>4, <2>6, <3>1, InboundAssumption DEF BusyOK
    <3>8. ~FinSentOf(r)'
      BY <1>2, <1>4, <2>3, <2>5 DEF FinSentOf
    <3>9. CountedOK(r)'
      BY <1>2, <1>4 DEF CountedOK, AtData, FinCounted
    <3>10. QED
      BY <2>8, <3>4, <3>5, <3>6, <3>7, <3>8, <3>9 DEF ClosesOK, FinComes
  <2>9. QED
    BY <2>7, <2>8
<1>8. QED
  BY <1>1, <1>6, <1>7

(* The bridge goes.                                                          *)
LEMMA StopCloses ==
  ASSUME InTypes, NEW d \in Requests, ClosesOK(d), Emits(stop \/ shutdown)
  PROVE  ClosesOK(d)'
<1>1. /\ to_chip' = to_chip \o out' /\ server' = server
      /\ (stop \/ shutdown)
  BY DEF Emits
<1>2. /\ out' = <<>> /\ task' = task /\ handler' = handler
      /\ bridge' # "running" /\ bridge # "stopped"
      /\ table' \subseteq table
  BY <1>1 DEF stop, shutdown, Quiet
<1>3. \/ conn'[d] = conn[d]
      \/ /\ conn'[d].our_isn = conn[d].our_isn /\ conn'[d].finished
         /\ bridge' = "stopped" /\ conn'[d].rx = conn[d].rx
         /\ conn'[d].chip_seq = conn[d].chip_seq
  <2>1. CASE stop
    BY <2>1 DEF stop
  <2>2. CASE shutdown
    <3> DEFINE z == [conn[d] EXCEPT !.reset = TRUE, !.finished = TRUE,
                                    !.established = TRUE]
    <3>1. /\ z.our_isn = conn[d].our_isn /\ z.finished
          /\ z.rx = conn[d].rx /\ z.chip_seq = conn[d].chip_seq
      BY TypesAre DEF ConnType
    <3>2. conn'[d] = IF d \in table THEN z ELSE conn[d]
      BY <2>2 DEF shutdown
    <3> HIDE DEF z
    <3>3. QED
      BY <2>2, <3>1, <3>2 DEF shutdown
  <2>3. QED
    BY <1>1, <2>1, <2>2
<1>4. (Asked(d)' <=> Asked(d)) /\ (HasAsked(d)' <=> HasAsked(d))
  BY <1>2 DEF Asked, HasAsked
<1>5. conn'[d].our_isn = conn[d].our_isn
  BY <1>3
<1>6. SameStart(d)' /\ HeardLater(d)'
  BY <1>1, <1>2, <1>4, <1>5, GwStarts DEF ClosesOK
<1>7. OurSeqOK(d)'
  BY <1>3, <1>4 DEF ClosesOK, OurSeqOK, OurEnd, OurStart
<1>8. BusyOK(d)'
  BY <1>2, <1>3 DEF ClosesOK, BusyOK
<1>9. ~FinSentOf(d)'
  BY <1>2 DEF FinSentOf
<1>10. CountedOK(d)'
  BY <1>2, <1>3 DEF ClosesOK, CountedOK, AtData, FinCounted
<1>11. QED
  BY <1>6, <1>7, <1>8, <1>9, <1>10 DEF ClosesOK, FinComes

(* The handler goes on after a send.  It sends its FIN with the number that  *)
(* the server expects next, as no task is still in the send of its request.  *)
LEMMA HandlerCloses ==
  ASSUME "request" \notin Slow, InTypes, InTypes',
         \A r \in Requests : RespOK(r) /\ LateOK(r) /\ ClosesOK(r),
         NEW d \in Requests, Emits(HandlerRuns)
  PROVE  ClosesOK(d)'
<1>1. PICK r : r = handler.req
  OBVIOUS
<1>2. /\ to_chip' = to_chip \o out' /\ server' = server /\ HandlerRuns
      /\ task' = task /\ bridge' = bridge /\ table' = table
  BY DEF Emits, HandlerRuns, Established, DataAcked, FinAcked, FinSent
<1>3. r \in Requests /\ r # None /\ Idle.req = None
  BY <1>1, <1>2, HandlerHas, InboundAssumption
     DEF HandlerRuns, Established, DataAcked, FinAcked, FinSent, HandlerAt, Idle
<1> DEFINE c == conn[r]
<1>4. /\ c \in ConnType /\ conn'[r] \in ConnType /\ server[r] \in ServerType
      /\ handler \in HandlerType
      /\ {"ACK"} \in SUBSET Flags /\ {"ACK", "FIN"} \in SUBSET Flags
  BY <1>3, TypesAre DEF InTypes, Flags
<1>5. RespOK(r) /\ LateOK(r) /\ ClosesOK(r)
  BY <1>3
<1>6. \A b \in Requests \ {r} : conn'[b] = conn[b]
  BY <1>1, <1>2, TypesAre
     DEF HandlerRuns, Established, DataAcked, FinAcked, FinSent
<1>7. handler'.req \in {r, None}
  BY <1>1, <1>2, <1>4
     DEF HandlerRuns, Established, DataAcked, FinAcked, FinSent, Idle,
         HandlerType
<1>8. out' = <<>> \/ \E f \in FrameType :
        out' = <<f>> /\ f.req = r /\ ~IsSyn(f) /\ f.len = 0
  <2>1. \/ Quiet
        \/ Emit(r, conn'[r], {"ACK"})
        \/ Emit(r, conn'[r], {"ACK", "FIN"})
    BY <1>1, <1>2 DEF HandlerRuns, Established, DataAcked, FinAcked, FinSent
  <2>2. CASE Quiet
    BY <2>2 DEF Quiet
  <2>3. ASSUME NEW flags \in {{"ACK"}, {"ACK", "FIN"}},
               Emit(r, conn'[r], flags)
        PROVE  out' = <<>> \/ \E f \in FrameType :
                 out' = <<f>> /\ f.req = r /\ ~IsSyn(f) /\ f.len = 0
    <3>1. flags \in SUBSET Flags /\ "ACK" \in flags
      BY DEF Flags
    <3>2. out' = <<>> \/ \E f \in FrameType :
            /\ out' = <<f>> /\ f.req = r /\ ~IsSyn(f) /\ f.len = 0
            /\ f.ack = conn'[r].chip_seq /\ f.flags = flags
      BY <1>3, <1>4, <2>3, <3>1, EmitAnswers
    <3>3. QED
      BY <3>2
  <2>4. QED
    BY <2>1, <2>2, <2>3
<1>9. CASE d # r
  <2>1. out' = <<>> \/ \E f \in FrameType : out' = <<f>> /\ f.req # d
    BY <1>8, <1>9
  <2>2. handler'.req # d /\ d \in Requests \ {r}
    BY <1>7, <1>9, InboundAssumption
  <2>3. QED
    BY <1>2, <1>5, <1>6, <2>1, <2>2, AsideCloses
<1>10. CASE d = r
  <2> DEFINE x == conn'[r]
  <2>1. (Asked(r)' <=> Asked(r)) /\ (HasAsked(r)' <=> HasAsked(r))
    BY <1>2 DEF Asked, HasAsked
  <2>2. ASSUME x.our_isn = c.our_isn,
               x.our_seq = c.our_seq \/ x.finished,
               x.finished = c.finished \/ handler'.req # r,
               c.finished => x.finished,
               CountedOK(r)', FinComes(r)'
        PROVE  ClosesOK(r)'
    <3>1. out' = <<>> \/ \E f \in FrameType :
            /\ out' = <<f>>
            /\ f.req = r => ~IsSyn(f) /\ (f.len = 0 \/ HasAsked(r)')
      BY <1>8
    <3>2. SameStart(r)' /\ HeardLater(r)'
      BY <1>2, <1>3, <1>5, <2>1, <2>2, <3>1, GwStarts DEF ClosesOK
    <3>3. OurSeqOK(r)'
      BY <1>5, <2>1, <2>2 DEF ClosesOK, OurSeqOK, OurEnd, OurStart
    <3>4. BusyOK(r)'
      BY <1>1, <1>2, <1>5, <2>2 DEF ClosesOK, BusyOK
    <3>5. QED
      BY <2>2, <3>2, <3>3, <3>4 DEF ClosesOK
  <2>3. ASSUME FinSentOf(r)' => FinSentOf(r), x.our_isn = c.our_isn
        PROVE  FinComes(r)'
    <3>1. out' = <<>> \/ \E f \in FrameType : out' = <<f>>
      BY <1>8
    <3>2. QED
      BY <1>2, <1>3, <1>5, <2>3, <3>1, GwFins DEF ClosesOK
  <2>4. CASE Established
    <3> DEFINE z == [c EXCEPT !.established = TRUE]
    <3>1. /\ z.our_isn = c.our_isn /\ z.our_seq = c.our_seq
          /\ z.finished = c.finished /\ z.reset = c.reset
      BY <1>4 DEF ConnType
    <3>2. conn' = [conn EXCEPT ![r] = z] /\ handler' = Idle
      BY <1>1, <2>4 DEF Established
    <3> HIDE DEF z
    <3>3. x = z /\ handler'.req # r
      BY <1>3, <3>2, TypesAre
    <3>4. CountedOK(r)'
      BY <3>3 DEF CountedOK, AtData, FinCounted
    <3>5. FinSentOf(r)' => FinSentOf(r)
      BY <1>2, <3>1, <3>3 DEF FinSentOf
    <3>6. QED
      BY <1>10, <2>2, <2>3, <3>1, <3>3, <3>4, <3>5
  <2>5. CASE DataAcked
    <3>1. CASE handler.fin
      <4> DEFINE y == seq_add(c.chip_seq, FinSpan)
                 z == [c EXCEPT !.data_event = Told, !.chip_seq = y]
      <4>1. /\ z.our_isn = c.our_isn /\ z.our_seq = c.our_seq
            /\ z.finished = c.finished /\ z.reset = c.reset
            /\ z.chip_seq = y /\ z.rx = c.rx
        BY <1>4 DEF ConnType
      <4>2. /\ conn' = [conn EXCEPT ![r] = z]
            /\ handler' = [handler EXCEPT !.pc = "fin_acked"]
            /\ handler.pc = "data_acked"
        BY <1>1, <2>5, <3>1 DEF DataAcked, HandlerAt
      <4>3. handler'.req = r /\ handler'.pc = "fin_acked"
        BY <1>1, <1>4, <4>2 DEF HandlerType
      <4>4. c.chip_seq = SeqAt(Len(c.rx) + 1) /\ Len(c.rx) \in Nat
        BY <1>1, <1>4, <1>5, <4>2 DEF ClosesOK, CountedOK, AtData, ConnType
      <4>5. y = SeqAt(Len(c.rx) + 2)
        <5> DEFINE n == Len(c.rx)
        <5>1. n + 1 \in Int /\ ChipISN \in Int /\ FinSpan \in Int
              /\ FinSpan = 1
          BY <4>4, InboundTunnelAssumption, SeqNumsAreInts DEF FinSpan
        <5> HIDE DEF n
        <5>2. seq_add(SeqAt(n + 1), FinSpan) = seq_add(ChipISN, n + 1 + FinSpan)
          BY <5>1, SeqAddTwice DEF SeqAt
        <5>3. n + 1 + FinSpan = n + 2
          BY <4>4, <5>1 DEF n
        <5>4. QED
          BY <4>4, <5>2, <5>3 DEF SeqAt, n
      <4> HIDE DEF y, z
      <4>6. x = z
        BY <1>3, <4>2, TypesAre
      <4>7. CountedOK(r)'
        BY <4>1, <4>3, <4>5, <4>6 DEF CountedOK, AtData, FinCounted
      <4>8. FinSentOf(r)' => FinSentOf(r)
        BY <1>2, <4>1, <4>3, <4>6 DEF FinSentOf
      <4>9. QED
        BY <1>10, <2>2, <2>3, <4>1, <4>6, <4>7, <4>8
    <3>2. CASE ~handler.fin
      <4> DEFINE z == [c EXCEPT !.data_event = Told]
      <4>1. /\ z.our_isn = c.our_isn /\ z.our_seq = c.our_seq
            /\ z.finished = c.finished /\ z.reset = c.reset
        BY <1>4 DEF ConnType
      <4>2. conn' = [conn EXCEPT ![r] = z] /\ handler' = Idle
        BY <1>1, <2>5, <3>2 DEF DataAcked
      <4> HIDE DEF z
      <4>3. x = z /\ handler'.req # r
        BY <1>3, <4>2, TypesAre
      <4>4. CountedOK(r)'
        BY <4>3 DEF CountedOK, AtData, FinCounted
      <4>5. FinSentOf(r)' => FinSentOf(r)
        BY <1>2, <4>1, <4>3 DEF FinSentOf
      <4>6. QED
        BY <1>10, <2>2, <2>3, <4>1, <4>3, <4>4, <4>5
    <3>3. QED
      BY <3>1, <3>2
  <2>6. CASE FinAcked
    <3> DEFINE g == Frame(r, {"ACK", "FIN"}, c.our_seq, c.chip_seq, 0)
    <3>1. /\ handler.pc = "fin_acked" /\ Turn("handler") /\ x = c
          /\ Emit(r, c, {"ACK", "FIN"})
          /\ handler' = [handler EXCEPT !.pc = "fin_sent"]
      BY <1>1, <2>6 DEF FinAcked, HandlerAt
    <3>2. handler'.req = r /\ handler'.pc = "fin_sent"
      BY <1>1, <1>4, <3>1 DEF HandlerType
    <3>3. CountedOK(r)'
      BY <1>1, <1>5, <3>1, <3>2 DEF ClosesOK, CountedOK, AtData, FinCounted
    <3>4. FinComes(r)'
      <4> SUFFICES ASSUME bridge = "running"
                   PROVE  /\ server[r].fin
                          /\ server[r].st = "gone" \/ FinDue(r)'
        BY <1>2 DEF FinComes, FinSentOf
      <4>1. FinTaken(r) /\ FinCounted(r) /\ handler.req = r
        BY <1>1, <3>1 DEF FinTaken, FinCounted
      <4>2. server[r].fin /\ Len(c.rx) = server[r].next - 2
        BY <1>5, <4>1 DEF RespOK, ConnOK
      <4>3. server[r].heard /\ server[r].st # "listen"
        <5>1. server[r].next \in Nat /\ ServerOK(server[r])
          BY <1>4, <1>5 DEF ServerType, RespOK
        <5>2. server[r].heard /\ server[r].next >= 2
          BY <4>2, <5>1 DEF ServerOK
        <5>3. server[r].next # 0
          BY <5>1, <5>2
        <5>4. QED
          BY <5>1, <5>2, <5>3 DEF ServerOK
      <4>4. task[r].pc # "gone" /\ ~c.finished
        BY <1>5, <4>1 DEF ClosesOK, BusyOK
      <4>5. server[r].st \in {"open", "gone"}
        BY <1>4, <1>5, <4>3, <4>4 DEF LateOK, RstLate, ServerType
      <4>6. Asked(r)
        <5>1. task[r].pc # "sending"
          BY <1>3, <3>1, InboundAssumption DEF Turn
        <5>2. QED
          BY <1>5, <4>3, <5>1 DEF ClosesOK, HeardLater, HasAsked
      <4>7. c.our_seq = OurEnd(r)
        BY <1>5, <4>4, <4>6 DEF ClosesOK, OurSeqOK
      <4>8. c.chip_seq = SeqAt(server[r].next)
        <5>1. c.chip_seq = SeqAt(Len(c.rx) + 2)
          BY <1>5, <4>1 DEF ClosesOK, CountedOK
        <5>2. server[r].next - 2 + 2 = server[r].next
          BY <1>4 DEF ServerType
        <5>3. QED
          BY <4>2, <5>1, <5>2
      <4>9. g \in FrameType /\ out' = <<g>>
        <5>1. c.our_seq \in SeqNums /\ c.chip_seq \in SeqNums /\ 0 \in Nat
          BY <1>4, ConnNumbers
        <5>2. QED
          BY <1>3, <1>4, <3>1, <5>1, FrameTyped DEF Emit, Inject
      <4>10. /\ g.req = r /\ "FIN" \in g.flags /\ g.seq = c.our_seq
             /\ g.ack = c.chip_seq
        BY DEF Frame
      <4> HIDE DEF g
      <4>11. PICK i \in FramesOf(to_chip', r) : to_chip'[i] = g
        BY <1>2, <4>9, <4>10, GwFramesStay
      <4>12. LastFin(r, to_chip[i])'
        BY <1>2, <3>1, <4>7, <4>8, <4>10, <4>11 DEF LastFin, OurEnd, OurStart
      <4>13. QED
        BY <1>2, <4>2, <4>4, <4>5, <4>11, <4>12 DEF FinDue
    <3>5. QED
      BY <1>10, <2>2, <3>1, <3>3, <3>4
  <2>7. CASE FinSent
    <3> DEFINE y == seq_add(c.our_seq, 1)
               z == [c EXCEPT !.our_seq = y, !.state = "CLOSED",
                              !.finished = TRUE]
    <3>1. z.our_isn = c.our_isn /\ z.finished /\ z.reset = c.reset
      BY <1>4 DEF ConnType
    <3>2. /\ conn' = [conn EXCEPT ![r] = z] /\ handler' = Idle
          /\ handler.pc = "fin_sent"
      BY <1>1, <2>7 DEF FinSent, HandlerAt
    <3> HIDE DEF y, z
    <3>3. x = z /\ handler'.req # r
      BY <1>3, <3>2, TypesAre
    <3>4. CountedOK(r)'
      BY <3>3 DEF CountedOK, AtData, FinCounted
    <3>5. FinSentOf(r)' => FinSentOf(r)
      BY <1>1, <1>2, <3>1, <3>2, <3>3 DEF FinSentOf
    <3>6. QED
      BY <1>10, <2>2, <2>3, <3>1, <3>3, <3>4, <3>5
  <2>8. QED
    BY <1>2, <2>4, <2>5, <2>6, <2>7 DEF HandlerRuns
<1>11. QED
  BY <1>9, <1>10

(* What a segment of r makes of its connection: nothing, an end by a RST, or *)
(* the handler in the middle of it.                                          *)
Delivers(r) ==
    \/ conn'[r] = conn[r] /\ handler' = handler
    \/ conn'[r].finished /\ conn'[r].reset /\ handler' = handler
    \/ /\ handler'.pc # "fin_sent" /\ conn'[r].finished = conn[r].finished
       /\ conn'[r].reset = conn[r].reset
       /\ bridge = "running" /\ r \in table /\ conn[r].state # "CLOSED"
       /\ conn'[r].state = "ESTABLISHED"

LEMMA SegmentDelivers ==
  ASSUME InTypes, InTypes', NEW e, NEW r, GwTakes(e, r), RespOK(r),
         deliver_packet_out(r, e.seg)
  PROVE  /\ Delivers(r)
         /\ conn'[r].our_isn = conn[r].our_isn
         /\ conn'[r].our_seq = conn[r].our_seq
         /\ out' = <<>> \/ \E f \in FrameType :
              out' = <<f>> /\ f.req = r /\ ~IsSyn(f) /\ f.len = 0
<1> DEFINE s == e.seg
           c == conn[r]
<1>1. /\ e \in Queued /\ r \in Requests /\ s.data \in Seq(Nat)
      /\ s.seq \in SeqNums /\ s.ack \in SeqNums
  BY HeadIs DEF GwTakes, SegType
<1>2. /\ c \in ConnType /\ conn'[r] \in ConnType
      /\ handler \in HandlerType /\ {"ACK"} \in SUBSET Flags
  BY <1>1, TypesAre DEF InTypes, Flags
<1>3. ASSUME NEW x \in ConnType, Emit(r, x, {"ACK"})
      PROVE  out' = <<>> \/ \E f \in FrameType :
               out' = <<f>> /\ f.req = r /\ ~IsSyn(f) /\ f.len = 0
  <2>1. out' = <<>> \/ \E f \in FrameType :
          /\ out' = <<f>> /\ f.req = r /\ ~IsSyn(f) /\ f.len = 0
          /\ f.ack = x.chip_seq /\ f.flags = {"ACK"}
    BY <1>1, <1>2, <1>3, EmitAnswers
  <2>2. QED
    BY <2>1
<1>4. ASSUME conn' = conn, handler' = handler
      PROVE  /\ Delivers(r)
             /\ conn'[r].our_isn = conn[r].our_isn
             /\ conn'[r].our_seq = conn[r].our_seq
  BY <1>4 DEF Delivers
<1>5. ASSUME NEW x, conn' = [conn EXCEPT ![r] = x],
             x.our_isn = c.our_isn, x.our_seq = c.our_seq,
             x.finished = c.finished, x.reset = c.reset,
             x.state = "ESTABLISHED", c.state # "CLOSED",
             bridge = "running", r \in table,
             NEW pc \in {"established", "data_acked", "fin_acked"},
             HandlerGoesTo(pc, r, s)
      PROVE  /\ Delivers(r)
             /\ conn'[r].our_isn = conn[r].our_isn
             /\ conn'[r].our_seq = conn[r].our_seq
  <2>1. conn'[r] = x
    BY <1>1, <1>5, TypesAre
  <2>2. handler'.pc = pc
    BY <1>5 DEF HandlerGoesTo
  <2>3. QED
    BY <1>5, <2>1, <2>2 DEF Delivers
<1>6. CASE bridge # "running" /\ Quiet /\ UNCHANGED <<conn, handler>>
  BY <1>4, <1>6 DEF Quiet
<1>7. CASE Stray(r, s)
  <2>1. Quiet \/ \E y : Inject(Frame(r, {"RST", "ACK"}, s.ack, y, 0))
    BY <1>7 DEF Stray
  <2>2. out' = <<>> \/ \E f \in FrameType : out' = <<f>> /\ f.req = r
    BY <1>1, <1>2, <1>7, InTypes, DeliverEmits DEF GwTakes
  <2>3. out' = <<>> \/ \E y : out' = <<Frame(r, {"RST", "ACK"}, s.ack, y, 0)>>
    BY <2>1 DEF Quiet, Inject
  <2>4. \A y : LET f == Frame(r, {"RST", "ACK"}, s.ack, y, 0)
               IN  ~IsSyn(f) /\ f.len = 0
    BY DEF Frame, IsSyn
  <2>5. QED
    <3>1. CASE out' = <<>>
      BY <1>4, <1>7, <3>1 DEF Stray
    <3>2. ASSUME NEW y, out' = <<Frame(r, {"RST", "ACK"}, s.ack, y, 0)>>,
                 NEW f \in FrameType, out' = <<f>>, f.req = r
          PROVE  ~IsSyn(f) /\ f.len = 0
      <4>1. f = Frame(r, {"RST", "ACK"}, s.ack, y, 0)
        BY <3>2
      <4>2. QED
        BY <2>4, <4>1
    <3>3. QED
      BY <1>4, <1>7, <2>2, <2>3, <3>1, <3>2 DEF Stray
<1>8. CASE ChipRst(r, s)
  <2> DEFINE z == [c EXCEPT !.reset = TRUE, !.state = "CLOSED",
                            !.established = TRUE, !.finished = TRUE]
  <2>1. /\ z.our_isn = c.our_isn /\ z.our_seq = c.our_seq
        /\ z.finished /\ z.reset
    BY <1>2 DEF ConnType
  <2>2. conn' = [conn EXCEPT ![r] = z] /\ handler' = handler /\ out' = <<>>
    BY <1>8 DEF ChipRst, Quiet
  <2> HIDE DEF z
  <2>3. conn'[r] = z
    BY <1>1, <2>2, TypesAre
  <2>4. QED
    BY <2>1, <2>2, <2>3 DEF Delivers
<1>9. CASE bridge = "running" /\ r \in table /\ SynAcked(r, s)
  <2> DEFINE y == seq_add(s.seq, 1)
             z == [c EXCEPT !.chip_seq = y, !.state = "ESTABLISHED"]
  <2>1. /\ z.our_isn = c.our_isn /\ z.our_seq = c.our_seq
        /\ z.finished = c.finished /\ z.reset = c.reset
        /\ z.state = "ESTABLISHED"
    BY <1>2 DEF ConnType
  <2>2. /\ c.state # "CLOSED"
        /\ \/ /\ conn' = [conn EXCEPT ![r] = z] /\ Emit(r, conn'[r], {"ACK"})
              /\ HandlerGoesTo("established", r, s)
           \/ Quiet /\ conn' = conn /\ handler' = handler
    BY <1>9 DEF SynAcked
  <2> HIDE DEF y, z
  <2>3. CASE Quiet /\ conn' = conn /\ handler' = handler
    BY <1>4, <2>3 DEF Quiet
  <2>4. CASE /\ conn' = [conn EXCEPT ![r] = z] /\ Emit(r, conn'[r], {"ACK"})
             /\ HandlerGoesTo("established", r, s)
    BY <1>2, <1>3, <1>5, <1>9, <2>1, <2>2, <2>4
  <2>5. QED
    BY <2>2, <2>3, <2>4
<1>10. CASE TimeWait(r, s)
  <2>1. Quiet \/ Emit(r, c, {"ACK"})
    BY <1>10 DEF TimeWait, Emit, AcksCollected
  <2>2. conn' = conn /\ handler' = handler
    BY <1>10 DEF TimeWait
  <2>3. QED
    BY <1>2, <1>3, <1>4, <2>1, <2>2 DEF Quiet
<1>11. CASE bridge = "running" /\ r \in table /\ Collects(r, s)
  <2>1. c.state = "ESTABLISHED"
    BY <1>11 DEF Collects
  <2>2. CASE conn' = conn /\ handler' = handler
             /\ (Quiet \/ Emit(r, c, {"ACK"}))
    BY <1>2, <1>3, <1>4, <2>2 DEF Quiet
  <2>3. ASSUME NEW y, NEW l, NEW pc \in {"data_acked", "fin_acked"},
               conn' = [conn EXCEPT ![r] = [c EXCEPT !.rx = l, !.chip_seq = y]],
               Emit(r, conn'[r], {"ACK"}), HandlerGoesTo(pc, r, s)
        PROVE  /\ Delivers(r)
               /\ conn'[r].our_isn = conn[r].our_isn
               /\ conn'[r].our_seq = conn[r].our_seq
    <3> DEFINE z == [c EXCEPT !.rx = l, !.chip_seq = y]
    <3>1. /\ z.our_isn = c.our_isn /\ z.our_seq = c.our_seq
          /\ z.finished = c.finished /\ z.reset = c.reset
          /\ z.state = c.state
      BY <1>2 DEF ConnType
    <3>2. conn' = [conn EXCEPT ![r] = z]
      BY <2>3
    <3> HIDE DEF z
    <3>3. QED
      BY <1>5, <1>11, <2>1, <2>3, <3>1, <3>2
  <2>4. CASE /\ s.data # <<>> /\ InOrder(r, s)
             /\ conn' = [conn EXCEPT
                  ![r].rx = @ \o s.data,
                  ![r].chip_seq = seq_add(@, Len(s.data))]
             /\ Emit(r, conn'[r], {"ACK"})
             /\ HandlerGoesTo("data_acked", r, s)
    <3> DEFINE y == seq_add(c.chip_seq, Len(s.data))
               l == c.rx \o s.data
    <3>1. conn' = [conn EXCEPT ![r] = [c EXCEPT !.rx = l, !.chip_seq = y]]
      BY <2>4
    <3> HIDE DEF y, l
    <3>2. QED
      BY <1>2, <1>3, <2>3, <2>4, <3>1
  <2>5. CASE s.data = <<>> /\ "FIN" \in s.flags /\ AcksFin(r, s)
    <3> DEFINE y == seq_add(c.chip_seq, FinSpan)
               l == c.rx
    <3>1. conn' = [conn EXCEPT ![r] = [c EXCEPT !.rx = l, !.chip_seq = y]]
      <4>1. [c EXCEPT !.rx = l, !.chip_seq = y] = [c EXCEPT !.chip_seq = y]
        BY <1>2 DEF ConnType
      <4>2. QED
        BY <2>5, <4>1 DEF AcksFin
    <3> HIDE DEF y, l
    <3>2. Emit(r, conn'[r], {"ACK"}) /\ HandlerGoesTo("fin_acked", r, s)
      BY <2>5 DEF AcksFin
    <3>3. QED
      BY <1>2, <1>3, <2>3, <3>1, <3>2
  <2>6. QED
    BY <1>11, <2>2, <2>4, <2>5 DEF Collects
<1>12. QED
  BY <1>6, <1>7, <1>8, <1>9, <1>10, <1>11 DEF deliver_packet_out

(* The gateway takes a segment.                                              *)
LEMMA ReceivesCloses ==
  ASSUME InTypes, InTypes', GwReceives,
         \A b \in Requests : RespOK(b) /\ RespOK(b)' /\ ClosesOK(b),
         NEW d \in Requests
  PROVE  ClosesOK(d)'
<1>1. PICK e, r : e = Head(to_gw) /\ r = e.req
  OBVIOUS
<1>2. /\ GwTakes(e, r) /\ deliver_packet_out(r, e.seg)
      /\ to_chip' = to_chip \o out'
  BY <1>1 DEF GwReceives, deliver_packet_out, GwTakes, HandlerAt
<1>3. e \in Queued /\ r \in Requests
  BY <1>1, <1>2, PartsTail, TypesAre DEF Queued, GwTakes
<1>4. /\ server' = server /\ bridge' = bridge /\ table' = table
      /\ task' = task /\ handler.req = None
  BY <1>2, TypesAre DEF GwTakes
<1>5. /\ Delivers(r)
      /\ conn'[r].our_isn = conn[r].our_isn
      /\ conn'[r].our_seq = conn[r].our_seq
      /\ out' = <<>> \/ \E f \in FrameType :
           out' = <<f>> /\ f.req = r /\ ~IsSyn(f) /\ f.len = 0
  BY <1>2, <1>3, SegmentDelivers
<1>6. /\ \A b \in Requests \ {r} : conn'[b] = conn[b]
      /\ handler' = handler \/ handler'.req = r
  BY <1>1, <1>2, DeliverEmits DEF GwTakes
<1>7. CASE d # r
  <2>1. out' = <<>> \/ \E f \in FrameType : out' = <<f>> /\ f.req # d
    BY <1>5, <1>7
  <2>2. QED
    BY <1>2, <1>4, <1>6, <1>7, <2>1, AsideCloses
<1>8. CASE d = r
  <2> DEFINE c == conn[r]
             x == conn'[r]
  <2>1. RespOK(r) /\ RespOK(r)' /\ ClosesOK(r) /\ r # None
    BY <1>3, InboundAssumption
  <2>2. (Asked(r)' <=> Asked(r)) /\ (HasAsked(r)' <=> HasAsked(r))
    BY <1>4 DEF Asked, HasAsked
  <2>3. c.state # "CLOSED" /\ bridge = "running" => ~c.finished
    BY <2>1 DEF RespOK, ConnOK
  <2>4. SameStart(r)' /\ HeardLater(r)'
    BY <1>2, <1>3, <1>4, <1>5, <2>1, <2>2, GwStarts DEF ClosesOK
  <2>5. OurSeqOK(r)'
    <3>1. x.finished = c.finished \/ x.finished
      BY <1>5 DEF Delivers
    <3>2. QED
      BY <1>5, <2>1, <2>2, <3>1 DEF ClosesOK, OurSeqOK, OurEnd, OurStart
  <2>6. BusyOK(r)'
    BY <1>4, <1>5, <2>1, <2>3 DEF ClosesOK, BusyOK, Delivers
  <2>7. CountedOK(r)'
    <3>1. handler'.req = r => x.state = "ESTABLISHED"
      BY <1>4, <1>5, <2>1 DEF Delivers
    <3>2. AtData(r)' => ~FinCounted(r)'
      BY DEF AtData, FinCounted
    <3>3. x.state = "ESTABLISHED" =>
            x.chip_seq = SeqAt(IF FinCounted(r)' THEN Len(x.rx) + 2
                               ELSE Len(x.rx) + 1)
      BY <2>1 DEF RespOK, ConnOK
    <3>4. QED
      BY <3>1, <3>2, <3>3 DEF CountedOK, AtData, FinCounted
  <2>8. FinSentOf(r)' => FinSentOf(r)
    BY <1>4, <1>5, <2>1 DEF FinSentOf, Delivers
  <2>9. FinComes(r)'
    BY <1>2, <1>3, <1>4, <1>5, <2>1, <2>8, GwFins DEF ClosesOK
  <2>10. QED
    BY <1>8, <2>4, <2>5, <2>6, <2>7, <2>9 DEF ClosesOK
<1>9. QED
  BY <1>7, <1>8

(* What was under way to the chip still is, but for its oldest frame.        *)
LEMMA TailHas ==
  ASSUME NEW q \in Seq(FrameType), q # <<>>, NEW r,
         NEW i \in FramesOf(q, r), i # 1
  PROVE  \E j \in FramesOf(Tail(q), r) : Tail(q)[j] = q[i]
<1>1. i \in 1 .. Len(q) /\ q[i].req = r /\ Len(q) \in Nat
  BY DEF FramesOf
<1>2. i - 1 \in 1 .. Len(q) - 1 /\ i - 1 + 1 = i
  BY <1>1
<1>3. Tail(q) \in Seq(FrameType) /\ Len(Tail(q)) = Len(q) - 1
  OBVIOUS
<1>4. i - 1 \in DOMAIN Tail(q) /\ Tail(q)[i - 1] = q[i]
  BY <1>2, <1>3
<1>5. QED
  BY <1>1, <1>4 DEF FramesOf

(* The gateway's FIN stays due.                                              *)
LEMMA FinStays ==
  ASSUME InTypes, UNCHANGED inVars, NEW r \in Requests, FinDue(r),
         NEW k, Shifts(to_chip, to_chip', k),
         server'[r].st = "open", server'[r].next = server[r].next,
         k = 1 => ~(Head(to_chip).req = r /\ LastFin(r, Head(to_chip)))
  PROVE  FinDue(r)'
<1>1. PICK i \in FramesOf(to_chip, r) : LastFin(r, to_chip[i])
  BY DEF FinDue
<1>2. to_chip \in Seq(FrameType) /\ to_chip[i].req = r
  BY TypesAre DEF FramesOf
<1>3. \E j \in FramesOf(to_chip', r) : to_chip'[j] = to_chip[i]
  <2>1. CASE k = 0 /\ to_chip' = to_chip
    BY <2>1
  <2>2. CASE k = 1 /\ to_chip # <<>> /\ to_chip' = Tail(to_chip)
    <3>1. Head(to_chip) = to_chip[1]
      BY <1>2, <2>2, TailFrames
    <3>2. i # 1
      BY <1>1, <1>2, <2>2, <3>1
    <3>3. \E j \in FramesOf(Tail(to_chip), r) : Tail(to_chip)[j] = to_chip[i]
      <4>1. to_chip \in Seq(FrameType) /\ to_chip # <<>>
        BY <1>2, <2>2
      <4>2. i \in FramesOf(to_chip, r)
        BY <1>1
      <4>3. QED
        BY ONLY <3>2, <4>1, <4>2, TailHas
    <3>4. PICK q : q = to_chip'
      OBVIOUS
    <3>5. q = Tail(to_chip)
      BY <2>2, <3>4
    <3>6. \E j \in FramesOf(q, r) : q[j] = to_chip[i]
      BY ONLY <3>3, <3>5
    <3>7. QED
      BY ONLY <3>4, <3>6
  <2>3. QED
    BY <2>1, <2>2 DEF Shifts
<1>4. PICK j \in FramesOf(to_chip', r) : to_chip'[j] = to_chip[i]
  BY <1>3
<1>5. conn' = conn /\ task' = task
  BY DEF inVars
<1>6. LastFin(r, to_chip[j])'
  BY <1>1, <1>4, <1>5 DEF LastFin, OurEnd, OurStart
<1>7. task[r].pc # "gone"
  BY DEF FinDue
<1>8. QED
  BY <1>4, <1>5, <1>6, <1>7 DEF FinDue

(* A step of the server leaves its end of r at w.                            *)
LEMMA ChipCloses ==
  ASSUME InTypes, UNCHANGED inVars, NEW r \in Requests, ClosesOK(r),
         NEW k, Shifts(to_chip, to_chip', k), NEW w, server'[r] = w,
         w.st = "open" => w.their_isn = conn[r].our_isn,
         \/ w.heard => server[r].heard
         \/ \E i \in FramesOf(to_chip, r) : to_chip[i].len > 0,
         FinSentOf(r) =>
           /\ w.fin
           /\ \/ w.st = "gone" \/ Over(w)
              \/ /\ FinDue(r) /\ w.st = "open" /\ w.next = server[r].next
                 /\ k = 1 => ~(/\ Head(to_chip).req = r
                               /\ LastFin(r, Head(to_chip)))
  PROVE  ClosesOK(r)'
<1>1. /\ bridge' = bridge /\ table' = table /\ conn' = conn
      /\ task' = task /\ handler' = handler
  BY DEF inVars
<1>2. \A i \in FramesOf(to_chip', r) :
        i + k \in FramesOf(to_chip, r) /\ to_chip'[i] = to_chip[i + k]
  <2>1. PICK z : z = to_chip'
    OBVIOUS
  <2>2. to_chip \in Seq(FrameType) /\ Shifts(to_chip, z, k)
    BY <2>1, TypesAre
  <2>3. QED
    BY <2>1, <2>2, ShiftFrames
<1>3. (Asked(r)' <=> Asked(r)) /\ (HasAsked(r)' <=> HasAsked(r))
  BY <1>1 DEF Asked, HasAsked
<1>4. SameStart(r)'
  BY <1>1, <1>2 DEF ClosesOK, SameStart
<1>5. HeardLater(r)'
  <2>1. server'[r].heard
          \/ (\E i \in FramesOf(to_chip', r) : to_chip'[i].len > 0)
        => server[r].heard
          \/ \E i \in FramesOf(to_chip, r) : to_chip[i].len > 0
    BY <1>2
  <2>2. QED
    BY <1>3, <2>1 DEF ClosesOK, HeardLater
<1>6. OurSeqOK(r)' /\ BusyOK(r)' /\ CountedOK(r)'
  BY <1>1, <1>3 DEF ClosesOK, OurSeqOK, OurEnd, OurStart, BusyOK, CountedOK,
     AtData, FinCounted
<1>7. FinComes(r)'
  <2>1. SUFFICES ASSUME FinSentOf(r)'
                 PROVE  w.fin /\ (w.st = "gone" \/ Over(w) \/ FinDue(r)')
    BY DEF FinComes
  <2>2. FinSentOf(r)
    BY <1>1, <2>1 DEF FinSentOf
  <2>3. QED
    BY <2>2, FinStays
<1>8. QED
  BY <1>4, <1>5, <1>6, <1>7 DEF ClosesOK

(* What a segment of its stream leaves of the server's end.                  *)
LEMMA SendGoes ==
  ASSUME NEW r \in Requests, NEW v \in ServerType, NEW flags, NEW data,
         Send(r, v, flags, data)
  PROVE  \E w : /\ server' = [server EXCEPT ![r] = w]
                /\ w.st = v.st /\ w.their_isn = v.their_isn
                /\ w.heard = v.heard
<1> DEFINE p == Part(v.next, flags, data)
           n == v.next + Span(p)
           u == v.unacked \cup {p}
           b == "FIN" \in flags
           w == [v EXCEPT !.next = n, !.unacked = u, !.fin = b]
<1>1. server' = [server EXCEPT ![r] = w]
  BY DEF Send
<1> HIDE DEF n, u, b
<1>2. w.st = v.st /\ w.their_isn = v.their_isn /\ w.heard = v.heard
  BY DEF ServerType
<1>3. QED
  BY <1>1, <1>2

(* The server acts by itself: before its FIN, or without loss of it.         *)
LEMMA ActsGo ==
  ASSUME InTypes, NEW r \in Requests,
         \/ ServerSends(r) \/ ServerFinishes(r)
         \/ ServerRetransmits(r) \/ ServerAborts(r)
  PROVE  \E w : /\ server' = [server EXCEPT ![r] = w]
                /\ server[r].st = "open" /\ w.heard = server[r].heard
                /\ w.their_isn = server[r].their_isn
                /\ \/ ~server[r].fin
                   \/ w.st = "gone" /\ w.fin = server[r].fin
                   \/ /\ w.st = "open" /\ w.fin = server[r].fin
                      /\ w.next = server[r].next
                      /\ Over(server[r]) => Over(w)
<1> DEFINE v == server[r]
<1>1. v \in ServerType
  BY TypesAre
<1>2. CASE ServerSends(r) \/ ServerFinishes(r)
  <2>1. (\E flags, data : Send(r, v, flags, data)) /\ v.st = "open" /\ ~v.fin
    BY <1>2 DEF ServerSends, ServerFinishes, CanSend
  <2> HIDE DEF v
  <2>2. \E w : /\ server' = [server EXCEPT ![r] = w]
               /\ w.st = v.st /\ w.their_isn = v.their_isn
               /\ w.heard = v.heard
    BY <1>1, <2>1, SendGoes
  <2>3. QED
    BY <2>1, <2>2 DEF v
<1>3. CASE ServerRetransmits(r)
  <2> DEFINE w == [v EXCEPT !.retransmits = @ + 1]
  <2>1. server' = [server EXCEPT ![r] = w] /\ v.st = "open"
    BY <1>3 DEF ServerRetransmits
  <2>2. /\ w.st = v.st /\ w.their_isn = v.their_isn /\ w.heard = v.heard
        /\ w.fin = v.fin /\ w.next = v.next /\ w.their_fin = v.their_fin
        /\ w.unacked = v.unacked
    BY <1>1 DEF ServerType
  <2> HIDE DEF w
  <2>3. QED
    BY <2>1, <2>2 DEF Over
<1>4. CASE ServerAborts(r)
  <2> DEFINE w == [v EXCEPT !.st = "gone"]
  <2>1. server' = [server EXCEPT ![r] = w] /\ v.st = "open"
    BY <1>4 DEF ServerAborts
  <2>2. /\ w.st = "gone" /\ w.their_isn = v.their_isn /\ w.heard = v.heard
        /\ w.fin = v.fin
    BY <1>1 DEF ServerType
  <2> HIDE DEF w
  <2>3. QED
    BY <2>1, <2>2
<1>5. QED
  BY <1>2, <1>3, <1>4

(* The gateway's FIN, when the server takes it, ends both streams.           *)
LEMMA LastFinEnds ==
  ASSUME InTypes, NEW r \in Requests, RespOK(r), ClosesOK(r),
         server[r].fin, server[r].st = "open", NEW f, LastFin(r, f)
  PROVE  /\ StillUnacked(server[r], f) = {}
         /\ server[r].their_fin \/ f.seq = Expects(server[r])
<1> DEFINE v == server[r]
<1>1. v \in ServerType /\ ServerOK(v) /\ v.next \in Nat
  BY TypesAre DEF RespOK, ServerType
<1>2. ASSUME NEW p \in v.unacked
      PROVE  v.next \in p.off + Span(p) .. v.next
  <2>1. Fits(v, p.off, p) /\ p \in PartType
    BY <1>1, <1>2 DEF ServerOK, ServerType
  <2>2. p.off \in Nat /\ Span(p) \in Nat
    BY <2>1, SpanTyped DEF PartType
  <2> DEFINE n == Span(p)
  <2>3. p.off + n <= v.next /\ n \in Nat
    BY <2>1, <2>2 DEF Fits
  <2> HIDE DEF n, v
  <2>4. v.next \in p.off + n .. v.next
    BY <1>1, <2>2, <2>3
  <2>5. QED
    BY <2>4 DEF n
<1>3. f.ack = SeqAt(v.next)
  BY DEF LastFin
<1>4. StillUnacked(v, f) = {}
  BY <1>2, <1>3 DEF StillUnacked
<1>5. ASSUME ~v.their_fin
      PROVE  f.seq = Expects(v)
  <2>1. v.heard
    BY <1>1 DEF ServerOK
  <2>2. v.their_isn = conn[r].our_isn
    BY DEF ClosesOK, SameStart
  <2> DEFINE a == v.their_isn
             l == RequestLen
  <2>3. a \in Int /\ l \in Int
    <3>1. a \in SeqNums
      BY <1>1 DEF ServerType
    <3>2. a \in Int
      BY <3>1, SeqNumsAreInts
    <3>3. l \in Int
      BY InboundAssumption
    <3>4. QED
      BY <3>2, <3>3
  <2>4. f.seq = seq_add(seq_add(a, 1), l)
    BY <2>2 DEF LastFin, OurEnd, OurStart
  <2>5. Expects(v) = seq_add(a, 1 + l)
    <3>1. One(v.their_fin) = 0
      BY <1>5 DEF One
    <3>2. Expects(v) = seq_add(a, 1 + 0 + l)
      BY <2>1, <3>1 DEF Expects
    <3>3. 1 + 0 + l = 1 + l
      BY <2>3
    <3>4. QED
      BY <3>2, <3>3
  <2> HIDE DEF a, l
  <2>6. seq_add(seq_add(a, 1), l) = seq_add(a, 1 + l)
    BY <2>3, SeqAddTwice
  <2>7. QED
    BY <2>4, <2>5, <2>6
<1>6. QED
  BY <1>4, <1>5

(* The server takes a frame: the SYN, a RST of what is forgotten, or what    *)
(* brings it the FIN or leaves it due.                                       *)
LEMMA TakesGo ==
  ASSUME InTypes, NEW r \in Requests, RespOK(r), LateOK(r), ClosesOK(r),
         to_chip # <<>>, NEW f, f = Head(to_chip), f.req = r,
         Listens(r, f) \/ IsReset(r, f) \/ Takes(r, f) \/ Refuses(r, f)
  PROVE  \E w : /\ server' = [server EXCEPT ![r] = w]
                /\ w.st = "open" => w.their_isn = conn[r].our_isn
                /\ w.heard => server[r].heard \/ f.len > 0
                /\ FinSentOf(r) =>
                     /\ w.fin
                     /\ \/ w.st = "gone" \/ Over(w)
                        \/ /\ FinDue(r) /\ w.st = "open"
                           /\ w.next = server[r].next /\ ~LastFin(r, f)
<1> DEFINE v == server[r]
<1>1. /\ v \in ServerType /\ ServerOK(v) /\ server = [server EXCEPT ![r] = v]
      /\ f \in FrameType /\ f = to_chip[1] /\ 1 \in FramesOf(to_chip, r)
  <2>1. /\ v \in ServerType /\ server = [server EXCEPT ![r] = v]
        /\ to_chip \in Seq(FrameType)
    BY TypesAre
  <2>2. f \in FrameType /\ f = to_chip[1] /\ 1 \in DOMAIN to_chip
    BY <2>1, TailFrames
  <2>3. QED
    BY <2>1, <2>2 DEF RespOK, FramesOf
<1>2. /\ FinSentOf(r) => v.fin /\ (v.st = "gone" \/ Over(v) \/ FinDue(r))
      /\ v.st = "open" => v.their_isn = conn[r].our_isn
  BY DEF ClosesOK, FinComes, SameStart
<1>3. CASE Listens(r, f)
  <2> DEFINE x == [v EXCEPT !.st = "open", !.their_isn = f.seq]
             w == [v EXCEPT !.st = "gone"]
  <2>1. \/ Send(r, x, {"SYN", "ACK"}, <<>>)
        \/ server' = [server EXCEPT ![r] = w]
    BY <1>3 DEF Listens
  <2>2. IsSyn(f) /\ v.st = "listen"
    BY <1>3 DEF Listens, IsSyn
  <2>3. ~FinSentOf(r)
    <3>1. v.next = 0
      BY <1>1, <2>2 DEF ServerOK
    <3>2. ~(v.next >= 2)
      BY <3>1
    <3>3. QED
      BY <1>1, <1>2, <3>2 DEF ServerOK
  <2>4. f.seq \in SeqNums /\ f.seq = conn[r].our_isn
    BY <1>1, <2>2 DEF FrameType, ClosesOK, SameStart
  <2>5. /\ x \in ServerType /\ x.heard = v.heard /\ x.their_isn = f.seq
        /\ w.heard = v.heard /\ w.st = "gone"
    BY <1>1, <2>4 DEF ServerType
  <2> HIDE DEF x, w
  <2>6. CASE Send(r, x, {"SYN", "ACK"}, <<>>)
    <3>1. PICK y : /\ server' = [server EXCEPT ![r] = y]
                   /\ y.their_isn = x.their_isn /\ y.heard = x.heard
      BY <2>5, <2>6, SendGoes
    <3>2. QED
      BY <2>3, <2>4, <2>5, <3>1
  <2>7. CASE server' = [server EXCEPT ![r] = w]
    BY <2>3, <2>5, <2>7
  <2>8. QED
    BY <2>1, <2>6, <2>7
<1>4. CASE IsReset(r, f)
  <2> DEFINE st == IF f.seq = Expects(v) /\ ~Over(v) THEN "reset" ELSE v.st
             w == [v EXCEPT !.st = st]
  <2>1. server' = [server EXCEPT ![r] = w] /\ v.st = "open" /\ IsRst(f)
    BY <1>4 DEF IsReset, IsRst
  <2>2. st \in {"reset", v.st}
    OBVIOUS
  <2> HIDE DEF st
  <2>3. /\ w.heard = v.heard /\ w.fin = v.fin /\ w.unacked = v.unacked
        /\ w.their_fin = v.their_fin /\ w.their_isn = v.their_isn
    BY <1>1 DEF ServerType
  <2> HIDE DEF w
  <2>4. task[r].pc = "gone"
    BY <1>1, <2>1 DEF LateOK, RstLate
  <2>5. FinSentOf(r) => v.fin /\ Over(v)
    BY <1>2, <2>1, <2>4 DEF FinDue
  <2>6. QED
    BY <1>2, <2>1, <2>3, <2>5 DEF Over
<1>5. CASE Takes(r, f)
  <2>1. v.st = "open"
    BY <1>5 DEF Takes
  <2>2. PICK response \in Responses :
          LET next == f.seq = Expects(v)
              hear == next /\ f.len > 0 /\ ~v.heard
          IN  server' = [server EXCEPT ![r] = [v EXCEPT
                !.unacked = StillUnacked(v, f),
                !.heard = @ \/ hear,
                !.response = IF hear THEN response ELSE @,
                !.their_fin = @ \/ (next /\ "FIN" \in f.flags)]]
    BY <1>5 DEF Takes
  <2> DEFINE next == f.seq = Expects(v)
             hear == next /\ f.len > 0 /\ ~v.heard
             u == StillUnacked(v, f)
             b == v.heard \/ hear
             y == IF hear THEN response ELSE v.response
             t == v.their_fin \/ (next /\ "FIN" \in f.flags)
             w == [v EXCEPT !.unacked = u, !.heard = b, !.response = y,
                            !.their_fin = t]
  <2>3. server' = [server EXCEPT ![r] = w]
    BY <2>2
  <2>4. b <=> v.heard \/ hear
    OBVIOUS
  <2>5. t <=> v.their_fin \/ (next /\ "FIN" \in f.flags)
    OBVIOUS
  <2>6. u = StillUnacked(v, f) /\ u \subseteq v.unacked
    BY DEF StillUnacked
  <2> HIDE DEF u, b, y, t
  <2>7. /\ w.st = v.st /\ w.their_isn = v.their_isn /\ w.heard = b
        /\ w.fin = v.fin /\ w.next = v.next /\ w.their_fin = t
        /\ w.unacked = u
    BY <1>1 DEF ServerType
  <2> HIDE DEF w
  <2>8. w.heard => v.heard \/ f.len > 0
    BY <2>4, <2>7
  <2>9. ASSUME FinSentOf(r)
        PROVE  /\ w.fin
               /\ \/ w.st = "gone" \/ Over(w)
                  \/ /\ FinDue(r) /\ w.st = "open"
                     /\ w.next = v.next /\ ~LastFin(r, f)
    <3>1. CASE Over(v)
      BY <1>2, <2>5, <2>6, <2>7, <2>9, <3>1 DEF Over
    <3>2. CASE v.fin /\ LastFin(r, f)
      <4>1. u = {} /\ (v.their_fin \/ next)
        BY <2>1, <2>6, <3>2, LastFinEnds
      <4>2. "FIN" \in f.flags
        BY <3>2 DEF LastFin
      <4>3. t
        BY <2>5, <4>1, <4>2
      <4>4. QED
        BY <2>7, <3>2, <4>1, <4>3 DEF Over
    <3>3. CASE FinDue(r) /\ ~LastFin(r, f)
      BY <1>2, <2>1, <2>7, <2>9, <3>3
    <3>4. QED
      BY <1>2, <2>1, <2>9, <3>1, <3>2, <3>3
  <2>10. QED
    BY <1>2, <2>1, <2>3, <2>7, <2>8, <2>9
<1>6. CASE Refuses(r, f)
  <2>1. server' = server /\ v.st \in {"gone", "reset"}
    BY <1>6 DEF Refuses
  <2>2. FinSentOf(r) => v.fin /\ (v.st = "gone" \/ Over(v))
    BY <1>2, <2>1 DEF FinDue
  <2>3. QED
    BY <1>1, <2>1, <2>2
<1>7. QED
  BY <1>3, <1>4, <1>5, <1>6

(* A step of the server.                                                     *)
LEMMA ServerCloses ==
  ASSUME InTypes, \A b \in Requests : RespOK(b) /\ LateOK(b) /\ ClosesOK(b),
         \/ \E r \in Requests : \/ ServerSends(r) \/ ServerFinishes(r)
                                \/ ServerRetransmits(r) \/ ServerAborts(r)
         \/ ServerReceives,
         NEW d \in Requests
  PROVE  ClosesOK(d)'
<1>1. to_chip \in Seq(FrameType) /\ server \in [Requests -> ServerType]
  BY TypesAre
<1>2. UNCHANGED inVars
  BY DEF ServerSends, ServerFinishes, ServerRetransmits, ServerAborts,
     ServerReceives
<1>3. RespOK(d) /\ LateOK(d) /\ ClosesOK(d)
  OBVIOUS
<1>4. /\ FinSentOf(d) => /\ server[d].fin
                         /\ \/ server[d].st = "gone" \/ Over(server[d])
                            \/ FinDue(d)
      /\ server[d].st = "open" => server[d].their_isn = conn[d].our_isn
  BY <1>3 DEF ClosesOK, FinComes, SameStart
<1>5. ASSUME NEW k, Shifts(to_chip, to_chip', k), server'[d] = server[d],
             k = 1 => Head(to_chip).req # d
      PROVE  ClosesOK(d)'
  <2>1. FinDue(d) => server[d].st = "open"
    BY DEF FinDue
  <2>2. QED
    BY <1>2, <1>3, <1>4, <1>5, <2>1, ChipCloses
<1>6. CASE \E r \in Requests : \/ ServerSends(r) \/ ServerFinishes(r)
                               \/ ServerRetransmits(r) \/ ServerAborts(r)
  <2>1. PICK r \in Requests : \/ ServerSends(r) \/ ServerFinishes(r)
                              \/ ServerRetransmits(r) \/ ServerAborts(r)
    BY <1>6
  <2>2. Shifts(to_chip, to_chip', 0) /\ 0 # 1
    BY <2>1 DEF ServerSends, ServerFinishes, ServerRetransmits, ServerAborts,
       Shifts
  <2>3. PICK w : /\ server' = [server EXCEPT ![r] = w]
                 /\ server[r].st = "open" /\ w.heard = server[r].heard
                 /\ w.their_isn = server[r].their_isn
                 /\ \/ ~server[r].fin
                    \/ w.st = "gone" /\ w.fin = server[r].fin
                    \/ /\ w.st = "open" /\ w.fin = server[r].fin
                       /\ w.next = server[r].next
                       /\ Over(server[r]) => Over(w)
    BY <2>1, ActsGo
  <2>4. CASE d # r
    <3>1. server'[d] = server[d]
      BY <1>1, <2>3, <2>4
    <3>2. QED
      BY <1>5, <2>2, <3>1
  <2>5. CASE d = r
    <3>1. server'[d] = w
      BY <1>1, <2>3, <2>5
    <3>2. w.st = "open" => w.their_isn = conn[d].our_isn
      BY <1>4, <2>3, <2>5
    <3>3. FinSentOf(d) =>
            /\ w.fin
            /\ \/ w.st = "gone" \/ Over(w)
               \/ FinDue(d) /\ w.st = "open" /\ w.next = server[d].next
      BY <1>4, <2>3, <2>5
    <3>4. QED
      BY <1>2, <1>3, <2>2, <2>3, <2>5, <3>1, <3>2, <3>3, ChipCloses
  <2>6. QED
    BY <2>4, <2>5
<1>7. CASE ServerReceives
  <2>1. PICK f, r : f = Head(to_chip) /\ r = f.req
    OBVIOUS
  <2>2. /\ to_chip # <<>> /\ to_chip' = Tail(to_chip)
        /\ Listens(r, f) \/ IsReset(r, f) \/ Takes(r, f) \/ Refuses(r, f)
    BY <1>7, <2>1 DEF ServerReceives
  <2>3. f \in FrameType /\ f = to_chip[1] /\ 1 \in DOMAIN to_chip
    BY <1>1, <2>1, <2>2, TailFrames
  <2>4. r \in Requests /\ 1 \in FramesOf(to_chip, r)
    BY <2>1, <2>3 DEF FrameType, FramesOf
  <2>5. Shifts(to_chip, to_chip', 1)
    BY <2>2 DEF Shifts
  <2>6. PICK w : /\ server' = [server EXCEPT ![r] = w]
                 /\ w.st = "open" => w.their_isn = conn[r].our_isn
                 /\ w.heard => server[r].heard \/ f.len > 0
                 /\ FinSentOf(r) =>
                      /\ w.fin
                      /\ \/ w.st = "gone" \/ Over(w)
                         \/ /\ FinDue(r) /\ w.st = "open"
                            /\ w.next = server[r].next /\ ~LastFin(r, f)
    <3>1. RespOK(r) /\ LateOK(r) /\ ClosesOK(r)
      BY <2>4
    <3>2. QED
      BY <2>1, <2>2, <2>4, <3>1, TakesGo
  <2>7. CASE d # r
    <3>1. server'[d] = server[d]
      BY <1>1, <2>6, <2>7
    <3>2. QED
      BY <1>5, <2>1, <2>5, <2>7, <3>1, SMTT(30)
  <2>8. CASE d = r
    <3>1. server'[d] = w
      BY <1>1, <2>4, <2>6, <2>8
    <3>2. \/ w.heard => server[d].heard
          \/ \E i \in FramesOf(to_chip, d) : to_chip[i].len > 0
      BY <2>3, <2>4, <2>6, <2>8
    <3>3. QED
      BY <1>2, <1>3, <2>1, <2>5, <2>6, <2>8, <3>1, <3>2, ChipCloses
  <2>9. QED
    BY <2>7, <2>8
<1>8. QED
  BY <1>6, <1>7

(* It holds at the start, and every step keeps it.                           *)
LEMMA CloseInit == TunnelInit => CloseInv
<1> SUFFICES ASSUME TunnelInit, NEW r \in Requests
             PROVE  ClosesOK(r)
  BY DEF CloseInv
<1>1. /\ to_chip = <<>> /\ server[r] = NewServer /\ task[r].pc = "new"
      /\ task[r].how = None /\ conn[r] = NewConn(0) /\ handler = Idle
  BY DEF TunnelInit, InboundInit
<1>2. FramesOf(to_chip, r) = {} /\ server[r].st = "listen" /\ ~server[r].heard
  BY <1>1 DEF FramesOf, NewServer
<1>3. /\ conn[r].our_isn = 0 /\ conn[r].our_seq = seq_add(0, 1)
      /\ ~conn[r].finished
  BY <1>1 DEF NewConn
<1>4. handler.req # r
  BY <1>1, InboundAssumption DEF Idle
<1>5. ~Asked(r)
  BY <1>1, InboundAssumption DEF Asked
<1>6. SameStart(r) /\ HeardLater(r)
  BY <1>2 DEF SameStart, HeardLater
<1>7. OurSeqOK(r)
  BY <1>3, <1>5 DEF OurSeqOK, OurStart
<1>8. BusyOK(r)
  BY <1>1, <1>4, InboundAssumption DEF BusyOK
<1>9. CountedOK(r) /\ FinComes(r)
  BY <1>3, <1>4 DEF CountedOK, AtData, FinCounted, FinComes, FinSentOf
<1>10. QED
  BY <1>6, <1>7, <1>8, <1>9 DEF ClosesOK

(* The task of a request runs on: it is forgotten when nothing is under way. *)
LEMMA RunsAre ==
  ASSUME TunnelNext
  PROVE  \/ \E r \in Requests : \/ ServerSends(r) \/ ServerFinishes(r)
                                \/ ServerRetransmits(r) \/ ServerAborts(r)
         \/ ServerReceives
         \/ GwReceives
         \/ Emits(HandlerRuns)
         \/ \E r \in Requests : Emits(http_into_chip(r) \/ Opens(r))
         \/ \E r \in Requests :
              /\ Emits(\/ SynTimesOut(r) \/ Fails(r) \/ SendsRequest(r)
                       \/ RequestSent(r) \/ Wakes(r) \/ Polls(r)
                       \/ DeadlinePasses(r) \/ Forgets(r))
              /\ Forgets(r) => Quiescent(r)
         \/ Emits(stop \/ shutdown)
<1>1. ASSUME NEW r \in Requests,
             Emits(\/ SynTimesOut(r) \/ Fails(r) \/ SendsRequest(r)
                   \/ RequestSent(r) \/ Wakes(r) \/ Polls(r)
                   \/ DeadlinePasses(r))
      PROVE  ~Forgets(r)
  <2>1. task[r].pc # "over"
    BY <1>1 DEF Emits, SynTimesOut, Fails, SendsRequest, RequestSent, Wakes,
       Polls, DeadlinePasses, At
  <2>2. QED
    BY <2>1 DEF Forgets, At
<1>2. QED
  BY <1>1 DEF TunnelNext, TaskRuns, Emits

LEMMA CloseStep ==
  ASSUME "request" \notin Slow
  PROVE  InboundInv /\ LateInv /\ CloseInv /\ [TunnelNext]_tunnelVars
           => CloseInv'
<1> SUFFICES ASSUME InboundInv, LateInv, CloseInv, [TunnelNext]_tunnelVars,
                    NEW d \in Requests
             PROVE  ClosesOK(d)'
  BY DEF CloseInv
<1>1. InTypes /\ \A r \in Requests : RespOK(r) /\ LateOK(r) /\ ClosesOK(r)
  BY DEF InboundInv, LateInv, CloseInv
<1>2. InTypes' /\ \A r \in Requests : RespOK(r)'
  BY InvStep DEF InboundInv
<1>3. CASE UNCHANGED tunnelVars
  <2>1. /\ UNCHANGED <<bridge, table, conn, task, handler, to_chip, server>>
        /\ ClosesOK(d)
    BY <1>1, <1>3 DEF tunnelVars, inVars, chipVars
  <2>2. (Asked(d)' <=> Asked(d)) /\ (HasAsked(d)' <=> HasAsked(d))
    BY <2>1 DEF Asked, HasAsked
  <2>3. SameStart(d)' /\ HeardLater(d)' /\ OurSeqOK(d)'
    BY <2>1, <2>2 DEF ClosesOK, SameStart, HeardLater, OurSeqOK, OurEnd,
       OurStart, FramesOf
  <2>4. BusyOK(d)' /\ CountedOK(d)'
    BY <2>1 DEF ClosesOK, BusyOK, CountedOK, AtData, FinCounted
  <2>5. FinDue(d) => FinDue(d)'
    BY <2>1 DEF FinDue, FramesOf, LastFin, OurEnd, OurStart
  <2>6. FinComes(d)'
    BY <2>1, <2>5 DEF ClosesOK, FinComes, FinSentOf
  <2>7. QED
    BY <2>3, <2>4, <2>6 DEF ClosesOK
<1>4. CASE TunnelNext
  <2>1. CASE GwReceives
    BY <1>1, <1>2, <2>1, ReceivesCloses
  <2>2. CASE Emits(HandlerRuns)
    BY <1>1, <1>2, <2>2, HandlerCloses
  <2>3. ASSUME NEW r \in Requests, Emits(http_into_chip(r) \/ Opens(r))
        PROVE  ClosesOK(d)'
    BY <1>1, <2>3, OpensCloses
  <2>4. ASSUME NEW r \in Requests,
               Emits(\/ SynTimesOut(r) \/ Fails(r) \/ SendsRequest(r)
                     \/ RequestSent(r) \/ Wakes(r) \/ Polls(r)
                     \/ DeadlinePasses(r) \/ Forgets(r)),
               Forgets(r) => Quiescent(r)
        PROVE  ClosesOK(d)'
    BY <1>1, <2>4, RunsCloses
  <2>5. CASE Emits(stop \/ shutdown)
    BY <1>1, <2>5, StopCloses
  <2>6. QED
    BY <1>1, <1>4, <2>1, <2>2, <2>3, <2>4, <2>5, RunsAre, ServerCloses
<1>5. QED
  BY <1>3, <1>4

(* A request whose sends do not suspend, and which ended by the server's     *)
(* FIN, leaves nothing half open when it is forgotten: the handler's ACK of  *)
(* the FIN and FIN of its own (tcp_inbound.py:149-156) have reached a server *)
(* that was kept from a RST until then (tcp_inbound.py:206-213).             *)
THEOREM FinishedIsClosedTheorem ==
  ASSUME "request" \notin Slow
  PROVE  TunnelSpec => []FinishedIsClosed
<1>1. TunnelInit => CloseInv
  BY CloseInit
<1>2. InboundInv /\ LateInv /\ CloseInv /\ [TunnelNext]_tunnelVars => CloseInv'
  BY CloseStep
<1>3. CloseInv => FinishedIsClosed
  <2> SUFFICES ASSUME CloseInv, NEW r \in Requests, task[r].how = "fin",
                      ~conn[r].reset, task[r].pc = "gone", bridge = "running"
               PROVE  server[r].st = "gone" \/ Over(server[r])
    BY DEF FinishedIsClosed
  <2>1. BusyOK(r) /\ FinComes(r)
    BY DEF CloseInv, ClosesOK
  <2>2. FinSentOf(r)
    BY <2>1 DEF BusyOK, FinSentOf
  <2>3. QED
    BY <2>1, <2>2 DEF FinComes, FinDue
<1>4. TunnelSpec => []InboundInv
  BY InboundInvariance
<1>5. InboundInv /\ LateInv /\ [TunnelNext]_tunnelVars => LateInv'
  BY LateStep
<1>6. TunnelInit => LateInv
  BY LateInit
<1>7. QED
  BY <1>1, <1>2, <1>3, <1>4, <1>5, <1>6, PTL DEF TunnelSpec
=============================================================================
