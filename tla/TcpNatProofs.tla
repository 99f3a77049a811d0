---------------------------- MODULE TcpNatProofs ----------------------------
(* Theorems about TcpNat, for all constants.  TypeOK is made inductive by    *)
(* HoldsConn: a handler that is not idle holds a connection object, so the   *)
(* frames it sends are made of fields that exist.                            *)
EXTENDS TcpNatProps, TcpSeqProofs, FiniteSetTheorems

(* _inject leaves at most the one frame it was given.                        *)
LEMMA InjectTyped ==
  ASSUME NEW f \in FrameType, Inject(f)
  PROVE  out' \in Seq(FrameType)
BY DEF Inject

(* Consecutive stream positions are a sequence of numbers.                   *)
LEMMA CountTyped ==
  ASSUME NEW m \in Nat, NEW n \in Nat
  PROVE  [i \in 1..n |-> m + i] \in Seq(Nat)
OBVIOUS

(* A quiet step leaves no frame.                                             *)
LEMMA QuietTyped ==
  ASSUME Quiet
  PROVE  out' \in Seq(FrameType)
BY DEF Quiet

(* Frame builds a frame out of parts of the right types.                     *)
LEMMA FrameTyped ==
  ASSUME NEW k \in Keys \cup {None}, NEW flags \in SUBSET Flags,
         NEW s \in SeqNums, NEW a \in SeqNums, NEW data \in Seq(Nat)
  PROVE  Frame(k, flags, s, a, data) \in FrameType
BY DEF Frame, FrameType

(* At builds a handler position out of its three parts.                      *)
LEMMA AtTyped ==
  ASSUME NEW pc \in HandlerPcs, NEW c \in ConnsOrNone, NEW s \in Segment
  PROVE  /\ At(pc, c, s) \in HandlerType
         /\ At(pc, c, s).pc = pc /\ At(pc, c, s).conn = c
BY DEF At, HandlerType

(* The segment of a handler that holds none is a segment.                    *)
LEMMA NoSegmentTyped == NoSegment \in Segment
BY TcpNatAssumption, SeqNumsAreInts DEF NoSegment, Segment

(* Idle is a handler position, of a handler that is idle.                    *)
LEMMA IdleTyped == Idle \in HandlerType /\ Idle.pc = "idle"
BY AtTyped, NoSegmentTyped DEF Idle, HandlerPcs, ConnsOrNone

(* The parts of a segment have their types, its length among them.           *)
LEMMA SegTyped ==
  ASSUME NEW s \in Segment
  PROVE  /\ s.flags \in SUBSET Flags /\ s.seq \in SeqNums /\ s.ack \in SeqNums
         /\ s.data \in Seq(Nat) /\ Len(s.data) \in Nat
BY TcpNatAssumption DEF Segment

(* _send_rst answers any segment with a well-formed frame.                   *)
LEMMA RstTyped ==
  ASSUME NEW k \in Keys \cup {None}, NEW s \in Segment
  PROVE  RstFor(k, s) \in FrameType
<1>1. seq_add(s.seq, IF "SYN" \in s.flags THEN 1 ELSE Len(s.data)) \in SeqNums
  <2>1. (IF "SYN" \in s.flags THEN 1 ELSE Len(s.data)) \in Int
    BY SegTyped
  <2>2. QED
    BY <2>1, SegTyped, SeqAddTyped, SeqNumsAreInts
<1>2. {"RST", "ACK"} \in SUBSET Flags /\ <<>> \in Seq(Nat)
  BY DEF Flags
<1>3. QED
  BY <1>1, <1>2, FrameTyped, SegTyped, SeqNumsAreInts DEF RstFor

(* The handlers, by themselves.                                              *)
HandlerOK == handler \in [Handlers -> HandlerType] /\ HoldsConn

(* Moving one handler keeps the types of all, and what they hold.            *)
LEMMA HandlerTyped ==
  ASSUME TypeInv, NEW h \in Handlers, NEW x \in HandlerType,
         x.pc \notin {"idle", "stopping"} => x.conn \in Conns,
         handler' = [handler EXCEPT ![h] = x]
  PROVE  HandlerOK'
BY DEF TypeInv, TypeOK, HoldsConn, HandlerOK

(* So does moving none.                                                      *)
LEMMA HandlerSame == TypeInv /\ UNCHANGED handler => HandlerOK'
BY DEF TypeInv, TypeOK, HoldsConn, HandlerOK

(* A handler that becomes idle keeps the types.                              *)
LEMMA GoesIdle ==
  ASSUME TypeInv, NEW h \in Handlers, handler' = [handler EXCEPT ![h] = Idle]
  PROVE  HandlerOK'
BY HandlerTyped, IdleTyped

(* A handler that moves on with a connection in hand keeps the types.        *)
LEMMA GoesAt ==
  ASSUME TypeInv, NEW h \in Handlers, NEW pc \in HandlerPcs, NEW c \in Conns,
         NEW s \in Segment, handler' = [handler EXCEPT ![h] = At(pc, c, s)]
  PROVE  HandlerOK'
<1> DEFINE x == At(pc, c, s)
<1>1. x \in HandlerType /\ x.conn \in Conns
  BY AtTyped DEF ConnsOrNone
<1>2. QED
  BY <1>1, HandlerTyped

(* A handler that resumes holds a connection and a segment.                  *)
LEMMA HeldConn ==
  ASSUME TypeInv, NEW h \in Handlers, NEW pc, pc \notin {"idle", "stopping"},
         Resumes(h, pc)
  PROVE  handler[h].conn \in Conns /\ handler[h].seg \in Segment
BY DEF TypeInv, TypeOK, HoldsConn, Resumes, HandlerType

(* Advancing one sequence number keeps the types of all.                     *)
LEMMA AdvanceTyped ==
  ASSUME NEW f \in [Conns -> SeqNums], NEW c \in Conns, NEW n \in Int
  PROVE  [f EXCEPT ![c] = seq_add(@, n)] \in [Conns -> SeqNums]
<1>1. seq_add(f[c], n) \in SeqNums
  BY SeqAddTyped, SeqNumsAreInts
<1>2. QED
  BY <1>1

(* create_task of a pump keeps the types of the pumps.                       *)
LEMMA StartPumpTyped ==
  ASSUME TypeOK, NEW c \in Conns, NEW o \in Starters, StartPump(c, o)
  PROVE  /\ pump' \in [Conns -> [Starters -> PumpPcs]]
         /\ host_pump_task' \in [Conns -> Starters \cup {None}]
BY DEF TypeOK, StartPump, PumpPcs

(* The second half of _close keeps the types.                                *)
LEMMA TearDownTyped ==
  ASSUME TypeInv, NEW S \in SUBSET Conns,
         NEW d \in [Conns -> DeferredPcs],
         NEW p \in [Conns -> [Starters -> PumpPcs]],
         TearDown(S, d, p), running' = running, state' \in [Conns -> States],
         HandlerOK'
  PROVE  TypeInv'
<1>1. conns' \in [Keys -> ConnsOrNone]
  BY DEF TearDown, TypeInv, TypeOK, ConnsOrNone
<1>2. host' \in [Conns -> {"none", "open", "eof", "closed"}]
  BY DEF TearDown, TypeInv, TypeOK, HostAfterClose
<1>3. deferred' \in [Conns -> DeferredPcs]
  BY DEF TearDown, DeferredPcs, Cancelled
<1>4. pump' \in [Conns -> [Starters -> PumpPcs]]
  BY DEF TearDown, PumpPcs
<1>5. dial' \in [Conns -> DialStates]
  BY DEF TearDown, TypeInv, TypeOK, DialStates
<1>6. out' \in Seq(FrameType)
  BY QuietTyped DEF TearDown
<1>7. QED
  BY <1>1, <1>2, <1>3, <1>4, <1>5, <1>6
  DEF TypeInv, TypeOK, HandlerOK, TearDown, idVars, seqVars, bufVars, readVars

(* _close without a RST keeps the types, and so does shutdown's loop.        *)
LEMMA CloseTyped ==
  ASSUME TypeInv, NEW S \in SUBSET Conns, CloseSilently(S),
         running' = running, HandlerOK'
  PROVE  TypeInv'
<1> DEFINE open == {c \in S : state[c] # "CLOSED"}
<1>1. /\ state' = [c \in Conns |-> IF c \in open THEN "CLOSED" ELSE state[c]]
      /\ TearDown(open, deferred, pump)
  BY DEF CloseSilently
<1>2. state' \in [Conns -> States]
  BY <1>1 DEF TypeInv, TypeOK, States
<1>3. deferred \in [Conns -> DeferredPcs]
        /\ pump \in [Conns -> [Starters -> PumpPcs]]
  BY DEF TypeInv, TypeOK
<1>4. open \in SUBSET Conns
  OBVIOUS
<1> HIDE DEF open
<1>5. QED
  BY <1>1, <1>2, <1>3, <1>4, TearDownTyped

(* _close up to its RST keeps the types of the state and the frame.          *)
LEMMA ResetTyped ==
  ASSUME TypeInv, NEW c \in Conns, ResetChip(c)
  PROVE  state' \in [Conns -> States] /\ out' \in Seq(FrameType)
<1>1. Frame(key[c], {"RST"}, our_seq[c], chip_seq[c], <<>>) \in FrameType
  <2>1. /\ key[c] \in Keys \cup {None} /\ our_seq[c] \in SeqNums
        /\ chip_seq[c] \in SeqNums
    BY DEF TypeInv, TypeOK
  <2>2. {"RST"} \in SUBSET Flags /\ <<>> \in Seq(Nat)
    BY DEF Flags
  <2>3. QED
    BY <2>1, <2>2, FrameTyped
<1>2. QED
  BY <1>1, InjectTyped DEF ResetChip, TypeInv, TypeOK, States

(* An ACK for a connection is a well-formed frame.                           *)
LEMMA AckTyped ==
  ASSUME TypeOK, NEW c \in Conns, NEW a \in SeqNums
  PROVE  AckWith(c, a) \in FrameType
BY FrameTyped DEF AckWith, TypeOK, Flags, FrameType, Frame

(* The types of the fields that a segment of a connection may change.        *)
FieldTypes ==
    /\ state \in [Conns -> States]
    /\ chip_seq \in [Conns -> SeqNums]
    /\ our_seq \in [Conns -> SeqNums]
    /\ host \in [Conns -> {"none", "open", "eof", "closed"}]
    /\ written \in [Conns -> Seq(Nat)]
    /\ pending_payload \in [Conns -> Seq(Nat)]
    /\ pending_eof \in [Conns -> BOOLEAN]
    /\ out \in Seq(FrameType)

(* A step that sends a frame and changes no field keeps the field types.     *)
LEMMA FieldsKept == TypeInv /\ UNCHANGED fieldVars
  /\ out' \in Seq(FrameType) => FieldTypes'
BY DEF TypeInv, TypeOK, FieldTypes, fieldVars, seqVars, bufVars

(* A step that keeps the field types, the handlers' and the rest, keeps all. *)
LEMMA OthersKept == TypeInv /\ UNCHANGED otherVars /\ FieldTypes'
  /\ HandlerOK' => TypeInv'
BY
DEF TypeInv, TypeOK, FieldTypes, HandlerOK, otherVars, tableVars, idVars,
    dialVars, taskVars, readVars

(* The FIN part of _on_data keeps the field types.                           *)
LEMMA AcceptFinTyped ==
  ASSUME TypeInv, NEW c \in Conns, AcceptFin(c)
  PROVE  FieldTypes'
<1>1. chip_seq' \in [Conns -> SeqNums]
  <2>1. chip_seq' = [chip_seq EXCEPT ![c] = seq_add(@,
        FinSpan)] /\ FinSpan \in Int
    BY DEF AcceptFin, FinSpan
  <2>2. chip_seq \in [Conns -> SeqNums]
    BY DEF TypeInv, TypeOK
  <2>3. QED
    BY <2>1, <2>2, AdvanceTyped
<1>2. out' \in Seq(FrameType)
  BY <1>1, AckTyped, InjectTyped DEF AcceptFin, TypeInv
<1>3. state' \in [Conns -> States]
  BY DEF AcceptFin, StateAfterFin, TypeInv, TypeOK, States
<1>4. host' \in [Conns -> {"none", "open", "eof", "closed"}]
  BY DEF AcceptFin, TypeInv, TypeOK
<1>5. pending_eof' \in [Conns -> BOOLEAN]
  BY DEF AcceptFin, EofMustWait, TypeInv, TypeOK
<1>6. QED
  BY <1>1, <1>2, <1>3, <1>4, <1>5 DEF AcceptFin, TypeInv, TypeOK, FieldTypes

(* What follows the ACK of a payload keeps the handlers' types.              *)
LEMMA AfterPayloadTyped ==
  ASSUME TypeInv, NEW h \in Handlers, NEW c \in Conns, NEW seg,
         AfterPayload(h, c, seg)
  PROVE  HandlerOK'
<1>1. CASE "FIN" \in seg.flags
  BY <1>1, GoesAt, NoSegmentTyped DEF AfterPayload, HandlerPcs, HandlerOK
<1>2. CASE "FIN" \notin seg.flags
  BY <1>2, GoesIdle DEF AfterPayload, HandlerOK
<1>3. QED
  BY <1>1, <1>2

(* An ignored segment keeps the types.                                       *)
LEMMA IgnoreTyped ==
  ASSUME TypeInv, Ignore
  PROVE  FieldTypes' /\ HandlerOK'
BY QuietTyped, FieldsKept, HandlerSame DEF Ignore, HandlerOK

(* The payload part of _on_data keeps the types.                             *)
LEMMA OnPayloadTyped ==
  ASSUME TypeInv, NEW h \in Handlers, NEW c \in Conns, NEW seg \in Segment,
         OnPayload(h, c, seg), state' \in [Conns -> States]
  PROVE  FieldTypes' /\ HandlerOK'
<1>1. seg.data \in Seq(Nat) /\ Len(seg.data) \in Int
  BY SegTyped
<1>2. CASE /\ Inject(AckWith(c, chip_seq[c]))
           /\ UNCHANGED <<seqVars, host, bufVars, handler>>
  <2>1. out' \in Seq(FrameType)
    BY <1>2, AckTyped, InjectTyped DEF TypeInv, TypeOK
  <2>2. QED
    BY <1>2, <2>1, HandlerSame
    DEF HandlerOK, FieldTypes, TypeInv, TypeOK, seqVars, bufVars
<1>3. CASE /\ pending_payload' = [pending_payload EXCEPT ![c] = @ \o seg.data]
           /\ chip_seq' = [chip_seq EXCEPT ![c] = seq_add(@, Len(seg.data))]
           /\ Inject(AckWith(c, chip_seq'[c]))
           /\ AfterPayload(h, c, seg)
           /\ UNCHANGED <<our_seq, host, written, pending_eof>>
  <2>1. chip_seq' \in [Conns -> SeqNums]
    BY <1>1, <1>3, AdvanceTyped DEF TypeInv, TypeOK
  <2>2. out' \in Seq(FrameType)
    BY <1>3, <2>1, AckTyped, InjectTyped DEF TypeInv
  <2>3. pending_payload[c] \o seg.data \in Seq(Nat)
    BY <1>1 DEF TypeInv, TypeOK
  <2>4. pending_payload' \in [Conns -> Seq(Nat)]
    BY <1>3, <2>3 DEF TypeInv, TypeOK
  <2>5. QED
    BY <1>3, <2>1, <2>2, <2>4, AfterPayloadTyped DEF TypeInv, TypeOK, FieldTypes
<1>4. CASE /\ written' = [written EXCEPT ![c] = @ \o seg.data]
           /\ handler' = [handler EXCEPT ![h] = At("drain", c, seg)]
           /\ Quiet
           /\ UNCHANGED <<seqVars, host, pending_payload, pending_eof>>
  <2>1. written[c] \o seg.data \in Seq(Nat)
    BY <1>1 DEF TypeInv, TypeOK
  <2>2. written' \in [Conns -> Seq(Nat)]
    BY <1>4, <2>1 DEF TypeInv, TypeOK
  <2>3. HandlerOK'
    BY <1>4, GoesAt DEF HandlerOK, HandlerPcs
  <2>4. QED
    BY <1>4, <2>2, <2>3, QuietTyped DEF TypeInv, TypeOK, FieldTypes, seqVars
<1>5. QED
  BY <1>2, <1>3, <1>4 DEF OnPayload

(* _on_data keeps the types.                                                 *)
LEMMA OnDataTyped ==
  ASSUME TypeInv, NEW h \in Handlers, NEW c \in Conns, NEW seg \in Segment,
         on_data(h, c, seg)
  PROVE  FieldTypes' /\ HandlerOK'
<1>1. CASE seg.data # <<>>
  BY <1>1, OnPayloadTyped DEF on_data, TypeInv, TypeOK
<1>2. CASE seg.data = <<>> /\ "FIN" \in seg.flags
  BY <1>2, AcceptFinTyped, HandlerSame DEF on_data, HandlerOK
<1>3. CASE seg.data = <<>> /\ "FIN" \notin seg.flags
  BY <1>3, IgnoreTyped DEF on_data
<1>4. QED
  BY <1>1, <1>2, <1>3

(* _on_handshake_complete keeps the types.                                   *)
LEMMA HandshakeTyped ==
  ASSUME TypeInv, NEW h \in Handlers, NEW c \in Conns, NEW seg \in Segment,
         on_handshake_complete(h, c, seg)
  PROVE  FieldTypes' /\ HandlerOK'
<1>1. CASE "ACK" \in seg.flags /\ seg.ack = our_seq[c]
  <2>1. state' \in [Conns -> States]
    BY <1>1 DEF on_handshake_complete, TypeInv, TypeOK, States
  <2>2. CASE seg.data # <<>>
    BY <1>1, <2>1, <2>2, OnPayloadTyped DEF on_handshake_complete
  <2>3. CASE seg.data = <<>>
    BY <1>1, <2>1, <2>3, QuietTyped, HandlerSame
    DEF on_handshake_complete, TypeInv, TypeOK, FieldTypes, HandlerOK, seqVars,
        bufVars
  <2>4. QED
    BY <2>2, <2>3
<1>2. CASE ~("ACK" \in seg.flags /\ seg.ack = our_seq[c])
  BY <1>2, IgnoreTyped DEF on_handshake_complete
<1>3. QED
  BY <1>1, <1>2

(* _on_fin_wait_1 and _on_fin_wait_2 keep the types.                         *)
LEMMA FinWaitTyped ==
  ASSUME TypeInv, NEW h \in Handlers, NEW c \in Conns, NEW seg \in Segment,
         on_fin_wait(h, c, seg)
  PROVE  FieldTypes' /\ HandlerOK'
<1>1. state' \in [Conns -> States]
  BY DEF on_fin_wait, TypeInv, TypeOK, States
<1>2. CASE "FIN" \in seg.flags
  <2>1. chip_seq' = [chip_seq EXCEPT ![c] = seq_add(@,
        FinSpan)] /\ FinSpan \in Int
    BY <1>2 DEF on_fin_wait, FinSpan
  <2>2. chip_seq' \in [Conns -> SeqNums]
    BY <2>1, AdvanceTyped DEF TypeInv, TypeOK
  <2>3. out' \in Seq(FrameType)
    BY <1>2, <2>2, AckTyped, InjectTyped DEF on_fin_wait, TypeInv
  <2>4. HandlerOK'
    BY <1>2, GoesAt, NoSegmentTyped DEF on_fin_wait, HandlerOK, HandlerPcs
  <2>5. QED
    BY <1>1, <2>2, <2>3, <2>4
    DEF on_fin_wait, TypeInv, TypeOK, FieldTypes, bufVars
<1>3. CASE "FIN" \notin seg.flags
  BY <1>1, <1>3, QuietTyped, HandlerSame
  DEF on_fin_wait, TypeInv, TypeOK, FieldTypes, HandlerOK, bufVars
<1>4. QED
  BY <1>2, <1>3

(* A segment of a registered connection keeps the types.                     *)
LEMMA ConnSegmentTyped ==
  ASSUME TypeInv, NEW h \in Handlers, NEW c \in Conns, NEW seg \in Segment,
         ConnSegment(h, c, seg)
  PROVE  TypeInv'
<1>1. FieldTypes' /\ HandlerOK'
  BY HandshakeTyped, OnDataTyped, FinWaitTyped, IgnoreTyped DEF ConnSegment
<1>2. QED
  BY <1>1, OthersKept DEF ConnSegment

(* _on_passive_syn keeps the types.                                          *)
LEMMA PassiveSynTyped ==
  ASSUME TypeInv, NEW h \in Handlers, NEW k \in Keys, NEW seg \in Segment,
         on_passive_syn(h, k, seg)
  PROVE  TypeInv'
<1>1. PICK c \in Conns, isn \in ISNs :
        /\ key' = [key EXCEPT ![c] = k]
        /\ chip_isn' = [chip_isn EXCEPT ![c] = seg.seq]
        /\ chip_seq' = [chip_seq EXCEPT ![c] = seq_add(seg.seq, 1)]
        /\ our_isn' = [our_isn EXCEPT ![c] = isn]
        /\ our_seq' = [our_seq EXCEPT ![c] = seq_add(isn, 1)]
        /\ dial' = [dial EXCEPT ![c] = "dialling"]
        /\ attempt' = [attempt EXCEPT ![c] = 1]
        /\ handler' = [handler EXCEPT ![h] = At("grace", c, seg)]
  BY DEF on_passive_syn
<1>2. isn \in SeqNums /\ seg.seq \in SeqNums
  BY SegTyped, TcpNatAssumption
<1>3. seq_add(seg.seq, 1) \in SeqNums /\ seq_add(isn, 1) \in SeqNums
  <2>1. isn \in Int
    BY <1>2, SeqNumsAreInts
  <2>2. seg.seq \in Int
    BY <1>2, SeqNumsAreInts
  <2>3. seq_add(seg.seq, 1) \in SeqNums
    BY <2>2, SeqAddTyped
  <2>4. seq_add(isn, 1) \in SeqNums
    BY <2>1, SeqAddTyped
  <2>5. QED
    BY <2>3, <2>4
<1>4. HandlerOK'
  BY <1>1, GoesAt DEF HandlerOK, HandlerPcs
<1>5. 1 \in 0 .. Attempts
  BY TcpNatAssumption
<1>6. connecting' \subseteq Keys /\ out' \in Seq(FrameType)
  BY QuietTyped DEF on_passive_syn, Noted, TypeInv, TypeOK
<1>7. QED
  BY <1>1, <1>2, <1>3, <1>4, <1>5, <1>6
  DEF on_passive_syn, TypeInv, TypeOK, HandlerOK, DialStates, bufVars,
      taskVars, readVars

(* handle_chip_segment keeps the types.                                      *)
LEMMA HandleSegmentTyped ==
  ASSUME TypeInv, NEW h \in Handlers, NEW k \in Keys, NEW seg \in Segment,
         handle_chip_segment(h, k, seg)
  PROVE  TypeInv'
<1>1. conns[k] \in Conns \cup {None}
  BY DEF TypeInv, TypeOK, ConnsOrNone
<1>2. CASE ChipRst(k, seg)
  BY <1>1, <1>2, CloseTyped, HandlerSame DEF ChipRst, HandlerOK
<1>3. CASE DropSynRetransmit(k, seg)
  BY <1>3, FieldsKept, QuietTyped, OthersKept, HandlerSame
  DEF DropSynRetransmit, HandlerOK
<1>4. CASE RefuseSegment(k, seg)
  <2>1. out' \in Seq(FrameType)
    BY <1>4, RstTyped, InjectTyped DEF RefuseSegment
  <2>2. QED
    BY <1>4, <2>1, FieldsKept, OthersKept, HandlerSame
    DEF RefuseSegment, HandlerOK
<1>5. CASE on_passive_syn(h, k, seg)
  BY <1>5, PassiveSynTyped
<1>6. CASE conns[k] # None /\ ConnSegment(h, conns[k], seg)
  BY <1>1, <1>6, ConnSegmentTyped
<1>7. CASE conns[k] # None /\ LastAck(conns[k], seg)
  BY <1>1, <1>7, CloseTyped, HandlerSame DEF LastAck, HandlerOK
<1>8. QED
  BY <1>2, <1>3, <1>4, <1>5, <1>6, <1>7 DEF handle_chip_segment

(* Registering a connection and answering its SYN keeps the types.           *)
LEMMA AnswerSynTyped ==
  ASSUME TypeInv, NEW h \in Handlers, NEW c \in Conns, AnswerSyn(h, c)
  PROVE  /\ state' \in [Conns -> States] /\ conns' \in [Keys -> ConnsOrNone]
         /\ out' \in Seq(FrameType) /\ HandlerOK'
<1>1. out' \in Seq(FrameType)
  <2>1. /\ key[c] \in Keys \cup {None} /\ our_isn[c] \in SeqNums
        /\ chip_seq[c] \in SeqNums
    BY DEF TypeInv, TypeOK
  <2>2. {"SYN", "ACK"} \in SUBSET Flags /\ <<>> \in Seq(Nat)
    BY DEF Flags
  <2>3. QED
    BY <2>1, <2>2, FrameTyped, InjectTyped DEF AnswerSyn
<1>2. HandlerOK'
  BY GoesAt, NoSegmentTyped DEF AnswerSyn, HandlerOK, HandlerPcs
<1>3. QED
  BY <1>1, <1>2 DEF AnswerSyn, TypeInv, TypeOK, States, ConnsOrNone

(* Every later step of a handler keeps the types.                            *)
LEMMA HandlerStepTyped ==
  ASSUME TypeInv, NEW h \in Handlers, HandlerStep(h)
  PROVE  TypeInv'
<1> DEFINE c == handler[h].conn
           seg == handler[h].seg
<1>1. ASSUME NEW pc, pc \notin {"idle", "stopping"}, Resumes(h, pc)
      PROVE  c \in Conns /\ seg \in Segment
  BY <1>1, HeldConn
<1>2. CASE GraceOpened(h)
  <2>1. c \in Conns
    BY <1>1, <1>2 DEF GraceOpened
  <2>2. /\ state' \in [Conns -> States] /\ conns' \in [Keys -> ConnsOrNone]
        /\ out' \in Seq(FrameType) /\ HandlerOK'
    BY <1>2, <2>1, AnswerSynTyped DEF GraceOpened
  <2>3. QED
    BY <1>2, <2>1, <2>2 DEF GraceOpened, AnswerSyn, TypeInv, TypeOK, HandlerOK,
       DialStates, idVars, seqVars, bufVars, readVars
<1>3. CASE GraceRefused(h)
  <2>1. c \in Conns /\ seg \in Segment
    BY <1>1, <1>3 DEF GraceRefused
  <2>2. out' \in Seq(FrameType)
    <3>1. key[c] \in Keys \cup {None}
      BY <2>1 DEF TypeInv, TypeOK
    <3>2. QED
      BY <1>3, <2>1, <3>1, RstTyped, InjectTyped DEF GraceRefused
  <2>3. HandlerOK'
    BY <1>3, GoesIdle DEF GraceRefused, HandlerOK
  <2>4. QED
    BY <1>3, <2>2, <2>3 DEF GraceRefused, TypeInv, TypeOK, HandlerOK, fieldVars,
       dialVars, taskVars, idVars, seqVars, bufVars, readVars
<1>4. CASE GraceOver(h)
  <2>1. c \in Conns
    BY <1>1, <1>4 DEF GraceOver
  <2>2. /\ state' \in [Conns -> States] /\ conns' \in [Keys -> ConnsOrNone]
        /\ out' \in Seq(FrameType) /\ HandlerOK'
    BY <1>4, <2>1, AnswerSynTyped DEF GraceOver
  <2>3. QED
    BY <1>4, <2>1, <2>2 DEF GraceOver, AnswerSyn, TypeInv, TypeOK, HandlerOK,
       DeferredPcs, idVars, seqVars, bufVars, readVars
<1>5. CASE SynAnswered(h)
  <2>1. c \in Conns /\ "syn" \in Starters
    BY <1>1, <1>5 DEF SynAnswered, Starters
  <2>2. HandlerOK'
    BY <1>5, GoesIdle DEF SynAnswered, HandlerOK
  <2>3. /\ pump' \in [Conns -> [Starters -> PumpPcs]]
        /\ host_pump_task' \in [Conns -> Starters \cup {None}]
    BY <1>5, <2>1, StartPumpTyped DEF TypeInv, TypeOK, SynAnswered
  <2>4. QED
    BY <1>5, <2>2, <2>3, QuietTyped DEF SynAnswered, TypeInv, TypeOK, HandlerOK,
       tableVars, idVars, fieldVars, seqVars, bufVars, dialVars, readVars
<1>6. CASE Drained(h)
  <2>1. c \in Conns /\ seg \in Segment
    BY <1>1, <1>6 DEF Drained
  <2>2. chip_seq' \in [Conns -> SeqNums]
    <3>1. chip_seq' = [chip_seq EXCEPT ![c] = seq_add(@, Len(seg.data))]
      BY <1>6 DEF Drained
    <3>2. Len(seg.data) \in Int /\ chip_seq \in [Conns -> SeqNums]
      BY <2>1, SegTyped DEF TypeInv, TypeOK
    <3> HIDE DEF c, seg
    <3>3. QED
      BY <2>1, <3>1, <3>2, AdvanceTyped
  <2>3. out' \in Seq(FrameType)
    BY <1>6, <2>1, <2>2, AckTyped, InjectTyped DEF Drained, TypeInv
  <2>4. HandlerOK'
    BY <1>6, <2>1, AfterPayloadTyped DEF Drained
  <2>5. FieldTypes'
    BY <1>6, <2>2, <2>3 DEF Drained, TypeInv, TypeOK, FieldTypes, bufVars
  <2>6. QED
    BY <1>6, <2>4, <2>5, OthersKept DEF Drained
<1>7. CASE DrainFailed(h)
  <2>1. c \in Conns
    BY <1>1, <1>7 DEF DrainFailed
  <2>2. HandlerOK'
    BY <1>7, <2>1, GoesAt, GoesIdle, NoSegmentTyped
    DEF DrainFailed, HandlerOK, HandlerPcs
  <2>3. state' \in [Conns -> States] /\ out' \in Seq(FrameType)
    BY <1>7, <2>1, ResetTyped, QuietTyped DEF DrainFailed, TypeInv, TypeOK
  <2>4. FieldTypes'
    BY <1>7, <2>3 DEF DrainFailed, TypeInv, TypeOK, FieldTypes, seqVars, bufVars
  <2>5. QED
    BY <1>7, <2>2, <2>4, OthersKept DEF DrainFailed
<1>8. CASE DataAcked(h)
  BY <1>1, <1>8, AcceptFinTyped, GoesIdle, OthersKept DEF DataAcked, HandlerOK
<1>9. CASE FinAcked(h)
  <2>1. {c} \in SUBSET Conns
    BY <1>1, <1>9 DEF FinAcked
  <2>2. QED
    BY <1>9, <2>1, CloseTyped, GoesIdle DEF FinAcked, HandlerOK
<1>10. CASE HandlerReset(h)
  <2>1. {c} \in SUBSET Conns
    BY <1>1, <1>10 DEF HandlerReset
  <2>2. /\ deferred \in [Conns -> DeferredPcs]
        /\ pump \in [Conns -> [Starters -> PumpPcs]]
        /\ state' \in [Conns -> States]
    BY <1>10 DEF HandlerReset, TypeInv, TypeOK
  <2>3. QED
    BY <1>10, <2>1, <2>2, TearDownTyped, GoesIdle DEF HandlerReset, HandlerOK
<1>11. CASE shutdown(h)
  <2>1. {d \in Conns : \E k \in Keys : conns[k] = d} \in SUBSET Conns
    OBVIOUS
  <2>2. QED
    BY <1>11, <2>1, CloseTyped, GoesIdle DEF shutdown, HandlerOK
<1>12. QED
  BY <1>2, <1>3, <1>4, <1>5, <1>6, <1>7, <1>8, <1>9, <1>10, <1>11
  DEF HandlerStep

(* Stopping the bridge keeps the types.                                      *)
LEMMA StopTyped ==
  ASSUME TypeInv, NEW h \in Handlers, stop(h)
  PROVE  TypeInv'
<1>1. HandlerOK'
  <2>1. "stopping" \in HandlerPcs /\ None \in ConnsOrNone
    BY DEF HandlerPcs, ConnsOrNone
  <2>2. /\ At("stopping", None, NoSegment) \in HandlerType
        /\ At("stopping", None, NoSegment).pc = "stopping"
    BY <2>1, AtTyped, NoSegmentTyped
  <2>3. handler' = [handler EXCEPT ![h] = At("stopping", None, NoSegment)]
    BY DEF stop
  <2>4. QED
    BY <2>2, <2>3, HandlerTyped DEF HandlerOK
<1>2. QED
  BY <1>1, QuietTyped DEF stop, TypeInv, TypeOK, HandlerOK, tableVars, idVars,
     fieldVars, seqVars, bufVars, dialVars, taskVars, readVars

(* A step of _connect_with_retries keeps the types.                          *)
LEMMA DialStepTyped ==
  ASSUME TypeInv, NEW c \in Conns, DialStep(c)
  PROVE  TypeInv'
<1>1. /\ dial' \in [Conns -> DialStates]
        /\ attempt' \in [Conns -> 0 .. Attempts]
      /\ Dials(c)
  <2>1. CASE HostAnswers(c) \/ HostRefuses(c)
    BY <2>1 DEF HostAnswers, HostRefuses, TypeInv, TypeOK, DialStates
  <2>2. CASE AttemptTimesOut(c)
    <3>1. attempt[c] < Attempts => attempt[c] + 1 \in 0 .. Attempts
      BY TcpNatAssumption DEF TypeInv, TypeOK
    <3>2. QED
      BY <2>2, <3>1 DEF AttemptTimesOut, TypeInv, TypeOK, DialStates
  <2>3. QED
    BY <2>1, <2>2 DEF DialStep
<1>2. HandlerOK'
  BY <1>1, HandlerSame DEF Dials, HandlerOK
<1>3. QED
  BY <1>1, <1>2, QuietTyped
  DEF Dials, TypeInv, TypeOK, HandlerOK, tableVars, idVars,
     fieldVars, seqVars, bufVars, taskVars, readVars

(* The end of _finish_deferred_connect keeps the types.                      *)
LEMMA FinishAttachTyped ==
  ASSUME TypeInv, NEW c \in Conns, FinishAttach(c)
  PROVE  /\ host' \in [Conns -> {"none", "open", "eof", "closed"}]
         /\ pending_eof' \in [Conns -> BOOLEAN]
         /\ deferred' \in [Conns -> DeferredPcs]
         /\ pump' \in [Conns -> [Starters -> PumpPcs]]
         /\ host_pump_task' \in [Conns -> Starters \cup {None}]
<1>1. "deferred" \in Starters
  BY DEF Starters
<1>2. /\ pump' \in [Conns -> [Starters -> PumpPcs]]
      /\ host_pump_task' \in [Conns -> Starters \cup {None}]
  BY <1>1, StartPumpTyped DEF FinishAttach, TypeInv
<1>3. deferred' \in [Conns -> DeferredPcs]
  BY DEF FinishAttach, DeferredGoesTo, TypeInv, TypeOK, DeferredPcs
<1>4. QED
  BY <1>2, <1>3 DEF FinishAttach, TypeInv, TypeOK

(* Every step of _finish_deferred_connect keeps the types.                   *)
LEMMA DeferredStepTyped ==
  ASSUME TypeInv, NEW c \in Conns, DeferredStep(c)
  PROVE  TypeInv'
<1>1. CASE DeferredStarts(c)
  BY <1>1, HandlerSame, QuietTyped
  DEF HandlerOK, DeferredStarts, DeferredGoesTo, TypeInv, TypeOK, DeferredPcs,
      tableVars, idVars,
      fieldVars, seqVars, bufVars, dialVars, readVars
<1>2. CASE DeferredCancelled(c)
  BY <1>2, HandlerSame, QuietTyped
  DEF HandlerOK, DeferredCancelled, DeferredGoesTo, TypeInv, TypeOK,
      DeferredPcs, idVars,
      fieldVars, seqVars, bufVars, dialVars, readVars
<1>3. CASE DeferredFails(c)
  <2>1. state' \in [Conns -> States] /\ out' \in Seq(FrameType)
    BY <1>3, ResetTyped DEF DeferredFails
  <2>2. QED
    BY <1>3, <2>1, HandlerSame
    DEF HandlerOK, DeferredFails, DialEnded, DeferredGoesTo, TypeInv, TypeOK,
        DeferredPcs, idVars,
        seqVars, bufVars, readVars
<1>4. CASE DeferredAttaches(c)
  <2>1. written[c] \o pending_payload[c] \in Seq(Nat) /\ <<>> \in Seq(Nat)
    BY DEF TypeInv, TypeOK
  <2>2. /\ written' \in [Conns -> Seq(Nat)]
          /\ pending_payload' \in [Conns -> Seq(Nat)]
        /\ dial' \in [Conns -> DialStates]
    BY <1>4, <2>1 DEF DeferredAttaches, TypeInv, TypeOK, DialStates
  <2>3. CASE pending_payload[c] = <<>>
    BY <1>4, <2>2, <2>3, FinishAttachTyped, HandlerSame, QuietTyped
    DEF HandlerOK, DeferredAttaches, DialEnded, TypeInv, TypeOK, idVars,
        seqVars, readVars
  <2>4. CASE pending_payload[c] # <<>>
    <3>1. /\ host' \in [Conns -> {"none", "open", "eof", "closed"}]
          /\ deferred' \in [Conns -> DeferredPcs]
      BY <1>4, <2>4
      DEF DeferredAttaches, DeferredGoesTo, TypeInv, TypeOK, DeferredPcs
    <3>2. QED
      BY <1>4, <2>2, <2>4, <3>1, HandlerSame, QuietTyped
      DEF HandlerOK, DeferredAttaches, DialEnded, TypeInv, TypeOK, idVars,
          seqVars, readVars
  <2>5. QED
    BY <2>3, <2>4
<1>5. CASE Flushed(c)
  BY <1>5, FinishAttachTyped, HandlerSame, QuietTyped
  DEF HandlerOK, Flushed, TypeInv, TypeOK, tableVars, idVars, seqVars,
      dialVars, readVars
<1>6. CASE FlushFailed(c)
  <2>1. state' \in [Conns -> States] /\ out' \in Seq(FrameType)
    BY <1>6, ResetTyped, QuietTyped DEF FlushFailed, TypeInv, TypeOK
  <2>2. deferred' \in [Conns -> DeferredPcs]
    BY <1>6 DEF FlushFailed, DeferredGoesTo, TypeInv, TypeOK, DeferredPcs
  <2>3. QED
    BY <1>6, <2>1, <2>2, HandlerSame
    DEF HandlerOK, FlushFailed, TypeInv, TypeOK, tableVars, idVars, seqVars,
        bufVars, dialVars,
        readVars
<1>7. CASE DeferredReset(c)
  <2>1. /\ [deferred EXCEPT ![c] = "done"] \in [Conns -> DeferredPcs]
        /\ pump \in [Conns -> [Starters -> PumpPcs]]
        /\ {c} \in SUBSET Conns /\ state' \in [Conns -> States]
    BY <1>7 DEF DeferredReset, TypeInv, TypeOK, DeferredPcs
  <2>2. QED
    BY <1>7, <2>1, TearDownTyped, HandlerSame DEF DeferredReset, HandlerOK
<1>8. QED
  BY <1>1, <1>2, <1>3, <1>4, <1>5, <1>6, <1>7 DEF DeferredStep

(* A pump that moves on keeps the types if what it changes has its type.     *)
LEMMA PumpGoesTyped ==
  ASSUME TypeInv, NEW c \in Conns, NEW o \in Starters, NEW pc \in PumpPcs,
         PumpGoesTo(c, o, pc),
         state' \in [Conns -> States], our_seq' \in [Conns -> SeqNums],
         fetched' \in [Conns -> Nat], at_eof' \in [Conns -> BOOLEAN],
         chunk' \in [Conns -> [Starters -> Nat]], out' \in Seq(FrameType)
  PROVE  TypeInv'
BY HandlerSame
DEF HandlerOK, PumpGoesTo, TypeInv, TypeOK, tableVars, idVars, bufVars, dialVars

(* A read, and the send of its chunk, keep the types.                        *)
LEMMA PumpReadsTyped ==
  ASSUME TypeInv, NEW c \in Conns, NEW o \in Starters, NEW n \in ReadSizes,
         PumpReads(c, o, n)
  PROVE  TypeInv'
<1>1. n \in Nat
  BY TcpNatAssumption
<1>2. fetched' \in [Conns -> Nat] /\ chunk' \in [Conns -> [Starters -> Nat]]
  BY <1>1 DEF PumpReads, TypeInv, TypeOK
<1>3. out' \in Seq(FrameType)
  <2>1. /\ key[c] \in Keys \cup {None} /\ our_seq[c] \in SeqNums
        /\ chip_seq[c] \in SeqNums /\ fetched[c] \in Nat
    BY DEF TypeInv, TypeOK
  <2>2. [i \in 1..n |-> fetched[c] + i] \in Seq(Nat)
    BY <1>1, <2>1, CountTyped
  <2>3. {"ACK"} \in SUBSET Flags
    BY DEF Flags
  <2>4. QED
    BY <2>1, <2>2, <2>3, FrameTyped, InjectTyped DEF PumpReads
<1>4. QED
  BY <1>2, <1>3, PumpGoesTyped DEF PumpReads, PumpPcs, TypeInv, TypeOK

(* Every step of _pump_host_to_chip keeps the types.                         *)
LEMMA PumpStepTyped ==
  ASSUME TypeInv, NEW c \in Conns, NEW o \in Starters, PumpStep(c, o)
  PROVE  TypeInv'
<1>1. CASE PumpStarts(c, o)
  BY <1>1, PumpGoesTyped, QuietTyped
  DEF PumpStarts, NextRound, PumpPcs, TypeInv, TypeOK, readVars
<1>2. CASE PumpSent(c, o)
  <2>1. chunk[c][o] \in Int /\ our_seq \in [Conns -> SeqNums]
    BY DEF TypeInv, TypeOK
  <2>2. our_seq' = [our_seq EXCEPT ![c] = seq_add(@, chunk[c][o])]
    BY <1>2, <2>1 DEF PumpSent, SeqAfterSend
  <2>3. our_seq' \in [Conns -> SeqNums]
    BY <2>1, <2>2, AdvanceTyped
  <2>4. QED
    BY <1>2, <2>3, PumpGoesTyped, QuietTyped
    DEF PumpSent, NextRound, PumpPcs, TypeInv, TypeOK, readVars
<1>3. CASE PumpEof(c, o)
  <2>1. state' \in [Conns -> States] /\ out' \in Seq(FrameType)
    <3>1. Frame(key[c], {"ACK", "FIN"}, our_seq[c], chip_seq[c],
          <<>>) \in FrameType
      <4>1. /\ key[c] \in Keys \cup {None} /\ our_seq[c] \in SeqNums
            /\ chip_seq[c] \in SeqNums
        BY DEF TypeInv, TypeOK
      <4>2. {"ACK", "FIN"} \in SUBSET Flags /\ <<>> \in Seq(Nat)
        BY DEF Flags
      <4>3. QED
        BY <4>1, <4>2, FrameTyped
    <3>2. QED
      BY <1>3, <3>1, InjectTyped, QuietTyped
      DEF PumpEof, TypeInv, TypeOK, States
  <2>2. at_eof' \in [Conns -> BOOLEAN]
    BY <1>3 DEF PumpEof, TypeInv, TypeOK
  <2>3. QED
    BY <1>3, <2>1, <2>2, PumpGoesTyped DEF PumpEof, PumpPcs, TypeInv, TypeOK
<1>4. CASE PumpFinSent(c, o)
  <2>1. our_seq' \in [Conns -> SeqNums]
    <3>1. our_seq' = [our_seq EXCEPT ![c] = seq_add(@, 1)] /\ 1 \in Int
      BY <1>4 DEF PumpFinSent
    <3>2. our_seq \in [Conns -> SeqNums]
      BY DEF TypeInv, TypeOK
    <3>3. QED
      BY <3>1, <3>2, AdvanceTyped
  <2>2. QED
    BY <1>4, <2>1, PumpGoesTyped, QuietTyped
    DEF PumpFinSent, PumpPcs, TypeInv, TypeOK, readVars
<1>5. CASE PumpRaises(c, o)
  <2>1. state' \in [Conns -> States] /\ out' \in Seq(FrameType)
    BY <1>5, ResetTyped, QuietTyped DEF PumpRaises, TypeInv, TypeOK
  <2>2. QED
    BY <1>5, <2>1, PumpGoesTyped
    DEF PumpRaises, PumpPcs, TypeInv, TypeOK, readVars
<1>6. CASE PumpReset(c, o)
  <2>1. /\ [pump EXCEPT ![c][o] = "done"] \in [Conns -> [Starters -> PumpPcs]]
        /\ deferred \in [Conns -> DeferredPcs]
        /\ {c} \in SUBSET Conns /\ state' \in [Conns -> States]
    BY <1>6 DEF PumpReset, TypeInv, TypeOK, PumpPcs
  <2>2. QED
    BY <1>6, <2>1, TearDownTyped, HandlerSame DEF PumpReset, HandlerOK
<1>7. CASE \E n \in ReadSizes : PumpReads(c, o, n)
  BY <1>7, PumpReadsTyped
<1>8. QED
  BY <1>1, <1>2, <1>3, <1>4, <1>5, <1>6, <1>7 DEF PumpStep

(* A new bridge has the types.                                               *)
LEMMA InitTyped == Init => TypeInv
<1> SUFFICES ASSUME Init PROVE TypeInv
  OBVIOUS
<1>1. HandlerOK
  BY IdleTyped DEF Init, HandlerOK, HoldsConn
<1>2. <<>> \in Seq(Nat) /\ <<>> \in Seq(FrameType) /\ 0 \in SeqNums
        /\ 0 \in 0 .. Attempts
  BY SeqNumsAreInts, TcpNatAssumption
<1>3. QED
  BY <1>1, <1>2
  DEF Init, TypeInv, TypeOK, HandlerOK, ConnsOrNone, States, DialStates,
     DeferredPcs, PumpPcs

(* A step that changes nothing keeps the types.                              *)
LEMMA StutterTyped == TypeInv /\ UNCHANGED vars => TypeInv'
BY HandlerSame
DEF HandlerOK, TypeInv, TypeOK, vars, fieldVars, otherVars, tableVars, idVars,
    seqVars,
   bufVars, dialVars, taskVars, readVars

(* Every step of the NAT keeps the types.                                    *)
LEMMA NextTyped == TypeInv /\ [Next]_vars => TypeInv'
<1> SUFFICES ASSUME TypeInv, [Next]_vars PROVE TypeInv'
  OBVIOUS
<1>1. ASSUME NEW h \in Handlers, NEW k \in Keys, NEW seg \in Segments,
             handle_chip_segment(h, k, seg)
      PROVE  TypeInv'
  BY <1>1, HandleSegmentTyped, TcpNatAssumption
<1>2. ASSUME NEW h \in Handlers, stop(h) PROVE TypeInv'
  BY <1>2, StopTyped
<1>3. ASSUME NEW h \in Handlers, HandlerStep(h) PROVE TypeInv'
  BY <1>3, HandlerStepTyped
<1>4. ASSUME NEW c \in Conns, DialStep(c) \/ DeferredStep(c) PROVE TypeInv'
  BY <1>4, DialStepTyped, DeferredStepTyped
<1>5. ASSUME NEW c \in Conns, NEW o \in Starters, PumpStep(c, o) PROVE TypeInv'
  BY <1>5, PumpStepTyped
<1>6. CASE UNCHANGED vars
  BY <1>6, StutterTyped
<1>7. QED
  BY <1>1, <1>2, <1>3, <1>4, <1>5, <1>6 DEF Next, TaskStep

(* Whatever the chip sends and however the tasks interleave, the variables   *)
(* of the NAT keep their types.                                              *)
THEOREM TypeCorrect == Spec => []TypeOK
<1>1. Spec => []TypeInv
  BY InitTyped, NextTyped, PTL DEF Spec
<1>2. TypeInv => TypeOK
  BY DEF TypeInv
<1>3. QED
  BY <1>1, <1>2, PTL

-----------------------------------------------------------------------------
(* What _connecting guarantees.  The inductive invariant is DialInv (in      *)
(* TcpNatProps): a connection claims its key from the dial on until its      *)
(* waiter has run; the key is in _connecting all that time, and no two       *)
(* claims share a key, so that the waiter which discards the key discards    *)
(* its own.                                                                  *)

(* The inductive invariant.                                                  *)
Inv == TypeInv /\ DialInv

(* DialInv survives a step after which no connection claims a dial that did  *)
(* not, and every one that still does has its key in _connecting.            *)
LEMMA Shrinks ==
  ASSUME Inv, key' = key,
         \A h \in Handlers :
           handler'[h].pc = "grace" => handler'[h] = handler[h],
         \A h \in Handlers :
           handler'[h].pc = "grace" => deferred'[handler[h].conn] = "none",
         \A c \in Conns : Claims(c)' => Claims(c) /\ key[c] \in connecting',
         \A c \in Conns :
           key[c] = None => dial'[c] = "none" /\ deferred'[c] = "none",
         \A c \in Conns : deferred'[c] = "cancelled" => dial'[c] # "dialling"
  PROVE  DialInv'
<1>1. \A c \in Conns : Claims(c)' => key'[c] \in connecting'
  OBVIOUS
<1>2. \A c, d \in Conns : Claims(c)' /\ Claims(d)' /\ key'[c] = key'[d] => c = d
  BY DEF Inv, DialInv
<1>3. \A h \in Handlers : handler'[h].pc = "grace" =>
         deferred'[handler'[h].conn] = "none" /\ key'[handler'[h].conn] # None
  BY DEF Inv, DialInv
<1>4. \A h, g \in Handlers :
         handler'[h].pc = "grace" /\ handler'[g].pc = "grace"
           /\ handler'[h].conn = handler'[g].conn => h = g
  BY DEF Inv, DialInv
<1>5. QED
  BY <1>1, <1>2, <1>3, <1>4 DEF DialInv

(* A step that takes no handler into the grace.                              *)
NoNewGrace ==
  \A h \in Handlers : handler'[h].pc = "grace" => handler'[h] = handler[h]

(* DialInv survives a step that leaves the dials alone.                      *)
LEMMA DialFrame ==
  ASSUME Inv, UNCHANGED <<key, dial, deferred, connecting>>, NoNewGrace
  PROVE  DialInv'
<1>1. \A c \in Conns : Claims(c)' => Claims(c)
  BY DEF Claims, AwaitsDial, InGrace, NoNewGrace
<1>2. QED
  BY <1>1, Shrinks DEF Inv, DialInv, NoNewGrace

(* DialInv survives the second half of _close: a cancelled dial is not       *)
(* started again, and its key stays noted.                                   *)
LEMMA DialTearDown ==
  ASSUME Inv, NEW S \in SUBSET Conns, NEW d, NEW p, TearDown(S, d, p),
         NoNewGrace,
         \A c \in Conns :
           d[c] = deferred[c] \/ (deferred[c] = "rst" /\ d[c] = "done")
  PROVE  DialInv'
<1>1. \A c \in Conns : Claims(c)' => Claims(c)
  BY DEF Claims, AwaitsDial, InGrace, NoNewGrace, TearDown, Cancelled
<1>2. \A c \in Conns :
         key[c] = None => dial'[c] = "none" /\ deferred'[c] = "none"
  BY DEF Inv, DialInv, TearDown, Cancelled
<1>3. \A h \in Handlers :
         handler'[h].pc = "grace" => deferred'[handler[h].conn] = "none"
  <2>1. \A h \in Handlers : handler[h].pc = "grace" => handler[h].conn \in Conns
    BY DEF Inv, TypeInv, HoldsConn
  <2>2. QED
    BY <2>1 DEF Inv, DialInv, TearDown, Cancelled, NoNewGrace
<1>4. \A c \in Conns : deferred'[c] = "cancelled" => dial'[c] # "dialling"
  BY DEF Inv, DialInv, TearDown, Cancelled
<1>5. key' = key /\ connecting' = connecting
  BY DEF TearDown, idVars
<1>6. QED
  BY <1>1, <1>2, <1>3, <1>4, <1>5, Shrinks DEF Inv, DialInv, NoNewGrace

(* DialInv survives a close that sends nothing.                              *)
LEMMA DialClose ==
  ASSUME Inv, NEW S \in SUBSET Conns, CloseSilently(S), NoNewGrace
  PROVE  DialInv'
<1> DEFINE open == {c \in S : state[c] # "CLOSED"}
<1>1. TearDown(open, deferred, pump) /\ open \in SUBSET Conns
  BY DEF CloseSilently
<1> HIDE DEF open
<1>2. QED
  BY <1>1, DialTearDown

(* DialInv survives a discard from _connecting by the one that waited for    *)
(* the dial: no other claim has that key.                                    *)
LEMMA DialReleases ==
  ASSUME Inv, NEW c \in Conns, Claims(c), ~Claims(c)', NoNewGrace, key' = key,
         connecting' = connecting \ {key[c]},
         \A d \in Conns \ {c} :
           dial'[d] = dial[d] /\ deferred'[d] = deferred[d],
         deferred'[c] = "cancelled" => dial'[c] # "dialling"
  PROVE  DialInv'
<1>1. \A d \in Conns : Claims(d)' => d # c /\ Claims(d)
  BY DEF Claims, AwaitsDial, InGrace, NoNewGrace
<1>2. \A d \in Conns : Claims(d)' => key[d] \in connecting'
  BY <1>1 DEF Inv, DialInv
<1>3. key[c] \in Keys
  BY DEF Inv, DialInv, TypeInv, TypeOK
<1>4. \A d \in Conns : key[d] = None => d # c
  BY <1>3, TcpNatAssumption
<1>5. \A d \in Conns :
         key[d] = None => dial'[d] = "none" /\ deferred'[d] = "none"
  BY <1>4 DEF Inv, DialInv
<1>6. ~InGrace(c)'
  BY DEF Claims, AwaitsDial
<1>7. \A h \in Handlers :
         handler'[h].pc = "grace" => deferred'[handler[h].conn] = "none"
  <2>1. \A h \in Handlers : handler[h].pc = "grace" => handler[h].conn \in Conns
    BY DEF Inv, TypeInv, HoldsConn
  <2>2. \A h \in Handlers : handler'[h].pc = "grace" => handler[h].conn # c
    BY <1>6 DEF InGrace, NoNewGrace
  <2>3. QED
    BY <2>1, <2>2 DEF Inv, DialInv, NoNewGrace
<1>8. \A d \in Conns : deferred'[d] = "cancelled" => dial'[d] # "dialling"
  BY DEF Inv, DialInv
<1>9. QED
  BY <1>1, <1>2, <1>5, <1>7, <1>8, Shrinks DEF NoNewGrace

(* A handler in the grace holds a connection that claims a dial.             *)
LEMMA GraceConn ==
  ASSUME Inv, NEW h \in Handlers, handler[h].pc = "grace"
  PROVE  /\ handler[h].conn \in Conns
         /\ InGrace(handler[h].conn) /\ Claims(handler[h].conn)
BY DEF Inv, TypeInv, HoldsConn, InGrace, Claims, AwaitsDial

(* When a handler leaves the grace no other is in the grace of the same      *)
(* connection.                                                               *)
LEMMA OneHandlerMoves ==
  ASSUME Inv, NEW h \in Handlers, NEW x, x.pc # "grace",
         handler' = [handler EXCEPT ![h] = x]
  PROVE  /\ NoNewGrace
         /\ \A c :
              handler[h].pc = "grace" /\ handler[h].conn = c => ~InGrace(c)'
<1>1. NoNewGrace
  BY DEF NoNewGrace, Inv, TypeInv, TypeOK
<1>2. ASSUME handler[h].pc = "grace",
             NEW g \in Handlers, handler'[g].pc = "grace"
      PROVE  handler'[g].conn # handler[h].conn
  BY <1>1, <1>2 DEF NoNewGrace, Inv, DialInv, TypeInv, TypeOK
<1>3. QED
  BY <1>1, <1>2 DEF InGrace

(* _on_passive_syn keeps DialInv: the key it claims was not in _connecting.  *)
LEMMA PassiveSynDials ==
  ASSUME Inv, NEW h \in Handlers, NEW k \in Keys, NEW seg \in Segment,
         on_passive_syn(h, k, seg), handler[h].pc = "idle"
  PROVE  DialInv'
<1>1. PICK c \in Conns :
        /\ key[c] = None
        /\ key' = [key EXCEPT ![c] = k]
        /\ dial' = [dial EXCEPT ![c] = "dialling"]
        /\ handler' = [handler EXCEPT ![h] = At("grace", c, seg)]
  BY DEF on_passive_syn
<1>2. /\ connecting' = connecting \cup {k} /\ k \notin connecting
      /\ deferred' = deferred
  BY DEF on_passive_syn, MayDial, Noted, taskVars
<1>3. dial[c] = "none" /\ deferred[c] = "none" /\ k # None
  BY <1>1, TcpNatAssumption DEF Inv, DialInv
<1>4. /\ key'[c] = k /\ dial'[c] = "dialling"
      /\ handler'[h].pc = "grace" /\ handler'[h].conn = c
  BY <1>1, AtTyped DEF Inv, TypeInv, TypeOK, At
<1>5. \A d \in Conns \ {c} : key'[d] = key[d] /\ dial'[d] = dial[d]
  BY <1>1 DEF Inv, TypeInv, TypeOK
<1>6. \A g \in Handlers \ {h} : handler'[g] = handler[g]
  BY <1>1 DEF Inv, TypeInv, TypeOK
<1>7. \A g \in Handlers :
         handler[g].pc = "grace" => handler[g].conn \in Conns \ {c}
  BY <1>1, GraceConn DEF Inv, DialInv
<1>8. \A d \in Conns \ {c} : Claims(d)' => Claims(d)
  BY <1>2, <1>4, <1>5, <1>6 DEF Claims, AwaitsDial, InGrace
<1>9. \A d \in Conns : Claims(d)' => key'[d] \in connecting'
  BY <1>2, <1>4, <1>5, <1>8 DEF Inv, DialInv
<1>10. \A d, e \in Conns :
         Claims(d)' /\ Claims(e)' /\ key'[d] = key'[e] => d = e
  BY <1>2, <1>4, <1>5, <1>8 DEF Inv, DialInv
<1>11. \A g \in Handlers : handler'[g].pc = "grace" =>
         deferred'[handler'[g].conn] = "none" /\ key'[handler'[g].conn] # None
  BY <1>2, <1>3, <1>4, <1>5, <1>6, <1>7 DEF Inv, DialInv
<1>12. \A g, i \in Handlers :
         handler'[g].pc = "grace" /\ handler'[i].pc = "grace"
           /\ handler'[g].conn = handler'[i].conn => g = i
  BY <1>4, <1>6, <1>7 DEF Inv, DialInv
<1>13. \A d \in Conns :
         key'[d] = None => dial'[d] = "none" /\ deferred'[d] = "none"
  BY <1>2, <1>3, <1>4, <1>5 DEF Inv, DialInv
<1>14. \A d \in Conns : deferred'[d] = "cancelled" => dial'[d] # "dialling"
  BY <1>2, <1>3, <1>4, <1>5 DEF Inv, DialInv
<1>15. QED
  BY <1>9, <1>10, <1>11, <1>12, <1>13, <1>14 DEF DialInv

(* The handler stays where it is, or goes anywhere but into the grace.       *)
Moves(h) ==
  \/ handler' = handler
  \/ \E pc \in {"idle", "acked", "drain", "finack"} : \E d, s :
       handler' = [handler EXCEPT ![h] = At(pc, d, s)]

(* handle_chip_segment keeps DialInv.                                        *)
LEMMA HandleSegmentDials ==
  ASSUME Inv, NEW h \in Handlers, NEW k \in Keys, NEW seg \in Segment,
         handle_chip_segment(h, k, seg)
  PROVE  DialInv'
<1>1. conns[k] \in Conns \cup {None} /\ handler[h].pc = "idle"
  BY DEF Inv, TypeInv, TypeOK, ConnsOrNone, handle_chip_segment
<1>2. CASE ChipRst(k, seg)
  BY <1>1, <1>2, DialClose DEF ChipRst, NoNewGrace
<1>3. CASE DropSynRetransmit(k, seg) \/ RefuseSegment(k, seg)
  BY <1>3, DialFrame
  DEF DropSynRetransmit, RefuseSegment, NoNewGrace, otherVars, tableVars,
      idVars, dialVars, taskVars
<1>4. CASE on_passive_syn(h, k, seg)
  BY <1>1, <1>4, PassiveSynDials
<1>5. CASE conns[k] # None /\ ConnSegment(h, conns[k], seg)
  <2>1. UNCHANGED <<key, dial, deferred, connecting>>
    BY <1>5 DEF ConnSegment, otherVars, tableVars, idVars, dialVars, taskVars
  <2>2. NoNewGrace
    <3>1. CASE handler' = handler
      BY <3>1 DEF NoNewGrace
    <3>2. ASSUME NEW x, x.pc # "grace", handler' = [handler EXCEPT ![h] = x]
          PROVE  NoNewGrace
      BY <3>2, OneHandlerMoves
    <3>3. Moves(h)
      <4>1. OnPayload(h, conns[k], seg) => Moves(h)
        BY DEF OnPayload, AfterPayload, Idle, Moves
      <4>2. Ignore => Moves(h)
        BY DEF Ignore, Moves
      <4>3. on_handshake_complete(h, conns[k], seg) => Moves(h)
        BY <4>1, <4>2 DEF on_handshake_complete, Moves
      <4>4. on_data(h, conns[k], seg) => Moves(h)
        BY <4>1, <4>2 DEF on_data, Moves
      <4>5. on_fin_wait(h, conns[k], seg) => Moves(h)
        BY DEF on_fin_wait, Moves
      <4>6. QED
        BY <1>5, <4>2, <4>3, <4>4, <4>5 DEF ConnSegment
    <3>4. QED
      BY <3>1, <3>2, <3>3 DEF Moves, At
  <2>3. QED
    BY <2>1, <2>2, DialFrame
<1>6. CASE conns[k] # None /\ LastAck(conns[k], seg)
  BY <1>1, <1>6, DialClose DEF LastAck, NoNewGrace
<1>7. QED
  BY <1>2, <1>3, <1>4, <1>5, <1>6 DEF handle_chip_segment

(* Every later step of a handler keeps DialInv.                              *)
LEMMA HandlerStepDials ==
  ASSUME Inv, NEW h \in Handlers, HandlerStep(h)
  PROVE  DialInv'
<1> PICK c : c = handler[h].conn
  OBVIOUS
<1>1. CASE GraceOpened(h)
  <2>1. handler[h].pc = "grace" /\ c \in Conns /\ Claims(c)
    BY <1>1, GraceConn DEF GraceOpened, Resumes
  <2>2. NoNewGrace /\ ~InGrace(c)'
    BY <1>1, <2>1, OneHandlerMoves DEF GraceOpened, AnswerSyn, At
  <2>3. /\ key' = key /\ deferred' = deferred
        /\ connecting' = connecting \ {key[c]}
        /\ dial' = [dial EXCEPT ![c] = "taken"] /\ deferred[c] = "none"
    BY <1>1, <2>1 DEF GraceOpened, AnswerSyn, idVars, Inv, DialInv
  <2>4. ~Claims(c)' /\ \A d \in Conns \ {c} : dial'[d] = dial[d]
    BY <2>1, <2>2, <2>3 DEF Claims, AwaitsDial, Inv, TypeInv, TypeOK
  <2>5. QED
    BY <2>1, <2>2, <2>3, <2>4, DialReleases
<1>2. CASE GraceRefused(h)
  <2>1. /\ handler[h].pc = "grace" /\ c \in Conns
        /\ Claims(c) /\ dial[c] = "failed"
    BY <1>2, GraceConn DEF GraceRefused, Resumes
  <2>2. NoNewGrace /\ ~InGrace(c)'
    BY <1>2, <2>1, OneHandlerMoves DEF GraceRefused, Idle, At
  <2>3. /\ key' = key /\ deferred' = deferred
        /\ connecting' = connecting \ {key[c]}
        /\ dial' = dial /\ deferred[c] = "none"
    BY <1>2, <2>1 DEF GraceRefused, idVars, dialVars, taskVars, Inv, DialInv
  <2>4. ~Claims(c)'
    BY <2>1, <2>2, <2>3 DEF Claims, AwaitsDial
  <2>5. QED
    BY <2>1, <2>2, <2>3, <2>4, DialReleases
<1>3. CASE GraceOver(h)
  <2>1. /\ handler[h].pc = "grace" /\ c \in Conns
        /\ Claims(c) /\ dial[c] = "dialling"
    BY <1>3, GraceConn DEF GraceOver, Resumes
  <2>2. NoNewGrace /\ ~InGrace(c)'
    BY <1>3, <2>1, OneHandlerMoves DEF GraceOver, AnswerSyn, At
  <2>3. /\ key' = key /\ connecting' = connecting /\ dial' = dial
        /\ deferred' = [deferred EXCEPT ![c] = "created"]
    BY <1>3 DEF GraceOver, AnswerSyn, idVars
  <2>4. /\ deferred'[c] = "created"
        /\ \A d \in Conns \ {c} : deferred'[d] = deferred[d]
    BY <2>1, <2>3 DEF Inv, TypeInv, TypeOK
  <2>5. \A d \in Conns : Claims(d)' => Claims(d) /\ key[d] \in connecting'
    BY <2>1, <2>2, <2>3, <2>4
    DEF Claims, AwaitsDial, InGrace, NoNewGrace, Inv, DialInv
  <2>6. \A g \in Handlers :
          handler'[g].pc = "grace" => deferred'[handler[g].conn] = "none"
    BY <2>2, <2>4, GraceConn DEF NoNewGrace, InGrace, Inv, DialInv
  <2>7. \A d \in Conns :
          key[d] = None => dial'[d] = "none" /\ deferred'[d] = "none"
    BY <2>1, <2>3, <2>4 DEF Inv, DialInv
  <2>8. \A d \in Conns : deferred'[d] = "cancelled" => dial'[d] # "dialling"
    BY <2>3, <2>4 DEF Inv, DialInv
  <2>9. QED
    BY <2>2, <2>3, <2>5, <2>6, <2>7, <2>8, Shrinks DEF NoNewGrace
<1>4. CASE FinAcked(h) \/ shutdown(h)
  <2>1. NoNewGrace
    BY <1>4, OneHandlerMoves DEF FinAcked, shutdown, Idle, At
  <2>2. CASE FinAcked(h)
    <3>1. {c} \in SUBSET Conns
      BY <2>2, HeldConn DEF FinAcked, Inv
    <3>2. QED
      BY <2>1, <2>2, <3>1, DialClose DEF FinAcked
  <2>3. CASE shutdown(h)
    BY <2>1, <2>3, DialClose DEF shutdown
  <2>4. QED
    BY <1>4, <2>2, <2>3
<1>5. CASE HandlerReset(h)
  <2>1. {c} \in SUBSET Conns
    BY <1>5, HeldConn DEF HandlerReset, Inv
  <2>2. NoNewGrace
    BY <1>5, OneHandlerMoves DEF HandlerReset, Idle, At
  <2>3. QED
    BY <1>5, <2>1, <2>2, DialTearDown DEF HandlerReset
<1>6. CASE SynAnswered(h) \/ Drained(h) \/ DrainFailed(h) \/ DataAcked(h)
  <2>1. UNCHANGED <<key, dial, deferred, connecting>>
    BY <1>6
    DEF SynAnswered, Drained, DrainFailed, DataAcked, otherVars, tableVars,
        idVars, dialVars, taskVars
  <2>2. NoNewGrace
    BY <1>6, OneHandlerMoves
    DEF SynAnswered, Drained, DrainFailed, DataAcked, AfterPayload, Idle, At
  <2>3. QED
    BY <2>1, <2>2, DialFrame
<1>7. QED
  BY <1>1, <1>2, <1>3, <1>4, <1>5, <1>6 DEF HandlerStep

(* A step of _connect_with_retries keeps DialInv.                            *)
LEMMA DialStepDials ==
  ASSUME Inv, NEW c \in Conns, DialStep(c)
  PROVE  DialInv'
<1>1. /\ dial[c] = "dialling" /\ dial'[c] \in {"dialling", "opened", "failed"}
      /\ \A d \in Conns \ {c} : dial'[d] = dial[d]
      /\ UNCHANGED <<key, deferred, connecting, handler>>
  BY
  DEF DialStep, HostAnswers, HostRefuses, AttemptTimesOut, Dials, tableVars,
      idVars, taskVars, Inv, TypeInv, TypeOK
<1>2. \A d \in Conns : Claims(d)' => Claims(d)
  BY <1>1 DEF Claims, AwaitsDial, InGrace
<1>3. QED
  BY <1>1, <1>2, Shrinks DEF Inv, DialInv

(* Every step of _finish_deferred_connect keeps DialInv.                     *)
LEMMA DeferredStepDials ==
  ASSUME Inv, NEW c \in Conns, DeferredStep(c)
  PROVE  DialInv'
<1>1. ASSUME NEW pc, deferred' = [deferred EXCEPT ![c] = pc]
      PROVE  /\ deferred'[c] = pc
             /\ \A d \in Conns \ {c} : deferred'[d] = deferred[d]
  BY <1>1 DEF Inv, TypeInv, TypeOK
<1>2. ASSUME deferred[c] # "none", handler' = handler
      PROVE  ~InGrace(c) /\ ~InGrace(c)' /\ NoNewGrace
  BY <1>2 DEF InGrace, NoNewGrace, Inv, DialInv
<1>3. CASE DeferredStarts(c)
  <2>1. /\ deferred'[c] = "await" /\ deferred[c] = "created"
        /\ \A d \in Conns \ {c} : deferred'[d] = deferred[d]
        /\ UNCHANGED <<key, dial, connecting, handler>>
    BY <1>1, <1>3
    DEF DeferredStarts, DeferredAt, DeferredGoesTo, tableVars, idVars, dialVars
  <2>2. \A d \in Conns : Claims(d)' => Claims(d)
    BY <2>1 DEF Claims, AwaitsDial, InGrace
  <2>3. \A d \in Conns :
          key[d] = None => dial'[d] = "none" /\ deferred'[d] = "none"
    BY <2>1 DEF Inv, DialInv
  <2>4. \A h \in Handlers :
          handler'[h].pc = "grace" => deferred'[handler[h].conn] = "none"
    BY <2>1, GraceConn DEF Inv, DialInv
  <2>5. QED
    BY <2>1, <2>2, <2>3, <2>4, Shrinks DEF Inv, DialInv
<1>4. CASE DeferredCancelled(c)
  <2>1. /\ deferred'[c] = "done" /\ deferred[c] = "cancelled"
        /\ handler' = handler
        /\ \A d \in Conns \ {c} : deferred'[d] = deferred[d]
        /\ connecting' = connecting \ {key[c]} /\ UNCHANGED <<key, dial>>
    BY <1>1, <1>4
    DEF DeferredCancelled, DeferredAt, DeferredGoesTo, idVars, dialVars
  <2>2. Claims(c) /\ ~Claims(c)'
    BY <1>2, <2>1 DEF Claims, AwaitsDial, Inv, DialInv
  <2>3. QED
    BY <1>2, <2>1, <2>2, DialReleases
<1>5. CASE DeferredFails(c) \/ DeferredAttaches(c)
  <2>1. /\ deferred[c] \in {"created", "await"} /\ handler' = handler
        /\ deferred'[c] \in {"rst", "done", "flush"}
        /\ \A d \in Conns \ {c} : deferred'[d] = deferred[d]
        /\ connecting' = connecting \ {key[c]} /\ key' = key
    BY <1>1, <1>5
    DEF DeferredFails, DeferredAttaches, DialEnded, FinishAttach, DeferredAt,
        DeferredGoesTo, idVars
  <2>2. dial'[c] # "dialling" /\ \A d \in Conns \ {c} : dial'[d] = dial[d]
    BY <1>5 DEF DeferredFails, DeferredAttaches, DialEnded, Inv, TypeInv, TypeOK
  <2>3. Claims(c) /\ ~Claims(c)'
    BY <1>2, <2>1, <2>2 DEF Claims, AwaitsDial
  <2>4. QED
    BY <1>2, <2>1, <2>2, <2>3, DialReleases
<1>6. CASE Flushed(c) \/ FlushFailed(c)
  <2>1. /\ deferred[c] = "flush" /\ deferred'[c] \in {"rst", "done"}
        /\ \A d \in Conns \ {c} : deferred'[d] = deferred[d]
        /\ UNCHANGED <<key, dial, connecting, handler>>
    BY <1>1, <1>6
    DEF Flushed, FlushFailed, FinishAttach, DeferredAt, DeferredGoesTo,
        tableVars, idVars, dialVars
  <2>2. \A d \in Conns : Claims(d)' => Claims(d)
    BY <2>1 DEF Claims, AwaitsDial, InGrace
  <2>3. \A d \in Conns :
          key[d] = None => dial'[d] = "none" /\ deferred'[d] = "none"
    BY <2>1 DEF Inv, DialInv
  <2>4. \A h \in Handlers :
          handler'[h].pc = "grace" => deferred'[handler[h].conn] = "none"
    BY <2>1, GraceConn DEF Inv, DialInv
  <2>5. QED
    BY <2>1, <2>2, <2>3, <2>4, Shrinks DEF Inv, DialInv
<1>7. CASE DeferredReset(c)
  <2>1. /\ TearDown({c}, [deferred EXCEPT ![c] = "done"], pump)
        /\ deferred[c] = "rst" /\ NoNewGrace
    BY <1>7 DEF DeferredReset, DeferredAt, NoNewGrace
  <2>2. \A d \in Conns : [deferred EXCEPT ![c] = "done"][d] =
          IF d = c THEN "done" ELSE deferred[d]
    BY DEF Inv, TypeInv, TypeOK
  <2>3. {c} \in SUBSET Conns
    OBVIOUS
  <2>4. QED
    BY <2>1, <2>2, <2>3, DialTearDown
<1>8. QED
  BY <1>3, <1>4, <1>5, <1>6, <1>7 DEF DeferredStep

(* Every step of _pump_host_to_chip keeps DialInv.                           *)
LEMMA PumpStepDials ==
  ASSUME Inv, NEW c \in Conns, NEW o \in Starters, PumpStep(c, o)
  PROVE  DialInv'
<1>1. CASE PumpReset(c, o)
  BY <1>1, DialTearDown DEF PumpReset, NoNewGrace
<1>2. CASE ~PumpReset(c, o)
  <2>1. \E pc \in PumpPcs : PumpGoesTo(c, o, pc)
    BY <1>2
    DEF PumpStep, PumpStarts, PumpSent, PumpEof, PumpFinSent, PumpRaises,
        PumpReads, NextRound, PumpPcs
  <2>2. QED
    BY <2>1, DialFrame DEF PumpGoesTo, tableVars, idVars, dialVars, NoNewGrace
<1>3. QED
  BY <1>1, <1>2

(* A new bridge satisfies DialInv.                                           *)
LEMMA InitDials == Init => DialInv
BY DEF Init, DialInv, Claims, AwaitsDial, InGrace, Idle, At

(* Every step of the NAT keeps DialInv.                                      *)
LEMMA NextDials == Inv /\ [Next]_vars => DialInv'
<1> SUFFICES ASSUME Inv, [Next]_vars PROVE DialInv'
  OBVIOUS
<1>1. ASSUME NEW h \in Handlers, NEW k \in Keys, NEW seg \in Segments,
             handle_chip_segment(h, k, seg)
      PROVE  DialInv'
  BY <1>1, HandleSegmentDials, TcpNatAssumption
<1>2. ASSUME NEW h \in Handlers, stop(h) PROVE DialInv'
  <2>1. NoNewGrace
    BY <1>2, OneHandlerMoves DEF stop, At
  <2>2. QED
    BY <1>2, <2>1, DialFrame DEF stop, tableVars, idVars, dialVars, taskVars
<1>3. ASSUME NEW h \in Handlers, HandlerStep(h) PROVE DialInv'
  BY <1>3, HandlerStepDials
<1>4. ASSUME NEW c \in Conns, DialStep(c) \/ DeferredStep(c) PROVE DialInv'
  BY <1>4, DialStepDials, DeferredStepDials
<1>5. ASSUME NEW c \in Conns, NEW o \in Starters, PumpStep(c, o) PROVE DialInv'
  BY <1>5, PumpStepDials
<1>6. CASE UNCHANGED vars
  BY <1>6, DialFrame
  DEF vars, otherVars, tableVars, idVars, dialVars, taskVars, NoNewGrace
<1>7. QED
  BY <1>1, <1>2, <1>3, <1>4, <1>5, <1>6 DEF Next, TaskStep

(* The types and DialInv together are an invariant.                          *)
LEMMA Invariance == Spec => []Inv
<1>1. Init => Inv
  BY InitTyped, InitDials DEF Inv
<1>2. Inv /\ [Next]_vars => Inv'
  BY NextTyped, NextDials DEF Inv
<1>3. QED
  BY <1>1, <1>2, PTL DEF Spec

(* The key of a connection whose socket is being opened is in _connecting    *)
(* until the dial is over and its waiter has run (tcp_nat.py:157-160,        *)
(* 265-281, 294-304): for any number of keys, connections and handlers.      *)
THEOREM DialsAreGuarded == Spec => []DiallingIsConnecting
<1>1. Inv => DiallingIsConnecting
  BY DEF Inv, DialInv, Claims, DiallingIsConnecting
<1>2. QED
  BY <1>1, Invariance, PTL

(* No key has two sockets being opened at a time (tcp_nat.py:178-183),       *)
(* whatever SYNs come and however often _connecting is discarded from.       *)
THEOREM OneDial == Spec => []OneDialPerKey
<1>1. Inv => OneDialPerKey
  BY DEF Inv, DialInv, Claims, OneDialPerKey
<1>2. QED
  BY <1>1, Invariance, PTL
-----------------------------------------------------------------------------
(* What the NAT owes the bytes of the chip, for all constants and whatever   *)
(* the chip sends: WaitInv for any number of websocket handlers, StreamInv   *)
(* for the one handler a gateway with a single socket per client has.        *)

(* The invariant of a dial that outlasts the grace.                          *)

(* The task of the deferred connect still awaits the dial.                   *)
Waits(c) == deferred[c] \in {"created", "await"}

(* An object that was not made yet, or not registered yet.                   *)
Unused(c) ==
    /\ state[c] = "CLOSED" /\ host[c] = "none" /\ deferred[c] = "none"
    /\ written[c] = <<>> /\ pending_payload[c] = <<>> /\ ~pending_eof[c]
    /\ \A o \in Starters : pump[c][o] = "none"
    /\ ~Registered(c)

(* While it waits nobody can close the connection behind its back: a pump or *)
(* a drain, which might, needs the socket it waits for.                      *)
WaitsWell(c) ==
    Waits(c) =>
      /\ state[c] # "CLOSED" /\ host[c] = "none"
      /\ \A o \in Starters : pump[c][o] = "none"
      /\ \A h \in Handlers :
           handler[h].conn = c => handler[h].pc \notin {"drain", "rst"}

(* A handler in its grace has the object to itself.                          *)
GraceAlone(c) ==
    \A h \in Handlers : handler[h].pc = "grace" /\ handler[h].conn = c =>
      /\ Unused(c) /\ chip_seq[c] = seq_add(chip_isn[c], 1)
      /\ \A g \in Handlers : handler[g].conn = c => g = h

WaitOK(c) ==
    /\ WaitsWell(c)
    /\ key[c] = None => Unused(c) /\ \A h \in Handlers : handler[h].conn # c
    /\ \A k \in Keys : conns[k] = c => key[c] = k
    /\ GraceAlone(c)

WaitInv == TypeInv /\ \A c \in Conns : WaitOK(c)

-----------------------------------------------------------------------------
(* Frames: what a step leaves alone.                                         *)

SameFields(d) ==
    /\ state'[d] = state[d] /\ host'[d] = host[d] /\ written'[d] = written[d]
    /\ pending_payload'[d] = pending_payload[d]
    /\ pending_eof'[d] = pending_eof[d]
    /\ deferred'[d] = deferred[d] /\ pump'[d] = pump[d] /\ key'[d] = key[d]
    /\ chip_isn'[d] = chip_isn[d] /\ chip_seq'[d] = chip_seq[d]
    /\ \A k \in Keys : conns'[k] = d => conns[k] = d

(* No handler takes d up.                                                    *)
NoNewcomer(d) ==
    \A h \in Handlers : handler'[h].conn = d => handler'[h] = handler[h]

(* Nor does one that holds d move.                                           *)
NobodyMoves(d) ==
    \A h \in Handlers :
      \/ handler'[h] = handler[h]
      \/ /\ handler'[h].conn # d
         /\ handler[h].conn # d \/ handler[h].pc \in {"idle", "stopping"}

Apart(d) == SameFields(d) /\ NobodyMoves(d)

(* A connection whose fields stay, and which no handler takes up, keeps its  *)
(* part of the invariant.                                                    *)
LEMMA SameKeeps ==
  ASSUME NEW d \in Conns, WaitOK(d), SameFields(d), NoNewcomer(d)
  PROVE  WaitOK(d)'
<1>1. Unused(d) => Unused(d)'
  BY DEF Unused, SameFields, Registered
<1>2. WaitsWell(d)'
  BY DEF WaitOK, WaitsWell, Waits, SameFields, NoNewcomer
<1>3. GraceAlone(d)'
  <2> SUFFICES ASSUME NEW h \in Handlers,
                      handler'[h].pc = "grace", handler'[h].conn = d
               PROVE  /\ Unused(d)' /\ chip_seq'[d] = seq_add(chip_isn'[d], 1)
                      /\ \A g \in Handlers : handler'[g].conn = d => g = h
    BY DEF GraceAlone
  <2>1. handler[h].pc = "grace" /\ handler[h].conn = d
    BY DEF NoNewcomer
  <2>2. /\ Unused(d) /\ chip_seq[d] = seq_add(chip_isn[d], 1)
        /\ \A g \in Handlers : handler[g].conn = d => g = h
    BY <2>1 DEF WaitOK, GraceAlone
  <2>3. \A g \in Handlers : handler'[g].conn = d => g = h
    BY <2>2 DEF NoNewcomer
  <2>4. QED
    BY <1>1, <2>2, <2>3 DEF SameFields
<1>4. key'[d] = None => Unused(d)' /\ \A h \in Handlers : handler'[h].conn # d
  BY <1>1 DEF WaitOK, SameFields, NoNewcomer
<1>5. \A k \in Keys : conns'[k] = d => key'[d] = k
  BY DEF WaitOK, SameFields
<1>6. QED
  BY <1>2, <1>3, <1>4, <1>5 DEF WaitOK

(* In particular one that the step leaves alone.                             *)
LEMMA ApartKeeps ==
  ASSUME NEW d \in Conns, WaitOK(d), Apart(d)
  PROVE  WaitOK(d)'
BY SameKeeps DEF Apart, NobodyMoves, NoNewcomer

(* The connection a step acts on: it has been made, no handler is in its     *)
(* grace, and it is registered for its own key if for any.                   *)
ActsOn(c) ==
    /\ key[c] # None /\ key'[c] = key[c]
    /\ \A k \in Keys : conns'[k] = c => conns[k] = c \/ k = key[c]
    /\ \A h \in Handlers : handler'[h].conn = c => handler'[h].pc # "grace"

(* A step that acts on c alone leaves it to show what waiting asks of c.     *)
LEMMA ActedKeeps ==
  ASSUME NEW c \in Conns, WaitOK(c), ActsOn(c), WaitsWell(c)'
  PROVE  WaitOK(c)'
<1>1. GraceAlone(c)'
  BY DEF ActsOn, GraceAlone
<1>2. QED
  BY <1>1 DEF WaitOK, ActsOn

(* The invariant survives a step that acts on one connection alone.          *)
LEMMA OneKeeps ==
  ASSUME WaitInv, NEW c \in Conns, ActsOn(c), WaitsWell(c)',
         \A d \in Conns \ {c} : Apart(d)
  PROVE  \A d \in Conns : WaitOK(d)'
BY ActedKeeps, ApartKeeps DEF WaitInv

-----------------------------------------------------------------------------
(* What the invariant says of the connections that actions are about.        *)

(* A registered connection was made, and no handler is in its grace.         *)
LEMMA RegisteredMade ==
  ASSUME WaitInv, NEW c \in Conns, ~Unused(c)
  PROVE  /\ key[c] \in Keys /\ key[c] # None
         /\ \A h \in Handlers : handler[h].conn = c => handler[h].pc # "grace"
BY DEF WaitInv, WaitOK, GraceAlone, TypeInv, TypeOK

(* So does a connection that a handler holds outside its grace.              *)
LEMMA HeldMade ==
  ASSUME WaitInv, NEW h \in Handlers, NEW c \in Conns, handler[h].conn = c
  PROVE  /\ key[c] \in Keys /\ key[c] # None
         /\ handler[h].pc # "grace" =>
              \A g \in Handlers : handler[g].conn = c => handler[g].pc # "grace"
BY DEF WaitInv, WaitOK, GraceAlone, TypeInv, TypeOK

(* Every function of the connections changes at most at c.                   *)
LEMMA HandlerMoves ==
  ASSUME TypeInv, NEW h \in Handlers, NEW c, NEW x,
         handler[h].conn = c \/ handler[h].pc \in {"idle", "stopping"},
         x.conn = c \/ x.conn = None,
         handler' = [handler EXCEPT ![h] = x]
  PROVE  /\ handler'[h] = x
         /\ \A g \in Handlers \ {h} : handler'[g] = handler[g]
         /\ \A d \in Conns \ {c} : NobodyMoves(d)
<1>1. handler'[h] = x /\ \A g \in Handlers \ {h} : handler'[g] = handler[g]
  BY DEF TypeInv, TypeOK
<1>2. \A d \in Conns : d # None
  BY TcpNatAssumption
<1>3. QED
  BY <1>1, <1>2 DEF NobodyMoves

(* A step that moves no handler moves none that holds d.                     *)
LEMMA NoneMoves == handler' = handler => \A d \in Conns : NobodyMoves(d)
BY DEF NobodyMoves

-----------------------------------------------------------------------------
(* Each action keeps the invariant.                                          *)

(* The second half of _close keeps it: nothing waits in a connection torn    *)
(* down, and the others are left alone.                                      *)
LEMMA TearDownWaits ==
  ASSUME WaitInv, NEW S \in SUBSET Conns, NEW d, NEW p, TearDown(S, d, p),
         \A c \in S : /\ key[c] # None
                      /\ \A h \in Handlers :
                           handler[h].conn = c => handler[h].pc # "grace",
         \A c \in Conns \ S :
           d[c] = deferred[c] /\ p[c] = pump[c] /\ state'[c] = state[c],
         \A c \in Conns : NoNewcomer(c)
  PROVE  \A c \in Conns : WaitOK(c)'
<1>1. ASSUME NEW c \in S PROVE WaitOK(c)'
  <2>1. ~Waits(c)'
    BY DEF TearDown, Cancelled, Waits
  <2>2. ActsOn(c)
    <3>1. \A k \in Keys : conns'[k] = c => conns[k] = c
      BY TcpNatAssumption DEF TearDown
    <3>2. key' = key
      BY DEF TearDown, idVars
    <3>3. QED
      BY <3>1, <3>2 DEF ActsOn, NoNewcomer
  <2>3. QED
    BY <2>1, <2>2, ActedKeeps DEF WaitInv, WaitsWell
<1>2. ASSUME NEW c \in Conns \ S PROVE WaitOK(c)'
  <2>1. pump'[c] = pump[c]
    BY DEF TearDown, WaitInv, TypeInv, TypeOK
  <2>2. SameFields(c)
    BY <2>1, TcpNatAssumption
    DEF TearDown, idVars, seqVars, bufVars, SameFields
  <2>3. QED
    BY <2>2, SameKeeps DEF WaitInv
<1>3. QED
  BY <1>1, <1>2

(* So does a close that sends nothing.                                       *)
LEMMA CloseWaits ==
  ASSUME WaitInv, NEW S \in SUBSET Conns, CloseSilently(S),
         \A c \in Conns : NoNewcomer(c)
  PROVE  \A c \in Conns : WaitOK(c)'
<1> DEFINE open == {c \in S : state[c] # "CLOSED"}
<1>1. TearDown(open, deferred, pump) /\ open \in SUBSET Conns
  BY DEF CloseSilently
<1>2. \A c \in Conns \ open : state'[c] = state[c]
  BY DEF CloseSilently
<1>3. \A c \in open : /\ key[c] # None
                      /\ \A h \in Handlers :
                           handler[h].conn = c => handler[h].pc # "grace"
  BY RegisteredMade DEF Unused
<1> HIDE DEF open
<1>4. QED
  BY <1>1, <1>2, <1>3, TearDownWaits

(* _on_passive_syn keeps it: the object was unused.                          *)
LEMMA PassiveSynWaits ==
  ASSUME WaitInv, NEW h \in Handlers, NEW k \in Keys, NEW seg \in Segment,
         on_passive_syn(h, k, seg), handler[h].pc = "idle"
  PROVE  \A d \in Conns : WaitOK(d)'
<1>1. PICK c \in Conns :
        /\ key[c] = None
        /\ key' = [key EXCEPT ![c] = k]
        /\ chip_isn' = [chip_isn EXCEPT ![c] = seg.seq]
        /\ chip_seq' = [chip_seq EXCEPT ![c] = seq_add(seg.seq, 1)]
        /\ handler' = [handler EXCEPT ![h] = At("grace", c, seg)]
  BY DEF on_passive_syn
<1>2. UNCHANGED <<conns, state, host, bufVars, taskVars>>
  BY DEF on_passive_syn
<1>3. At("grace", c, seg).conn = c /\ At("grace", c, seg).pc = "grace"
  BY DEF At
<1>4. /\ handler'[h] = At("grace", c, seg)
      /\ \A g \in Handlers \ {h} : handler'[g] = handler[g]
      /\ \A d \in Conns \ {c} : NobodyMoves(d)
  BY <1>1, <1>3, HandlerMoves DEF WaitInv
<1>5. \A d \in Conns \ {c} : Apart(d)
  BY <1>1, <1>2, <1>4
  DEF Apart, SameFields, bufVars, taskVars, WaitInv, TypeInv, TypeOK
<1>6. WaitOK(c)'
  <2>1. Unused(c) /\ \A g \in Handlers : handler[g].conn # c
    BY <1>1 DEF WaitInv, WaitOK
  <2>2. Unused(c)'
    BY <1>2, <2>1 DEF Unused, Registered, bufVars, taskVars
  <2>3. /\ key'[c] = k /\ k # None
        /\ chip_seq'[c] = seq_add(chip_isn'[c], 1)
    BY <1>1, TcpNatAssumption DEF WaitInv, TypeInv, TypeOK
  <2>4. GraceAlone(c)'
    BY <1>3, <1>4, <2>1, <2>2, <2>3 DEF GraceAlone
  <2>5. WaitsWell(c)'
    BY <2>2 DEF WaitsWell, Waits, Unused
  <2>6. \A i \in Keys : conns'[i] # c
    BY <2>2 DEF Unused, Registered
  <2>7. QED
    BY <2>3, <2>4, <2>5, <2>6 DEF WaitOK
<1>7. QED
  BY <1>5, <1>6, ApartKeeps DEF WaitInv

(* A handler stays where it is, or moves on with connection c or without one *)
(* to a place other than its grace.                                          *)
MovesOn(h, c) ==
  \/ handler' = handler
  \/ \E x : /\ x.pc # "grace" /\ x.conn \in {c, None}
            /\ handler' = [handler EXCEPT ![h] = x]

(* A handler that moves on with c disturbs no other connection, no grace.    *)
LEMMA MovesOnAlone ==
  ASSUME WaitInv, NEW h \in Handlers, NEW c \in Conns, MovesOn(h, c),
         handler[h].conn = c \/ handler[h].pc \in {"idle", "stopping"},
         \A g \in Handlers : handler[g].conn = c => handler[g].pc # "grace"
  PROVE  /\ \A d \in Conns \ {c} : NobodyMoves(d)
         /\ \A g \in Handlers : handler'[g].conn = c => handler'[g].pc # "grace"
<1>2. CASE handler' = handler
  BY <1>2, NoneMoves
<1>3. ASSUME NEW x, x.pc # "grace", x.conn \in {c, None},
             handler' = [handler EXCEPT ![h] = x]
      PROVE  /\ \A d \in Conns \ {c} : NobodyMoves(d)
             /\ \A g \in Handlers :
                  handler'[g].conn = c => handler'[g].pc # "grace"
  <2>1. /\ handler'[h] = x
        /\ \A g \in Handlers \ {h} : handler'[g] = handler[g]
        /\ \A d \in Conns \ {c} : NobodyMoves(d)
    BY <1>3, HandlerMoves DEF WaitInv
  <2>2. QED
    BY <1>3, <2>1
<1>4. QED
  BY <1>2, <1>3 DEF MovesOn

(* What a segment of connection c may change: c's fields alone.              *)
FieldsOf(c) ==
  /\ \A d \in Conns \ {c} :
       /\ state'[d] = state[d] /\ host'[d] = host[d] /\ written'[d] = written[d]
       /\ pending_payload'[d] = pending_payload[d]
       /\ pending_eof'[d] = pending_eof[d] /\ chip_seq'[d] = chip_seq[d]
  /\ state[c] # "CLOSED" => state'[c] # "CLOSED"
  /\ host[c] = "none" => host'[c] = "none"

(* The FIN of the chip changes fields of its own connection only.            *)
LEMMA AcceptFinFields ==
  ASSUME TypeInv, NEW c \in Conns, AcceptFin(c)
  PROVE  FieldsOf(c)
BY DEF AcceptFin, FieldsOf, StateAfterFin, TypeInv, TypeOK

(* So do bytes, and no handler gets to a drain without a host socket.        *)
LEMMA OnPayloadFields ==
  ASSUME TypeInv, NEW h \in Handlers, NEW c \in Conns, NEW seg,
         OnPayload(h, c, seg),
         state' = state \/ state' = [state EXCEPT ![c] = "ESTABLISHED"]
  PROVE  /\ FieldsOf(c) /\ MovesOn(h, c)
         /\ host[c] = "none" => handler' = handler
                                  \/ handler'[h].pc \in {"acked", "idle"}
<1>1. FieldsOf(c)
  BY DEF OnPayload, FieldsOf, TypeInv, TypeOK, seqVars, bufVars
<1>2. MovesOn(h, c)
  BY DEF OnPayload, MovesOn, AfterPayload, Idle, At
<1>3. ASSUME host[c] = "none"
      PROVE  handler' = handler \/ handler'[h].pc \in {"acked", "idle"}
  BY <1>3 DEF OnPayload, AfterPayload, Idle, At, TypeInv, TypeOK
<1>4. QED
  BY <1>1, <1>2, <1>3

(* A segment of a registered connection acts on it alone; without a socket   *)
(* nothing is drained, and no segment but a RST and the last ACK closes.     *)
LEMMA ConnSegmentAlone ==
  ASSUME WaitInv, NEW h \in Handlers, handler[h].pc = "idle",
         NEW c \in Conns, Registered(c), NEW seg \in Segment,
         ConnSegment(h, c, seg)
  PROVE  /\ FieldsOf(c) /\ MovesOn(h, c)
         /\ host[c] = "none" =>
              \/ handler' = handler
              \/ handler'[h].pc \in {"acked", "idle", "finack"}
         /\ ActsOn(c) /\ \A d \in Conns \ {c} : Apart(d)
<1> DEFINE Good == /\ FieldsOf(c) /\ MovesOn(h, c)
                   /\ host[c] = "none" =>
                        \/ handler' = handler
                        \/ handler'[h].pc \in {"acked", "idle", "finack"}
<1>1. Good
  <2>1. on_handshake_complete(h, c, seg) => Good
    <3>1. CASE /\ "ACK" \in seg.flags /\ seg.ack = our_seq[c]
               /\ on_handshake_complete(h, c, seg) /\ seg.data # <<>>
      BY <3>1, OnPayloadFields DEF on_handshake_complete, WaitInv
    <3>2. CASE /\ "ACK" \in seg.flags /\ seg.ack = our_seq[c]
               /\ on_handshake_complete(h, c, seg) /\ seg.data = <<>>
      BY <3>2 DEF on_handshake_complete, WaitInv, FieldsOf, MovesOn, TypeInv,
         TypeOK, seqVars, bufVars
    <3>3. Ignore => Good
      BY DEF Ignore, fieldVars, FieldsOf, MovesOn, seqVars, bufVars
    <3>4. QED
      BY <3>1, <3>2, <3>3 DEF on_handshake_complete
  <2>2. on_data(h, c, seg) => Good
    <3>1. AcceptFin(c) /\ UNCHANGED handler => Good
      BY AcceptFinFields DEF WaitInv, MovesOn
    <3>2. Ignore => Good
      BY DEF Ignore, fieldVars, FieldsOf, MovesOn, seqVars, bufVars
    <3>3. OnPayload(h, c, seg) /\ UNCHANGED state => Good
      BY OnPayloadFields DEF WaitInv
    <3> HIDE DEF Good
    <3>4. QED
      BY <3>1, <3>2, <3>3 DEF on_data
  <2>3. on_fin_wait(h, c, seg) => Good
    <3> SUFFICES ASSUME on_fin_wait(h, c, seg) PROVE Good
      OBVIOUS
    <3>1. FieldsOf(c)
      BY DEF on_fin_wait, FieldsOf, WaitInv, TypeInv, TypeOK, bufVars
    <3>2. MovesOn(h, c)
      BY DEF on_fin_wait, MovesOn, At
    <3>3. handler' = handler \/ handler'[h].pc = "finack"
      BY DEF on_fin_wait, At, WaitInv, TypeInv, TypeOK
    <3>4. QED
      BY <3>1, <3>2, <3>3
  <2>4. Ignore => Good
    BY DEF Ignore, fieldVars, FieldsOf, MovesOn, seqVars, bufVars
  <2> HIDE DEF Good
  <2>5. QED
    BY <2>1, <2>2, <2>3, <2>4 DEF ConnSegment
<1>2. /\ \A d \in Conns \ {c} : NobodyMoves(d)
      /\ \A g \in Handlers : handler'[g].conn = c => handler'[g].pc # "grace"
  <2>1. ~Unused(c)
    BY DEF Unused
  <2>2. QED
    BY <1>1, <2>1, MovesOnAlone, RegisteredMade
<1>3. UNCHANGED otherVars
  BY DEF ConnSegment
<1>4. \A d \in Conns \ {c} : Apart(d)
  BY <1>1, <1>2, <1>3
  DEF Apart, SameFields, FieldsOf, otherVars, tableVars, idVars, taskVars
<1>5. ActsOn(c)
  BY <1>2, <1>3, RegisteredMade
  DEF ActsOn, otherVars, tableVars, idVars, Unused
<1>6. QED
  BY <1>1, <1>4, <1>5

(* So it keeps the invariant.                                                *)
LEMMA ConnSegmentWaits ==
  ASSUME WaitInv, NEW h \in Handlers, handler[h].pc = "idle",
         NEW c \in Conns, Registered(c), NEW seg \in Segment,
         ConnSegment(h, c, seg)
  PROVE  \A d \in Conns : WaitOK(d)'
<1>1. /\ FieldsOf(c) /\ MovesOn(h, c)
      /\ host[c] = "none" =>
           \/ handler' = handler
           \/ handler'[h].pc \in {"acked", "idle", "finack"}
      /\ ActsOn(c) /\ \A d \in Conns \ {c} : Apart(d)
  BY ConnSegmentAlone
<1>2. UNCHANGED otherVars
  BY DEF ConnSegment
<1>3. WaitsWell(c)'
  <2> SUFFICES ASSUME Waits(c)'
               PROVE  /\ state'[c] # "CLOSED" /\ host'[c] = "none"
                      /\ \A o \in Starters : pump'[c][o] = "none"
                      /\ \A g \in Handlers : handler'[g].conn = c =>
                           handler'[g].pc \notin {"drain", "rst"}
    BY DEF WaitsWell
  <2>1. /\ Waits(c) /\ pump' = pump
    BY <1>2 DEF otherVars, taskVars, Waits
  <2>2. /\ state[c] # "CLOSED" /\ host[c] = "none"
        /\ \A o \in Starters : pump[c][o] = "none"
        /\ \A g \in Handlers :
             handler[g].conn = c => handler[g].pc \notin {"drain", "rst"}
    BY <2>1 DEF WaitInv, WaitOK, WaitsWell
  <2>3. \A g \in Handlers \ {h} : handler'[g] = handler[g]
    BY <1>1 DEF MovesOn, WaitInv, TypeInv, TypeOK
  <2>4. QED
    BY <1>1, <2>1, <2>2, <2>3 DEF FieldsOf
<1>4. QED
  BY <1>1, <1>3, OneKeeps

(* A connection whose fields all stay.                                       *)
AllStay ==
  UNCHANGED <<state, host, bufVars, deferred, pump, key, chip_isn, chip_seq,
              conns>>

(* The invariant survives a step that leaves every connection as it was.     *)
LEMMA StayKeeps ==
  ASSUME WaitInv, AllStay, \A d \in Conns : NoNewcomer(d)
  PROVE  \A d \in Conns : WaitOK(d)'
BY SameKeeps DEF AllStay, SameFields, bufVars, WaitInv

(* A handler that becomes idle takes no connection up.                       *)
LEMMA IdleTakesNone ==
  ASSUME TypeInv, NEW h \in Handlers,
         NEW x, x.conn = None, handler' = [handler EXCEPT ![h] = x]
  PROVE  \A d \in Conns : NoNewcomer(d)
<1>1. /\ handler'[h] = x
      /\ \A g \in Handlers \ {h} : handler'[g] = handler[g]
  BY DEF TypeInv, TypeOK
<1>2. QED
  BY <1>1, TcpNatAssumption DEF NoNewcomer

(* Registering the connection of a grace acts on that connection alone.      *)
LEMMA AnswerSynAlone ==
  ASSUME WaitInv, NEW h \in Handlers, handler[h].pc = "grace",
         NEW c \in Conns, c = handler[h].conn, AnswerSyn(h, c),
         \/ deferred' = deferred /\ host' = [host EXCEPT ![c] = "open"]
         \/ deferred' = [deferred EXCEPT ![c] = "created"] /\ host' = host
  PROVE  /\ Unused(c) /\ \A g \in Handlers : handler[g].conn = c => g = h
         /\ handler'[h].conn = c /\ handler'[h].pc = "synack"
         /\ \A g \in Handlers \ {h} : handler'[g] = handler[g]
         /\ ActsOn(c) /\ \A d \in Conns \ {c} : Apart(d)
<1>1. /\ Unused(c) /\ \A g \in Handlers : handler[g].conn = c => g = h
  BY DEF WaitInv, WaitOK, GraceAlone
<1>2. key[c] # None /\ key[c] \in Keys
  BY HeldMade
<1>3. /\ state' = [state EXCEPT ![c] = "SYN_RCVD"]
      /\ conns' = [conns EXCEPT ![key[c]] = c]
      /\ handler' = [handler EXCEPT ![h] = At("synack", c, NoSegment)]
      /\ UNCHANGED <<idVars, seqVars, bufVars, pump>>
  BY DEF AnswerSyn
<1> DEFINE x == At("synack", c, NoSegment)
<1>4. x.conn = c /\ x.pc = "synack" /\ handler' = [handler EXCEPT ![h] = x]
  BY <1>3 DEF At
<1> HIDE DEF x
<1>5. /\ handler'[h] = x
      /\ \A g \in Handlers \ {h} : handler'[g] = handler[g]
      /\ \A d \in Conns \ {c} : NobodyMoves(d)
  BY <1>4, HandlerMoves DEF WaitInv
<1>6. \A k \in Keys : conns'[k] = IF k = key[c] THEN c ELSE conns[k]
  BY <1>3 DEF WaitInv, TypeInv, TypeOK
<1>7. \A d \in Conns \ {c} : state'[d] = state[d] /\ host'[d] = host[d]
                               /\ deferred'[d] = deferred[d]
  BY <1>3 DEF WaitInv, TypeInv, TypeOK
<1>8. \A d \in Conns \ {c} : Apart(d)
  BY <1>3, <1>5, <1>6, <1>7 DEF Apart, SameFields, idVars, seqVars, bufVars
<1>9. ActsOn(c)
  BY <1>1, <1>2, <1>3, <1>4, <1>5, <1>6 DEF ActsOn, idVars
<1>10. QED
  BY <1>1, <1>4, <1>5, <1>8, <1>9

(* With a socket, or with a task that waits for one, it keeps the invariant. *)
LEMMA AnswerSynWaits ==
  ASSUME WaitInv, NEW h \in Handlers, handler[h].pc = "grace",
         NEW c \in Conns, c = handler[h].conn, AnswerSyn(h, c),
         \/ deferred' = deferred /\ host' = [host EXCEPT ![c] = "open"]
         \/ deferred' = [deferred EXCEPT ![c] = "created"] /\ host' = host
  PROVE  \A d \in Conns : WaitOK(d)'
<1>1. /\ Unused(c) /\ \A g \in Handlers : handler[g].conn = c => g = h
      /\ handler'[h].conn = c /\ handler'[h].pc = "synack"
      /\ \A g \in Handlers \ {h} : handler'[g] = handler[g]
      /\ ActsOn(c) /\ \A d \in Conns \ {c} : Apart(d)
  BY AnswerSynAlone
<1>2. state'[c] # "CLOSED" /\ \A o \in Starters : pump'[c][o] = "none"
  BY <1>1 DEF AnswerSyn, Unused, WaitInv, TypeInv, TypeOK
<1>3. Waits(c)' => host'[c] = "none"
  BY <1>1 DEF Waits, Unused
<1>4. \A g \in Handlers :
        handler'[g].conn = c => handler'[g].pc \notin {"drain", "rst"}
  BY <1>1
<1>5. WaitsWell(c)'
  BY <1>2, <1>3, <1>4 DEF WaitsWell
<1>6. QED
  BY <1>1, <1>5, OneKeeps

(* A connection that does not wait, nor begins to.                           *)
LEMMA OneNotWaiting ==
  ASSUME WaitInv, NEW c \in Conns, ActsOn(c), deferred'[c] = deferred[c],
         ~Waits(c), \A d \in Conns \ {c} : Apart(d)
  PROVE  \A d \in Conns : WaitOK(d)'
<1>1. WaitsWell(c)'
  BY DEF WaitsWell, Waits
<1>2. QED
  BY <1>1, OneKeeps

(* A handler with a connection in hand acts on that one only.                *)
LEMMA HeldMovesOn ==
  ASSUME WaitInv, NEW h \in Handlers, NEW c \in Conns, handler[h].conn = c,
         handler[h].pc # "grace", MovesOn(h, c), key' = key, conns' = conns
  PROVE  ActsOn(c) /\ \A d \in Conns \ {c} : NobodyMoves(d)
<1>1. /\ key[c] # None
      /\ \A g \in Handlers : handler[g].conn = c => handler[g].pc # "grace"
  BY HeldMade
<1>2. /\ \A d \in Conns \ {c} : NobodyMoves(d)
      /\ \A g \in Handlers : handler'[g].conn = c => handler'[g].pc # "grace"
  BY <1>1, MovesOnAlone
<1>3. QED
  BY <1>1, <1>2 DEF ActsOn

(* The steps of a handler that neither answer a SYN nor close act on the     *)
(* connection it holds alone.                                                *)
LEMMA HandlerAlone ==
  ASSUME WaitInv, NEW h \in Handlers, NEW c \in Conns, handler[h].conn = c,
         SynAnswered(h) \/ Drained(h) \/ DrainFailed(h) \/ DataAcked(h)
  PROVE  ActsOn(c) /\ \A d \in Conns \ {c} : Apart(d)
<1>1. /\ handler[h].pc # "grace" /\ key' = key /\ conns' = conns
      /\ chip_isn' = chip_isn /\ deferred' = deferred
  BY DEF SynAnswered, Drained, DrainFailed, DataAcked, Resumes, otherVars,
     tableVars, idVars, taskVars
<1>2. MovesOn(h, c)
  BY
  DEF SynAnswered, Drained, DrainFailed, DataAcked, AfterPayload, MovesOn,
      Idle, At
<1>3. ActsOn(c) /\ \A d \in Conns \ {c} : NobodyMoves(d)
  BY <1>1, <1>2, HeldMovesOn
<1>4. \A d \in Conns \ {c} :
        /\ state'[d] = state[d] /\ host'[d] = host[d]
        /\ written'[d] = written[d] /\ pump'[d] = pump[d]
        /\ pending_payload'[d] = pending_payload[d]
        /\ pending_eof'[d] = pending_eof[d] /\ chip_seq'[d] = chip_seq[d]
  <2>1. CASE SynAnswered(h)
    BY <2>1
    DEF SynAnswered, StartPump, fieldVars, seqVars, bufVars, WaitInv, TypeInv,
        TypeOK
  <2>2. CASE Drained(h) \/ DrainFailed(h)
    BY <2>2
    DEF Drained, DrainFailed, ResetChip, otherVars, taskVars, seqVars, bufVars,
        WaitInv, TypeInv, TypeOK
  <2>3. CASE DataAcked(h)
    BY <2>3, AcceptFinFields
    DEF DataAcked, FieldsOf, otherVars, taskVars, WaitInv
  <2>4. QED
    BY <2>1, <2>2, <2>3
<1>5. QED
  BY <1>1, <1>3, <1>4 DEF Apart, SameFields

(* Every later step of a handler keeps it.                                   *)
LEMMA HandlerStepWaits ==
  ASSUME WaitInv, NEW h \in Handlers, HandlerStep(h)
  PROVE  \A d \in Conns : WaitOK(d)'
<1> PICK c : c = handler[h].conn
  OBVIOUS
<1>1. ASSUME NEW pc, pc \notin {"idle", "stopping"}, Resumes(h, pc)
      PROVE  c \in Conns /\ handler[h].pc = pc
  BY <1>1, HeldConn DEF WaitInv, Resumes
<1>2. CASE GraceOpened(h)
  BY <1>1, <1>2, AnswerSynWaits DEF GraceOpened
<1>3. CASE GraceOver(h)
  BY <1>1, <1>3, AnswerSynWaits DEF GraceOver
<1>4. CASE GraceRefused(h)
  <2>1. AllStay
    BY <1>4 DEF GraceRefused, AllStay, idVars, fieldVars, seqVars, taskVars
  <2>2. \A d \in Conns : NoNewcomer(d)
    BY <1>4, IdleTakesNone DEF GraceRefused, Idle, At, WaitInv
  <2>3. QED
    BY <2>1, <2>2, StayKeeps
<1>5. CASE FinAcked(h)
  <2>1. \A d \in Conns : NoNewcomer(d)
    BY <1>5, IdleTakesNone DEF FinAcked, Idle, At, WaitInv
  <2>2. {c} \in SUBSET Conns
    BY <1>1, <1>5 DEF FinAcked
  <2>3. QED
    BY <1>5, <2>1, <2>2, CloseWaits DEF FinAcked
<1>6. CASE shutdown(h)
  <2>1. \A d \in Conns : NoNewcomer(d)
    BY <1>6, IdleTakesNone DEF shutdown, Idle, At, WaitInv
  <2>2. QED
    BY <1>6, <2>1, CloseWaits DEF shutdown
<1>7. CASE SynAnswered(h)
  <2>1. c \in Conns /\ handler[h].pc = "synack"
    BY <1>1, <1>7 DEF SynAnswered
  <2>2. ActsOn(c) /\ \A d \in Conns \ {c} : Apart(d)
    BY <1>7, <2>1, HandlerAlone
  <2>3. /\ UNCHANGED <<fieldVars, deferred>>
        /\ handler' = [handler EXCEPT ![h] = Idle]
        /\ host[c] = "none" => pump' = pump
    BY <1>7 DEF SynAnswered, Attached
  <2>4. \A g \in Handlers : handler'[g].conn = c => handler'[g] = handler[g]
    BY <2>1, <2>3, IdleTakesNone DEF Idle, At, WaitInv, NoNewcomer
  <2>5. WaitsWell(c)'
    BY <2>1, <2>3, <2>4 DEF WaitInv, WaitOK, WaitsWell, Waits, fieldVars
  <2>6. QED
    BY <2>1, <2>2, <2>5, OneKeeps
<1>8. CASE Drained(h) \/ DrainFailed(h)
  <2>1. c \in Conns /\ handler[h].pc = "drain"
    BY <1>1, <1>8 DEF Drained, DrainFailed
  <2>2. ActsOn(c) /\ \A d \in Conns \ {c} : Apart(d)
    BY <1>8, <2>1, HandlerAlone
  <2>3. ~Waits(c) /\ deferred' = deferred
    BY <1>8, <2>1
    DEF Drained, DrainFailed, otherVars, taskVars, WaitInv, WaitOK, WaitsWell
  <2>4. QED
    BY <2>1, <2>2, <2>3, OneNotWaiting
<1>9. CASE DataAcked(h)
  <2>1. c \in Conns /\ handler[h].pc = "acked"
    BY <1>1, <1>9 DEF DataAcked
  <2>2. ActsOn(c) /\ \A d \in Conns \ {c} : Apart(d)
    BY <1>9, <2>1, HandlerAlone
  <2>3. /\ AcceptFin(c) /\ UNCHANGED otherVars
        /\ handler' = [handler EXCEPT ![h] = Idle]
    BY <1>9 DEF DataAcked
  <2>4. FieldsOf(c)
    BY <2>1, <2>3, AcceptFinFields DEF WaitInv
  <2>5. \A g \in Handlers : handler'[g].conn = c => handler'[g] = handler[g]
    BY <2>1, <2>3, IdleTakesNone DEF Idle, At, WaitInv, NoNewcomer
  <2>6. WaitsWell(c)'
    BY <2>1, <2>3, <2>4, <2>5
    DEF WaitInv, WaitOK, WaitsWell, Waits, FieldsOf, otherVars, taskVars
  <2>7. QED
    BY <2>1, <2>2, <2>6, OneKeeps
<1>10. CASE HandlerReset(h)
  <2>1. c \in Conns /\ handler[h].pc = "rst"
    BY <1>1, <1>10 DEF HandlerReset
  <2>2. \A d \in Conns : NoNewcomer(d)
    BY <1>10, IdleTakesNone DEF HandlerReset, Idle, At, WaitInv
  <2>3. /\ TearDown({c}, deferred, pump) /\ {c} \in SUBSET Conns
        /\ state' = state
    BY <1>10, <2>1 DEF HandlerReset
  <2>4. /\ key[c] # None
        /\ \A g \in Handlers : handler[g].conn = c => handler[g].pc # "grace"
    BY <2>1, HeldMade
  <2>5. QED
    BY <2>2, <2>3, <2>4, TearDownWaits
<1>11. QED
  BY <1>2, <1>3, <1>4, <1>5, <1>6, <1>7, <1>8, <1>9, <1>10
  DEF HandlerStep

(* A task of connection c that moves no handler acts on c only.              *)
LEMMA TaskActs ==
  ASSUME WaitInv, NEW c \in Conns, ~Unused(c), handler' = handler,
         key' = key, conns' = conns
  PROVE  ActsOn(c) /\ \A d \in Conns : NobodyMoves(d)
BY RegisteredMade, NoneMoves DEF ActsOn

(* A step of _finish_deferred_connect that does not tear down acts on its    *)
(* own connection alone.                                                     *)
LEMMA DeferredAlone ==
  ASSUME WaitInv, NEW c \in Conns, DeferredStep(c), ~DeferredReset(c)
  PROVE  /\ ~Unused(c) /\ ActsOn(c) /\ \A d \in Conns \ {c} : Apart(d)
         /\ UNCHANGED <<handler, key, chip_isn, conns, chip_seq>>
<1>1. UNCHANGED <<handler, key, chip_isn, conns, chip_seq>>
  BY
  DEF DeferredStep, DeferredStarts, DeferredCancelled, DeferredFails,
      DeferredAttaches, Flushed, FlushFailed, DialEnded, tableVars, idVars,
      fieldVars, seqVars
<1>2. ~Unused(c)
  BY
  DEF DeferredStep, DeferredStarts, DeferredCancelled, DeferredFails,
      DeferredAttaches, Flushed, FlushFailed, DialEnded, DeferredAt, Unused
<1>3. ActsOn(c) /\ \A d \in Conns : NobodyMoves(d)
  BY <1>1, <1>2, TaskActs
<1>4. \A d \in Conns \ {c} :
        /\ deferred'[d] = deferred[d] /\ pump'[d] = pump[d]
        /\ state'[d] = state[d]
  BY
  DEF DeferredStep, DeferredStarts, DeferredCancelled, DeferredFails,
      DeferredAttaches, Flushed, FlushFailed, DeferredGoesTo, FinishAttach,
      StartPump, ResetChip, fieldVars, WaitInv, TypeInv, TypeOK
<1>5. \A d \in Conns \ {c} :
        /\ host'[d] = host[d] /\ written'[d] = written[d]
        /\ pending_payload'[d] = pending_payload[d]
        /\ pending_eof'[d] = pending_eof[d]
  BY
  DEF DeferredStep, DeferredStarts, DeferredCancelled, DeferredFails,
      DeferredAttaches, Flushed, FlushFailed, FinishAttach,
      fieldVars, bufVars, WaitInv, TypeInv, TypeOK
<1>6. \A d \in Conns \ {c} : Apart(d)
  BY <1>1, <1>3, <1>4, <1>5 DEF Apart, SameFields
<1>7. QED
  BY <1>1, <1>2, <1>3, <1>6

(* Every step of _finish_deferred_connect keeps it.                          *)
LEMMA DeferredStepWaits ==
  ASSUME WaitInv, NEW c \in Conns, DeferredStep(c)
  PROVE  \A d \in Conns : WaitOK(d)'
<1>1. CASE DeferredReset(c)
  <2>1. /\ TearDown({c}, [deferred EXCEPT ![c] = "done"], pump)
        /\ {c} \in SUBSET Conns /\ state' = state
    BY <1>1 DEF DeferredReset
  <2>2. \A d \in Conns : NoNewcomer(d)
    BY <1>1 DEF DeferredReset, NoNewcomer
  <2>3. /\ key[c] # None
        /\ \A g \in Handlers : handler[g].conn = c => handler[g].pc # "grace"
    BY <1>1, RegisteredMade DEF DeferredReset, DeferredAt, Unused
  <2>4. \A d \in Conns \ {c} : [deferred EXCEPT ![c] = "done"][d] = deferred[d]
    BY DEF WaitInv, TypeInv, TypeOK
  <2>5. QED
    BY <2>1, <2>2, <2>3, <2>4, TearDownWaits
<1>2. CASE ~DeferredReset(c)
  <2>1. /\ ActsOn(c) /\ \A d \in Conns \ {c} : Apart(d)
        /\ handler' = handler
    BY <1>2, DeferredAlone
  <2>2. WaitsWell(c)'
    <3>1. CASE DeferredStarts(c)
      <4>1. /\ Waits(c) /\ UNCHANGED <<state, host, pump, handler>>
        BY <3>1 DEF DeferredStarts, DeferredAt, Waits, fieldVars
      <4>2. QED
        BY <4>1 DEF WaitInv, WaitOK, WaitsWell
    <3>2. CASE ~DeferredStarts(c)
      <4>1. deferred'[c] \in {"done", "rst", "flush"}
        BY <1>2, <3>2
        DEF DeferredStep, DeferredCancelled, DeferredFails,
            DeferredAttaches, Flushed, FlushFailed, DeferredGoesTo,
            FinishAttach, WaitInv, TypeInv, TypeOK
      <4>2. QED
        BY <4>1 DEF WaitsWell, Waits
    <3>3. QED
      BY <3>1, <3>2
  <2>3. QED
    BY <2>1, <2>2, OneKeeps
<1>3. QED
  BY <1>1, <1>2

(* A pump that does not tear down acts on its own connection alone, for which*)
(* nobody waits.                                                             *)
LEMMA PumpAlone ==
  ASSUME WaitInv, NEW c \in Conns, NEW o \in Starters, PumpStep(c, o)
  PROVE  /\ ~Unused(c) /\ ~Waits(c)
         /\ ~PumpReset(c, o) =>
              /\ ActsOn(c) /\ \A d \in Conns \ {c} : Apart(d)
              /\ UNCHANGED <<handler, key, chip_isn, conns, chip_seq, host,
                             bufVars, deferred>>
<1>1. ~Unused(c) /\ ~Waits(c)
  <2>1. pump[c][o] # "none"
    BY
    DEF PumpStep, PumpStarts, PumpSent, PumpEof, PumpFinSent, PumpRaises,
        PumpReset, PumpReads, PumpAt
  <2>2. QED
    BY <2>1 DEF Unused, WaitInv, WaitOK, WaitsWell
<1>2. ASSUME ~PumpReset(c, o)
      PROVE  /\ ActsOn(c) /\ \A d \in Conns \ {c} : Apart(d)
             /\ UNCHANGED <<handler, key, chip_isn, conns, chip_seq, host,
                            bufVars, deferred>>
  <2>1. PICK pc \in PumpPcs : PumpGoesTo(c, o, pc)
    BY <1>2
    DEF PumpStep, PumpStarts, PumpSent, PumpEof, PumpFinSent, PumpRaises,
        PumpReads, NextRound, PumpPcs
  <2>2. UNCHANGED <<handler, key, chip_isn, conns, chip_seq, host, bufVars,
                    deferred>>
    BY <2>1 DEF PumpGoesTo, tableVars, idVars
  <2>3. ActsOn(c) /\ \A d \in Conns : NobodyMoves(d)
    BY <1>1, <2>2, TaskActs
  <2>4. \A d \in Conns \ {c} : pump'[d] = pump[d] /\ state'[d] = state[d]
    <3>1. \A d \in Conns \ {c} : pump'[d] = pump[d]
      BY <2>1 DEF PumpGoesTo, WaitInv, TypeInv, TypeOK
    <3>2. state' = state \/ \E x : state' = [state EXCEPT ![c] = x]
      BY <1>2
      DEF PumpStep, PumpStarts, PumpSent, PumpEof, PumpFinSent, PumpRaises,
          PumpReads, ResetChip
    <3>3. \A d \in Conns \ {c} : state'[d] = state[d]
      BY <3>2 DEF WaitInv, TypeInv, TypeOK
    <3>4. QED
      BY <3>1, <3>3
  <2>5. \A d \in Conns \ {c} : Apart(d)
    BY <2>2, <2>3, <2>4 DEF Apart, SameFields, bufVars
  <2>6. QED
    BY <2>2, <2>3, <2>5
<1>3. QED
  BY <1>1, <1>2

(* Every step of _pump_host_to_chip keeps it.                                *)
LEMMA PumpStepWaits ==
  ASSUME WaitInv, NEW c \in Conns, NEW o \in Starters, PumpStep(c, o)
  PROVE  \A d \in Conns : WaitOK(d)'
<1>1. ~Unused(c) /\ ~Waits(c)
  BY PumpAlone
<1>2. CASE PumpReset(c, o)
  <2>1. /\ TearDown({c}, deferred, [pump EXCEPT ![c][o] = "done"])
        /\ {c} \in SUBSET Conns /\ state' = state
    BY <1>2 DEF PumpReset
  <2>2. \A d \in Conns : NoNewcomer(d)
    BY <1>2 DEF PumpReset, NoNewcomer
  <2>3. /\ key[c] # None
        /\ \A g \in Handlers : handler[g].conn = c => handler[g].pc # "grace"
    BY <1>1, RegisteredMade
  <2>4. \A d \in Conns \ {c} : [pump EXCEPT ![c][o] = "done"][d] = pump[d]
    BY DEF WaitInv, TypeInv, TypeOK
  <2>5. QED
    BY <2>1, <2>2, <2>3, <2>4, TearDownWaits
<1>3. CASE ~PumpReset(c, o)
  <2>1. /\ ActsOn(c) /\ \A d \in Conns \ {c} : Apart(d)
        /\ deferred' = deferred
    BY <1>3, PumpAlone
  <2>2. QED
    BY <1>1, <2>1, OneNotWaiting
<1>4. QED
  BY <1>2, <1>3

(* Stopping the bridge, and a step of the dial, touch no field.              *)
LEMMA StopWaits ==
  ASSUME WaitInv, NEW h \in Handlers, stop(h)
  PROVE  \A d \in Conns : WaitOK(d)'
<1>1. AllStay
  BY DEF stop, AllStay, tableVars, idVars, fieldVars, seqVars, taskVars
<1>2. \A d \in Conns : NoNewcomer(d)
  BY IdleTakesNone DEF stop, At, WaitInv
<1>3. QED
  BY <1>1, <1>2, StayKeeps

(* The steps of a dial change the dial alone.                                *)
LEMMA DialStepWaits ==
  ASSUME WaitInv, NEW c \in Conns, DialStep(c)
  PROVE  \A d \in Conns : WaitOK(d)'
<1>1. Dials(c)
  BY DEF DialStep, HostAnswers, HostRefuses, AttemptTimesOut
<1>2. AllStay /\ \A d \in Conns : NoNewcomer(d)
  BY <1>1
  DEF Dials, AllStay, NoNewcomer, tableVars, idVars, fieldVars, seqVars,
      taskVars
<1>3. QED
  BY <1>2, StayKeeps

(* handle_chip_segment keeps it.                                             *)
LEMMA HandleSegmentWaits ==
  ASSUME WaitInv, NEW h \in Handlers, NEW k \in Keys, NEW seg \in Segment,
         handle_chip_segment(h, k, seg)
  PROVE  \A d \in Conns : WaitOK(d)'
<1>1. conns[k] \in Conns \cup {None} /\ handler[h].pc = "idle"
  BY DEF WaitInv, TypeInv, TypeOK, ConnsOrNone, handle_chip_segment
<1>2. CASE ChipRst(k, seg)
  BY <1>1, <1>2, CloseWaits DEF ChipRst, NoNewcomer
<1>3. CASE DropSynRetransmit(k, seg) \/ RefuseSegment(k, seg)
  BY <1>3, StayKeeps
  DEF DropSynRetransmit, RefuseSegment, NoNewcomer, AllStay, fieldVars,
      seqVars, otherVars, tableVars, idVars, taskVars
<1>4. CASE on_passive_syn(h, k, seg)
  BY <1>1, <1>4, PassiveSynWaits
<1>5. CASE conns[k] # None /\ ConnSegment(h, conns[k], seg)
  BY <1>1, <1>5, ConnSegmentWaits DEF Registered
<1>6. CASE conns[k] # None /\ LastAck(conns[k], seg)
  BY <1>1, <1>6, CloseWaits DEF LastAck, NoNewcomer
<1>7. QED
  BY <1>2, <1>3, <1>4, <1>5, <1>6 DEF handle_chip_segment

(* A new bridge has used no object yet.                                      *)
LEMMA InitWaits == Init => \A d \in Conns : WaitOK(d)
BY TcpNatAssumption
DEF Init, WaitOK, WaitsWell, Waits, Unused, GraceAlone, Registered, Idle, At

(* Every step of the NAT keeps it.                                           *)
LEMMA NextWaits == WaitInv /\ [Next]_vars => WaitInv'
<1> SUFFICES ASSUME WaitInv, [Next]_vars PROVE WaitInv'
  OBVIOUS
<1> DEFINE Kept == \A d \in Conns : WaitOK(d)'
<1>1. ASSUME NEW h \in Handlers, NEW k \in Keys, NEW seg \in Segments,
             handle_chip_segment(h, k, seg)
      PROVE  Kept
  BY <1>1, HandleSegmentWaits, TcpNatAssumption
<1>2. ASSUME NEW h \in Handlers, stop(h) PROVE Kept
  BY <1>2, StopWaits
<1>3. ASSUME NEW h \in Handlers, HandlerStep(h) PROVE Kept
  BY <1>3, HandlerStepWaits
<1>4. ASSUME NEW c \in Conns, DialStep(c) \/ DeferredStep(c) PROVE Kept
  BY <1>4, DialStepWaits, DeferredStepWaits
<1>5. ASSUME NEW c \in Conns, NEW o \in Starters, PumpStep(c, o) PROVE Kept
  BY <1>5, PumpStepWaits
<1>6. ASSUME UNCHANGED vars PROVE Kept
  BY <1>6, StayKeeps
  DEF vars, AllStay, NoNewcomer, fieldVars, otherVars, tableVars, idVars,
      seqVars, taskVars
<1> HIDE DEF Kept
<1>7. Kept
  BY <1>1, <1>2, <1>3, <1>4, <1>5, <1>6 DEF Next, TaskStep
<1>8. TypeInv'
  BY NextTyped DEF WaitInv
<1>9. QED
  BY <1>7, <1>8 DEF WaitInv, Kept

(* The invariant holds for any number of handlers.                           *)
LEMMA WaitInvariance == Spec => []WaitInv
<1>1. Init => WaitInv
  BY InitTyped, InitWaits DEF WaitInv
<1>2. QED
  BY <1>1, NextWaits, PTL DEF Spec

(* A task that waits for the dial finds its connection open when the dial    *)
(* ends, for any number of handlers: whoever closes the connection cancels   *)
(* the task first, so the test at tcp_nat.py:305 never succeeds.             *)
THEOREM DeferredFindsOpen == Spec => []DeferredInTime
<1>1. WaitInv => DeferredInTime
  BY DEF WaitInv, WaitOK, WaitsWell, Waits, DeferredInTime
<1>2. QED
  BY <1>1, WaitInvariance, PTL

-----------------------------------------------------------------------------
(* The invariant of the bytes and of the end of the chip's stream, for one   *)
(* handler: a connection in the table has what it was sent, and its end.     *)

OneHandler == \E h : Handlers = {h}

HandlerAt(c, pcs) ==
    \E h \in Handlers : handler[h].conn = c /\ handler[h].pc \in pcs

(* The handler is in the middle of a payload of c.                           *)
InPayload(c) == HandlerAt(c, {"drain", "acked"})

EndOK(c) ==
    /\ host[c] # "closed" /\ ~(host[c] = "eof" /\ pending_eof[c])
    /\ pending_payload[c] # <<>> => host[c] = "none"
    /\ deferred[c] = "flush" => host[c] # "none"
    /\ state[c] # "CLOSED" =>
         /\ state[c] \in {"CLOSE_WAIT", "LAST_ACK"} <=>
              host[c] = "eof" \/ pending_eof[c]
         /\ pending_eof[c] => host[c] = "none" \/ deferred[c] = "flush"
    /\ InPayload(c) =>
         /\ state[c] \in {"ESTABLISHED", "FIN_WAIT_1", "CLOSED"}
         /\ host[c] # "eof" /\ ~pending_eof[c]
    /\ HandlerAt(c, {"finack"}) =>
         state[c] \in {"FIN_WAIT_1", "FIN_WAIT_2", "CLOSED"}

(* The sequence number after the bytes that were taken.                      *)
Base(c) ==
    seq_add(chip_isn[c],
            1 + (Len(written[c]) + Len(pending_payload[c]) - Uncounted(c)))

CountOK(c) ==
    /\ state[c] \in {"SYN_RCVD", "ESTABLISHED"} \/ InPayload(c) =>
         chip_seq[c] = Base(c)
    /\ state[c] \in {"CLOSE_WAIT", "LAST_ACK"} =>
         chip_seq[c] = seq_add(Base(c), 1)
    /\ state[c] \in {"FIN_WAIT_1", "FIN_WAIT_2"} =>
         chip_seq[c] = IF HandlerAt(c, {"finack"}) THEN seq_add(Base(c), 1)
                       ELSE Base(c)

StreamOK(c) == Registered(c) => EndOK(c) /\ CountOK(c)

StreamInv == WaitInv /\ \A c \in Conns : StreamOK(c)

-----------------------------------------------------------------------------
(* What the invariant says at the one handler, before and after a step.      *)

(* What one handler has not counted, in whichever state f the handlers are.  *)
LEMMA UncountedOne ==
  ASSUME NEW h, NEW f, NEW c,
         NEW hs, hs = {g \in {h} : f[g].pc = "drain" /\ f[g].conn = c}
  PROVE  (IF hs = {} THEN 0 ELSE Len(f[CHOOSE g \in hs : TRUE].seg.data))
         = IF f[h].pc = "drain" /\ f[h].conn = c THEN Len(f[h].seg.data) ELSE 0
<1>1. CASE f[h].pc = "drain" /\ f[h].conn = c
  <2>1. hs = {h}
    BY <1>1
  <2>2. (CHOOSE g \in hs : TRUE) = h
    BY <2>1
  <2>3. QED
    BY <1>1, <2>1, <2>2
<1>2. CASE ~(f[h].pc = "drain" /\ f[h].conn = c)
  BY <1>2
<1>3. QED
  BY <1>1, <1>2

(* With one handler, where it stands says all of these.                      *)
LEMMA AtOne ==
  ASSUME NEW h, Handlers = {h}, NEW c \in Conns
  PROVE  /\ InPayload(c) <=>
              handler[h].conn = c /\ handler[h].pc \in {"drain", "acked"}
         /\ InPayload(c)' <=>
              handler'[h].conn = c /\ handler'[h].pc \in {"drain", "acked"}
         /\ HandlerAt(c, {"finack"}) <=>
              handler[h].conn = c /\ handler[h].pc = "finack"
         /\ HandlerAt(c, {"finack"})' <=>
              handler'[h].conn = c /\ handler'[h].pc = "finack"
         /\ Uncounted(c) = IF handler[h].pc = "drain" /\ handler[h].conn = c
                           THEN Len(handler[h].seg.data) ELSE 0
         /\ Uncounted(c)' = IF handler'[h].pc = "drain" /\ handler'[h].conn = c
                            THEN Len(handler'[h].seg.data) ELSE 0
<1>1. /\ InPayload(c) <=>
           handler[h].conn = c /\ handler[h].pc \in {"drain", "acked"}
      /\ InPayload(c)' <=>
           handler'[h].conn = c /\ handler'[h].pc \in {"drain", "acked"}
      /\ HandlerAt(c, {"finack"}) <=>
           handler[h].conn = c /\ handler[h].pc = "finack"
      /\ HandlerAt(c, {"finack"})' <=>
           handler'[h].conn = c /\ handler'[h].pc = "finack"
  BY DEF InPayload, HandlerAt
<1>2. Uncounted(c) = IF handler[h].pc = "drain" /\ handler[h].conn = c
                     THEN Len(handler[h].seg.data) ELSE 0
  BY UncountedOne DEF Uncounted
<1>3. Uncounted(c)' = IF handler'[h].pc = "drain" /\ handler'[h].conn = c
                      THEN Len(handler'[h].seg.data) ELSE 0
  BY UncountedOne DEF Uncounted
<1>4. QED
  BY <1>1, <1>2, <1>3

(* A connection left alone keeps its part of the invariant.                  *)
LEMMA StreamApart ==
  ASSUME NEW h, Handlers = {h}, NEW d \in Conns, StreamOK(d), Apart(d)
  PROVE  StreamOK(d)'
<1> SUFFICES ASSUME Registered(d)' PROVE EndOK(d)' /\ CountOK(d)'
  BY DEF StreamOK
<1>1. EndOK(d) /\ CountOK(d)
  BY DEF StreamOK, Registered, Apart, SameFields
<1>2. /\ InPayload(d)' <=> InPayload(d)
      /\ HandlerAt(d, {"finack"})' <=> HandlerAt(d, {"finack"})
  BY AtOne DEF Apart, NobodyMoves
<1>3. Uncounted(d)' = Uncounted(d)
  BY AtOne DEF Apart, NobodyMoves
<1>4. Base(d)' = Base(d)
  BY <1>3 DEF Base, Apart, SameFields
<1>5. EndOK(d)'
  BY <1>1, <1>2 DEF EndOK, Apart, SameFields
<1>6. CountOK(d)'
  BY <1>1, <1>2, <1>4 DEF CountOK, Apart, SameFields
<1>7. QED
  BY <1>5, <1>6

(* The count of a connection is a number, and advances with what is taken.   *)
LEMMA TakenIsNat ==
  ASSUME TypeOK, NEW c \in Conns
  PROVE  /\ Len(written[c]) \in Nat /\ Len(pending_payload[c]) \in Nat
         /\ chip_isn[c] \in Int
<1>1. written[c] \in Seq(Nat) /\ pending_payload[c] \in Seq(Nat)
  BY DEF TypeOK
<1>2. chip_isn[c] \in SeqNums
  BY DEF TypeOK
<1>3. Len(written[c]) \in Nat /\ Len(pending_payload[c]) \in Nat
  BY <1>1
<1>4. chip_isn[c] \in Int
  BY <1>2, SeqNumsAreInts
<1>5. QED
  BY <1>3, <1>4

(* l more bytes are taken: where the next one is expected.                   *)
LEMMA BaseMoves ==
  ASSUME NEW isn \in Int, NEW n \in Int, NEW l \in Int
  PROVE  seq_add(seq_add(isn, 1 + n), l) = seq_add(isn, 1 + (n + l))
<1>1. 1 + n \in Int /\ (1 + n) + l = 1 + (n + l)
  OBVIOUS
<1>2. seq_add(seq_add(isn, 1 + n), l) = seq_add(isn, (1 + n) + l)
  BY <1>1, SeqAddTwice
<1>3. QED
  BY <1>1, <1>2

(* The FIN of the chip is taken once: by a connection that has all bytes     *)
(* before it, and no end of stream yet.                                      *)
LEMMA AcceptFinStream ==
  ASSUME TypeInv, NEW h, Handlers = {h}, NEW c \in Conns, AcceptFin(c),
         host[c] \in {"none", "open"}, ~pending_eof[c],
         pending_payload[c] # <<>> => host[c] = "none",
         deferred'[c] = deferred[c], deferred[c] = "flush" => host[c] # "none",
         chip_isn' = chip_isn, chip_seq[c] = Base(c),
         handler[h].pc # "drain",
         handler'[h].pc \notin {"drain", "acked", "finack"}
  PROVE  EndOK(c)' /\ CountOK(c)'
<1>1. /\ ~InPayload(c)' /\ ~HandlerAt(c, {"finack"})'
      /\ Uncounted(c)' = Uncounted(c)
  BY AtOne
<1>2. /\ state'[c] = "CLOSE_WAIT"
      /\ host'[c] = IF host[c] = "open" THEN "eof" ELSE host[c]
      /\ pending_eof'[c] <=> host[c] = "none"
      /\ chip_seq'[c] = seq_add(chip_seq[c], 1)
      /\ written' = written /\ pending_payload' = pending_payload
  BY DEF AcceptFin, StateAfterFin, EofMustWait, FinSpan, TypeInv, TypeOK
<1>3. Base(c)' = Base(c)
  BY <1>1, <1>2 DEF Base
<1>4. EndOK(c)'
  BY <1>1, <1>2 DEF EndOK
<1>5. CountOK(c)'
  BY <1>1, <1>2, <1>3 DEF CountOK
<1>6. QED
  BY <1>4, <1>5

(* A payload is held or written once, and counted when the drain returns.    *)
LEMMA OnPayloadStream ==
  ASSUME TypeInv, NEW h, Handlers = {h}, handler[h].pc = "idle",
         NEW c \in Conns, NEW seg \in Segment, OnPayload(h, c, seg),
         EndOK(c), CountOK(c), state[c] \in {"SYN_RCVD", "ESTABLISHED"},
         state'[c] = "ESTABLISHED", deferred' = deferred, chip_isn' = chip_isn
  PROVE  EndOK(c)' /\ CountOK(c)'
<1>1. /\ ~InPayload(c) /\ ~HandlerAt(c, {"finack"}) /\ Uncounted(c) = 0
  BY AtOne
<1>2. /\ chip_seq[c] = Base(c) /\ host[c] \in {"none", "open"}
      /\ ~pending_eof[c]
  BY DEF EndOK, CountOK, TypeInv, TypeOK
<1>3. /\ Len(written[c]) \in Nat /\ Len(pending_payload[c]) \in Nat
      /\ chip_isn[c] \in Int /\ Len(seg.data) \in Nat /\ seg.data \in Seq(Nat)
      /\ written[c] \in Seq(Nat) /\ pending_payload[c] \in Seq(Nat)
  BY TakenIsNat, SegTyped DEF TypeInv, TypeOK
<1> DEFINE w == Len(written[c])
           p == Len(pending_payload[c])
           l == Len(seg.data)
<1>4. /\ Base(c) = seq_add(chip_isn[c], 1 + (w + p - 0))
      /\ w \in Int /\ p \in Int /\ l \in Int
  BY <1>1, <1>3 DEF Base
<1>5. /\ host' = host /\ pending_eof' = pending_eof
      /\ handler'[h].pc # "finack"
      /\ pending_payload'[c] # <<>> => host[c] = "none"
  BY SMTT(30)
  DEF OnPayload, EndOK, bufVars, AfterPayload, Idle, At, TypeInv, TypeOK
<1>6. EndOK(c)'
  BY <1>2, <1>5, AtOne DEF EndOK
<1>7. chip_seq'[c] = Base(c)'
  <2>1. CASE UNCHANGED <<seqVars, host, bufVars, handler>>
    <3>1. Uncounted(c)' = Uncounted(c)
      BY <2>1, AtOne
    <3>2. QED
      BY <1>2, <2>1, <3>1 DEF Base, seqVars, bufVars
  <2>2. CASE /\ pending_payload' = [pending_payload EXCEPT ![c] = @ \o seg.data]
             /\ chip_seq' = [chip_seq EXCEPT ![c] = seq_add(@, Len(seg.data))]
             /\ AfterPayload(h, c, seg) /\ written' = written
    <3>1. Uncounted(c)' = 0
      BY <2>2, AtOne DEF AfterPayload, Idle, At, TypeInv, TypeOK
    <3>2. chip_seq'[c] = seq_add(chip_seq[c], Len(seg.data))
      BY <2>2 DEF TypeInv, TypeOK
    <3>3. Len(pending_payload'[c]) = p + l /\ Len(written'[c]) = w
      BY <1>3, <2>2 DEF TypeInv, TypeOK
    <3>4. Base(c)' = seq_add(chip_isn[c], 1 + (w + (p + l) - 0))
      BY <3>1, <3>3 DEF Base
    <3>5. chip_isn[c] \in Int /\ chip_seq[c] = Base(c)
      BY <1>2, <1>3
    <3>6. chip_seq'[c] = seq_add(chip_seq[c], l)
      BY <3>2
    <3> HIDE DEF w, p, l
    <3> DEFINE n == w + p - 0
    <3>7. n \in Int /\ w + (p + l) - 0 = n + l
      BY <1>4
    <3>8. chip_seq[c] = seq_add(chip_isn[c], 1 + n)
      BY <1>4, <3>5
    <3> HIDE DEF n
    <3>9. seq_add(chip_seq[c], l) = seq_add(chip_isn[c], 1 + (n + l))
      BY <1>4, <3>5, <3>7, <3>8, BaseMoves
    <3>10. QED
      BY <3>4, <3>6, <3>7, <3>9
  <2>3. CASE /\ written' = [written EXCEPT ![c] = @ \o seg.data]
             /\ handler' = [handler EXCEPT ![h] = At("drain", c, seg)]
             /\ UNCHANGED <<seqVars, host, pending_payload, pending_eof>>
    <3>1. Uncounted(c)' = l
      BY <2>3, AtOne DEF At, TypeInv, TypeOK
    <3>2. Len(written'[c]) = w + l /\ Len(pending_payload'[c]) = p
      BY <1>3, <2>3 DEF TypeInv, TypeOK
    <3>3. Base(c)' = seq_add(chip_isn[c], 1 + ((w + l) + p - l))
      BY <3>1, <3>2 DEF Base
    <3>4. chip_seq'[c] = Base(c)
      BY <1>2, <2>3 DEF seqVars
    <3> HIDE DEF w, p, l
    <3>5. (w + l) + p - l = w + p - 0
      BY <1>4
    <3>6. QED
      BY <1>4, <3>3, <3>4, <3>5
  <2>4. QED
    BY <2>1, <2>2, <2>3 DEF OnPayload
<1>8. CountOK(c)'
  BY <1>5, <1>7 DEF CountOK
<1>9. QED
  BY <1>6, <1>8

-----------------------------------------------------------------------------
(* Each action keeps the invariant.                                          *)

(* What a segment of connection c, or any step on it alone, has to show.     *)
LEMMA StreamOne ==
  ASSUME StreamInv, NEW h, Handlers = {h}, NEW c \in Conns, StreamOK(c)',
         \A d \in Conns \ {c} : Apart(d)
  PROVE  \A d \in Conns : StreamOK(d)'
BY StreamApart DEF StreamInv

(* A segment of a registered connection.                                     *)
LEMMA ConnSegmentStream ==
  ASSUME StreamInv, NEW h, Handlers = {h}, handler[h].pc = "idle",
         NEW c \in Conns, Registered(c), NEW seg \in Segment,
         ConnSegment(h, c, seg)
  PROVE  \A d \in Conns : StreamOK(d)'
<1>1. /\ EndOK(c) /\ CountOK(c) /\ TypeInv
      /\ \A d \in Conns \ {c} : Apart(d)
  BY ConnSegmentAlone DEF StreamInv, StreamOK, WaitInv
<1>2. /\ ~InPayload(c) /\ ~HandlerAt(c, {"finack"}) /\ Uncounted(c) = 0
  BY AtOne
<1>3. deferred' = deferred /\ chip_isn' = chip_isn /\ pump' = pump
      /\ key' = key /\ conns' = conns
  BY DEF ConnSegment, otherVars, tableVars, idVars, taskVars
<1>4. Ignore => StreamOK(c)'
  <2>1. Ignore => Apart(c)
    BY <1>3
    DEF Ignore, fieldVars, seqVars, bufVars, Apart, SameFields, NobodyMoves
  <2>2. QED
    BY <2>1, StreamApart DEF StreamInv
<1>5. AcceptFin(c) /\ UNCHANGED handler /\ state[c] = "ESTABLISHED"
        => StreamOK(c)'
  <2> SUFFICES ASSUME AcceptFin(c), handler' = handler, state[c] = "ESTABLISHED"
               PROVE  EndOK(c)' /\ CountOK(c)'
    BY DEF StreamOK
  <2>1. /\ host[c] \in {"none", "open"} /\ ~pending_eof[c]
        /\ pending_payload[c] # <<>> => host[c] = "none"
        /\ deferred[c] = "flush" => host[c] # "none"
        /\ chip_seq[c] = Base(c)
    BY <1>1 DEF EndOK, CountOK, TypeInv, TypeOK
  <2>2. QED
    BY <1>1, <1>3, <2>1, AcceptFinStream
<1>6. CASE state[c] = "SYN_RCVD" /\ on_handshake_complete(h, c, seg)
  <2>1. CASE seg.data # <<>> /\ "ACK" \in seg.flags /\ seg.ack = our_seq[c]
    <3>1. state'[c] = "ESTABLISHED" /\ OnPayload(h, c, seg)
      BY <1>1, <1>6, <2>1 DEF on_handshake_complete, TypeInv, TypeOK
    <3>2. EndOK(c)' /\ CountOK(c)'
      BY <1>1, <1>3, <1>6, <3>1, OnPayloadStream
    <3>3. QED
      BY <1>1, <3>2, StreamOne DEF StreamOK
  <2>2. CASE seg.data = <<>> /\ "ACK" \in seg.flags /\ seg.ack = our_seq[c]
    <3>1. /\ state'[c] = "ESTABLISHED"
          /\ UNCHANGED <<seqVars, host, bufVars, handler>>
      BY <1>1, <1>6, <2>2 DEF on_handshake_complete, TypeInv, TypeOK
    <3>2. /\ ~InPayload(c)' /\ ~HandlerAt(c, {"finack"})'
          /\ Uncounted(c)' = Uncounted(c)
      BY <3>1, AtOne
    <3>3. EndOK(c)'
      BY <1>1, <1>3, <1>6, <3>1, <3>2 DEF EndOK, bufVars
    <3>4. CountOK(c)'
      BY <1>1, <1>3, <1>6, <3>1, <3>2 DEF CountOK, Base, bufVars, seqVars
    <3>5. QED
      BY <1>1, <3>3, <3>4, StreamOne DEF StreamOK
  <2>3. CASE ~("ACK" \in seg.flags /\ seg.ack = our_seq[c])
    BY <1>1, <1>4, <1>6, <2>3, StreamOne DEF on_handshake_complete
  <2>4. QED
    BY <2>1, <2>2, <2>3
<1>7. CASE state[c] = "ESTABLISHED" /\ on_data(h, c, seg)
  <2>1. CASE seg.data # <<>>
    <3>1. EndOK(c)' /\ CountOK(c)'
      BY <1>1, <1>3, <1>7, <2>1, OnPayloadStream DEF on_data
    <3>2. QED
      BY <1>1, <3>1, StreamOne DEF StreamOK
  <2>2. CASE seg.data = <<>>
    BY <1>1, <1>4, <1>5, <1>7, <2>2, StreamOne DEF on_data
  <2>3. QED
    BY <2>1, <2>2
<1>8. CASE /\ state[c] \in {"FIN_WAIT_1", "FIN_WAIT_2"}
           /\ on_fin_wait(h, c, seg)
  <2>1. /\ state'[c] \in {"FIN_WAIT_1", "FIN_WAIT_2"}
        /\ host' = host /\ UNCHANGED bufVars /\ chip_seq[c] = Base(c)
    BY <1>1, <1>2, <1>8 DEF on_fin_wait, CountOK, TypeInv, TypeOK
  <2>2. CASE "FIN" \in seg.flags
    <3>1. /\ chip_seq'[c] = seq_add(chip_seq[c], 1)
          /\ handler'[h].pc = "finack" /\ handler'[h].conn = c
      BY <1>1, <1>8, <2>2 DEF on_fin_wait, FinSpan, At, TypeInv, TypeOK
    <3>2. /\ ~InPayload(c)' /\ HandlerAt(c, {"finack"})'
          /\ Uncounted(c)' = Uncounted(c)
      BY <1>2, <3>1, AtOne
    <3>3. EndOK(c)'
      BY <1>1, <1>3, <1>8, <2>1, <3>2 DEF EndOK, bufVars
    <3>4. CountOK(c)'
      BY <1>3, <2>1, <3>1, <3>2 DEF CountOK, Base, bufVars
    <3>5. QED
      BY <1>1, <3>3, <3>4, StreamOne DEF StreamOK
  <2>3. CASE "FIN" \notin seg.flags
    <3>1. chip_seq' = chip_seq /\ handler' = handler
      BY <1>8, <2>3 DEF on_fin_wait
    <3>2. /\ ~InPayload(c)' /\ ~HandlerAt(c, {"finack"})'
          /\ Uncounted(c)' = Uncounted(c)
      BY <3>1, AtOne
    <3>3. EndOK(c)'
      BY <1>1, <1>3, <1>8, <2>1, <3>2 DEF EndOK, bufVars
    <3>4. CountOK(c)'
      BY <1>3, <2>1, <3>1, <3>2 DEF CountOK, Base, bufVars
    <3>5. QED
      BY <1>1, <3>3, <3>4, StreamOne DEF StreamOK
  <2>4. QED
    BY <2>2, <2>3
<1>9. CASE Ignore
  BY <1>1, <1>4, <1>9, StreamOne
<1>10. QED
  BY <1>6, <1>7, <1>8, <1>9 DEF ConnSegment

(* The second half of _close: what it tears down leaves the table.           *)
LEMMA TearDownStream ==
  ASSUME StreamInv, NEW h, Handlers = {h}, NEW S \in SUBSET Conns,
         NEW d, NEW p, TearDown(S, d, p),
         \A c \in Conns \ S :
           d[c] = deferred[c] /\ p[c] = pump[c] /\ state'[c] = state[c]
  PROVE  /\ \A c \in S : ~Registered(c)'
         /\ \A c \in Conns \ S : SameFields(c)
         /\ \A c \in Conns : c \in S \/ NobodyMoves(c) => StreamOK(c)'
<1>1. \A c \in S : ~Registered(c)'
  <2>1. \A c \in S : \A k \in Keys : conns[k] = c => key[c] = k
    BY DEF StreamInv, WaitInv, WaitOK
  <2>2. \A k \in Keys :
          conns'[k] = IF \E c \in S : key[c] = k THEN None ELSE conns[k]
    BY DEF TearDown
  <2>3. \A c \in S : c # None
    BY TcpNatAssumption
  <2>4. QED
    BY <2>1, <2>2, <2>3 DEF Registered
<1>2. ASSUME NEW c \in Conns \ S PROVE SameFields(c)
  <2>1. pump'[c] = pump[c]
    BY DEF TearDown, StreamInv, WaitInv, TypeInv, TypeOK
  <2>2. QED
    BY <2>1, TcpNatAssumption
    DEF TearDown, idVars, seqVars, bufVars, SameFields
<1>3. \A c \in S : StreamOK(c)'
  BY <1>1 DEF StreamOK
<1>4. \A c \in Conns \ S : NobodyMoves(c) => StreamOK(c)'
  BY <1>2, StreamApart DEF Apart, StreamInv
<1>5. QED
  BY <1>1, <1>2, <1>3, <1>4

(* A close that sends nothing.                                               *)
LEMMA CloseStream ==
  ASSUME StreamInv, NEW h, Handlers = {h}, NEW S \in SUBSET Conns,
         CloseSilently(S)
  PROVE  \A c \in Conns :
           \/ StreamOK(c)'
           \/ ~NobodyMoves(c) /\ SameFields(c)
                /\ (c \in S => state[c] = "CLOSED")
<1> DEFINE open == {c \in S : state[c] # "CLOSED"}
<1>1. TearDown(open, deferred, pump) /\ open \in SUBSET Conns
  BY DEF CloseSilently
<1>2. \A c \in Conns \ open : state'[c] = state[c]
  BY DEF CloseSilently
<1>3. \A c \in S : c \notin open => state[c] = "CLOSED"
  OBVIOUS
<1> HIDE DEF open
<1>4. /\ \A c \in Conns \ open : SameFields(c)
      /\ \A c \in Conns : c \in open \/ NobodyMoves(c) => StreamOK(c)'
  BY <1>1, <1>2, TearDownStream
<1>5. QED
  BY <1>3, <1>4

(* A connection that is closed already, when its handler lets it go.         *)
LEMMA StreamClosed ==
  ASSUME NEW h, Handlers = {h}, NEW c \in Conns, StreamOK(c), SameFields(c),
         state[c] = "CLOSED", handler'[h].pc \notin {"drain", "acked", "finack"}
  PROVE  StreamOK(c)'
<1>1. ~InPayload(c)' /\ ~HandlerAt(c, {"finack"})'
  BY AtOne
<1>2. Registered(c)' => EndOK(c)
  BY DEF StreamOK, Registered, SameFields
<1>3. QED
  BY <1>1, <1>2 DEF StreamOK, EndOK, CountOK, SameFields

(* handle_chip_segment.                                                      *)
LEMMA HandleSegmentStream ==
  ASSUME StreamInv, NEW h, Handlers = {h}, NEW k \in Keys, NEW seg \in Segment,
         handle_chip_segment(h, k, seg)
  PROVE  \A d \in Conns : StreamOK(d)'
<1>1. /\ conns[k] \in Conns \cup {None} /\ handler[h].pc = "idle"
      /\ WaitInv /\ TypeInv /\ h \in Handlers
  BY DEF StreamInv, WaitInv, TypeInv, TypeOK, ConnsOrNone, handle_chip_segment
<1>2. CASE ChipRst(k, seg)
  <2>1. handler' = handler /\ CloseSilently({conns[k]} \ {None})
    BY <1>2 DEF ChipRst
  <2>2. {conns[k]} \ {None} \in SUBSET Conns
    BY <1>1
  <2>3. QED
    BY <2>1, <2>2, CloseStream, NoneMoves
<1>3. CASE DropSynRetransmit(k, seg) \/ RefuseSegment(k, seg)
  <2>1. \A d \in Conns : Apart(d)
    BY <1>3
    DEF DropSynRetransmit, RefuseSegment, Apart, SameFields, NobodyMoves,
        fieldVars, seqVars, bufVars, otherVars, tableVars, idVars, taskVars
  <2>2. QED
    BY <2>1, StreamApart DEF StreamInv
<1>4. CASE on_passive_syn(h, k, seg)
  <2>1. PICK c \in Conns :
          /\ key[c] = None /\ key' = [key EXCEPT ![c] = k]
          /\ chip_isn' = [chip_isn EXCEPT ![c] = seg.seq]
          /\ chip_seq' = [chip_seq EXCEPT ![c] = seq_add(seg.seq, 1)]
          /\ handler' = [handler EXCEPT ![h] = At("grace", c, seg)]
    BY <1>4 DEF on_passive_syn
  <2>2. UNCHANGED <<conns, state, host, bufVars, taskVars>>
    BY <1>4 DEF on_passive_syn
  <2>3. StreamOK(c)'
    BY <1>1, <2>1, <2>2
    DEF StreamOK, WaitInv, WaitOK, Unused, Registered
  <2>4. \A d \in Conns \ {c} : NobodyMoves(d)
    <3> DEFINE x == At("grace", c, seg)
    <3>1. x.conn = c /\ handler' = [handler EXCEPT ![h] = x]
      BY <2>1 DEF At
    <3> HIDE DEF x
    <3>2. QED
      BY <1>1, <3>1, HandlerMoves
  <2>5. \A d \in Conns \ {c} : Apart(d)
    BY <1>1, <2>1, <2>2, <2>4
    DEF Apart, SameFields, bufVars, taskVars, TypeInv, TypeOK
  <2>6. QED
    BY <2>3, <2>5, StreamOne
<1>5. CASE conns[k] # None /\ ConnSegment(h, conns[k], seg)
  BY <1>1, <1>5, ConnSegmentStream DEF Registered
<1>6. CASE conns[k] # None /\ LastAck(conns[k], seg)
  <2>1. handler' = handler /\ CloseSilently({conns[k]})
    BY <1>6 DEF LastAck
  <2>2. {conns[k]} \in SUBSET Conns
    BY <1>1, <1>6
  <2>3. QED
    BY <2>1, <2>2, CloseStream, NoneMoves
<1>7. QED
  BY <1>2, <1>3, <1>4, <1>5, <1>6 DEF handle_chip_segment

(* A handler that becomes idle moves none but the one it held.               *)
LEMMA GoesIdleMoves ==
  ASSUME TypeInv, NEW h, Handlers = {h}, handler' = [handler EXCEPT ![h] = Idle]
  PROVE  /\ handler'[h].pc = "idle"
         /\ \A d \in Conns :
              handler[h].conn # d \/ handler[h].pc \in {"idle", "stopping"}
                => NobodyMoves(d)
<1>1. handler'[h].pc = "idle" /\ handler'[h].conn = None
  BY DEF TypeInv, TypeOK, Idle, At
<1>2. \A d \in Conns : d # None
  BY TcpNatAssumption
<1>3. QED
  BY <1>1, <1>2 DEF NobodyMoves

(* The answer to a SYN registers a connection that has nothing yet.          *)
LEMMA AnswerSynStream ==
  ASSUME StreamInv, NEW h, Handlers = {h}, handler[h].pc = "grace",
         NEW c \in Conns, c = handler[h].conn, AnswerSyn(h, c),
         \/ deferred' = deferred /\ host' = [host EXCEPT ![c] = "open"]
         \/ deferred' = [deferred EXCEPT ![c] = "created"] /\ host' = host
  PROVE  \A d \in Conns : StreamOK(d)'
<1>1. /\ Unused(c) /\ handler'[h].conn = c /\ handler'[h].pc = "synack"
      /\ \A d \in Conns \ {c} : Apart(d)
      /\ chip_seq[c] = seq_add(chip_isn[c], 1) /\ chip_isn[c] \in Int
  <2>1. h \in Handlers /\ WaitInv
    BY DEF StreamInv
  <2>2. chip_seq[c] = seq_add(chip_isn[c], 1) /\ chip_isn[c] \in Int
    BY <2>1, TakenIsNat DEF WaitInv, WaitOK, GraceAlone, TypeInv
  <2>3. QED
    BY <2>1, <2>2, AnswerSynAlone
<1>2. /\ ~InPayload(c)' /\ ~HandlerAt(c, {"finack"})' /\ Uncounted(c)' = 0
  BY <1>1, AtOne
<1>3. /\ state'[c] = "SYN_RCVD" /\ host'[c] \in {"none", "open"}
      /\ deferred'[c] \in {"none", "created"}
      /\ written'[c] = <<>> /\ pending_payload'[c] = <<>> /\ ~pending_eof'[c]
      /\ chip_isn' = chip_isn /\ chip_seq' = chip_seq
  BY <1>1
  DEF AnswerSyn, Unused, idVars, seqVars, bufVars, StreamInv, WaitInv, TypeInv,
      TypeOK
<1>4. EndOK(c)'
  BY <1>2, <1>3 DEF EndOK
<1>5. CountOK(c)'
  <2>1. Len(<<>>) + Len(<<>>) - 0 = 0
    OBVIOUS
  <2>2. Base(c)' = seq_add(chip_isn[c], 1 + 0)
    BY <1>2, <1>3, <2>1 DEF Base
  <2>3. QED
    BY <1>1, <1>2, <1>3, <2>2 DEF CountOK
<1>6. QED
  BY <1>1, <1>4, <1>5, StreamOne DEF StreamOK

(* The drain returned: its bytes are counted.                                *)
LEMMA DrainedStream ==
  ASSUME StreamInv, NEW h, Handlers = {h}, NEW c \in Conns,
         handler[h].conn = c, Drained(h), Registered(c)
  PROVE  EndOK(c)' /\ CountOK(c)'
<1>1. /\ TypeInv /\ EndOK(c) /\ CountOK(c) /\ h \in Handlers
      /\ handler[h].pc = "drain"
  BY DEF StreamInv, WaitInv, StreamOK, Drained, Resumes
<1> DEFINE w == Len(written[c])
           p == Len(pending_payload[c])
           l == Len(handler[h].seg.data)
<1>2. /\ InPayload(c) /\ ~HandlerAt(c, {"finack"}) /\ Uncounted(c) = l
  BY <1>1, AtOne
<1>3. /\ ~HandlerAt(c, {"finack"})' /\ Uncounted(c)' = 0
  <2>1. handler'[h].pc \in {"acked", "idle"}
    BY <1>1 DEF Drained, AfterPayload, Idle, At, TypeInv, TypeOK
  <2>2. QED
    BY <2>1, AtOne
<1>4. /\ UNCHANGED <<state, host, bufVars, chip_isn, deferred>>
      /\ chip_seq'[c] = seq_add(chip_seq[c], l)
  BY <1>1 DEF Drained, otherVars, idVars, taskVars, TypeInv, TypeOK
<1>5. EndOK(c)'
  BY <1>1, <1>2, <1>3, <1>4 DEF EndOK, bufVars
<1>6. chip_seq'[c] = Base(c)'
  <2>1. w \in Int /\ p \in Int /\ l \in Int /\ chip_isn[c] \in Int
    BY <1>1, TakenIsNat, SegTyped DEF TypeInv, TypeOK, HandlerType
  <2>2. chip_seq[c] = seq_add(chip_isn[c], 1 + (w + p - l))
    BY <1>1, <1>2 DEF CountOK, Base
  <2>3. Base(c)' = seq_add(chip_isn[c], 1 + (w + p - 0))
    BY <1>3, <1>4 DEF Base, bufVars
  <2> HIDE DEF w, p, l
  <2> DEFINE n == w + p - l
  <2>4. n \in Int /\ w + p - 0 = n + l
    BY <2>1
  <2>5. chip_seq[c] = seq_add(chip_isn[c], 1 + n)
    BY <2>2
  <2> HIDE DEF n
  <2>6. seq_add(chip_seq[c], l) = seq_add(chip_isn[c], 1 + (n + l))
    BY <2>1, <2>4, <2>5, BaseMoves
  <2>7. QED
    BY <1>4, <2>3, <2>4, <2>6
<1>7. state'[c] \in {"ESTABLISHED", "FIN_WAIT_1", "CLOSED"}
  BY <1>1, <1>2, <1>4 DEF EndOK
<1>8. CountOK(c)'
  BY <1>3, <1>6, <1>7 DEF CountOK
<1>9. QED
  BY <1>5, <1>8

(* Every later step of the handler.                                          *)
LEMMA HandlerStepStream ==
  ASSUME StreamInv, NEW h, Handlers = {h}, HandlerStep(h)
  PROVE  \A d \in Conns : StreamOK(d)'
<1>1. WaitInv /\ TypeInv /\ h \in Handlers
  BY DEF StreamInv, WaitInv
<1> PICK c : c = handler[h].conn
  OBVIOUS
<1>2. ASSUME NEW pc, pc \notin {"idle", "stopping"}, Resumes(h, pc)
      PROVE  c \in Conns /\ handler[h].pc = pc
  BY <1>1, <1>2, HeldConn DEF Resumes
<1>3. CASE GraceOpened(h)
  BY <1>2, <1>3, AnswerSynStream DEF GraceOpened
<1>4. CASE GraceOver(h)
  BY <1>2, <1>4, AnswerSynStream DEF GraceOver
<1>5. CASE GraceRefused(h)
  <2>1. c \in Conns /\ handler[h].pc = "grace"
    BY <1>2, <1>5 DEF GraceRefused
  <2>2. \A d \in Conns : SameFields(d)
    BY <1>5
    DEF GraceRefused, SameFields, idVars, fieldVars, seqVars, bufVars, taskVars
  <2>3. \A d \in Conns \ {c} : Apart(d)
    BY <1>1, <1>5, <2>2, GoesIdleMoves DEF GraceRefused, Apart
  <2>4. ~Registered(c)'
    <3>1. Unused(c)
      BY <1>1, <2>1 DEF WaitInv, WaitOK, GraceAlone
    <3>2. QED
      BY <2>1, <2>2, <3>1 DEF Unused, Registered, SameFields
  <2>5. QED
    BY <2>1, <2>3, <2>4, StreamOne DEF StreamOK
<1>6. CASE SynAnswered(h)
  <2>1. c \in Conns /\ handler[h].pc = "synack"
    BY <1>2, <1>6 DEF SynAnswered
  <2>2. \A d \in Conns \ {c} : Apart(d)
    BY <1>1, <1>6, <2>1, HandlerAlone
  <2>3. /\ UNCHANGED <<state, host, bufVars, chip_isn, chip_seq, deferred,
                       conns>>
        /\ handler'[h].pc = "idle"
    BY <1>1, <1>6, GoesIdleMoves
    DEF SynAnswered, fieldVars, seqVars, idVars, tableVars
  <2>4. /\ (InPayload(c)' <=> InPayload(c)) /\ Uncounted(c)' = Uncounted(c)
        /\ HandlerAt(c, {"finack"})' <=> HandlerAt(c, {"finack"})
    BY <2>1, <2>3, AtOne
  <2>5. StreamOK(c)'
    BY <2>1, <2>3, <2>4
    DEF StreamInv, StreamOK, EndOK, CountOK, Base, Registered, bufVars
  <2>6. QED
    BY <2>1, <2>2, <2>5, StreamOne
<1>7. CASE Drained(h)
  <2>1. c \in Conns
    BY <1>2, <1>7 DEF Drained
  <2>2. \A d \in Conns \ {c} : Apart(d)
    BY <1>1, <1>7, <2>1, HandlerAlone
  <2>3. StreamOK(c)'
    <3>1. Registered(c)' => Registered(c)
      BY <1>7 DEF Drained, Registered, otherVars, tableVars
    <3>2. QED
      BY <1>7, <2>1, <3>1, DrainedStream DEF StreamOK
  <2>4. QED
    BY <2>1, <2>2, <2>3, StreamOne
<1>8. CASE DrainFailed(h)
  <2>1. c \in Conns /\ handler[h].pc = "drain"
    BY <1>2, <1>8 DEF DrainFailed
  <2>2. \A d \in Conns \ {c} : Apart(d)
    BY <1>1, <1>8, <2>1, HandlerAlone
  <2>3. /\ UNCHANGED <<host, bufVars, deferred, conns>>
        /\ state'[c] = "CLOSED" /\ handler'[h].pc \in {"rst", "idle"}
    BY <1>1, <1>8, <2>1
    DEF DrainFailed, ResetChip, Idle, At, otherVars, taskVars, tableVars,
        TypeInv, TypeOK
  <2>4. ~InPayload(c)' /\ ~HandlerAt(c, {"finack"})'
    BY <2>1, <2>3, AtOne
  <2>5. StreamOK(c)'
    BY <2>1, <2>3, <2>4
    DEF StreamInv, StreamOK, EndOK, CountOK, Registered, bufVars
  <2>6. QED
    BY <2>1, <2>2, <2>5, StreamOne
<1>9. CASE DataAcked(h)
  <2>1. c \in Conns /\ handler[h].pc = "acked"
    BY <1>2, <1>9 DEF DataAcked
  <2>2. \A d \in Conns \ {c} : Apart(d)
    BY <1>1, <1>9, <2>1, HandlerAlone
  <2>3. /\ AcceptFin(c) /\ UNCHANGED <<deferred, chip_isn, conns>>
        /\ handler'[h].pc = "idle"
    BY <1>1, <1>9, GoesIdleMoves
    DEF DataAcked, otherVars, taskVars, idVars, tableVars
  <2>4. StreamOK(c)'
    <3> SUFFICES ASSUME Registered(c)' PROVE EndOK(c)' /\ CountOK(c)'
      BY DEF StreamOK
    <3>1. EndOK(c) /\ CountOK(c)
      BY <2>1, <2>3 DEF StreamInv, StreamOK, Registered
    <3>2. InPayload(c)
      BY <2>1, AtOne
    <3>3. /\ host[c] \in {"none", "open"} /\ ~pending_eof[c]
          /\ pending_payload[c] # <<>> => host[c] = "none"
          /\ deferred[c] = "flush" => host[c] # "none"
          /\ chip_seq[c] = Base(c)
      BY <1>1, <2>1, <3>1, <3>2 DEF EndOK, CountOK, TypeInv, TypeOK
    <3>4. QED
      BY <1>1, <2>1, <2>3, <3>3, AcceptFinStream
  <2>5. QED
    BY <2>1, <2>2, <2>4, StreamOne
<1>10. CASE FinAcked(h)
  <2>1. c \in Conns /\ {c} \in SUBSET Conns
    BY <1>2, <1>10 DEF FinAcked
  <2>2. /\ handler'[h].pc = "idle" /\ CloseSilently({c})
        /\ \A d \in Conns \ {c} : NobodyMoves(d)
    BY <1>1, <1>10, GoesIdleMoves DEF FinAcked
  <2>3. \A d \in Conns \ {c} : StreamOK(d)'
    BY <2>1, <2>2, CloseStream
  <2>4. StreamOK(c)'
    BY <2>1, <2>2, CloseStream, StreamClosed DEF StreamInv
  <2>5. QED
    BY <2>3, <2>4
<1>11. CASE HandlerReset(h)
  <2>1. c \in Conns /\ {c} \in SUBSET Conns
    BY <1>2, <1>11 DEF HandlerReset
  <2>2. /\ TearDown({c}, deferred, pump) /\ state' = state
        /\ \A d \in Conns \ {c} : NobodyMoves(d)
    BY <1>1, <1>11, GoesIdleMoves DEF HandlerReset
  <2>3. QED
    BY <2>1, <2>2, TearDownStream
<1>12. CASE shutdown(h)
  <2> DEFINE S == {d \in Conns : \E k \in Keys : conns[k] = d}
  <2>1. CloseSilently(S) /\ S \in SUBSET Conns
    BY <1>12 DEF shutdown
  <2>2. \A d \in Conns : NobodyMoves(d)
    BY <1>1, <1>12, GoesIdleMoves DEF shutdown, Resumes
  <2> HIDE DEF S
  <2>3. QED
    BY <2>1, <2>2, CloseStream
<1>13. QED
  BY <1>3, <1>4, <1>5, <1>6, <1>7, <1>8, <1>9, <1>10, <1>11, <1>12
  DEF HandlerStep

(* The deferred connect: bytes held go first, then the end that was held.    *)
LEMMA FinishAttachEnd ==
  ASSUME TypeInv, NEW c \in Conns, FinishAttach(c)
  PROVE  /\ ~pending_eof'[c] /\ deferred'[c] = "done"
         /\ host'[c] = IF host[c] \in {"closed", "eof"} THEN host[c]
                       ELSE IF pending_eof[c] THEN "eof" ELSE "open"
BY DEF FinishAttach, DeferredGoesTo, TypeInv, TypeOK

(* Every step of the deferred connect.                                       *)
LEMMA DeferredStepStream ==
  ASSUME StreamInv, NEW h, Handlers = {h}, NEW c \in Conns, DeferredStep(c)
  PROVE  \A d \in Conns : StreamOK(d)'
<1>1. WaitInv /\ TypeInv /\ h \in Handlers
  BY DEF StreamInv, WaitInv
<1>2. CASE DeferredReset(c)
  <2>1. /\ TearDown({c}, [deferred EXCEPT ![c] = "done"], pump)
        /\ {c} \in SUBSET Conns /\ state' = state /\ handler' = handler
    BY <1>2 DEF DeferredReset
  <2>2. \A d \in Conns \ {c} : [deferred EXCEPT ![c] = "done"][d] = deferred[d]
    BY <1>1 DEF TypeInv, TypeOK
  <2>3. QED
    BY <2>1, <2>2, TearDownStream, NoneMoves
<1>3. CASE ~DeferredReset(c)
  <2>1. /\ \A d \in Conns \ {c} : Apart(d)
        /\ UNCHANGED <<handler, key, chip_isn, conns, chip_seq>>
    BY <1>1, <1>3, DeferredAlone
  <2> SUFFICES ASSUME Registered(c)' PROVE EndOK(c)' /\ CountOK(c)'
    BY <2>1, StreamOne DEF StreamOK
  <2>2. EndOK(c) /\ CountOK(c)
    BY <2>1 DEF StreamInv, StreamOK, Registered
  <2>3. /\ InPayload(c)' <=> InPayload(c)
        /\ HandlerAt(c, {"finack"})' <=> HandlerAt(c, {"finack"})
        /\ Uncounted(c)' = Uncounted(c)
    BY <2>1, AtOne
  <2>4. CASE DeferredStarts(c) \/ DeferredCancelled(c)
    <3>1. /\ UNCHANGED <<state, host, bufVars>>
          /\ deferred[c] # "flush" /\ deferred'[c] # "flush"
      BY <1>1, <2>4
      DEF DeferredStarts, DeferredCancelled, DeferredAt, DeferredGoesTo,
          fieldVars, TypeInv, TypeOK
    <3>2. EndOK(c)'
      BY <2>2, <2>3, <3>1 DEF EndOK, bufVars
    <3>3. CountOK(c)'
      BY <2>1, <2>2, <2>3, <3>1 DEF CountOK, Base, bufVars
    <3>4. QED
      BY <3>2, <3>3
  <2>5. CASE DeferredFails(c) \/ FlushFailed(c)
    <3>1. /\ UNCHANGED <<host, bufVars>>
          /\ state'[c] = "CLOSED" /\ deferred'[c] # "flush"
      BY <1>1, <2>5
      DEF DeferredFails, FlushFailed, ResetChip, DeferredGoesTo, TypeInv, TypeOK
    <3>2. EndOK(c)'
      BY <2>2, <2>3, <3>1 DEF EndOK, bufVars
    <3>3. CountOK(c)'
      BY <2>1, <2>2, <2>3, <3>1 DEF CountOK, Base, bufVars
    <3>4. QED
      BY <3>2, <3>3
  <2>6. CASE DeferredAttaches(c)
    <3>1. /\ host[c] = "none" /\ state' = state
          /\ written'[c] = written[c] \o pending_payload[c]
          /\ pending_payload'[c] = <<>>
      BY <1>1, <2>6
      DEF DeferredAttaches, DialEnded, DeferredAt, WaitInv, WaitOK, WaitsWell,
          Waits, TypeInv, TypeOK
    <3>2. \/ /\ ~pending_eof'[c] /\ deferred'[c] = "done"
             /\ host'[c] = IF pending_eof[c] THEN "eof" ELSE "open"
          \/ /\ pending_eof' = pending_eof /\ deferred'[c] = "flush"
             /\ host'[c] = "open"
      <4>1. CASE pending_payload[c] = <<>>
        <5>1. FinishAttach(c)
          BY <2>6, <4>1 DEF DeferredAttaches
        <5>2. host[c] \notin {"closed", "eof"}
          BY <3>1
        <5>3. QED
          BY <1>1, <5>1, <5>2, FinishAttachEnd
      <4>2. CASE pending_payload[c] # <<>>
        <5>1. /\ host' = [host EXCEPT ![c] = "open"]
              /\ deferred' = [deferred EXCEPT ![c] = "flush"]
              /\ pending_eof' = pending_eof
          BY <2>6, <4>2 DEF DeferredAttaches, DeferredGoesTo
        <5>2. c \in DOMAIN host /\ c \in DOMAIN deferred
          BY <1>1 DEF TypeInv, TypeOK
        <5>3. QED
          BY <5>1, <5>2
      <4>3. QED
        BY <4>1, <4>2
    <3>3. EndOK(c)'
      BY <2>2, <2>3, <3>1, <3>2 DEF EndOK
    <3>4. Base(c)' = Base(c)
      <4>1. /\ written[c] \in Seq(Nat) /\ pending_payload[c] \in Seq(Nat)
            /\ Uncounted(c) \in Int
        BY <1>1, AtOne, SegTyped DEF TypeInv, TypeOK, HandlerType
      <4> DEFINE w == Len(written[c])
                 p == Len(pending_payload[c])
                 u == Uncounted(c)
      <4>2. /\ w \in Int /\ p \in Int /\ u \in Int
            /\ Len(written'[c]) = w + p /\ Len(pending_payload'[c]) = 0
        BY <3>1, <4>1
      <4>3. Base(c) = seq_add(chip_isn[c], 1 + (w + p - u))
        BY DEF Base
      <4>4. Base(c)' = seq_add(chip_isn[c], 1 + ((w + p) + 0 - u))
        BY <2>1, <2>3, <4>2 DEF Base
      <4> HIDE DEF w, p, u
      <4>5. (w + p) + 0 - u = w + p - u
        BY <4>2
      <4>6. QED
        BY <4>3, <4>4, <4>5
    <3>5. CountOK(c)'
      BY <2>1, <2>2, <2>3, <3>1, <3>4 DEF CountOK
    <3>6. QED
      BY <3>3, <3>5
  <2>7. CASE Flushed(c)
    <3>1. /\ deferred[c] = "flush"
          /\ UNCHANGED <<state, written, pending_payload>>
      BY <2>7 DEF Flushed, DeferredAt
    <3>2. /\ ~pending_eof'[c] /\ deferred'[c] = "done"
          /\ host'[c] = IF host[c] \in {"closed", "eof"} THEN host[c]
                        ELSE IF pending_eof[c] THEN "eof" ELSE "open"
      BY <1>1, <2>7, FinishAttachEnd DEF Flushed
    <3>3. EndOK(c)'
      BY <2>2, <2>3, <3>1, <3>2 DEF EndOK
    <3>4. CountOK(c)'
      BY <2>1, <2>2, <2>3, <3>1 DEF CountOK, Base
    <3>5. QED
      BY <3>3, <3>4
  <2>8. QED
    BY <1>3, <2>4, <2>5, <2>6, <2>7 DEF DeferredStep
<1>4. QED
  BY <1>2, <1>3

(* The pump: it ends the host's side of a connection, not the chip's.        *)
LEMMA PumpStepStream ==
  ASSUME StreamInv, NEW h, Handlers = {h}, NEW c \in Conns, NEW o \in Starters,
         PumpStep(c, o)
  PROVE  \A d \in Conns : StreamOK(d)'
<1>1. WaitInv /\ TypeInv /\ h \in Handlers
  BY DEF StreamInv, WaitInv
<1>2. CASE PumpReset(c, o)
  <2>1. /\ TearDown({c}, deferred, [pump EXCEPT ![c][o] = "done"])
        /\ {c} \in SUBSET Conns /\ state' = state /\ handler' = handler
    BY <1>2 DEF PumpReset
  <2>2. \A d \in Conns \ {c} : [pump EXCEPT ![c][o] = "done"][d] = pump[d]
    BY <1>1 DEF TypeInv, TypeOK
  <2>3. QED
    BY <2>1, <2>2, TearDownStream, NoneMoves
<1>3. CASE ~PumpReset(c, o)
  <2>1. /\ \A d \in Conns \ {c} : Apart(d)
        /\ UNCHANGED <<handler, key, chip_isn, conns, chip_seq, host, bufVars,
                       deferred>>
    BY <1>1, <1>3, PumpAlone
  <2>2. \/ state'[c] \in {state[c], "CLOSED"}
        \/ state[c] = "ESTABLISHED" /\ state'[c] = "FIN_WAIT_1"
        \/ state[c] = "CLOSE_WAIT" /\ state'[c] = "LAST_ACK"
    BY <1>1, <1>3
    DEF PumpStep, PumpStarts, PumpSent, PumpEof, PumpFinSent, PumpRaises,
        PumpReads, ResetChip, Carries, TypeInv, TypeOK
  <2> SUFFICES ASSUME Registered(c)' PROVE EndOK(c)' /\ CountOK(c)'
    BY <2>1, StreamOne DEF StreamOK
  <2>3. EndOK(c) /\ CountOK(c)
    BY <2>1 DEF StreamInv, StreamOK, Registered
  <2>4. /\ InPayload(c)' <=> InPayload(c)
        /\ HandlerAt(c, {"finack"})' <=> HandlerAt(c, {"finack"})
        /\ Uncounted(c)' = Uncounted(c)
    BY <2>1, AtOne
  <2>5. EndOK(c)'
    BY <2>1, <2>2, <2>3, <2>4 DEF EndOK, bufVars
  <2>6. Base(c)' = Base(c)
    BY <2>1, <2>4 DEF Base, bufVars
  <2>7. CountOK(c)'
    BY <2>1, <2>2, <2>3, <2>4, <2>6 DEF CountOK, EndOK
  <2>8. QED
    BY <2>5, <2>7
<1>4. QED
  BY <1>2, <1>3

(* A new bridge, and every step of the NAT.                                  *)
LEMMA InitStream == Init => \A d \in Conns : StreamOK(d)
BY TcpNatAssumption DEF Init, StreamOK, Registered

(* Every step of the NAT keeps it.                                           *)
LEMMA NextStream == OneHandler /\ StreamInv /\ [Next]_vars => StreamInv'
<1> SUFFICES ASSUME OneHandler, StreamInv, [Next]_vars PROVE StreamInv'
  OBVIOUS
<1> PICK h : Handlers = {h}
  BY DEF OneHandler
<1> DEFINE Kept == \A d \in Conns : StreamOK(d)'
<1>0. TypeInv /\ h \in Handlers
  BY DEF StreamInv, WaitInv
<1>1. ASSUME NEW k \in Keys, NEW seg \in Segments,
             handle_chip_segment(h, k, seg)
      PROVE  Kept
  BY <1>1, HandleSegmentStream, TcpNatAssumption
<1>2. ASSUME stop(h) PROVE Kept
  <2>1. \A d \in Conns : NobodyMoves(d)
    <3> DEFINE x == At("stopping", None, NoSegment)
    <3>1. x.conn = None /\ handler' = [handler EXCEPT ![h] = x]
      BY <1>2 DEF stop, At
    <3> HIDE DEF x
    <3>2. /\ handler'[h] = x /\ handler[h].pc = "idle"
      BY <1>0, <1>2, <3>1 DEF stop, Resumes, TypeInv, TypeOK
    <3>3. QED
      BY <3>1, <3>2, TcpNatAssumption DEF NobodyMoves
  <2>2. \A d \in Conns : Apart(d)
    BY <1>2, <2>1
    DEF stop, Apart, SameFields, tableVars, idVars, fieldVars, seqVars,
        bufVars, taskVars
  <2>3. QED
    BY <2>2, StreamApart DEF StreamInv
<1>3. ASSUME HandlerStep(h) PROVE Kept
  BY <1>3, HandlerStepStream
<1>4. ASSUME NEW c \in Conns, DialStep(c) PROVE Kept
  <2>1. Dials(c)
    BY <1>4 DEF DialStep, HostAnswers, HostRefuses, AttemptTimesOut
  <2>2. \A d \in Conns : Apart(d)
    BY <2>1
    DEF Dials, Apart, SameFields, NobodyMoves, tableVars, idVars, fieldVars,
        seqVars, bufVars, taskVars
  <2>3. QED
    BY <2>2, StreamApart DEF StreamInv
<1>5. ASSUME NEW c \in Conns, DeferredStep(c) PROVE Kept
  BY <1>5, DeferredStepStream
<1>6. ASSUME NEW c \in Conns, NEW o \in Starters, PumpStep(c, o) PROVE Kept
  BY <1>6, PumpStepStream
<1>7. ASSUME UNCHANGED vars PROVE Kept
  <2>1. \A d \in Conns : Apart(d)
    BY <1>7
    DEF vars, Apart, SameFields, NobodyMoves, fieldVars, otherVars, tableVars,
        idVars, seqVars, bufVars, taskVars
  <2>2. QED
    BY <2>1, StreamApart DEF StreamInv
<1> HIDE DEF Kept
<1>8. Kept
  BY <1>1, <1>2, <1>3, <1>4, <1>5, <1>6, <1>7 DEF Next, TaskStep
<1>9. WaitInv'
  BY NextWaits DEF StreamInv
<1>10. QED
  BY <1>8, <1>9 DEF StreamInv, Kept

(* The invariant holds for one handler.                                      *)
LEMMA StreamInvariance == ASSUME OneHandler PROVE Spec => []StreamInv
<1>1. Init => StreamInv
  BY InitTyped, InitWaits, InitStream DEF StreamInv, WaitInv
<1>2. StreamInv /\ [Next]_vars => StreamInv'
  BY NextStream
<1>3. QED
  BY <1>1, <1>2, PTL DEF Spec

(* With one handler, for every modulus, every set of segments and any number *)
(* of connections: the next byte expected of the chip is the first that was  *)
(* neither given to the host socket nor held for it (tcp_nat.py:399-432).    *)
THEOREM EveryByteCounted ==
  ASSUME OneHandler PROVE Spec => []ByteAccounting
<1>1. StreamInv => ByteAccounting
  <2> SUFFICES ASSUME StreamInv, NEW c \in Conns,
                      Registered(c), state[c] # "CLOSED"
               PROVE  /\ chip_seq[c] \in {Base(c), seq_add(Base(c), 1)}
                      /\ state[c] \in {"SYN_RCVD", "ESTABLISHED"} =>
                           chip_seq[c] = Base(c)
                      /\ state[c] \in {"CLOSE_WAIT", "LAST_ACK"} =>
                           chip_seq[c] = seq_add(Base(c), 1)
    BY DEF ByteAccounting, Base
  <2>1. CountOK(c) /\ state[c] \in States
    BY DEF StreamInv, StreamOK, WaitInv, TypeInv, TypeOK
  <2>2. QED
    BY <2>1 DEF CountOK, States
<1>2. QED
  BY <1>1, StreamInvariance, PTL

(* The chip's end of stream is passed on exactly when its FIN was taken, or  *)
(* owed to a socket that is not ready (tcp_nat.py:404-407, 421-432, 324-339).*)
THEOREM EndIsPassedOn == ASSUME OneHandler PROVE Spec => []HalfClose
<1>1. StreamInv => HalfClose
  BY DEF StreamInv, StreamOK, EndOK, HalfClose
<1>2. QED
  BY <1>1, StreamInvariance, PTL

(* A segment writes to a host socket only while it takes bytes.              *)
LEMMA PayloadWrites ==
  ASSUME StreamInv, NEW h, Handlers = {h}, NEW c \in Conns, Registered(c),
         NEW seg, OnPayload(h, c, seg),
         state[c] \in {"SYN_RCVD", "ESTABLISHED"}
  PROVE  \A d \in Conns : host[d] \in {"eof", "closed"} =>
           written'[d] = written[d]
<1>1. host[c] \notin {"eof", "closed"}
  BY DEF StreamInv, StreamOK, EndOK
<1>2. \A d \in Conns \ {c} : written'[d] = written[d]
  BY DEF OnPayload, bufVars, StreamInv, WaitInv, TypeInv, TypeOK
<1>3. QED
  BY <1>1, <1>2

(* What writes to a host socket is a payload and the deferred connect.       *)
LEMMA NextWrites ==
  ASSUME StreamInv, OneHandler, [Next]_vars
  PROVE  \A d \in Conns : host[d] \in {"eof", "closed"} =>
           written'[d] = written[d]
<1> PICK h : Handlers = {h}
  BY DEF OneHandler
<1> DEFINE Kept == \A d \in Conns : host[d] \in {"eof", "closed"} =>
                     written'[d] = written[d]
<1>1. ASSUME NEW k \in Keys, NEW seg \in Segments,
             handle_chip_segment(h, k, seg)
      PROVE  Kept
  <2>1. CASE conns[k] # None /\ ConnSegment(h, conns[k], seg)
    <3>1. conns[k] \in Conns /\ Registered(conns[k])
      BY <2>1 DEF StreamInv, WaitInv, TypeInv, TypeOK, ConnsOrNone, Registered
    <3>2. \/ written' = written
          \/ /\ OnPayload(h, conns[k], seg)
             /\ state[conns[k]] \in {"SYN_RCVD", "ESTABLISHED"}
      BY <2>1
      DEF ConnSegment, on_handshake_complete, on_data, on_fin_wait, AcceptFin,
          Ignore, fieldVars, bufVars
    <3>3. QED
      BY <3>1, <3>2, PayloadWrites
  <2>2. CASE ~(conns[k] # None /\ ConnSegment(h, conns[k], seg))
    <3>1. written' = written
      BY <1>1, <2>2
      DEF handle_chip_segment, ChipRst, DropSynRetransmit, RefuseSegment,
          on_passive_syn, LastAck, CloseSilently, TearDown, fieldVars, bufVars
    <3>2. QED
      BY <3>1
  <2>3. QED
    BY <2>1, <2>2
<1>2. ASSUME HandlerStep(h) \/ stop(h) PROVE Kept
  <2>1. written' = written
    BY <1>2
    DEF HandlerStep, GraceOpened, GraceRefused, GraceOver, AnswerSyn,
        SynAnswered, Drained, DrainFailed, DataAcked, AcceptFin, FinAcked,
        HandlerReset, shutdown, stop, CloseSilently, TearDown, fieldVars,
        bufVars
  <2>2. QED
    BY <2>1
<1>3. ASSUME NEW c \in Conns, DialStep(c) \/ DeferredStep(c) PROVE Kept
  <2>1. CASE DeferredAttaches(c)
    <3>1. host[c] = "none"
      BY <2>1
      DEF DeferredAttaches, DialEnded, DeferredAt, StreamInv, WaitInv, WaitOK,
          WaitsWell, Waits
    <3>2. \A d \in Conns \ {c} : written'[d] = written[d]
      BY <2>1 DEF DeferredAttaches, StreamInv, WaitInv, TypeInv, TypeOK
    <3>3. QED
      BY <3>1, <3>2
  <2>2. CASE ~DeferredAttaches(c)
    <3>1. written' = written
      BY <1>3, <2>2
      DEF DialStep, HostAnswers, HostRefuses, AttemptTimesOut, Dials,
          DeferredStep, DeferredStarts, DeferredCancelled, DeferredFails,
          Flushed, FlushFailed, DeferredReset, TearDown, fieldVars, bufVars
    <3>2. QED
      BY <3>1
  <2>3. QED
    BY <2>1, <2>2
<1>4. ASSUME NEW c \in Conns, NEW o \in Starters, PumpStep(c, o) PROVE Kept
  <2>1. written' = written
    BY <1>4
    DEF PumpStep, PumpStarts, PumpSent, PumpEof, PumpFinSent, PumpRaises,
        PumpReset, PumpReads, NextRound, PumpGoesTo, TearDown, bufVars
  <2>2. QED
    BY <2>1
<1>5. ASSUME UNCHANGED vars PROVE Kept
  BY <1>5 DEF vars, fieldVars, bufVars
<1> HIDE DEF Kept
<1>6. Kept
  BY <1>1, <1>2, <1>3, <1>4, <1>5 DEF Next, TaskStep
<1>7. QED
  BY <1>6 DEF Kept

(* Nothing is written to a host socket after its end of stream or its close, *)
(* not by a drain, nor by a connect that ends late (tcp_nat.py:404-432).     *)
THEOREM EndIsLast == ASSUME OneHandler PROVE Spec => NoWriteAfterEof
<1>1. StreamInv /\ [Next]_vars =>
        [\A c \in Conns :
           host[c] \in {"eof", "closed"} => written'[c] = written[c]]_vars
  BY NextWrites
<1>2. QED
  BY <1>1, StreamInvariance, PTL DEF Spec, NoWriteAfterEof

-----------------------------------------------------------------------------
(* When a second pump may be started.  If a send to the chip does not        *)
(* suspend, the handler that answered a SYN goes on at once, before a        *)
(* deferred connect can attach the socket: each pump belongs to a connection *)
(* of its own kind.  If it does, the deferred connect is done by the time    *)
(* the handler looks, unless it flushes bytes that another handler took.     *)

(* A handler has answered the SYN of c and has not gone on.                  *)
SynackAt(c) ==
    \E h \in Handlers : handler[h].pc = "synack" /\ handler[h].conn = c

Busy(c, o) == pump[c][o] \notin {"none", "done"}

AtMostOne == \A h, g \in Handlers : h = g

PumpOK(c) ==
    /\ Busy(c, "deferred") => deferred[c] = "done"
    /\ "chip" \notin Slow =>
         /\ Busy(c, "syn") => deferred[c] = "none"
         /\ SynackAt(c) => deferred[c] = "none" \/ host[c] = "none"
    /\ AtMostOne =>
         /\ Busy(c, "syn") => deferred[c] # "flush"
         /\ SynackAt(c) => deferred[c] # "flush" /\ pending_payload[c] = <<>>

PumpInv == WaitInv /\ \A c \in Conns : PumpOK(c)

(* What keeps the pumps of d in order.                                       *)
PumpSame(d) ==
    /\ pump'[d] = pump[d] /\ deferred'[d] = deferred[d]
    /\ host[d] = "none" => host'[d] = "none"
    /\ SynackAt(d)' => SynackAt(d)
    /\ AtMostOne /\ SynackAt(d)' => pending_payload'[d] = pending_payload[d]

(* A connection of which these stay keeps its pumps in order.                *)
LEMMA PumpStays ==
  ASSUME NEW d \in Conns, PumpOK(d), PumpSame(d)
  PROVE  PumpOK(d)'
BY DEF PumpOK, PumpSame, Busy

(* A handler that goes anywhere but to an answered SYN answers none.         *)
LEMMA NoNewSynack ==
  ASSUME TypeInv, NEW h \in Handlers, NEW x, x.pc # "synack",
         handler' = [handler EXCEPT ![h] = x]
  PROVE  \A d : SynackAt(d)' => SynackAt(d)
<1>1. /\ handler'[h] = x
      /\ \A g \in Handlers \ {h} : handler'[g] = handler[g]
  BY DEF TypeInv, TypeOK
<1>2. QED
  BY <1>1 DEF SynackAt

(* Nor does a step that leaves the handlers alone.                           *)
LEMMA SameSynack == handler' = handler => \A d : SynackAt(d)' <=> SynackAt(d)
BY DEF SynackAt

(* What no holder of d moves, leaves d's answered SYN.                       *)
LEMMA ApartSynack ==
  ASSUME NEW d, NobodyMoves(d)
  PROVE  SynackAt(d)' <=> SynackAt(d)
BY DEF NobodyMoves, SynackAt

(* Attaching without a socket is not for a connection torn down: a task that *)
(* was never made is not cancelled.                                          *)
LEMMA TearDownPump ==
  ASSUME PumpInv, NEW S \in SUBSET Conns, NEW d, NEW p, TearDown(S, d, p),
         \A c \in Conns :
           d[c] = deferred[c] \/ (deferred[c] # "none" /\ d[c] = "done"),
         \A c \in Conns, o \in Starters :
           p[c][o] \in {pump[c][o], "done"},
         \A c : SynackAt(c)' => SynackAt(c)
  PROVE  \A c \in Conns : PumpOK(c)'
<1> SUFFICES ASSUME NEW c \in Conns PROVE PumpOK(c)'
  OBVIOUS
<1>1. PumpOK(c) /\ "syn" \in Starters /\ "deferred" \in Starters
  BY DEF PumpInv, Starters
<1>2. /\ deferred'[c] = "none" <=> deferred[c] = "none"
      /\ deferred[c] = "done" => deferred'[c] = "done"
      /\ deferred'[c] = "flush" => deferred[c] = "flush"
      /\ pending_payload' = pending_payload
  BY DEF TearDown, Cancelled, bufVars
<1>3. host[c] = "none" => host'[c] = "none"
  BY DEF TearDown, HostAfterClose
<1>4. \A o \in Starters : pump'[c][o] \in {pump[c][o], "done"}
  BY DEF TearDown
<1>5. \A o \in Starters : Busy(c, o)' => Busy(c, o)
  BY <1>4 DEF Busy
<1>6. QED
  BY <1>1, <1>2, <1>3, <1>5 DEF PumpOK

(* So it is with a close that sends nothing.                                 *)
LEMMA ClosePump ==
  ASSUME PumpInv, NEW S \in SUBSET Conns, CloseSilently(S),
         \A c : SynackAt(c)' => SynackAt(c)
  PROVE  \A c \in Conns : PumpOK(c)'
<1> DEFINE open == {c \in S : state[c] # "CLOSED"}
<1>1. TearDown(open, deferred, pump) /\ open \in SUBSET Conns
  BY DEF CloseSilently
<1> HIDE DEF open
<1>2. QED
  BY <1>1, TearDownPump

(* A step that touches no task, and attaches no socket, keeps all in order.  *)
LEMMA PumpsKept ==
  ASSUME PumpInv, UNCHANGED <<deferred, pump>>,
         \A d \in Conns : host[d] = "none" => host'[d] = "none",
         \A d : SynackAt(d)' => SynackAt(d),
         \A d \in Conns : AtMostOne /\ SynackAt(d)' =>
           pending_payload'[d] = pending_payload[d]
  PROVE  \A d \in Conns : PumpOK(d)'
BY PumpStays DEF PumpSame, PumpInv

(* The segment of a connection takes its handler to no answered SYN.         *)
LEMMA ConnSegmentMoves ==
  ASSUME NEW h \in Handlers, NEW c, NEW seg, ConnSegment(h, c, seg)
  PROVE  Moves(h)
<1>1. OnPayload(h, c, seg) => Moves(h)
  BY DEF OnPayload, AfterPayload, Idle, Moves
<1>2. Ignore => Moves(h)
  BY DEF Ignore, Moves
<1>3. on_handshake_complete(h, c, seg) => Moves(h)
  BY <1>1, <1>2 DEF on_handshake_complete, Moves
<1>4. on_data(h, c, seg) => Moves(h)
  BY <1>1, <1>2 DEF on_data, Moves
<1>5. on_fin_wait(h, c, seg) => Moves(h)
  BY DEF on_fin_wait, Moves
<1>6. QED
  BY <1>2, <1>3, <1>4, <1>5 DEF ConnSegment

(* So no new SYN is answered.                                                *)
LEMMA ConnSegmentSynack ==
  ASSUME TypeInv, NEW h \in Handlers, NEW c, NEW seg, ConnSegment(h, c, seg)
  PROVE  \A d : SynackAt(d)' => SynackAt(d)
<1>1. Moves(h)
  BY ConnSegmentMoves
<1>2. CASE handler' = handler
  BY <1>2, SameSynack
<1>3. CASE \E pc \in {"idle", "acked", "drain", "finack"} : \E d, s :
             handler' = [handler EXCEPT ![h] = At(pc, d, s)]
  BY <1>3, NoNewSynack DEF At
<1>4. QED
  BY <1>1, <1>2, <1>3 DEF Moves

(* handle_chip_segment starts no pump and attaches no socket.                *)
LEMMA HandleSegmentPump ==
  ASSUME PumpInv, NEW h \in Handlers, NEW k \in Keys, NEW seg \in Segment,
         handle_chip_segment(h, k, seg)
  PROVE  \A d \in Conns : PumpOK(d)'
<1>1. /\ conns[k] \in Conns \cup {None} /\ handler[h].pc = "idle"
      /\ WaitInv /\ TypeInv
  BY DEF PumpInv, WaitInv, TypeInv, TypeOK, ConnsOrNone, handle_chip_segment
<1>2. CASE ChipRst(k, seg)
  BY <1>1, <1>2, ClosePump, SameSynack DEF ChipRst
<1>3. CASE DropSynRetransmit(k, seg) \/ RefuseSegment(k, seg)
  BY <1>3, PumpsKept, SameSynack
  DEF DropSynRetransmit, RefuseSegment, fieldVars, bufVars, otherVars, taskVars
<1>4. CASE on_passive_syn(h, k, seg)
  <2>1. PICK c : handler' = [handler EXCEPT ![h] = At("grace", c, seg)]
    BY <1>4 DEF on_passive_syn
  <2>2. \A d : SynackAt(d)' => SynackAt(d)
    BY <1>1, <2>1, NoNewSynack DEF At
  <2>3. QED
    BY <1>4, <2>2, PumpsKept DEF on_passive_syn, bufVars, taskVars
<1>5. CASE conns[k] # None /\ ConnSegment(h, conns[k], seg)
  <2>1. conns[k] \in Conns /\ Registered(conns[k])
    BY <1>1, <1>5 DEF Registered
  <2>2. FieldsOf(conns[k])
    BY <1>1, <1>5, <2>1, ConnSegmentAlone
  <2>3. \A d \in Conns : host[d] = "none" => host'[d] = "none"
    BY <2>1, <2>2 DEF FieldsOf
  <2>4. \A d : SynackAt(d)' => SynackAt(d)
    BY <1>1, <1>5, ConnSegmentSynack
  <2>5. AtMostOne => \A d : ~SynackAt(d)
    BY <1>1 DEF AtMostOne, SynackAt
  <2>6. QED
    BY <1>5, <2>3, <2>4, <2>5, PumpsKept DEF ConnSegment, otherVars, taskVars
<1>6. CASE conns[k] # None /\ LastAck(conns[k], seg)
  BY <1>1, <1>6, ClosePump, SameSynack DEF LastAck
<1>7. QED
  BY <1>2, <1>3, <1>4, <1>5, <1>6 DEF handle_chip_segment

(* The other connections, of a step that acts on c alone.                    *)
LEMMA PumpOne ==
  ASSUME PumpInv, NEW c \in Conns, PumpOK(c)',
         \A d \in Conns \ {c} : Apart(d)
  PROVE  \A d \in Conns : PumpOK(d)'
<1> SUFFICES ASSUME NEW d \in Conns \ {c} PROVE PumpOK(d)'
  OBVIOUS
<1>1. PumpSame(d)
  BY ApartSynack DEF PumpSame, Apart, SameFields
<1>2. QED
  BY <1>1, PumpStays DEF PumpInv

(* At the answer to a SYN there is a socket, or a task to attach it.         *)
LEMMA AnswerSynPump ==
  ASSUME PumpInv, NEW h \in Handlers, handler[h].pc = "grace",
         NEW c \in Conns, c = handler[h].conn, AnswerSyn(h, c),
         \/ deferred' = deferred /\ host' = [host EXCEPT ![c] = "open"]
         \/ deferred' = [deferred EXCEPT ![c] = "created"] /\ host' = host
  PROVE  \A d \in Conns : PumpOK(d)'
<1>1. Unused(c) /\ \A d \in Conns \ {c} : Apart(d)
  BY AnswerSynAlone DEF PumpInv
<1>2. pump' = pump /\ pending_payload' = pending_payload
  BY DEF AnswerSyn, bufVars
<1>3. /\ deferred'[c] = "none" \/ host'[c] = "none"
      /\ deferred'[c] \in {"none", "created"}
  BY <1>1 DEF Unused, PumpInv, WaitInv, TypeInv, TypeOK
<1>4. PumpOK(c)'
  BY <1>1, <1>2, <1>3 DEF PumpOK, Busy, Unused, Starters
<1>5. QED
  BY <1>1, <1>2, <1>4, PumpOne

(* Every later step of a handler keeps the pumps in order.                   *)
LEMMA HandlerStepPump ==
  ASSUME PumpInv, NEW h \in Handlers, HandlerStep(h)
  PROVE  \A d \in Conns : PumpOK(d)'
<1> PICK c : c = handler[h].conn
  OBVIOUS
<1>1. ASSUME NEW pc, pc \notin {"idle", "stopping"}, Resumes(h, pc)
      PROVE  c \in Conns /\ handler[h].pc = pc
  BY <1>1, HeldConn DEF PumpInv, WaitInv, Resumes
<1>2. ASSUME handler' = [handler EXCEPT ![h] = Idle]
      PROVE  \A d : SynackAt(d)' => SynackAt(d)
  BY <1>2, NoNewSynack DEF PumpInv, WaitInv, Idle, At
<1>3. CASE GraceOpened(h)
  BY <1>1, <1>3, AnswerSynPump DEF GraceOpened
<1>4. CASE GraceOver(h)
  BY <1>1, <1>4, AnswerSynPump DEF GraceOver
<1>5. CASE GraceRefused(h)
  BY <1>2, <1>5, PumpsKept DEF GraceRefused, fieldVars, bufVars, taskVars
<1>6. CASE FinAcked(h)
  <2>1. {c} \in SUBSET Conns
    BY <1>1, <1>6 DEF FinAcked
  <2>2. QED
    BY <1>2, <1>6, <2>1, ClosePump DEF FinAcked
<1>7. CASE shutdown(h)
  BY <1>2, <1>7, ClosePump DEF shutdown
<1>8. CASE SynAnswered(h)
  <2>1. c \in Conns /\ SynackAt(c)
    BY <1>1, <1>8 DEF SynAnswered, SynackAt
  <2>2. /\ \A d \in Conns \ {c} : Apart(d)
        /\ UNCHANGED <<deferred, host, pending_payload>>
        /\ \A d : SynackAt(d)' => SynackAt(d)
    BY <1>2, <1>8, <2>1, HandlerAlone
    DEF SynAnswered, fieldVars, bufVars, PumpInv
  <2>3. CASE Attached(c)
    <3>1. StartPump(c, "syn") /\ "syn" \in Starters /\ "deferred" \in Starters
      BY <1>8, <2>3 DEF SynAnswered, Starters
    <3>2. /\ pump'[c]["syn"] = "hs"
          /\ pump'[c]["deferred"] = pump[c]["deferred"]
      BY <2>1, <3>1 DEF StartPump, PumpInv, WaitInv, TypeInv, TypeOK
    <3>3. /\ "chip" \notin Slow => deferred[c] = "none"
          /\ AtMostOne => deferred[c] # "flush"
      BY <2>1, <2>3 DEF PumpInv, PumpOK, Attached
    <3>4. PumpOK(c)'
      BY <2>1, <2>2, <3>2, <3>3 DEF PumpInv, PumpOK, Busy
    <3>5. QED
      BY <2>1, <2>2, <3>4, PumpOne
  <2>4. CASE ~Attached(c)
    BY <1>8, <2>2, <2>4, PumpsKept DEF SynAnswered
  <2>5. QED
    BY <2>3, <2>4
<1>9. CASE Drained(h) \/ DrainFailed(h) \/ DataAcked(h)
  <2>1. c \in Conns
    BY <1>1, <1>9 DEF Drained, DrainFailed, DataAcked
  <2>2. \A d : SynackAt(d)' => SynackAt(d)
    BY <1>9, NoNewSynack
    DEF Drained, DrainFailed, DataAcked, AfterPayload, PumpInv, WaitInv, Idle,
        At
  <2>3. \A d \in Conns : host[d] = "none" => host'[d] = "none"
    <3>1. DataAcked(h) => FieldsOf(c)
      BY <2>1, AcceptFinFields DEF DataAcked, PumpInv, WaitInv
    <3>2. QED
      BY <1>9, <2>1, <3>1 DEF Drained, DrainFailed, FieldsOf
  <2>4. pending_payload' = pending_payload
    BY <1>9 DEF Drained, DrainFailed, DataAcked, AcceptFin, bufVars
  <2>5. QED
    BY <1>9, <2>2, <2>3, <2>4, PumpsKept
    DEF Drained, DrainFailed, DataAcked, otherVars, taskVars
<1>10. CASE HandlerReset(h)
  <2>1. {c} \in SUBSET Conns
    BY <1>1, <1>10 DEF HandlerReset
  <2>2. QED
    BY <1>2, <1>10, <2>1, TearDownPump DEF HandlerReset
<1>11. QED
  BY <1>3, <1>4, <1>5, <1>6, <1>7, <1>8, <1>9, <1>10 DEF HandlerStep

(* A deferred connect that attaches its socket runs while no handler stands  *)
(* at an answered SYN: that one would have gone on first.                    *)
LEMMA NoSynackNow ==
  ASSUME "chip" \notin Slow, NEW c \in Conns, Turn(<<"deferred", c>>)
  PROVE  \A d : ~SynackAt(d)
<1> SUFFICES ASSUME NEW h \in Handlers, handler[h].pc = "synack" PROVE FALSE
  BY DEF SynackAt
<1>1. MustGoOn("synack")
  BY DEF MustGoOn
<1>2. <<"handler", h>> \in Urgent
  BY <1>1 DEF Urgent
<1>3. <<"handler", h>> # <<"deferred", c>>
  OBVIOUS
<1>4. QED
  BY <1>2, <1>3 DEF Turn

(* The deferred connect that is done may start its pump.                     *)
LEMMA FinishAttachPump ==
  ASSUME PumpInv, NEW c \in Conns, FinishAttach(c), deferred[c] # "none",
         "chip" \notin Slow => ~SynackAt(c)',
         AtMostOne /\ SynackAt(c)' => pending_payload'[c] = <<>>
  PROVE  PumpOK(c)'
<1>1. StartPump(c, "deferred") /\ "syn" \in Starters /\ "deferred" \in Starters
  BY DEF FinishAttach, Starters
<1>2. /\ pump'[c]["deferred"] = "hs" /\ pump'[c]["syn"] = pump[c]["syn"]
  BY <1>1 DEF StartPump, PumpInv, WaitInv, TypeInv, TypeOK
<1>3. deferred'[c] = "done" /\ ("chip" \notin Slow => ~Busy(c, "syn"))
  BY DEF FinishAttach, DeferredGoesTo, PumpInv, PumpOK, WaitInv, TypeInv, TypeOK
<1>4. QED
  BY <1>2, <1>3 DEF PumpOK, Busy

(* Every step of _finish_deferred_connect keeps the pumps in order.          *)
LEMMA DeferredStepPump ==
  ASSUME PumpInv, NEW c \in Conns, DeferredStep(c)
  PROVE  \A d \in Conns : PumpOK(d)'
<1>1. CASE DeferredReset(c)
  <2> DEFINE z == [deferred EXCEPT ![c] = "done"]
  <2>1. TearDown({c}, z, pump) /\ {c} \in SUBSET Conns /\ handler' = handler
    BY <1>1 DEF DeferredReset
  <2>2. \A d \in Conns :
          z[d] = deferred[d] \/ (deferred[d] # "none" /\ z[d] = "done")
    BY <1>1 DEF DeferredReset, DeferredAt, PumpInv, WaitInv, TypeInv, TypeOK
  <2> HIDE DEF z
  <2>3. QED
    BY <2>1, <2>2, TearDownPump, SameSynack
<1>2. CASE ~DeferredReset(c)
  <2>1. /\ \A d \in Conns \ {c} : Apart(d)
        /\ handler' = handler
    BY <1>2, DeferredAlone DEF PumpInv
  <2>2. PumpOK(c)'
    <3>1. CASE DeferredAttaches(c)
      <4>1. deferred[c] # "none" /\ Turn(<<"deferred", c>>)
        BY <3>1 DEF DeferredAttaches, DialEnded, DeferredAt
      <4>2. "chip" \notin Slow => ~SynackAt(c)'
        BY <2>1, <4>1, NoSynackNow, SameSynack
      <4>3. CASE FinishAttach(c)
        <5>1. pending_payload'[c] = <<>>
          BY <3>1 DEF DeferredAttaches, PumpInv, WaitInv, TypeInv, TypeOK
        <5>2. QED
          BY <4>1, <4>2, <4>3, <5>1, FinishAttachPump
      <4>4. CASE ~FinishAttach(c)
        <5>1. /\ DeferredGoesTo(c, "flush") /\ UNCHANGED pump
              /\ pending_payload[c] # <<>>
          BY <3>1, <4>4 DEF DeferredAttaches
        <5>2. deferred'[c] = "flush"
          BY <5>1 DEF DeferredGoesTo, PumpInv, WaitInv, TypeInv, TypeOK
        <5>3. \A o \in Starters : pump[c][o] = "none"
          BY <3>1
          DEF DeferredAttaches, DialEnded, DeferredAt, Waits, WaitsWell,
              WaitOK, WaitInv, PumpInv
        <5>4. AtMostOne => ~SynackAt(c)'
          BY <2>1, <5>1, SameSynack DEF PumpInv, PumpOK
        <5>5. ~Busy(c, "syn")' /\ ~Busy(c, "deferred")'
          BY <5>1, <5>3 DEF Busy, Starters
        <5>6. QED
          BY <4>2, <5>2, <5>4, <5>5 DEF PumpOK
      <4>5. QED
        BY <4>3, <4>4
    <3>2. CASE Flushed(c)
      <4>1. deferred[c] # "none" /\ Turn(<<"deferred", c>>) /\ FinishAttach(c)
        BY <3>2 DEF Flushed, DeferredAt
      <4>2. "chip" \notin Slow => ~SynackAt(c)'
        BY <2>1, <4>1, NoSynackNow, SameSynack
      <4>3. AtMostOne => ~SynackAt(c)'
        BY <2>1, <3>2, SameSynack DEF Flushed, DeferredAt, PumpInv, PumpOK
      <4>4. QED
        BY <4>1, <4>2, <4>3, FinishAttachPump
    <3>3. CASE DeferredStarts(c) \/ DeferredCancelled(c) \/ DeferredFails(c)
                 \/ FlushFailed(c)
      <4>1. UNCHANGED <<pump, host, pending_payload>>
        BY <3>3
        DEF DeferredStarts, DeferredCancelled, DeferredFails, FlushFailed,
            fieldVars, bufVars
      <4>2. /\ deferred[c] \notin {"none", "done"}
            /\ deferred'[c] \notin {"none", "flush"}
        BY <3>3
        DEF DeferredStarts, DeferredCancelled, DeferredFails, FlushFailed,
            DialEnded, DeferredAt, DeferredGoesTo, PumpInv, WaitInv, TypeInv,
            TypeOK
      <4>3. QED
        BY <2>1, <4>1, <4>2, SameSynack DEF PumpInv, PumpOK, Busy
    <3>4. QED
      BY <1>2, <3>1, <3>2, <3>3 DEF DeferredStep
  <2>3. QED
    BY <2>1, <2>2, PumpOne
<1>3. QED
  BY <1>1, <1>2

(* Every step of a pump does.                                                *)
LEMMA PumpStepPump ==
  ASSUME PumpInv, NEW c \in Conns, NEW o \in Starters, PumpStep(c, o)
  PROVE  \A d \in Conns : PumpOK(d)'
<1>1. CASE PumpReset(c, o)
  <2> DEFINE z == [pump EXCEPT ![c][o] = "done"]
  <2>1. TearDown({c}, deferred, z) /\ {c} \in SUBSET Conns /\ handler' = handler
    BY <1>1 DEF PumpReset
  <2>2. \A d \in Conns, i \in Starters : z[d][i] \in {pump[d][i], "done"}
    BY DEF PumpInv, WaitInv, TypeInv, TypeOK
  <2> HIDE DEF z
  <2>3. QED
    BY <2>1, <2>2, TearDownPump, SameSynack
<1>2. CASE ~PumpReset(c, o)
  <2>1. PICK pc \in PumpPcs : PumpGoesTo(c, o, pc)
    BY <1>2
    DEF PumpStep, PumpStarts, PumpSent, PumpEof, PumpFinSent, PumpRaises,
        PumpReads, NextRound, PumpPcs
  <2>2. Busy(c, o)
    BY <1>2
    DEF PumpStep, PumpStarts, PumpSent, PumpEof, PumpFinSent, PumpRaises,
        PumpReads, PumpAt, Busy
  <2>3. /\ \A d \in Conns \ {c} : Apart(d)
        /\ UNCHANGED <<handler, host, deferred, pending_payload>>
    BY <1>2, <2>1, PumpAlone DEF PumpInv, PumpGoesTo, bufVars
  <2>4. \A i \in Starters : Busy(c, i)' => Busy(c, i)
    BY <2>1, <2>2 DEF PumpGoesTo, Busy, PumpInv, WaitInv, TypeInv, TypeOK
  <2>5. PumpOK(c)'
    <3>1. /\ Busy(c, "syn")' => Busy(c, "syn")
          /\ Busy(c, "deferred")' => Busy(c, "deferred")
      BY <2>4 DEF Starters
    <3>2. SynackAt(c)' <=> SynackAt(c)
      BY <2>3, SameSynack
    <3>3. QED
      BY <2>3, <3>1, <3>2 DEF PumpInv, PumpOK
  <2>6. QED
    BY <2>3, <2>5, PumpOne
<1>3. QED
  BY <1>1, <1>2

(* Every step of the NAT does.                                               *)
LEMMA NextPump == PumpInv /\ [Next]_vars => PumpInv'
<1> SUFFICES ASSUME PumpInv, [Next]_vars PROVE PumpInv'
  OBVIOUS
<1> DEFINE Kept == \A d \in Conns : PumpOK(d)'
<1>1. ASSUME NEW h \in Handlers, NEW k \in Keys, NEW seg \in Segments,
             handle_chip_segment(h, k, seg)
      PROVE  Kept
  BY <1>1, HandleSegmentPump, TcpNatAssumption
<1>2. ASSUME NEW h \in Handlers, stop(h) PROVE Kept
  <2>1. \A d : SynackAt(d)' => SynackAt(d)
    BY <1>2, NoNewSynack DEF stop, At, PumpInv, WaitInv
  <2>2. QED
    BY <1>2, <2>1, PumpsKept DEF stop, fieldVars, bufVars, taskVars
<1>3. ASSUME NEW h \in Handlers, HandlerStep(h) PROVE Kept
  BY <1>3, HandlerStepPump
<1>4. ASSUME NEW c \in Conns, DialStep(c) PROVE Kept
  <2>1. Dials(c)
    BY <1>4 DEF DialStep, HostAnswers, HostRefuses, AttemptTimesOut
  <2>2. QED
    BY <2>1, PumpsKept, SameSynack DEF Dials, fieldVars, bufVars, taskVars
<1>5. ASSUME NEW c \in Conns, DeferredStep(c) PROVE Kept
  BY <1>5, DeferredStepPump
<1>6. ASSUME NEW c \in Conns, NEW o \in Starters, PumpStep(c, o) PROVE Kept
  BY <1>6, PumpStepPump
<1>7. ASSUME UNCHANGED vars PROVE Kept
  BY <1>7, PumpsKept, SameSynack
  DEF vars, fieldVars, bufVars, otherVars, taskVars
<1> HIDE DEF Kept
<1>8. Kept
  BY <1>1, <1>2, <1>3, <1>4, <1>5, <1>6, <1>7 DEF Next, TaskStep
<1>9. WaitInv'
  BY NextWaits DEF PumpInv
<1>10. QED
  BY <1>8, <1>9 DEF PumpInv, Kept

(* A new bridge has no pump.                                                 *)
LEMMA InitPump == Init => \A d \in Conns : PumpOK(d)
BY DEF Init, PumpOK, Busy, Starters, SynackAt, Idle, At

(* The pumps are in order for any number of handlers.                        *)
LEMMA PumpInvariance == Spec => []PumpInv
<1>1. Init => PumpInv
  BY InitTyped, InitWaits, InitPump DEF PumpInv, WaitInv
<1>2. PumpInv /\ [Next]_vars => PumpInv'
  BY NextPump
<1>3. QED
  BY <1>1, <1>2, PTL DEF Spec

(* The steps that start a pump.                                              *)
LEMMA WhoStarts ==
  ASSUME PumpInv, [Next]_vars, NEW c \in Conns, NEW o \in Starters,
         pump[c][o] = "none", pump'[c][o] = "hs"
  PROVE  \/ /\ o = "syn" /\ SynackAt(c) /\ Attached(c)
         \/ /\ o = "deferred"
            /\ DeferredAttaches(c) \/ Flushed(c)
<1> DEFINE Goal == \/ o = "syn" /\ SynackAt(c) /\ Attached(c)
                   \/ o = "deferred" /\ (DeferredAttaches(c) \/ Flushed(c))
<1>1. TypeInv /\ pump \in [Conns -> [Starters -> PumpPcs]]
  BY DEF PumpInv, WaitInv, TypeInv, TypeOK
<1>2. ASSUME NEW S, NEW d, NEW p, TearDown(S, d, p), p[c][o] \in {"none", "done"}
      PROVE  FALSE
  BY <1>2 DEF TearDown
<1>3. ASSUME NEW S, CloseSilently(S) PROVE FALSE
  BY <1>2, <1>3 DEF CloseSilently
<1>4. ASSUME NEW d \in Conns, NEW q \in Starters, StartPump(d, q)
      PROVE  c = d /\ o = q
  BY <1>1, <1>4 DEF StartPump
<1>5. ASSUME NEW h \in Handlers, NEW k \in Keys, NEW seg \in Segments,
             handle_chip_segment(h, k, seg)
      PROVE  FALSE
  BY <1>3, <1>5
  DEF handle_chip_segment, ChipRst, DropSynRetransmit, RefuseSegment,
      on_passive_syn, ConnSegment, LastAck, otherVars, taskVars
<1>6. ASSUME NEW h \in Handlers, stop(h) PROVE FALSE
  BY <1>6 DEF stop, taskVars
<1>7. ASSUME NEW h \in Handlers, HandlerStep(h) PROVE Goal
  <2>1. CASE SynAnswered(h)
    <3> PICK d : d = handler[h].conn
      OBVIOUS
    <3>1. /\ d \in Conns /\ SynackAt(d) /\ Attached(d)
          /\ StartPump(d, "syn") /\ "syn" \in Starters
      BY <1>1, <2>1, HeldConn DEF SynAnswered, Resumes, SynackAt, Starters
    <3>2. QED
      BY <1>4, <3>1
  <2>2. CASE HandlerReset(h)
    BY <1>2, <2>2 DEF HandlerReset
  <2>3. QED
    BY <1>3, <1>7, <2>1, <2>2
    DEF HandlerStep, GraceOpened, GraceRefused, GraceOver, AnswerSyn, Drained,
        DrainFailed, DataAcked, FinAcked, shutdown, otherVars, taskVars
<1>8. ASSUME NEW d \in Conns, DialStep(d) PROVE FALSE
  BY <1>8 DEF DialStep, HostAnswers, HostRefuses, AttemptTimesOut, Dials, taskVars
<1>9. ASSUME NEW d \in Conns, DeferredStep(d) PROVE Goal
  <2>1. CASE DeferredAttaches(d) \/ Flushed(d)
    <3>1. StartPump(d, "deferred") /\ "deferred" \in Starters
      BY <2>1 DEF DeferredAttaches, Flushed, FinishAttach, Starters
    <3>2. QED
      BY <1>4, <2>1, <3>1
  <2>2. CASE DeferredReset(d)
    BY <1>2, <2>2 DEF DeferredReset
  <2>3. QED
    BY <1>9, <2>1, <2>2
    DEF DeferredStep, DeferredStarts, DeferredCancelled, DeferredFails,
        FlushFailed
<1>10. ASSUME NEW d \in Conns, NEW q \in Starters, PumpStep(d, q) PROVE FALSE
  <2>1. CASE PumpReset(d, q)
    <3> DEFINE z == [pump EXCEPT ![d][q] = "done"]
    <3>1. TearDown({d}, deferred, z) /\ z[c][o] \in {"none", "done"}
      BY <1>1, <2>1 DEF PumpReset
    <3> HIDE DEF z
    <3>2. QED
      BY <1>2, <3>1
  <2>2. CASE ~PumpReset(d, q)
    <3>1. PICK pc : PumpGoesTo(d, q, pc)
      BY <1>10, <2>2
      DEF PumpStep, PumpStarts, PumpSent, PumpEof, PumpFinSent, PumpRaises,
          PumpReads, NextRound
    <3>2. pump[d][q] # "none"
      BY <1>10, <2>2
      DEF PumpStep, PumpStarts, PumpSent, PumpEof, PumpFinSent, PumpRaises,
          PumpReads, PumpAt
    <3>3. QED
      BY <1>1, <3>1, <3>2 DEF PumpGoesTo
  <2>3. QED
    BY <2>1, <2>2
<1>11. ~UNCHANGED vars
  BY DEF vars, otherVars, taskVars
<1> HIDE DEF Goal
<1>12. Goal
  BY <1>5, <1>6, <1>7, <1>8, <1>9, <1>10, <1>11 DEF Next, TaskStep
<1>13. QED
  BY <1>12 DEF Goal

(* A pump is started while another of the connection is alive only where     *)
(* tcp_nat.py:292 finds the socket that a deferred connect attached while    *)
(* the SYN+ACK was being sent, or where such a connect still flushed bytes   *)
(* that a second handler took meanwhile; never if sends to the chip do not   *)
(* suspend.  For any chip, any number of handlers and of connections.        *)
THEOREM SecondPumpCrosses == Spec => SecondPumpOnlyByCrossing
<1>1. PumpInv /\ [Next]_vars =>
        [\A c \in Conns, o \in Starters :
           StartsSecond(c, o) => PumpsCross(c, o)]_vars
  <2> SUFFICES ASSUME PumpInv, [Next]_vars, NEW c \in Conns, NEW o \in Starters,
                      StartsSecond(c, o)
               PROVE  PumpsCross(c, o)
    OBVIOUS
  <2>1. PICK q \in Starters : PumpAlive(c, q) /\ q # o
    BY DEF StartsSecond, PumpAlive
  <2>2. Busy(c, q) /\ PumpOK(c)
    BY <2>1 DEF PumpAlive, Busy, PumpInv
  <2>3. CASE o = "syn" /\ SynackAt(c) /\ Attached(c)
    <3>1. q = "deferred"
      BY <2>1, <2>3 DEF Starters
    <3>2. QED
      BY <2>2, <2>3, <3>1 DEF PumpOK, Attached, PumpsCross
  <2>4. CASE o = "deferred" /\ DeferredAttaches(c)
    BY <2>2, <2>4
    DEF DeferredAttaches, DialEnded, DeferredAt, Waits, WaitsWell, WaitOK,
        WaitInv, PumpInv, Busy
  <2>5. CASE o = "deferred" /\ Flushed(c)
    <3>1. q = "syn" /\ deferred[c] = "flush"
      BY <2>1, <2>5 DEF Starters, Flushed, DeferredAt
    <3>2. "chip" \in Slow /\ ~AtMostOne
      BY <2>2, <3>1 DEF PumpOK
    <3>3. QED
      BY <2>5, <3>1, <3>2 DEF PumpsCross, AtMostOne
  <2>6. QED
    BY <2>3, <2>4, <2>5, WhoStarts DEF StartsSecond
<1>2. QED
  BY <1>1, PumpInvariance, PTL DEF Spec, SecondPumpOnlyByCrossing

-----------------------------------------------------------------------------
(* Who has a dial: the handler in its grace, the deferred task that waits,   *)
(* or nobody, once that task was cancelled before it could run.              *)

DialledOK(c) == Dialled(c) => InGrace(c) \/ Waits(c) \/ LeftBehind(c)

DialledInv == \A c \in Conns : DialledOK(c)

(* A connection of which these stay keeps the one that has its dial.         *)
LEMMA DialledStays ==
  ASSUME NEW c \in Conns, DialledOK(c), Dialled(c)' => Dialled(c),
         InGrace(c) => InGrace(c)', deferred'[c] = deferred[c],
         Registered(c)' => Registered(c)
  PROVE  DialledOK(c)'
BY DEF DialledOK, Waits, LeftBehind

(* A handler that does not leave its grace leaves everyone's.                *)
LEMMA GraceStays ==
  ASSUME TypeInv, NEW h \in Handlers, handler[h].pc # "grace", NEW x,
         handler' = [handler EXCEPT ![h] = x]
  PROVE  \A c : InGrace(c) => InGrace(c)'
<1>1. \A g \in Handlers \ {h} : handler'[g] = handler[g]
  BY DEF TypeInv, TypeOK
<1> QED
  BY <1>1 DEF InGrace

(* Leaving the handlers alone does, too.                                     *)
LEMMA SameGrace == handler' = handler => \A c : InGrace(c) <=> InGrace(c)'
BY DEF InGrace

(* A handler that leaves its grace leaves the others'.                       *)
LEMMA GraceOfOthers ==
  ASSUME TypeInv, NEW h \in Handlers, NEW c, handler[h].conn = c, NEW x,
         handler' = [handler EXCEPT ![h] = x]
  PROVE  \A d : d # c /\ InGrace(d) => InGrace(d)'
<1>1. \A g \in Handlers \ {h} : handler'[g] = handler[g]
  BY DEF TypeInv, TypeOK
<1> QED
  BY <1>1 DEF InGrace

(* A step that touches no task, registers nobody and opens no dial.          *)
LEMMA DialledKept ==
  ASSUME DialledInv, UNCHANGED <<deferred, conns>>,
         \A c \in Conns : Dialled(c)' => Dialled(c),
         \A c : InGrace(c) => InGrace(c)'
  PROVE  DialledInv'
BY DialledStays DEF DialledInv, Registered

(* Tearing down cancels the waiting task: a dial that it then leaves behind  *)
(* is not in the table.                                                      *)
LEMMA TearDownDialled ==
  ASSUME WaitInv, DialledInv, NEW S \in SUBSET Conns, NEW d, NEW p,
         TearDown(S, d, p),
         \A c \in Conns :
           d[c] = deferred[c] \/ (deferred[c] = "rst" /\ d[c] = "done"),
         \A c : InGrace(c) => InGrace(c)'
  PROVE  DialledInv'
<1> SUFFICES ASSUME NEW c \in Conns, Dialled(c)'
             PROVE  (InGrace(c) \/ Waits(c) \/ LeftBehind(c))'
  BY DEF DialledInv, DialledOK
<1>1. /\ deferred'[c] = IF c \in S THEN Cancelled(d[c]) ELSE d[c]
      /\ \A k \in Keys : conns'[k] \in {conns[k], None}
      /\ \A k \in Keys : c \in S /\ key[c] = k => conns'[k] = None
      /\ dial'[c] \in {dial[c], "cancelled"} /\ c # None
  BY TcpNatAssumption DEF TearDown
<1>2. Dialled(c) /\ DialledOK(c) /\ WaitOK(c)
  BY <1>1 DEF Dialled, DialledInv, WaitInv
<1>3. /\ Registered(c)' => Registered(c)
      /\ c \in S => ~Registered(c)'
  BY <1>1, <1>2 DEF Registered, WaitOK
<1>4. CASE InGrace(c)
  BY <1>4
<1>5. CASE Waits(c)
  BY <1>1, <1>3, <1>5 DEF Waits, Cancelled, LeftBehind
<1>6. CASE LeftBehind(c)
  BY <1>1, <1>3, <1>6 DEF Cancelled, LeftBehind
<1> QED
  BY <1>2, <1>4, <1>5, <1>6 DEF DialledOK

(* So does a close that sends nothing.                                       *)
LEMMA CloseDialled ==
  ASSUME WaitInv, DialledInv, NEW S \in SUBSET Conns, CloseSilently(S),
         \A c : InGrace(c) => InGrace(c)'
  PROVE  DialledInv'
<1> DEFINE open == {c \in S : state[c] # "CLOSED"}
<1>1. TearDown(open, deferred, pump) /\ open \in SUBSET Conns
  BY DEF CloseSilently
<1> HIDE DEF open
<1> QED
  BY <1>1, TearDownDialled

(* handle_chip_segment: a dial begins with a handler in its grace.           *)
LEMMA HandleSegmentDialled ==
  ASSUME WaitInv, DialledInv, NEW h \in Handlers, NEW k \in Keys,
         NEW seg \in Segment, handle_chip_segment(h, k, seg)
  PROVE  DialledInv'
<1>1. /\ conns[k] \in Conns \cup {None} /\ handler[h].pc = "idle"
      /\ TypeInv
  BY DEF WaitInv, TypeInv, TypeOK, ConnsOrNone, handle_chip_segment
<1>2. CASE ChipRst(k, seg) \/ (conns[k] # None /\ LastAck(conns[k], seg))
  <2>1. {conns[k]} \ {None} \in SUBSET Conns
    BY <1>1
  <2>2. conns[k] # None => {conns[k]} \in SUBSET Conns
    BY <1>1
  <2> QED
    BY <1>2, <2>1, <2>2, CloseDialled, SameGrace DEF ChipRst, LastAck
<1>3. CASE DropSynRetransmit(k, seg) \/ RefuseSegment(k, seg)
  BY <1>3, DialledKept, SameGrace
  DEF DropSynRetransmit, RefuseSegment, otherVars, taskVars, tableVars,
      dialVars, Dialled
<1>4. CASE on_passive_syn(h, k, seg)
  <2>1. PICK c \in Conns :
          /\ handler' = [handler EXCEPT ![h] = At("grace", c, seg)]
          /\ dial' = [dial EXCEPT ![c] = "dialling"]
          /\ UNCHANGED <<deferred, conns>>
    BY <1>4 DEF on_passive_syn, taskVars
  <2>2. \A d : InGrace(d) => InGrace(d)'
    BY <1>1, <2>1, GraceStays
  <2>3. InGrace(c)'
    BY <1>1, <2>1 DEF InGrace, At, TypeInv, TypeOK
  <2>4. ASSUME NEW d \in Conns \ {c} PROVE DialledOK(d)'
    <3>1. Dialled(d)' => Dialled(d)
      BY <2>1 DEF Dialled
    <3> QED
      BY <2>1, <2>2, <3>1, DialledStays DEF DialledInv, Registered
  <2> QED
    BY <2>3, <2>4 DEF DialledInv, DialledOK
<1>5. CASE conns[k] # None /\ ConnSegment(h, conns[k], seg)
  <2>1. \A d : InGrace(d) => InGrace(d)'
    BY <1>1, <1>5, ConnSegmentMoves, GraceStays, SameGrace DEF Moves
  <2> QED
    BY <1>5, <2>1, DialledKept
    DEF ConnSegment, otherVars, taskVars, tableVars, dialVars, Dialled
<1> QED
  BY <1>2, <1>3, <1>4, <1>5 DEF handle_chip_segment

(* The grace ends with the socket taken, with none, or with a task to wait.  *)
LEMMA HandlerStepDialled ==
  ASSUME WaitInv, DialledInv, NEW h \in Handlers, HandlerStep(h)
  PROVE  DialledInv'
<1> PICK c : c = handler[h].conn
  OBVIOUS
<1>1. ASSUME NEW pc, pc \notin {"idle", "stopping"}, Resumes(h, pc)
      PROVE  c \in Conns /\ handler[h].pc = pc
  BY <1>1, HeldConn DEF WaitInv, Resumes
<1>2. CASE GraceOpened(h) \/ GraceOver(h)
  <2>1. c \in Conns /\ handler[h].pc = "grace" /\ AnswerSyn(h, c)
    BY <1>1, <1>2 DEF GraceOpened, GraceOver
  <2>2. \A d : d # c /\ InGrace(d) => InGrace(d)'
    BY <2>1, GraceOfOthers DEF AnswerSyn, WaitInv
  <2>3. \A d \in Conns \ {c} :
          /\ dial'[d] = dial[d] /\ deferred'[d] = deferred[d]
          /\ \A k \in Keys : conns'[k] = d => conns[k] = d
    BY <1>2, <2>1 DEF GraceOpened, GraceOver, AnswerSyn, WaitInv, TypeInv, TypeOK
  <2>4. ASSUME NEW d \in Conns \ {c} PROVE DialledOK(d)'
    BY <2>2, <2>3, DialledStays DEF DialledInv, Registered, Dialled
  <2>5. dial'[c] = "taken" \/ deferred'[c] = "created"
    BY <1>2, <2>1 DEF GraceOpened, GraceOver, WaitInv, TypeInv, TypeOK
  <2> QED
    BY <2>1, <2>4, <2>5 DEF DialledInv, DialledOK, Dialled, Waits
<1>3. CASE GraceRefused(h)
  <2>1. c \in Conns /\ dial[c] = "failed" /\ dial' = dial
    BY <1>1, <1>3 DEF GraceRefused, dialVars
  <2>2. \A d : d # c /\ InGrace(d) => InGrace(d)'
    BY <1>3, GraceOfOthers DEF GraceRefused, WaitInv
  <2>3. ASSUME NEW d \in Conns \ {c} PROVE DialledOK(d)'
    BY <1>3, <2>1, <2>2, DialledStays
    DEF DialledInv, Registered, Dialled, GraceRefused, taskVars
  <2> QED
    BY <2>1, <2>3 DEF DialledInv, DialledOK, Dialled
<1>4. ASSUME NEW x, handler' = [handler EXCEPT ![h] = x],
             handler[h].pc # "grace"
      PROVE  \A d : InGrace(d) => InGrace(d)'
  BY <1>4, GraceStays DEF WaitInv
<1>5. CASE FinAcked(h) \/ shutdown(h)
  <2>1. \A d : InGrace(d) => InGrace(d)'
    BY <1>4, <1>5 DEF FinAcked, shutdown, Resumes
  <2>2. FinAcked(h) => {c} \in SUBSET Conns
    BY <1>1 DEF FinAcked
  <2> QED
    BY <1>5, <2>1, <2>2, CloseDialled DEF FinAcked, shutdown
<1>6. CASE HandlerReset(h)
  <2>1. \A d : InGrace(d) => InGrace(d)'
    BY <1>4, <1>6 DEF HandlerReset, Resumes
  <2>2. {c} \in SUBSET Conns
    BY <1>1, <1>6 DEF HandlerReset
  <2> QED
    BY <1>6, <2>1, <2>2, TearDownDialled DEF HandlerReset
<1>7. CASE SynAnswered(h) \/ Drained(h) \/ DrainFailed(h) \/ DataAcked(h)
  <2>1. \A d : InGrace(d) => InGrace(d)'
    BY <1>4, <1>7
    DEF SynAnswered, Drained, DrainFailed, DataAcked, AfterPayload, Resumes
  <2> QED
    BY <1>7, <2>1, DialledKept
    DEF SynAnswered, Drained, DrainFailed, DataAcked, otherVars, tableVars,
        dialVars, taskVars, Dialled
<1> QED
  BY <1>2, <1>3, <1>5, <1>6, <1>7 DEF HandlerStep

(* The deferred task takes the socket, or was cancelled already.             *)
LEMMA DeferredStepDialled ==
  ASSUME WaitInv, DialledInv, NEW c \in Conns, DeferredStep(c)
  PROVE  DialledInv'
<1>1. CASE DeferredReset(c)
  <2> DEFINE z == [deferred EXCEPT ![c] = "done"]
  <2>1. TearDown({c}, z, pump) /\ {c} \in SUBSET Conns /\ handler' = handler
    BY <1>1 DEF DeferredReset
  <2>2. \A d \in Conns :
          z[d] = deferred[d] \/ (deferred[d] = "rst" /\ z[d] = "done")
    BY <1>1 DEF DeferredReset, DeferredAt, WaitInv, TypeInv, TypeOK
  <2> HIDE DEF z
  <2> QED
    BY <2>1, <2>2, TearDownDialled, SameGrace
<1>2. CASE ~DeferredReset(c)
  <2>1. /\ \A d \in Conns \ {c} : Apart(d)
        /\ handler' = handler /\ conns' = conns
    BY <1>2, DeferredAlone
  <2>2. \A d \in Conns \ {c} : dial'[d] = dial[d]
    BY <1>2
    DEF DeferredStep, DeferredStarts, DeferredCancelled, DeferredFails,
        DeferredAttaches, Flushed, FlushFailed, dialVars, WaitInv,
        TypeInv, TypeOK
  <2>3. ASSUME NEW d \in Conns \ {c} PROVE DialledOK(d)'
    BY <2>1, <2>2, DialledStays, SameGrace
    DEF DialledInv, Registered, Dialled, Apart, SameFields
  <2>4. ~InGrace(c)
    BY <1>2, DeferredAlone DEF InGrace, WaitInv, WaitOK, GraceAlone
  <2>5. DialledOK(c)'
    <3>1. CASE DeferredStarts(c)
      <4>1. deferred'[c] = "await"
        BY <3>1 DEF DeferredStarts, DeferredGoesTo, WaitInv, TypeInv, TypeOK
      <4> QED
        BY <4>1 DEF DialledOK, Waits
    <3>2. CASE DeferredCancelled(c)
      <4>1. deferred[c] = "cancelled" /\ deferred'[c] = "done" /\ dial' = dial
        BY <3>2
        DEF DeferredCancelled, DeferredAt, DeferredGoesTo, dialVars, WaitInv,
            TypeInv, TypeOK
      <4> QED
        BY <2>1, <2>4, <4>1
        DEF DialledInv, DialledOK, Dialled, Waits, LeftBehind, Registered
    <3>3. CASE DeferredFails(c) \/ DeferredAttaches(c)
      BY <3>3
      DEF DeferredFails, DeferredAttaches, DialledOK, Dialled, WaitInv, TypeInv,
          TypeOK
    <3>4. CASE Flushed(c) \/ FlushFailed(c)
      <4>1. deferred[c] = "flush" /\ dial' = dial
        BY <3>4 DEF Flushed, FlushFailed, DeferredAt, dialVars
      <4> QED
        BY <2>4, <4>1 DEF DialledInv, DialledOK, Dialled, Waits, LeftBehind
    <3> QED
      BY <1>2, <3>1, <3>2, <3>3, <3>4 DEF DeferredStep
  <2> QED
    BY <2>3, <2>5 DEF DialledInv
<1> QED
  BY <1>1, <1>2

(* Every step of the NAT keeps every dial with the one that has it.          *)
LEMMA NextDialled == WaitInv /\ DialledInv /\ [Next]_vars => DialledInv'
<1> SUFFICES ASSUME WaitInv, DialledInv, [Next]_vars PROVE DialledInv'
  OBVIOUS
<1>1. ASSUME NEW h \in Handlers, NEW k \in Keys, NEW seg \in Segments,
             handle_chip_segment(h, k, seg)
      PROVE  DialledInv'
  BY <1>1, HandleSegmentDialled, TcpNatAssumption
<1>2. ASSUME NEW h \in Handlers, stop(h) PROVE DialledInv'
  <2>1. \A d : InGrace(d) => InGrace(d)'
    BY <1>2, GraceStays DEF stop, Resumes, WaitInv
  <2> QED
    BY <1>2, <2>1, DialledKept DEF stop, taskVars, tableVars, dialVars, Dialled
<1>3. ASSUME NEW h \in Handlers, HandlerStep(h) PROVE DialledInv'
  BY <1>3, HandlerStepDialled
<1>4. ASSUME NEW c \in Conns, DialStep(c) PROVE DialledInv'
  <2>1. Dials(c) /\ \A d \in Conns : Dialled(d)' => Dialled(d)
    BY <1>4
    DEF DialStep, HostAnswers, HostRefuses, AttemptTimesOut, Dials, Dialled,
        WaitInv, TypeInv, TypeOK
  <2> QED
    BY <2>1, DialledKept, SameGrace DEF Dials, taskVars, tableVars
<1>5. ASSUME NEW c \in Conns, DeferredStep(c) PROVE DialledInv'
  BY <1>5, DeferredStepDialled
<1>6. ASSUME NEW c \in Conns, NEW o \in Starters, PumpStep(c, o)
      PROVE  DialledInv'
  <2>1. CASE PumpReset(c, o)
    <3> DEFINE z == [pump EXCEPT ![c][o] = "done"]
    <3>1. /\ TearDown({c}, deferred, z) /\ {c} \in SUBSET Conns
          /\ handler' = handler
      BY <2>1 DEF PumpReset
    <3> HIDE DEF z
    <3> QED
      BY <3>1, TearDownDialled, SameGrace
  <2>2. CASE ~PumpReset(c, o)
    <3>1. PICK pc : PumpGoesTo(c, o, pc)
      BY <1>6, <2>2
      DEF PumpStep, PumpStarts, PumpSent, PumpEof, PumpFinSent, PumpRaises,
          PumpReads, NextRound
    <3> QED
      BY <3>1, DialledKept, SameGrace
      DEF PumpGoesTo, tableVars, dialVars, Dialled
  <2> QED
    BY <2>1, <2>2
<1>7. ASSUME UNCHANGED vars PROVE DialledInv'
  BY <1>7, DialledKept, SameGrace
  DEF vars, otherVars, tableVars, dialVars, taskVars, Dialled
<1> QED
  BY <1>1, <1>2, <1>3, <1>4, <1>5, <1>6, <1>7 DEF Next, TaskStep

(* So it is always known who has a dial.                                     *)
LEMMA DialledInvariance == Spec => []DialledInv
<1>1. Init => DialledInv
  BY DEF Init, DialledInv, DialledOK, Dialled
<1> QED
  BY <1>1, NextDialled, WaitInvariance, PTL DEF Spec

-----------------------------------------------------------------------------
(* Somebody reads the host for every registered connection that carries its  *)
(* bytes, when no segment has a FIN and data: then nothing is taken after a  *)
(* payload's ACK, when the connection may be closed.                         *)

PlainSegments == \A s \in Segments : s.data = <<>> \/ "FIN" \notin s.flags

Live(c) == state[c] \in {"SYN_RCVD", "ESTABLISHED", "CLOSE_WAIT"}

Attended(c) ==
    \/ \E o \in Starters : PumpAlive(c, o)
    \/ deferred[c] \in {"created", "await", "flush"}
    \/ SynackAt(c)

(* A handler that finds no socket when it has answered the SYN leaves the    *)
(* pump to a task that waits for one; a pump reads after the handshake only. *)
ServeOK(c) ==
    /\ Registered(c) /\ Live(c) => Attended(c)
    /\ SynackAt(c) /\ Registered(c) /\ state[c] # "CLOSED" /\ host[c] = "none"
         => Waits(c)
    /\ \A o \in Starters :
         pump[c][o] \in {"read", "sent"} => state[c] # "SYN_RCVD"

(* No handler has a FIN left to take when its payload is acknowledged.       *)
NothingAfter(h) ==
    /\ handler[h].pc # "acked"
    /\ handler[h].pc = "drain" => "FIN" \notin handler[h].seg.flags

ServeInv ==
    /\ WaitInv /\ \A c \in Conns : ServeOK(c)
    /\ \A h \in Handlers : NothingAfter(h)

ServeKept ==
    /\ \A c \in Conns : ServeOK(c)'
    /\ \A h \in Handlers : NothingAfter(h)'

(* What keeps d attended.                                                    *)
ServeSame(d) ==
    /\ pump'[d] = pump[d] /\ deferred'[d] = deferred[d]
    /\ Registered(d)' => Registered(d)
    /\ host'[d] = "none" => host[d] = "none"
    /\ SynackAt(d)' <=> SynackAt(d)
    /\ Live(d)' => Live(d)
    /\ state'[d] # "CLOSED" => state[d] # "CLOSED"
    /\ state'[d] = "SYN_RCVD" => state[d] = "SYN_RCVD"

(* A connection of which these stay is attended as before.                   *)
LEMMA ServeStays ==
  ASSUME NEW d \in Conns, ServeOK(d), ServeSame(d)
  PROVE  ServeOK(d)'
BY DEF ServeOK, ServeSame, Attended, PumpAlive, Waits

(* A connection that is left alone stays attended.                           *)
LEMMA ApartServed ==
  ASSUME NEW d \in Conns, ServeOK(d), Apart(d)
  PROVE  ServeOK(d)'
<1>1. ServeSame(d)
  <2>1. SynackAt(d)' <=> SynackAt(d)
    BY ApartSynack DEF Apart
  <2>2. SameFields(d)
    BY DEF Apart
  <2>3. Registered(d)' => Registered(d)
    BY <2>2 DEF SameFields, Registered
  <2>4. QED
    BY <2>1, <2>2, <2>3 DEF ServeSame, SameFields, Live
<1>2. QED
  BY <1>1, ServeStays

(* So do all, after a step that acts on c alone.                             *)
LEMMA ServeOne ==
  ASSUME ServeInv, NEW c \in Conns, ServeOK(c)',
         \A d \in Conns \ {c} : Apart(d)
  PROVE  \A d \in Conns : ServeOK(d)'
BY ApartServed DEF ServeInv

(* A handler with nothing to take moves to a place where that holds.         *)
LEMMA NothingMore ==
  ASSUME ServeInv, NEW h \in Handlers, NEW x, x.pc \notin {"acked", "drain"},
         handler' = [handler EXCEPT ![h] = x]
  PROVE  \A g \in Handlers : NothingAfter(g)'
<1>1. /\ handler'[h] = x
      /\ \A g \in Handlers \ {h} : handler'[g] = handler[g]
  BY DEF ServeInv, WaitInv, TypeInv, TypeOK
<1>2. QED
  BY <1>1 DEF ServeInv, NothingAfter

(* Handlers that stay where they are have nothing more to take.              *)
LEMMA NothingSame ==
  ASSUME ServeInv, handler' = handler
  PROVE  \A g \in Handlers : NothingAfter(g)'
BY DEF ServeInv, NothingAfter

(* A handler that leaves another place than an answered SYN, for another.    *)
LEMMA SynackStays ==
  ASSUME TypeInv, NEW h \in Handlers, NEW x, x.pc # "synack",
         handler[h].pc # "synack", handler' = [handler EXCEPT ![h] = x]
  PROVE  \A d : SynackAt(d)' <=> SynackAt(d)
<1>1. /\ handler'[h] = x
      /\ \A g \in Handlers \ {h} : handler'[g] = handler[g]
  BY DEF TypeInv, TypeOK
<1>2. QED
  BY <1>1 DEF SynackAt

(* What is torn down is not registered any more, and the rest is as before.  *)
LEMMA TearDownServed ==
  ASSUME ServeInv, NEW S \in SUBSET Conns, NEW d, NEW p, TearDown(S, d, p),
         \A c \in Conns, o \in Starters :
           p[c][o] \in {pump[c][o], "done"},
         \A c \in Conns \ S :
           d[c] = deferred[c] /\ p[c] = pump[c] /\ state'[c] = state[c],
         \A c \in S : state'[c] \in {state[c], "CLOSED"},
         \A c : SynackAt(c)' <=> SynackAt(c)
  PROVE  \A c \in Conns : ServeOK(c)'
<1>1. ASSUME NEW c \in S PROVE ServeOK(c)'
  <2>1. ~Registered(c)'
    <3>1. \A k \in Keys : conns[k] = c => key[c] = k
      BY DEF ServeInv, WaitInv, WaitOK
    <3>2. \A k \in Keys :
            conns'[k] = IF \E i \in S : key[i] = k THEN None ELSE conns[k]
      BY DEF TearDown
    <3>3. c # None
      BY TcpNatAssumption
    <3>4. QED
      BY <3>1, <3>2, <3>3 DEF Registered
  <2>2. \A o \in Starters : pump'[c][o] \in {pump[c][o], "done"}
    BY DEF TearDown
  <2>3. \A o \in Starters :
          pump'[c][o] \in {"read", "sent"} => state'[c] # "SYN_RCVD"
    BY <2>2 DEF ServeInv, ServeOK
  <2>4. QED
    BY <2>1, <2>3 DEF ServeOK
<1>2. ASSUME NEW c \in Conns \ S PROVE ServeOK(c)'
  <2>1. pump'[c] = pump[c]
    BY DEF TearDown, ServeInv, WaitInv, TypeInv, TypeOK
  <2>2. Registered(c)' => Registered(c)
    BY TcpNatAssumption DEF TearDown, Registered
  <2>3. deferred'[c] = deferred[c] /\ host'[c] = host[c]
    BY DEF TearDown
  <2>4. ServeSame(c)
    BY <2>1, <2>2, <2>3 DEF ServeSame, Live
  <2>5. QED
    BY <2>4, ServeStays DEF ServeInv
<1>3. QED
  BY <1>1, <1>2

(* So it is with a close that sends nothing.                                 *)
LEMMA CloseServed ==
  ASSUME ServeInv, NEW S \in SUBSET Conns, CloseSilently(S),
         \A c : SynackAt(c)' <=> SynackAt(c)
  PROVE  \A c \in Conns : ServeOK(c)'
<1> DEFINE open == {c \in S : state[c] # "CLOSED"}
<1>1. /\ TearDown(open, deferred, pump) /\ open \in SUBSET Conns
      /\ \A c \in Conns \ open : state'[c] = state[c]
      /\ \A c \in open : state'[c] = "CLOSED"
  BY DEF CloseSilently
<1> HIDE DEF open
<1>2. QED
  BY <1>1, TearDownServed

(* A step that leaves every connection as attended as it was.                *)
LEMMA ServesKept ==
  ASSUME ServeInv, UNCHANGED <<deferred, pump, state, host, conns>>,
         \A d : SynackAt(d)' <=> SynackAt(d)
  PROVE  \A d \in Conns : ServeOK(d)'
<1>1. \A d \in Conns : ServeSame(d)
  BY DEF ServeSame, Registered, Live
<1>2. QED
  BY <1>1, ServeStays DEF ServeInv

(* A segment of a connection with no FIN beside its data.                    *)
LEMMA ConnSegmentServed ==
  ASSUME ServeInv, NEW h \in Handlers, handler[h].pc = "idle",
         NEW c \in Conns, Registered(c), NEW seg \in Segment,
         seg.data = <<>> \/ "FIN" \notin seg.flags, ConnSegment(h, c, seg)
  PROVE  ServeKept
<1>1. /\ FieldsOf(c) /\ \A d \in Conns \ {c} : Apart(d)
  BY ConnSegmentAlone DEF ServeInv
<1>2. /\ state'[c] # "CLOSED" => state[c] # "CLOSED"
      /\ state'[c] = "SYN_RCVD" => state[c] = "SYN_RCVD"
      /\ Live(c)' => Live(c)
      /\ host'[c] = "none" => host[c] = "none"
  <2> DEFINE Good == /\ state'[c] # "CLOSED" => state[c] # "CLOSED"
                     /\ state'[c] = "SYN_RCVD" => state[c] = "SYN_RCVD"
                     /\ Live(c)' => Live(c)
                     /\ host'[c] = "none" => host[c] = "none"
  <2>1. Ignore => Good
    BY DEF Ignore, fieldVars, Live
  <2>2. OnPayload(h, c, seg) => host'[c] = host[c]
    BY DEF OnPayload
  <2>3. state[c] = "SYN_RCVD" /\ on_handshake_complete(h, c, seg) => Good
    BY <2>1, <2>2 DEF on_handshake_complete, Live
  <2>4. state[c] = "ESTABLISHED" /\ on_data(h, c, seg) => Good
    <3>1. state[c] = "ESTABLISHED" /\ AcceptFin(c) => Good
      BY DEF AcceptFin, StateAfterFin, Live, ServeInv, WaitInv, TypeInv, TypeOK
    <3>2. OnPayload(h, c, seg) /\ UNCHANGED state => Good
      BY <2>2 DEF Live
    <3> HIDE DEF Good
    <3>3. QED
      BY <2>1, <3>1, <3>2 DEF on_data
  <2>5. state[c] \in {"FIN_WAIT_1", "FIN_WAIT_2"} /\ on_fin_wait(h, c, seg)
          => Good
    BY DEF on_fin_wait, Live, ServeInv, WaitInv, TypeInv, TypeOK
  <2> HIDE DEF Good
  <2>6. Good
    BY <2>1, <2>3, <2>4, <2>5 DEF ConnSegment
  <2>7. QED
    BY <2>6 DEF Good
<1>3. UNCHANGED <<deferred, pump, conns>>
  BY DEF ConnSegment, otherVars, tableVars, taskVars
<1>4. \A d : SynackAt(d)' <=> SynackAt(d)
  <2>1. Moves(h)
    BY ConnSegmentMoves
  <2>2. CASE handler' = handler
    BY <2>2, SameSynack
  <2>3. CASE \E pc \in {"idle", "acked", "drain", "finack"} : \E d, s :
               handler' = [handler EXCEPT ![h] = At(pc, d, s)]
    BY <2>3, SynackStays DEF At, ServeInv, WaitInv
  <2>4. QED
    BY <2>1, <2>2, <2>3 DEF Moves
<1>5. ServeOK(c)'
  <2>1. ServeSame(c)
    BY <1>2, <1>3, <1>4 DEF ServeSame, Registered
  <2>2. QED
    BY <2>1, ServeStays DEF ServeInv
<1>6. \A g \in Handlers : NothingAfter(g)'
  <2> DEFINE Calm == \/ handler' = handler
                     \/ \E x : /\ handler' = [handler EXCEPT ![h] = x]
                               /\ x.pc # "acked"
                               /\ x.pc = "drain" => "FIN" \notin x.seg.flags
  <2>1. seg.data # <<>> /\ OnPayload(h, c, seg) => Calm
    BY ZenonT(40) DEF OnPayload, AfterPayload, Idle, At
  <2>2. Ignore => Calm
    BY DEF Ignore
  <2>3. on_fin_wait(h, c, seg) => Calm
    BY DEF on_fin_wait, At
  <2>4. on_handshake_complete(h, c, seg) => Calm
    BY <2>1, <2>2 DEF on_handshake_complete
  <2>5. on_data(h, c, seg) => Calm
    BY <2>1, <2>2 DEF on_data
  <2> HIDE DEF Calm
  <2>6. Calm
    BY <2>2, <2>3, <2>4, <2>5 DEF ConnSegment
  <2>7. CASE handler' = handler
    BY <2>7, NothingSame
  <2>8. CASE \E x : /\ handler' = [handler EXCEPT ![h] = x]
                    /\ x.pc # "acked"
                    /\ x.pc = "drain" => "FIN" \notin x.seg.flags
    <3>1. PICK x : /\ handler' = [handler EXCEPT ![h] = x]
                   /\ x.pc # "acked"
                   /\ x.pc = "drain" => "FIN" \notin x.seg.flags
      BY <2>8
    <3>2. /\ handler'[h] = x
          /\ \A g \in Handlers \ {h} : handler'[g] = handler[g]
      BY <3>1 DEF ServeInv, WaitInv, TypeInv, TypeOK
    <3>3. QED
      BY <3>1, <3>2 DEF ServeInv, NothingAfter
  <2>9. QED
    BY <2>6, <2>7, <2>8 DEF Calm
<1>7. QED
  BY <1>1, <1>5, <1>6, ServeOne DEF ServeKept

(* A segment with no FIN beside its data.                                    *)
LEMMA HandleSegmentServed ==
  ASSUME ServeInv, NEW h \in Handlers, NEW k \in Keys, NEW seg \in Segment,
         seg.data = <<>> \/ "FIN" \notin seg.flags,
         handle_chip_segment(h, k, seg)
  PROVE  ServeKept
<1>1. /\ conns[k] \in Conns \cup {None} /\ handler[h].pc = "idle"
      /\ WaitInv /\ TypeInv
  BY DEF ServeInv, WaitInv, TypeInv, TypeOK, ConnsOrNone, handle_chip_segment
<1>2. CASE ChipRst(k, seg)
  BY <1>1, <1>2, CloseServed, SameSynack, NothingSame DEF ChipRst, ServeKept
<1>3. CASE DropSynRetransmit(k, seg) \/ RefuseSegment(k, seg)
  BY <1>3, ServesKept, SameSynack, NothingSame
  DEF DropSynRetransmit, RefuseSegment, fieldVars, otherVars, tableVars,
      taskVars, ServeKept
<1>4. CASE on_passive_syn(h, k, seg)
  <2>1. PICK c : handler' = [handler EXCEPT ![h] = At("grace", c, seg)]
    BY <1>4 DEF on_passive_syn
  <2>2. \A d : SynackAt(d)' <=> SynackAt(d)
    BY <1>1, <2>1, SynackStays DEF At
  <2>3. \A g \in Handlers : NothingAfter(g)'
    BY <2>1, NothingMore DEF At
  <2>4. QED
    BY <1>4, <2>2, <2>3, ServesKept DEF on_passive_syn, taskVars, ServeKept
<1>5. CASE conns[k] # None /\ ConnSegment(h, conns[k], seg)
  BY <1>1, <1>5, ConnSegmentServed DEF Registered
<1>6. CASE conns[k] # None /\ LastAck(conns[k], seg)
  BY <1>1, <1>6, CloseServed, SameSynack, NothingSame DEF LastAck, ServeKept
<1>7. QED
  BY <1>2, <1>3, <1>4, <1>5, <1>6 DEF handle_chip_segment

(* The answered SYN is attended by its own handler.                          *)
LEMMA AnswerSynServed ==
  ASSUME ServeInv, NEW h \in Handlers, handler[h].pc = "grace",
         NEW c \in Conns, c = handler[h].conn, AnswerSyn(h, c),
         \/ deferred' = deferred /\ host' = [host EXCEPT ![c] = "open"]
         \/ deferred' = [deferred EXCEPT ![c] = "created"] /\ host' = host
  PROVE  ServeKept
<1>1. /\ Unused(c) /\ \A d \in Conns \ {c} : Apart(d)
      /\ handler'[h].conn = c /\ handler'[h].pc = "synack"
  BY AnswerSynAlone DEF ServeInv
<1>2. SynackAt(c)'
  BY <1>1 DEF SynackAt
<1>3. host'[c] = "none" => deferred'[c] = "created"
  BY DEF ServeInv, WaitInv, TypeInv, TypeOK
<1>4. pump' = pump
  BY DEF AnswerSyn
<1>5. ServeOK(c)'
  BY <1>1, <1>2, <1>3, <1>4 DEF ServeOK, Attended, Waits, Unused
<1>6. \A g \in Handlers : NothingAfter(g)'
  BY NothingMore DEF AnswerSyn, At
<1>7. QED
  BY <1>1, <1>5, <1>6, ServeOne DEF ServeKept

(* Every later step of a handler keeps all attended.                         *)
LEMMA HandlerStepServed ==
  ASSUME ServeInv, NEW h \in Handlers, HandlerStep(h)
  PROVE  ServeKept
<1> PICK c : c = handler[h].conn
  OBVIOUS
<1>1. ASSUME NEW pc, pc \notin {"idle", "stopping"}, Resumes(h, pc)
      PROVE  c \in Conns /\ handler[h].pc = pc
  BY <1>1, HeldConn DEF ServeInv, WaitInv, Resumes
<1>2. ASSUME handler' = [handler EXCEPT ![h] = Idle]
      PROVE  /\ handler[h].pc # "synack" =>
                  \A d : SynackAt(d)' <=> SynackAt(d)
             /\ \A g \in Handlers : NothingAfter(g)'
  BY <1>2, SynackStays, NothingMore DEF ServeInv, WaitInv, Idle, At
<1>3. CASE GraceOpened(h)
  BY <1>1, <1>3, AnswerSynServed DEF GraceOpened
<1>4. CASE GraceOver(h)
  BY <1>1, <1>4, AnswerSynServed DEF GraceOver
<1>5. CASE GraceRefused(h)
  BY <1>1, <1>2, <1>5, ServesKept
  DEF GraceRefused, fieldVars, taskVars, ServeKept
<1>6. CASE FinAcked(h)
  <2>1. {c} \in SUBSET Conns /\ handler[h].pc # "synack"
    BY <1>1, <1>6 DEF FinAcked
  <2>2. QED
    BY <1>2, <1>6, <2>1, CloseServed DEF FinAcked, ServeKept
<1>7. CASE shutdown(h)
  <2>1. handler[h].pc # "synack"
    BY <1>7 DEF shutdown, Resumes
  <2>2. QED
    BY <1>2, <1>7, <2>1, CloseServed DEF shutdown, ServeKept
<1>8. CASE SynAnswered(h)
  <2>1. c \in Conns /\ SynackAt(c)
    BY <1>1, <1>8 DEF SynAnswered, SynackAt
  <2>2. /\ \A d \in Conns \ {c} : Apart(d)
        /\ UNCHANGED <<deferred, host, state, conns>>
        /\ \A d : SynackAt(d)' => SynackAt(d)
        /\ \A g \in Handlers : NothingAfter(g)'
    <3>1. \A d : SynackAt(d)' => SynackAt(d)
      BY <1>8, NoNewSynack DEF SynAnswered, ServeInv, WaitInv, Idle, At
    <3>2. QED
      BY <1>2, <1>8, <2>1, <3>1, HandlerAlone
      DEF SynAnswered, fieldVars, tableVars, ServeInv
  <2>3. Registered(c)' <=> Registered(c)
    BY <2>2 DEF Registered
  <2>4. ServeOK(c)'
    <3>1. CASE Attached(c)
      <4>0. StartPump(c, "syn") /\ "syn" \in Starters
        BY <1>8, <3>1 DEF SynAnswered, Starters
      <4>1. /\ pump'[c]["syn"] = "hs"
            /\ \A o \in Starters : pump'[c][o] \in {pump[c][o], "hs"}
        BY <2>1, <4>0 DEF StartPump, ServeInv, WaitInv, TypeInv, TypeOK
      <4>2. Attended(c)'
        BY <4>0, <4>1 DEF Attended, PumpAlive
      <4>3. host'[c] # "none"
        BY <2>2, <3>1 DEF Attached
      <4>4. \A o \in Starters :
              pump'[c][o] \in {"read", "sent"} => state'[c] # "SYN_RCVD"
        BY <2>1, <2>2, <4>1 DEF ServeOK, ServeInv
      <4>5. QED
        BY <4>2, <4>3, <4>4 DEF ServeOK
    <3>2. CASE ~Attached(c)
      <4>1. pump' = pump /\ host[c] = "none"
        BY <1>8, <3>2 DEF SynAnswered, Attached
      <4>2. Registered(c) /\ state[c] # "CLOSED" => Waits(c)
        BY <2>1, <4>1 DEF ServeInv, ServeOK
      <4>3. Registered(c)' /\ state'[c] # "CLOSED" => Waits(c)'
        BY <2>2, <2>3, <4>2 DEF Waits
      <4>4. Waits(c)' => Attended(c)'
        BY DEF Waits, Attended
      <4>5. Live(c)' => state'[c] # "CLOSED"
        BY DEF Live
      <4>6. \A o \in Starters :
              pump'[c][o] \in {"read", "sent"} => state'[c] # "SYN_RCVD"
        BY <2>1, <2>2, <4>1 DEF ServeOK, ServeInv
      <4>7. QED
        BY <4>3, <4>4, <4>5, <4>6 DEF ServeOK
    <3>3. QED
      BY <3>1, <3>2
  <2>5. QED
    BY <2>1, <2>2, <2>4, ServeOne DEF ServeKept
<1>9. CASE Drained(h) \/ DrainFailed(h)
  <2>1. c \in Conns /\ handler[h].pc = "drain"
    BY <1>1, <1>9 DEF Drained, DrainFailed
  <2>2. PICK pc \in {"idle", "rst"} : \E i, s :
          handler' = [handler EXCEPT ![h] = At(pc, i, s)]
    BY <1>9, <2>1
    DEF Drained, DrainFailed, AfterPayload, Idle, ServeInv, NothingAfter
  <2>3. /\ \A d : SynackAt(d)' <=> SynackAt(d)
        /\ \A g \in Handlers : NothingAfter(g)'
    BY <2>1, <2>2, SynackStays, NothingMore DEF At, ServeInv, WaitInv
  <2>4. UNCHANGED <<deferred, pump, host, conns>>
    BY <1>9 DEF Drained, DrainFailed, otherVars, taskVars, tableVars
  <2>5. \A d \in Conns : state'[d] \in {state[d], "CLOSED"}
    BY <1>9 DEF Drained, DrainFailed, ResetChip, ServeInv, WaitInv, TypeInv,
       TypeOK
  <2>6. \A d \in Conns : ServeSame(d)
    BY <2>3, <2>4, <2>5 DEF ServeSame, Registered, Live
  <2>7. QED
    BY <2>3, <2>6, ServeStays DEF ServeKept, ServeInv
<1>10. CASE DataAcked(h)
  BY <1>10 DEF DataAcked, Resumes, ServeInv, NothingAfter
<1>11. CASE HandlerReset(h)
  <2>1. {c} \in SUBSET Conns /\ handler[h].pc # "synack"
    BY <1>1, <1>11 DEF HandlerReset
  <2>2. \A d : SynackAt(d)' <=> SynackAt(d)
    BY <1>2, <1>11, <2>1 DEF HandlerReset
  <2>3. TearDown({c}, deferred, pump) /\ state' = state
    BY <1>11 DEF HandlerReset
  <2>4. \A d \in Conns : ServeOK(d)'
    BY <2>1, <2>2, <2>3, TearDownServed
  <2>5. QED
    BY <1>2, <1>11, <2>4 DEF HandlerReset, ServeKept
<1>12. QED
  BY <1>3, <1>4, <1>5, <1>6, <1>7, <1>8, <1>9, <1>10, <1>11 DEF HandlerStep

(* The pump of a deferred connect reads as soon as the socket is attached.   *)
LEMMA FinishAttachServed ==
  ASSUME ServeInv, NEW c \in Conns, FinishAttach(c), state' = state
  PROVE  ServeOK(c)'
<1>1. StartPump(c, "deferred") /\ "deferred" \in Starters
  BY DEF FinishAttach, Starters
<1>2. /\ pump'[c]["deferred"] = "hs"
      /\ \A o \in Starters : pump'[c][o] \in {pump[c][o], "hs"}
  BY <1>1 DEF StartPump, ServeInv, WaitInv, TypeInv, TypeOK
<1>3. Attended(c)'
  BY <1>1, <1>2 DEF Attended, PumpAlive
<1>4. host'[c] # "none"
  BY FinishAttachEnd DEF ServeInv, WaitInv
<1>5. QED
  BY <1>2, <1>3, <1>4 DEF ServeOK, ServeInv

(* Every step of _finish_deferred_connect does.                              *)
LEMMA DeferredStepServed ==
  ASSUME ServeInv, NEW c \in Conns, DeferredStep(c)
  PROVE  \A d \in Conns : ServeOK(d)'
<1>1. CASE DeferredReset(c)
  <2> DEFINE z == [deferred EXCEPT ![c] = "done"]
  <2>1. /\ TearDown({c}, z, pump) /\ {c} \in SUBSET Conns /\ handler' = handler
        /\ state' = state
    BY <1>1 DEF DeferredReset
  <2>2. \A d \in Conns \ {c} : z[d] = deferred[d]
    BY DEF ServeInv, WaitInv, TypeInv, TypeOK
  <2> HIDE DEF z
  <2>3. QED
    BY <2>1, <2>2, TearDownServed, SameSynack
<1>2. CASE ~DeferredReset(c)
  <2>1. /\ \A d \in Conns \ {c} : Apart(d)
        /\ UNCHANGED <<handler, conns>>
    BY <1>2, DeferredAlone DEF ServeInv
  <2>2. \A d : SynackAt(d)' <=> SynackAt(d)
    BY <2>1, SameSynack
  <2>3. ServeOK(c)'
    <3>1. CASE DeferredAttaches(c)
      <4>1. state' = state
        BY <3>1 DEF DeferredAttaches
      <4>2. CASE FinishAttach(c)
        BY <4>1, <4>2, FinishAttachServed
      <4>3. CASE ~FinishAttach(c)
        <5>1. /\ DeferredGoesTo(c, "flush") /\ UNCHANGED pump
              /\ host' = [host EXCEPT ![c] = "open"]
          BY <3>1, <4>3 DEF DeferredAttaches
        <5>2. deferred'[c] = "flush" /\ host'[c] = "open"
          BY <5>1 DEF DeferredGoesTo, ServeInv, WaitInv, TypeInv, TypeOK
        <5>3. QED
          BY <4>1, <5>1, <5>2 DEF ServeInv, ServeOK, Attended
      <4>4. QED
        BY <4>2, <4>3
    <3>2. CASE Flushed(c)
      BY <3>2, FinishAttachServed DEF Flushed
    <3>3. CASE DeferredStarts(c)
      <4>1. deferred'[c] = "await" /\ deferred[c] = "created"
        BY <3>3
        DEF DeferredStarts, DeferredAt, DeferredGoesTo, ServeInv, WaitInv,
            TypeInv, TypeOK
      <4>2. UNCHANGED <<pump, state, host>>
        BY <3>3 DEF DeferredStarts, fieldVars
      <4>3. QED
        BY <2>1, <2>2, <4>1, <4>2 DEF ServeInv, ServeOK, Attended, Waits
    <3>4. CASE DeferredCancelled(c)
      <4>1. deferred[c] = "cancelled" /\ UNCHANGED <<pump, state, host>>
        BY <3>4 DEF DeferredCancelled, DeferredAt, fieldVars
      <4>2. Registered(c)' <=> Registered(c)
        BY <2>1 DEF Registered
      <4>3. Attended(c) => Attended(c)'
        BY <2>2, <4>1 DEF Attended, PumpAlive
      <4>4. QED
        BY <2>2, <4>1, <4>2, <4>3 DEF ServeInv, ServeOK, Waits, Live
    <3>5. CASE DeferredFails(c) \/ FlushFailed(c)
      <4>1. state'[c] = "CLOSED" /\ pump' = pump
        BY <3>5
        DEF DeferredFails, FlushFailed, ResetChip, ServeInv, WaitInv, TypeInv,
            TypeOK
      <4>2. QED
        BY <4>1 DEF ServeInv, ServeOK, Live
    <3>6. QED
      BY <1>2, <3>1, <3>2, <3>3, <3>4, <3>5 DEF DeferredStep
  <2>4. QED
    BY <2>1, <2>3, ServeOne
<1>3. QED
  BY <1>1, <1>2

(* Every step of a pump does: it ends only with the stream it carries.       *)
LEMMA PumpStepServed ==
  ASSUME ServeInv, NEW c \in Conns, NEW o \in Starters, PumpStep(c, o)
  PROVE  \A d \in Conns : ServeOK(d)'
<1>1. CASE PumpReset(c, o)
  <2> DEFINE z == [pump EXCEPT ![c][o] = "done"]
  <2>1. /\ TearDown({c}, deferred, z) /\ {c} \in SUBSET Conns
        /\ handler' = handler /\ state' = state
    BY <1>1 DEF PumpReset
  <2>2. /\ \A d \in Conns, i \in Starters : z[d][i] \in {pump[d][i], "done"}
        /\ \A d \in Conns \ {c} : z[d] = pump[d]
    BY DEF ServeInv, WaitInv, TypeInv, TypeOK
  <2> HIDE DEF z
  <2>3. QED
    BY <2>1, <2>2, TearDownServed, SameSynack
<1>2. CASE ~PumpReset(c, o)
  <2>1. /\ \A d \in Conns \ {c} : Apart(d)
        /\ UNCHANGED <<handler, host, deferred, conns>>
    BY <1>2, PumpAlone DEF ServeInv
  <2>2. \A d : SynackAt(d)' <=> SynackAt(d)
    BY <2>1, SameSynack
  <2>3. PICK pc \in PumpPcs : PumpGoesTo(c, o, pc)
    BY <1>2
    DEF PumpStep, PumpStarts, PumpSent, PumpEof, PumpFinSent, PumpRaises,
        PumpReads, NextRound, PumpPcs
  <2>4. /\ pump'[c][o] = pc
        /\ \A i \in Starters \ {o} : pump'[c][i] = pump[c][i]
    BY <2>3 DEF PumpGoesTo, ServeInv, WaitInv, TypeInv, TypeOK
  <2>6. Registered(c)' <=> Registered(c)
    BY <2>1 DEF Registered
  <2>7. ASSUME Live(c)' => Live(c),
               Live(c)' => PumpAlive(c, o)' \/ ~PumpAlive(c, o),
               state'[c] # "CLOSED" => state[c] # "CLOSED",
               state'[c] = "SYN_RCVD" => state[c] = "SYN_RCVD",
               pc \in {"read", "sent"} => state'[c] # "SYN_RCVD"
        PROVE  ServeOK(c)'
    <3>1. Live(c)' /\ Attended(c) => Attended(c)'
      <4> SUFFICES ASSUME Live(c)', Attended(c) PROVE Attended(c)'
        OBVIOUS
      <4>1. CASE \E i \in Starters : PumpAlive(c, i)
        <5>1. PICK i \in Starters : PumpAlive(c, i)
          BY <4>1
        <5>2. PumpAlive(c, i)'
          BY <2>4, <2>7, <5>1 DEF PumpAlive
        <5>3. QED
          BY <5>2 DEF Attended
      <4>2. CASE deferred[c] \in {"created", "await", "flush"} \/ SynackAt(c)
        BY <2>1, <2>2, <4>2 DEF Attended
      <4>3. QED
        BY <4>1, <4>2 DEF Attended
    <3>2. \A i \in Starters :
            pump'[c][i] \in {"read", "sent"} => state'[c] # "SYN_RCVD"
      BY <2>4, <2>7 DEF ServeInv, ServeOK
    <3>3. QED
      BY <2>1, <2>2, <2>6, <2>7, <3>1, <3>2 DEF ServeInv, ServeOK, Waits
  <2>8. pump[c][o] \in {"read", "sent"} => state[c] # "SYN_RCVD"
    BY DEF ServeInv, ServeOK
  <2>9. ServeOK(c)'
    <3>1. CASE PumpStarts(c, o) \/ PumpSent(c, o)
      <4>1. state' = state /\ state[c] # "SYN_RCVD"
        BY <2>8, <3>1 DEF PumpStarts, PumpSent, PumpAt
      <4>2. NextRound(c, o)
        BY <3>1 DEF PumpStarts, PumpSent
      <4>3. Carries(c) => pump'[c][o] = "read"
        BY <4>2 DEF NextRound, PumpGoesTo, ServeInv, WaitInv, TypeInv, TypeOK
      <4>4. Live(c)' => PumpAlive(c, o)'
        BY <4>1, <4>3 DEF Live, Carries, PumpAlive
      <4>5. QED
        BY <2>7, <4>1, <4>4 DEF Live
    <3>2. CASE \E n \in ReadSizes : PumpReads(c, o, n)
      <4>1. /\ state' = state /\ pump[c][o] = "read" /\ pump'[c][o] = "sent"
        BY <3>2
        DEF PumpReads, PumpAt, PumpGoesTo, ServeInv, WaitInv, TypeInv, TypeOK
      <4>2. QED
        BY <2>7, <2>8, <4>1 DEF Live, PumpAlive
    <3>3. CASE PumpEof(c, o)
      <4>1. pump[c][o] = "read" /\ state[c] # "SYN_RCVD"
        BY <2>8, <3>3 DEF PumpEof, PumpAt
      <4>2. pump'[c][o] \in {"finsent", "done"}
        BY <3>3 DEF PumpEof, PumpGoesTo, ServeInv, WaitInv, TypeInv, TypeOK
      <4>3. IF Carries(c) THEN state'[c] \in {"FIN_WAIT_1", "LAST_ACK"}
            ELSE state' = state
        BY <3>3 DEF PumpEof, ServeInv, WaitInv, TypeInv, TypeOK
      <4>4. ~Live(c)'
        BY <4>1, <4>3 DEF Live, Carries
      <4>5. QED
        BY <2>4, <2>7, <4>1, <4>2, <4>3, <4>4 DEF Carries
    <3>4. CASE PumpFinSent(c, o)
      <4>1. /\ state' = state /\ pump[c][o] = "finsent" /\ pump'[c][o] = "done"
        BY <3>4
        DEF PumpFinSent, PumpAt, PumpGoesTo, ServeInv, WaitInv, TypeInv, TypeOK
      <4>2. QED
        BY <2>4, <2>7, <4>1 DEF Live, PumpAlive
    <3>5. CASE PumpRaises(c, o)
      <4>1. state'[c] = "CLOSED" /\ pump'[c][o] \in {"rst", "done"}
        BY <3>5
        DEF PumpRaises, ResetChip, PumpGoesTo, ServeInv, WaitInv, TypeInv,
            TypeOK
      <4>2. QED
        BY <2>4, <2>7, <4>1 DEF Live
    <3>6. QED
      BY <1>2, <3>1, <3>2, <3>3, <3>4, <3>5 DEF PumpStep
  <2>10. QED
    BY <2>1, <2>9, ServeOne
<1>3. QED
  BY <1>1, <1>2

(* Every step of the NAT does.                                               *)
LEMMA NextServed == PlainSegments /\ ServeInv /\ [Next]_vars => ServeInv'
<1> SUFFICES ASSUME PlainSegments, ServeInv, [Next]_vars PROVE ServeInv'
  OBVIOUS
<1>1. ASSUME NEW h \in Handlers, NEW k \in Keys, NEW seg \in Segments,
             handle_chip_segment(h, k, seg)
      PROVE  ServeKept
  BY <1>1, HandleSegmentServed, TcpNatAssumption DEF PlainSegments
<1>2. ASSUME NEW h \in Handlers, stop(h) PROVE ServeKept
  <2>1. /\ \A d : SynackAt(d)' <=> SynackAt(d)
        /\ \A g \in Handlers : NothingAfter(g)'
    BY <1>2, SynackStays, NothingMore DEF stop, Resumes, At, ServeInv, WaitInv
  <2>2. QED
    BY <1>2, <2>1, ServesKept
    DEF stop, fieldVars, taskVars, tableVars, ServeKept
<1>3. ASSUME NEW h \in Handlers, HandlerStep(h) PROVE ServeKept
  BY <1>3, HandlerStepServed
<1>4. ASSUME NEW c \in Conns, DialStep(c) PROVE ServeKept
  <2>1. Dials(c)
    BY <1>4 DEF DialStep, HostAnswers, HostRefuses, AttemptTimesOut
  <2>2. QED
    BY <2>1, ServesKept, SameSynack, NothingSame
    DEF Dials, fieldVars, taskVars, tableVars, ServeKept
<1>5. ASSUME NEW c \in Conns, DeferredStep(c) PROVE ServeKept
  <2>1. handler' = handler
    BY <1>5, DeferredAlone DEF DeferredReset, ServeInv
  <2>2. QED
    BY <1>5, <2>1, DeferredStepServed, NothingSame DEF ServeKept
<1>6. ASSUME NEW c \in Conns, NEW o \in Starters, PumpStep(c, o)
      PROVE  ServeKept
  <2>1. handler' = handler
    BY <1>6, PumpAlone DEF PumpReset, ServeInv
  <2>2. QED
    BY <1>6, <2>1, PumpStepServed, NothingSame DEF ServeKept
<1>7. ASSUME UNCHANGED vars PROVE ServeKept
  BY <1>7, ServesKept, SameSynack, NothingSame
  DEF vars, fieldVars, otherVars, taskVars, tableVars, ServeKept
<1>8. ServeKept
  BY <1>1, <1>2, <1>3, <1>4, <1>5, <1>6, <1>7 DEF Next, TaskStep
<1>9. WaitInv'
  BY NextWaits DEF ServeInv
<1>10. QED
  BY <1>8, <1>9 DEF ServeInv, ServeKept

(* A new bridge has nobody to attend to.                                     *)
LEMMA InitServed == Init => ServeInv
<1> SUFFICES ASSUME Init PROVE ServeInv
  OBVIOUS
<1>1. WaitInv
  BY InitTyped, InitWaits DEF WaitInv
<1>2. \A c \in Conns : ServeOK(c)
  BY DEF Init, ServeOK, Live, SynackAt, Idle, At
<1>3. \A h \in Handlers : NothingAfter(h)
  BY DEF Init, NothingAfter, Idle, At
<1>4. QED
  BY <1>1, <1>2, <1>3 DEF ServeInv

(* All are attended for any number of handlers.                              *)
LEMMA ServeInvariance == ASSUME PlainSegments PROVE Spec => []ServeInv
<1>1. Init => ServeInv
  BY InitServed
<1>2. ServeInv /\ [Next]_vars => ServeInv'
  BY NextServed
<1>3. QED
  BY <1>1, <1>2, PTL DEF Spec

(* Somebody reads the host of every open connection, or will, for any number *)
(* of handlers, if no segment brings a FIN with its data (tcp_nat.py:290-293,*)
(* 433-434); the FIN taken after such data is the run v_unserved.            *)
THEOREM EveryoneServed == ASSUME PlainSegments PROVE Spec => []Served
<1>1. ServeInv => Served
  BY DEF ServeInv, ServeOK, Live, Attended, SynackAt, Served
<1>2. QED
  BY <1>1, ServeInvariance, PTL

-----------------------------------------------------------------------------
(* Every frame the NAT injects has the key of a connection.                  *)

WireFrame == [key : Keys, flags : SUBSET Flags, seq : SeqNums, ack : SeqNums,
              data : Seq(Nat)]

(* A step that injects a frame with a key, or none, says so.                 *)
LEMMA InjectKeyed ==
  ASSUME out' \in Seq(FrameType), NEW f, f.key \in Keys, Inject(f) \/ Quiet
  PROVE  out' \in Seq(WireFrame)
<1>1. CASE out' = <<>>
  BY <1>1
<1>2. CASE out' = <<f>>
  <2>1. f = out'[1] /\ 1 \in DOMAIN out'
    BY <1>2
  <2>2. f \in FrameType
    BY <2>1
  <2>3. f \in WireFrame
    BY <2>2 DEF FrameType, WireFrame
  <2> QED
    BY <1>2, <2>3
<1> QED
  BY <1>1, <1>2 DEF Inject, Quiet

(* A quiet step injects none.                                                *)
LEMMA QuietKeyed ==
  ASSUME Quiet
  PROVE  out' \in Seq(WireFrame)
BY DEF Quiet

(* The frames of a connection have its key, and a reset the key it is for.   *)
LEMMA FrameKeyed ==
  ASSUME NEW k, NEW flags, NEW s, NEW a, NEW data
  PROVE  Frame(k, flags, s, a, data).key = k
BY DEF Frame

(* A connection that a step injects for has a key.                           *)
OfKey(c) ==
    \/ Quiet
    \/ \E flags, s, a, data : Inject(Frame(key[c], flags, s, a, data))

(* A frame of a keyed connection names a key of the table.                   *)
LEMMA OfKeyKeyed ==
  ASSUME out' \in Seq(FrameType), NEW c, key[c] \in Keys, OfKey(c)
  PROVE  out' \in Seq(WireFrame)
<1>1. CASE Quiet
  BY <1>1 DEF Quiet
<1>2. CASE ~Quiet
  <2>1. PICK flags, s, a, data : Inject(Frame(key[c], flags, s, a, data))
    BY <1>2 DEF OfKey
  <2> QED
    BY <2>1, InjectKeyed, FrameKeyed
<1> QED
  BY <1>1, <1>2

(* A segment of a connection is answered for that connection.                *)
LEMMA ConnSegmentKeyed ==
  ASSUME NEW h, NEW c, NEW seg, ConnSegment(h, c, seg)
  PROVE  OfKey(c)
<1>1. OnPayload(h, c, seg) => OfKey(c)
  BY DEF OnPayload, OfKey, AckWith
<1>2. AcceptFin(c) => OfKey(c)
  BY DEF AcceptFin, OfKey, AckWith
<1>3. Ignore => OfKey(c)
  BY DEF Ignore, OfKey
<1>4. on_data(h, c, seg) => OfKey(c)
  BY <1>1, <1>2, <1>3 DEF on_data
<1>5. on_handshake_complete(h, c, seg) => OfKey(c)
  BY <1>1, <1>3 DEF on_handshake_complete, OfKey
<1>6. on_fin_wait(h, c, seg) => OfKey(c)
  BY DEF on_fin_wait, OfKey, AckWith
<1> QED
  BY <1>3, <1>4, <1>5, <1>6 DEF ConnSegment

(* What resets a connection, or tears one down, is for that connection.      *)
LEMMA CloseKeyed ==
  ASSUME NEW c
  PROVE  /\ ResetChip(c) => OfKey(c)
         /\ \A S : CloseSilently(S) => Quiet
         /\ \A S, d, p : TearDown(S, d, p) => Quiet
BY DEF ResetChip, OfKey, CloseSilently, TearDown

(* Every step of a handler that resumes is for the connection it holds.      *)
LEMMA HandlerStepKeyed ==
  ASSUME WaitInv, NEW h \in Handlers, HandlerStep(h), out' \in Seq(FrameType)
  PROVE  out' \in Seq(WireFrame)
<1>1. CASE shutdown(h)
  BY <1>1, CloseKeyed, QuietKeyed DEF shutdown
<1>2. CASE ~shutdown(h)
  <2> DEFINE c == handler[h].conn
  <2>1. HandlerStep(h) /\ ~shutdown(h) =>
          handler[h].pc \notin {"idle", "stopping"}
    BY DEF HandlerStep, GraceOpened, GraceRefused, GraceOver, SynAnswered,
       Drained, DrainFailed, DataAcked, FinAcked, HandlerReset, Resumes
  <2>2. c \in Conns
    BY <1>2, <2>1 DEF WaitInv, TypeInv, HoldsConn
  <2>3. key[c] \in Keys
    BY <2>2, HeldMade
  <2>4. CASE GraceRefused(h)
    <3>1. Inject(RstFor(key[c], handler[h].seg))
      BY <2>4 DEF GraceRefused
    <3>2. RstFor(key[c], handler[h].seg).key = key[c]
      BY DEF RstFor, Frame
    <3> QED
      BY <3>1, <3>2, <2>3, InjectKeyed
  <2>5. CASE GraceOpened(h) \/ GraceOver(h) \/ SynAnswered(h)
    <3>1. OfKey(c)
      BY <2>5 DEF GraceOpened, GraceOver, SynAnswered, AnswerSyn, OfKey
    <3> QED
      BY <3>1, <2>3, OfKeyKeyed
  <2>6. CASE Drained(h) \/ DrainFailed(h) \/ DataAcked(h)
    <3>1. OfKey(c)
      BY <2>6, CloseKeyed
      DEF Drained, DrainFailed, DataAcked, AcceptFin, AckWith, OfKey
    <3> QED
      BY <3>1, <2>3, OfKeyKeyed
  <2>7. CASE FinAcked(h) \/ HandlerReset(h)
    BY <2>7, CloseKeyed, QuietKeyed DEF FinAcked, HandlerReset
  <2> QED
    BY <1>2, <2>4, <2>5, <2>6, <2>7 DEF HandlerStep
<1> QED
  BY <1>1, <1>2

(* Every step of the deferred connect.                                       *)
LEMMA DeferredStepKeyed ==
  ASSUME WaitInv, NEW c \in Conns, DeferredStep(c), out' \in Seq(FrameType)
  PROVE  out' \in Seq(WireFrame)
<1>1. ~Unused(c)
  BY DEF DeferredStep, DeferredStarts, DeferredCancelled, DeferredFails,
     DeferredAttaches, Flushed, FlushFailed, DeferredReset, DialEnded,
     DeferredAt, Unused
<1>2. key[c] \in Keys
  BY <1>1, RegisteredMade
<1>3. OfKey(c)
  BY CloseKeyed
  DEF DeferredStep, DeferredStarts, DeferredCancelled, DeferredFails,
      DeferredAttaches, Flushed, FlushFailed, DeferredReset, OfKey
<1> QED
  BY <1>2, <1>3, OfKeyKeyed

(* Every step of a pump.                                                     *)
LEMMA PumpStepKeyed ==
  ASSUME WaitInv, NEW c \in Conns, NEW o \in Starters, PumpStep(c, o),
         out' \in Seq(FrameType)
  PROVE  out' \in Seq(WireFrame)
<1>1. ~Unused(c)
  BY PumpAlone
<1>2. key[c] \in Keys
  BY <1>1, RegisteredMade
<1>3. OfKey(c)
  BY CloseKeyed
  DEF PumpStep, PumpStarts, PumpSent, PumpEof, PumpFinSent, PumpRaises,
      PumpReset, PumpReads, OfKey
<1> QED
  BY <1>2, <1>3, OfKeyKeyed

(* Every step of the NAT injects frames with the key of a connection.        *)
LEMMA NextKeyed ==
  ASSUME WaitInv, [Next]_vars, out \in Seq(WireFrame)
  PROVE  out' \in Seq(WireFrame)
<1>1. TypeInv /\ TypeInv'
  BY NextTyped DEF WaitInv
<1>2. out' \in Seq(FrameType)
  BY <1>1 DEF TypeInv, TypeOK
<1>3. ASSUME NEW h \in Handlers, NEW k \in Keys, NEW seg \in Segments,
             handle_chip_segment(h, k, seg)
      PROVE  out' \in Seq(WireFrame)
  <2>1. CASE ChipRst(k, seg)
    BY <2>1, CloseKeyed, QuietKeyed DEF ChipRst
  <2>2. CASE DropSynRetransmit(k, seg) \/ on_passive_syn(h, k, seg)
    BY <2>2, QuietKeyed DEF DropSynRetransmit, on_passive_syn
  <2>3. CASE RefuseSegment(k, seg)
    <3>1. Inject(RstFor(k, seg)) /\ RstFor(k, seg).key = k
      BY <2>3 DEF RefuseSegment, RstFor, Frame
    <3> QED
      BY <3>1, <1>2, InjectKeyed
  <2>4. CASE /\ conns[k] # None
             /\ ConnSegment(h, conns[k], seg) \/ LastAck(conns[k], seg)
    <3>1. conns[k] \in Conns /\ key[conns[k]] = k
      BY <1>1, <2>4 DEF WaitInv, WaitOK, TypeInv, TypeOK, ConnsOrNone
    <3>2. CASE LastAck(conns[k], seg)
      BY <3>2, CloseKeyed, QuietKeyed DEF LastAck
    <3>3. CASE ConnSegment(h, conns[k], seg)
      BY <3>1, <3>3, <1>2, ConnSegmentKeyed, OfKeyKeyed
    <3> QED
      BY <2>4, <3>2, <3>3
  <2> QED
    BY <1>3, <2>1, <2>2, <2>3, <2>4 DEF handle_chip_segment
<1>4. ASSUME NEW h \in Handlers, stop(h)
      PROVE  out' \in Seq(WireFrame)
  BY <1>4, QuietKeyed DEF stop
<1>5. ASSUME NEW c \in Conns, DialStep(c)
      PROVE  out' \in Seq(WireFrame)
  BY <1>5, QuietKeyed
  DEF DialStep, HostAnswers, HostRefuses, AttemptTimesOut, Dials
<1>6. CASE UNCHANGED vars
  BY <1>6 DEF vars
<1>7. CASE TaskStep
  BY <1>2, <1>5, <1>7, HandlerStepKeyed, DeferredStepKeyed, PumpStepKeyed
  DEF TaskStep
<1> QED
  BY <1>3, <1>4, <1>6, <1>7 DEF Next

-----------------------------------------------------------------------------
(* What the NAT injects is plain, but what a pump reads of its host.         *)

PlainFrames(k, fs) ==
    \A i \in DOMAIN fs :
        fs[i].key = k => fs[i].data = <<>> /\ "FIN" \notin fs[i].flags

(* A step that injects nothing, or a frame with neither bytes nor a FIN.     *)
BareOut ==
    \/ Quiet
    \/ \E k, flags, s, a :
         "FIN" \notin flags /\ Inject(Frame(k, flags, s, a, <<>>))

(* Its frames are plain.                                                     *)
LEMMA BarePlain ==
  ASSUME BareOut, NEW k
  PROVE  PlainFrames(k, out')
<1>1. CASE out' = <<>>
  BY <1>1 DEF PlainFrames
<1>2. CASE out' # <<>>
  <2>1. PICK j, flags, s, a :
          "FIN" \notin flags /\ Inject(Frame(j, flags, s, a, <<>>))
    BY <1>2 DEF BareOut, Quiet
  <2>2. PICK f : f = Frame(j, flags, s, a, <<>>)
    OBVIOUS
  <2>3. out' = <<f>> /\ f.data = <<>> /\ f.flags = flags
    BY <1>2, <2>1, <2>2 DEF Inject, Frame
  <2>4. \A i \in DOMAIN out' : out'[i] = f
    BY <2>3
  <2> QED
    BY <2>1, <2>3, <2>4 DEF PlainFrames
<1> QED
  BY <1>1, <1>2

(* So are those that a pump sends for another key.                           *)
LEMMA OtherPlain ==
  ASSUME NEW f, Inject(f), NEW k, f.key # k
  PROVE  PlainFrames(k, out')
<1>1. \A i \in DOMAIN out' : out'[i] = f
  <2>1. CASE out' = <<>>
    BY <2>1
  <2>2. CASE out' = <<f>>
    BY <2>2
  <2> QED
    BY <2>1, <2>2 DEF Inject
<1> QED
  BY <1>1 DEF PlainFrames

(* The answers to a segment, and the closing of a connection, are bare.      *)
LEMMA CloseBare ==
  /\ \A c : ResetChip(c) => BareOut
  /\ \A S : CloseSilently(S) => BareOut
  /\ \A S, d, p : TearDown(S, d, p) => BareOut
<1>1. "FIN" \notin {"RST"}
  OBVIOUS
<1> QED
  BY <1>1 DEF ResetChip, CloseSilently, TearDown, BareOut

(* An ACK is bare,                                                           *)
LEMMA AckBare ==
  ASSUME NEW c, NEW a, Inject(AckWith(c, a))
  PROVE  BareOut
<1>1. "FIN" \notin {"ACK"}
  OBVIOUS
<1> QED
  BY <1>1 DEF AckWith, BareOut

(* a RST is,                                                                 *)
LEMMA RstBare ==
  ASSUME NEW k, NEW s, Inject(RstFor(k, s))
  PROVE  BareOut
<1>1. "FIN" \notin {"RST", "ACK"}
  OBVIOUS
<1> QED
  BY <1>1 DEF RstFor, BareOut

(* and so is what a segment is answered with.                                *)
LEMMA SegmentBare ==
  ASSUME NEW h, NEW k, NEW seg, handle_chip_segment(h, k, seg)
  PROVE  BareOut
<1> DEFINE c == conns[k]
<1>1. CASE ChipRst(k, seg)
  BY <1>1, CloseBare DEF ChipRst
<1>2. CASE DropSynRetransmit(k, seg) \/ on_passive_syn(h, k, seg)
  BY <1>2 DEF DropSynRetransmit, on_passive_syn, BareOut
<1>3. CASE RefuseSegment(k, seg)
  BY <1>3, RstBare DEF RefuseSegment
<1>4. CASE LastAck(c, seg)
  BY <1>4, CloseBare DEF LastAck
<1>5. CASE ConnSegment(h, c, seg)
  <2>1. OnPayload(h, c, seg) => BareOut
    BY AckBare DEF OnPayload, BareOut
  <2>2. AcceptFin(c) => BareOut
    BY AckBare DEF AcceptFin
  <2>3. Ignore => BareOut
    BY DEF Ignore, BareOut
  <2>4. on_data(h, c, seg) => BareOut
    BY <2>1, <2>2, <2>3 DEF on_data
  <2>5. on_handshake_complete(h, c, seg) => BareOut
    BY <2>1, <2>3 DEF on_handshake_complete, BareOut
  <2>6. on_fin_wait(h, c, seg) => BareOut
    BY AckBare DEF on_fin_wait, BareOut
  <2> QED
    BY <1>5, <2>3, <2>4, <2>5, <2>6 DEF ConnSegment
<1> QED
  BY <1>1, <1>2, <1>3, <1>4, <1>5 DEF handle_chip_segment

(* What a handler sends later is bare too,                                   *)
LEMMA HandlerBare ==
  ASSUME NEW h, HandlerStep(h)
  PROVE  BareOut
<1>1. CASE shutdown(h) \/ FinAcked(h) \/ HandlerReset(h)
  BY <1>1, CloseBare DEF shutdown, FinAcked, HandlerReset
<1>2. CASE GraceRefused(h)
  BY <1>2, RstBare DEF GraceRefused
<1>3. CASE GraceOpened(h) \/ GraceOver(h)
  <2>1. "FIN" \notin {"SYN", "ACK"}
    OBVIOUS
  <2> QED
    BY <1>3, <2>1 DEF GraceOpened, GraceOver, AnswerSyn, BareOut
<1>4. CASE SynAnswered(h)
  BY <1>4 DEF SynAnswered, BareOut
<1>5. CASE Drained(h) \/ DataAcked(h)
  BY <1>5, AckBare DEF Drained, DataAcked, AcceptFin
<1>6. CASE DrainFailed(h)
  BY <1>6, CloseBare DEF DrainFailed, BareOut
<1> QED
  BY <1>1, <1>2, <1>3, <1>4, <1>5, <1>6 DEF HandlerStep

(* and what a deferred connect sends,                                        *)
LEMMA DeferredBare ==
  ASSUME NEW c, DeferredStep(c)
  PROVE  BareOut
<1>1. CASE DeferredStarts(c) \/ DeferredCancelled(c) \/ DeferredAttaches(c)
             \/ Flushed(c)
  BY <1>1 DEF DeferredStarts, DeferredCancelled, DeferredAttaches, Flushed,
     BareOut
<1>2. CASE DeferredFails(c) \/ FlushFailed(c) \/ DeferredReset(c)
  BY <1>2, CloseBare DEF DeferredFails, FlushFailed, DeferredReset, BareOut
<1> QED
  BY <1>1, <1>2 DEF DeferredStep

(* and all of a pump but the host's bytes and its end.                       *)
LEMMA PumpBare ==
  ASSUME NEW c \in Conns, NEW o \in Starters, PumpStep(c, o)
  PROVE  \/ BareOut
         \/ /\ pump[c][o] = "read"
            /\ host[c] \in {"open", "eof"} \/ Carries(c)
            /\ \E f : Inject(f) /\ f.key = key[c]
<1>1. CASE PumpStarts(c, o) \/ PumpSent(c, o) \/ PumpFinSent(c, o)
  BY <1>1 DEF PumpStarts, PumpSent, PumpFinSent, BareOut
<1>2. CASE PumpRaises(c, o) \/ PumpReset(c, o)
  BY <1>2, CloseBare DEF PumpRaises, PumpReset, BareOut
<1>3. CASE PumpEof(c, o)
  BY <1>3, FrameKeyed DEF PumpEof, PumpAt, BareOut
<1>4. ASSUME NEW n \in ReadSizes, PumpReads(c, o, n)
      PROVE  /\ pump[c][o] = "read" /\ host[c] \in {"open", "eof"}
             /\ \E f : Inject(f) /\ f.key = key[c]
  BY <1>4, FrameKeyed DEF PumpReads, PumpAt
<1> QED
  BY <1>1, <1>2, <1>3, <1>4 DEF PumpStep

(* A key for which no pump has bytes or an end to send gets plain frames.    *)
LEMMA NextPlain ==
  ASSUME [Next]_vars, NEW k, PlainFrames(k, out),
         \A c \in Conns, o \in Starters : key[c] = k /\ pump[c][o] = "read" =>
           host[c] \notin {"open", "eof"} /\ ~Carries(c)
  PROVE  PlainFrames(k, out')
<1>1. ASSUME NEW c \in Conns, NEW o \in Starters, PumpStep(c, o)
      PROVE  PlainFrames(k, out')
  <2>1. CASE BareOut
    BY <2>1, BarePlain
  <2>2. CASE ~BareOut
    <3>1. PICK f : Inject(f) /\ f.key = key[c]
      BY <1>1, <2>2, PumpBare
    <3>2. key[c] # k
      BY <1>1, <2>2, PumpBare
    <3> QED
      BY <3>1, <3>2, OtherPlain
  <2> QED
    BY <2>1, <2>2
<1>2. CASE UNCHANGED vars
  BY <1>2 DEF vars
<1>3. ASSUME NEW h \in Handlers, stop(h) PROVE BareOut
  BY <1>3 DEF stop, BareOut
<1>4. ASSUME NEW c \in Conns, DialStep(c) PROVE BareOut
  BY <1>4
  DEF DialStep, HostAnswers, HostRefuses, AttemptTimesOut, Dials, BareOut
<1>5. CASE TaskStep
  BY <1>1, <1>4, <1>5, HandlerBare, DeferredBare, BarePlain DEF TaskStep
<1> QED
  BY <1>2, <1>3, <1>5, SegmentBare, BarePlain DEF Next

-----------------------------------------------------------------------------
(* What most steps of the gateway do to a connection d, as far as the chip's *)
(* bytes go: they pass on what is held, or nothing.                          *)

(* No handler takes up an RST, a payload or a dial.                          *)
Retires ==
    \A h \in Handlers :
      \/ handler'[h] = handler[h]
      \/ handler'[h].pc \notin {"rst", "drain", "acked", "grace"}

(* A handler that moves away from where it could own something.              *)
LEMMA MovesAway ==
  ASSUME TypeInv, NEW h \in Handlers, NEW x,
         x.pc \notin {"rst", "drain", "acked", "grace"},
         handler' = [handler EXCEPT ![h] = x]
  PROVE  Retires
BY DEF Retires, TypeInv, TypeOK

(* Handlers that stay.                                                       *)
LEMMA NoneRetires == handler' = handler => Retires
BY DEF Retires

(* The pumps of a connection whose handshake is not behind it.               *)
Early == {"none", "hs", "done"}

Taken(c) == Len(written[c]) + Len(pending_payload[c])

(* The handler holds a FIN of c that it has not taken yet.                   *)
FinInHand(c) ==
    \E h \in Handlers :
        /\ handler[h].conn = c
        /\ \/ handler[h].pc = "acked"
           \/ handler[h].pc = "drain" /\ "FIN" \in handler[h].seg.flags

(* The end of the chip's stream was seen.                                    *)
EndDue(c) == pending_eof[c] \/ FinInHand(c) \/ host[c] = "eof"

SteadyId(d) ==
    /\ key'[d] = key[d] /\ chip_isn'[d] = chip_isn[d]
    /\ our_isn'[d] = our_isn[d]
    /\ Registered(d)' => Registered(d)

SteadyHost(d) ==
    /\ host[d] = "closed" => host'[d] = "closed"
    /\ host[d] = "eof" => host'[d] \in {"eof", "closed"}

SteadyBytes(d) ==
    \/ written'[d] = written[d] /\ pending_payload'[d] = pending_payload[d]
    \/ /\ host[d] = "none" /\ host'[d] \in {"open", "eof"}
       /\ written'[d] = written[d] \o pending_payload[d]
       /\ pending_payload'[d] = <<>>

SteadyState(d) ==
    /\ state'[d] \in {"SYN_RCVD", "ESTABLISHED"} => state'[d] = state[d]
    /\ state'[d] \notin {"CLOSED", "SYN_RCVD"} =>
         state[d] \notin {"CLOSED", "SYN_RCVD"} \/ InPayload(d)

SteadyTasks(d) ==
    /\ \A o \in Starters :
         pump'[d][o] \notin Early => pump[d][o] \notin Early \/ Carries(d)
    /\ InGrace(d)' => InGrace(d)
    /\ our_seq'[d] = our_seq[d]
         \/ \E o \in Starters : pump[d][o] \in {"sent", "finsent"}

Steady(d) ==
    /\ SteadyId(d) /\ SteadyHost(d) /\ SteadyBytes(d)
    /\ SteadyState(d) /\ SteadyTasks(d)
    /\ EndDue(d)' => EndDue(d)

(* No handler takes up a FIN of a connection left alone, or its grace.       *)
LEMMA ApartHands ==
  ASSUME NEW d \in Conns, NobodyMoves(d)
  PROVE  /\ FinInHand(d)' => FinInHand(d)
         /\ InGrace(d)' => InGrace(d)
BY DEF NobodyMoves, FinInHand, InGrace

(* A connection that a step leaves alone is steady.                          *)
LEMMA ApartSteady ==
  ASSUME NEW d \in Conns, Apart(d), our_isn'[d] = our_isn[d],
         our_seq'[d] = our_seq[d]
  PROVE  Steady(d)
<1>1. FinInHand(d)' => FinInHand(d)
  BY ApartHands DEF Apart
<1>2. InGrace(d)' => InGrace(d)
  BY ApartHands DEF Apart
<1>3. SteadyId(d) /\ SteadyHost(d) /\ SteadyBytes(d) /\ SteadyState(d)
  BY DEF Apart, SameFields, SteadyId, SteadyHost, SteadyBytes, SteadyState,
     Registered
<1>4. SteadyTasks(d)
  BY <1>2 DEF Apart, SameFields, SteadyTasks
<1>5. EndDue(d)' => EndDue(d)
  BY <1>1 DEF Apart, SameFields, EndDue
<1> QED
  BY <1>3, <1>4, <1>5 DEF Steady

(* A handler that retires takes up no FIN.                                   *)
LEMMA RetiresHands ==
  ASSUME NEW d, Retires
  PROVE  /\ FinInHand(d)' => FinInHand(d)
         /\ InGrace(d)' => InGrace(d)
BY DEF Retires, FinInHand, InGrace

(* The second half of _close leaves the bytes alone.                         *)
LEMMA TearDownSteady ==
  ASSUME WaitInv, Retires, NEW S \in SUBSET Conns, NEW e, NEW p,
         TearDown(S, e, p), NEW d \in Conns,
         \A o \in Starters : p[d][o] \in {pump[d][o], "done"},
         state'[d] \in {state[d], "CLOSED"}
  PROVE  Steady(d)
<1>1. /\ FinInHand(d)' => FinInHand(d)
      /\ InGrace(d)' => InGrace(d)
  BY RetiresHands
<1>2. /\ host'[d] \in {host[d], HostAfterClose(host[d])}
      /\ key' = key /\ chip_isn' = chip_isn /\ our_isn' = our_isn
      /\ written' = written /\ pending_payload' = pending_payload
      /\ pending_eof' = pending_eof /\ our_seq' = our_seq
      /\ \A o \in Starters : pump'[d][o] \in {p[d][o], "done"}
  BY DEF TearDown, idVars, bufVars, seqVars
<1>3. \A k \in Keys : conns'[k] \in {conns[k], None}
  BY DEF TearDown
<1>4. Registered(d)' => Registered(d)
  BY <1>3, TcpNatAssumption DEF Registered
<1>5. SteadyId(d) /\ SteadyHost(d) /\ SteadyBytes(d) /\ SteadyState(d)
  BY <1>2, <1>4 DEF SteadyId, SteadyHost, SteadyBytes, SteadyState,
     HostAfterClose
<1>6. SteadyTasks(d)
  BY <1>1, <1>2 DEF SteadyTasks, Early
<1>7. EndDue(d)' => EndDue(d)
  BY <1>1, <1>2 DEF EndDue, HostAfterClose
<1> QED
  BY <1>5, <1>6, <1>7 DEF Steady

(* So does a close that sends nothing,                                       *)
LEMMA CloseSteady ==
  ASSUME WaitInv, Retires, NEW S \in SUBSET Conns, CloseSilently(S),
         NEW d \in Conns
  PROVE  Steady(d)
<1>1. PICK T \in SUBSET Conns : TearDown(T, deferred, pump)
  BY DEF CloseSilently
<1>2. state'[d] \in {state[d], "CLOSED"}
  BY DEF CloseSilently
<1> QED
  BY <1>1, <1>2, TearDownSteady

(* and a step that moves no connection on.                                   *)
LEMMA StillSteady ==
  ASSUME WaitInv, Retires, NEW d \in Conns,
         UNCHANGED <<conns, idVars, fieldVars, pump>>
  PROVE  Steady(d)
<1>1. /\ FinInHand(d)' => FinInHand(d)
      /\ InGrace(d)' => InGrace(d)
  BY RetiresHands
<1>2. UNCHANGED <<conns, key, chip_isn, our_isn, state, our_seq, host, written,
                  pending_payload, pending_eof, pump>>
  BY DEF idVars, fieldVars, seqVars, bufVars
<1>3. SteadyId(d) /\ SteadyHost(d) /\ SteadyBytes(d) /\ SteadyState(d)
  BY <1>2 DEF SteadyId, SteadyHost, SteadyBytes, SteadyState, Registered
<1>4. SteadyTasks(d)
  BY <1>1, <1>2 DEF SteadyTasks
<1>5. EndDue(d)' => EndDue(d)
  BY <1>1, <1>2 DEF EndDue
<1> QED
  BY <1>3, <1>4, <1>5 DEF Steady

(* A handler that moves anywhere but to a grace or a payload.                *)
LEMMA MovesHands ==
  ASSUME TypeInv, NEW h \in Handlers, NEW x,
         x.pc \notin {"drain", "acked", "grace"},
         handler' = [handler EXCEPT ![h] = x]
  PROVE  \A d : /\ FinInHand(d)' => FinInHand(d)
                /\ InGrace(d)' => InGrace(d)
<1>1. handler'[h] = x /\ \A g \in Handlers \ {h} : handler'[g] = handler[g]
  BY DEF TypeInv, TypeOK
<1> QED
  BY <1>1 DEF FinInHand, InGrace

(* The handler that holds c, in what it does to c.                           *)
LEMMA HoldsSteady ==
  ASSUME WaitInv, NEW h \in Handlers, NEW c \in Conns, handler[h].conn = c,
         SynAnswered(h) \/ Drained(h) \/ DrainFailed(h) \/ DataAcked(h)
  PROVE  Steady(c)
<1>0. /\ pump \in [Conns -> [Starters -> PumpPcs]] /\ TypeInv
      /\ state \in [Conns -> States]
      /\ host \in [Conns -> {"none", "open", "eof", "closed"}]
      /\ pending_eof \in [Conns -> BOOLEAN]
  BY DEF WaitInv, TypeInv, TypeOK
<1>1. UNCHANGED <<conns, key, chip_isn, our_isn, our_seq, written,
                  pending_payload>>
  BY DEF SynAnswered, Drained, DrainFailed, DataAcked, AcceptFin, otherVars,
     fieldVars, tableVars, idVars, seqVars, bufVars
<1>2. SteadyId(c) /\ SteadyBytes(c)
  BY <1>1 DEF SteadyId, SteadyBytes, Registered
<1>3. CASE SynAnswered(h)
  <2>1. UNCHANGED <<state, host, pending_eof>>
    BY <1>3 DEF SynAnswered, fieldVars, bufVars
  <2>2. \A o \in Starters : pump'[c][o] \in {pump[c][o], "hs"}
    BY <1>0, <1>3 DEF SynAnswered, StartPump
  <2>3. handler' = [handler EXCEPT ![h] = Idle]
    BY <1>3 DEF SynAnswered
  <2>4. /\ FinInHand(c)' => FinInHand(c)
        /\ InGrace(c)' => InGrace(c)
    BY <1>0, <2>3, MovesHands, IdleTyped
  <2>5. SteadyHost(c) /\ SteadyState(c) /\ (EndDue(c)' => EndDue(c))
    BY <2>1, <2>4 DEF SteadyHost, SteadyState, EndDue
  <2>6. SteadyTasks(c)
    BY <1>1, <2>2, <2>4 DEF SteadyTasks, Early
  <2> QED
    BY <1>2, <2>5, <2>6 DEF Steady
<1>4. CASE Drained(h)
  <2>1. UNCHANGED <<state, host, pending_eof, pump>>
    BY <1>4 DEF Drained, bufVars, otherVars, taskVars
  <2>2. handler' = [handler EXCEPT ![h] =
          IF "FIN" \in handler[h].seg.flags THEN At("acked", c, NoSegment)
          ELSE Idle]
    BY <1>4 DEF Drained, AfterPayload
  <2>3. handler[h].pc = "drain"
    BY <1>4 DEF Drained, Resumes
  <2>4. /\ FinInHand(c)' => FinInHand(c)
        /\ InGrace(c)' => InGrace(c)
    <3>1. CASE "FIN" \in handler[h].seg.flags
      <4>1. FinInHand(c)
        BY <2>3, <3>1 DEF FinInHand
      <4>2. /\ handler'[h].pc = "acked"
            /\ \A g \in Handlers \ {h} : handler'[g] = handler[g]
        BY <1>0, <2>2, <3>1 DEF At, TypeInv, TypeOK
      <4> QED
        BY <4>1, <4>2 DEF InGrace
    <3>2. CASE "FIN" \notin handler[h].seg.flags
      BY <1>0, <2>2, <3>2, MovesHands, IdleTyped
    <3> QED
      BY <3>1, <3>2
  <2>5. SteadyHost(c) /\ SteadyState(c) /\ (EndDue(c)' => EndDue(c))
    BY <2>1, <2>4 DEF SteadyHost, SteadyState, EndDue
  <2>6. SteadyTasks(c)
    BY <1>1, <2>1, <2>4 DEF SteadyTasks
  <2> QED
    BY <1>2, <2>5, <2>6 DEF Steady
<1>5. CASE DrainFailed(h)
  <2>1. /\ UNCHANGED <<host, pending_eof, pump>>
        /\ state'[c] \in {state[c], "CLOSED"}
    BY <1>0, <1>5 DEF DrainFailed, ResetChip, bufVars, otherVars, taskVars
  <2>2. PICK x : /\ handler' = [handler EXCEPT ![h] = x]
                 /\ x.pc \in {"rst", "idle"}
    BY <1>5, IdleTyped DEF DrainFailed, At
  <2>3. /\ FinInHand(c)' => FinInHand(c)
        /\ InGrace(c)' => InGrace(c)
    BY <1>0, <2>2, MovesHands
  <2>4. SteadyHost(c) /\ SteadyState(c) /\ (EndDue(c)' => EndDue(c))
    BY <2>1, <2>3 DEF SteadyHost, SteadyState, EndDue
  <2>5. SteadyTasks(c)
    BY <1>1, <2>1, <2>3 DEF SteadyTasks
  <2> QED
    BY <1>2, <2>4, <2>5 DEF Steady
<1>6. CASE DataAcked(h)
  <2>1. /\ host'[c] = IF host[c] = "open" THEN "eof" ELSE host[c]
        /\ state'[c] = "CLOSE_WAIT" /\ pump' = pump
    BY <1>0, <1>6 DEF DataAcked, AcceptFin, StateAfterFin, otherVars, taskVars
  <2>2. InPayload(c) /\ EndDue(c)
    BY <1>6 DEF DataAcked, Resumes, InPayload, HandlerAt, EndDue, FinInHand
  <2>3. InGrace(c)' => InGrace(c)
    BY <1>0, <1>6, MovesHands, IdleTyped DEF DataAcked
  <2>4. SteadyHost(c) /\ SteadyState(c)
    BY <2>1, <2>2 DEF SteadyHost, SteadyState
  <2>5. SteadyTasks(c)
    BY <1>1, <2>1, <2>3 DEF SteadyTasks
  <2> QED
    BY <1>2, <2>2, <2>4, <2>5 DEF Steady
<1> QED
  BY <1>3, <1>4, <1>5, <1>6

(* Every later step of a handler but the answer to a SYN.                    *)
LEMMA HandlerSteady ==
  ASSUME WaitInv, NEW h \in Handlers, HandlerStep(h), NEW d \in Conns,
         (GraceOpened(h) \/ GraceOver(h)) => d # handler[h].conn
  PROVE  Steady(d)
<1> PICK c : c = handler[h].conn
  OBVIOUS
<1>1. ASSUME NEW pc, pc \notin {"idle", "stopping"}, Resumes(h, pc)
      PROVE  c \in Conns /\ handler[h].pc = pc
  BY <1>1, HeldConn DEF WaitInv, Resumes
<1>2. CASE GraceOpened(h) \/ GraceOver(h)
  <2>1. c \in Conns /\ handler[h].pc = "grace" /\ d \in Conns \ {c}
    BY <1>1, <1>2 DEF GraceOpened, GraceOver
  <2>2. Apart(d)
    BY <1>2, <2>1, AnswerSynAlone DEF GraceOpened, GraceOver
  <2>3. our_isn' = our_isn /\ our_seq' = our_seq
    BY <1>2 DEF GraceOpened, GraceOver, AnswerSyn, idVars, seqVars
  <2> QED
    BY <2>2, <2>3, ApartSteady
<1>3. CASE GraceRefused(h)
  <2>1. Retires
    BY <1>3, MovesAway DEF GraceRefused, Idle, At, WaitInv
  <2>2. UNCHANGED <<conns, idVars, fieldVars, pump>>
    BY <1>3 DEF GraceRefused, taskVars
  <2> QED
    BY <2>1, <2>2, StillSteady
<1>4. CASE SynAnswered(h) \/ Drained(h) \/ DrainFailed(h) \/ DataAcked(h)
  <2>1. c \in Conns
    BY <1>1, <1>4 DEF SynAnswered, Drained, DrainFailed, DataAcked
  <2>2. CASE d = c
    BY <1>4, <2>1, <2>2, HoldsSteady
  <2>3. CASE d # c
    <3>1. Apart(d)
      BY <1>4, <2>1, <2>3, HandlerAlone
    <3>2. our_isn' = our_isn /\ our_seq' = our_seq
      BY <1>4 DEF SynAnswered, Drained, DrainFailed, DataAcked, AcceptFin,
         otherVars, fieldVars, idVars, seqVars
    <3> QED
      BY <3>1, <3>2, ApartSteady
  <2> QED
    BY <2>2, <2>3
<1>5. CASE FinAcked(h)
  <2>1. Retires
    BY <1>5, MovesAway DEF FinAcked, Idle, At, WaitInv
  <2>2. {c} \in SUBSET Conns
    BY <1>1, <1>5 DEF FinAcked
  <2> QED
    BY <1>5, <2>1, <2>2, CloseSteady DEF FinAcked
<1>6. CASE shutdown(h)
  <2>1. Retires
    BY <1>6, MovesAway DEF shutdown, Idle, At, WaitInv
  <2> QED
    BY <1>6, <2>1, CloseSteady DEF shutdown
<1>7. CASE HandlerReset(h)
  <2>1. Retires
    BY <1>7, MovesAway DEF HandlerReset, Idle, At, WaitInv
  <2>2. {c} \in SUBSET Conns
    BY <1>1, <1>7 DEF HandlerReset
  <2>3. TearDown({c}, deferred, pump) /\ state' = state
    BY <1>7 DEF HandlerReset
  <2> QED
    BY <2>1, <2>2, <2>3, TearDownSteady
<1> QED
  BY <1>2, <1>3, <1>4, <1>5, <1>6, <1>7 DEF HandlerStep

(* The deferred connect passes on what is held, and the end that is due.     *)
LEMMA DeferredHolds ==
  ASSUME WaitInv, NEW c \in Conns, DeferredStep(c), ~DeferredReset(c)
  PROVE  Steady(c)
<1>0. /\ state \in [Conns -> States]
      /\ pump \in [Conns -> [Starters -> PumpPcs]]
      /\ host \in [Conns -> {"none", "open", "eof", "closed"}]
      /\ pending_eof \in [Conns -> BOOLEAN]
      /\ written \in [Conns -> Seq(Nat)]
      /\ pending_payload \in [Conns -> Seq(Nat)] /\ TypeInv
  BY DEF WaitInv, TypeInv, TypeOK
<1>1. UNCHANGED <<handler, key, chip_isn, conns>>
  BY DeferredAlone
<1>2. our_isn' = our_isn /\ our_seq' = our_seq
  BY DEF DeferredStep, DeferredStarts, DeferredCancelled, DeferredFails,
     DeferredAttaches, Flushed, FlushFailed, DialEnded, idVars, seqVars,
     fieldVars
<1>3. /\ SteadyId(c)
      /\ FinInHand(c)' <=> FinInHand(c)
      /\ InGrace(c)' <=> InGrace(c)
  BY <1>1, <1>2 DEF SteadyId, Registered, FinInHand, InGrace
<1>4. CASE DeferredStarts(c) \/ DeferredCancelled(c)
  <2>1. Retires
    BY <1>1, NoneRetires
  <2>2. UNCHANGED <<conns, idVars, fieldVars, pump>>
    BY <1>4 DEF DeferredStarts, DeferredCancelled, tableVars
  <2> QED
    BY <2>1, <2>2, StillSteady
<1>5. CASE DeferredFails(c) \/ FlushFailed(c)
  <2>1. /\ UNCHANGED <<host, written, pending_payload, pending_eof, pump>>
        /\ state'[c] \in {state[c], "CLOSED"}
    BY <1>0, <1>5 DEF DeferredFails, FlushFailed, ResetChip, bufVars
  <2>2. SteadyHost(c) /\ SteadyBytes(c) /\ SteadyState(c)
    BY <2>1 DEF SteadyHost, SteadyBytes, SteadyState
  <2>3. SteadyTasks(c) /\ (EndDue(c)' => EndDue(c))
    BY <1>2, <1>3, <2>1 DEF SteadyTasks, EndDue
  <2> QED
    BY <1>3, <2>2, <2>3 DEF Steady
<1>6. CASE FinishAttach(c) /\ state' = state
  <2>1. /\ ~pending_eof'[c]
        /\ host'[c] = IF host[c] \in {"closed", "eof"} THEN host[c]
                      ELSE IF pending_eof[c] THEN "eof" ELSE "open"
    BY <1>0, <1>6, FinishAttachEnd
  <2>2. \A o \in Starters : pump'[c][o] \in {pump[c][o], "hs"}
    BY <1>0, <1>6 DEF FinishAttach, StartPump
  <2>3. SteadyHost(c) /\ SteadyState(c)
    BY <1>6, <2>1 DEF SteadyHost, SteadyState
  <2>4. SteadyTasks(c)
    BY <1>2, <1>3, <2>2 DEF SteadyTasks, Early
  <2>5. EndDue(c)' => EndDue(c)
    BY <1>3, <2>1 DEF EndDue
  <2>6. CASE Flushed(c)
    <3>1. SteadyBytes(c)
      BY <2>6 DEF Flushed, SteadyBytes
    <3> QED
      BY <1>3, <2>3, <2>4, <2>5, <3>1 DEF Steady
  <2>7. CASE DeferredAttaches(c)
    <3>1. host[c] = "none"
      BY <2>7
      DEF DeferredAttaches, DialEnded, DeferredAt, WaitInv, WaitOK, WaitsWell,
          Waits
    <3>2. /\ written'[c] = written[c] \o pending_payload[c]
          /\ pending_payload'[c] = <<>>
      BY <1>0, <2>7 DEF DeferredAttaches
    <3>3. SteadyBytes(c)
      BY <2>1, <3>1, <3>2 DEF SteadyBytes
    <3> QED
      BY <1>3, <2>3, <2>4, <2>5, <3>3 DEF Steady
  <2>8. CASE ~Flushed(c) /\ ~DeferredAttaches(c)
    BY <1>4, <1>5, <2>8 DEF DeferredStep
  <2> QED
    BY <2>6, <2>7, <2>8
<1>7. CASE DeferredAttaches(c) /\ ~FinishAttach(c)
  <2>1. host[c] = "none"
    BY <1>7
    DEF DeferredAttaches, DialEnded, DeferredAt, WaitInv, WaitOK, WaitsWell,
        Waits
  <2>2. /\ written'[c] = written[c] \o pending_payload[c]
        /\ pending_payload'[c] = <<>> /\ host'[c] = "open"
        /\ state' = state /\ pending_eof' = pending_eof /\ pump' = pump
    BY <1>0, <1>7 DEF DeferredAttaches
  <2>3. SteadyHost(c) /\ SteadyBytes(c) /\ SteadyState(c)
    BY <2>1, <2>2 DEF SteadyHost, SteadyBytes, SteadyState
  <2>4. SteadyTasks(c) /\ (EndDue(c)' => EndDue(c))
    BY <1>2, <1>3, <2>2 DEF SteadyTasks, EndDue
  <2> QED
    BY <1>3, <2>3, <2>4 DEF Steady
<1>8. /\ DeferredAttaches(c) => state' = state
      /\ Flushed(c) => FinishAttach(c) /\ state' = state
  BY DEF DeferredAttaches, Flushed
<1> QED
  BY <1>4, <1>5, <1>6, <1>7, <1>8 DEF DeferredStep

(* Every step of the deferred connect.                                       *)
LEMMA DeferredSteady ==
  ASSUME WaitInv, NEW c \in Conns, DeferredStep(c), NEW d \in Conns
  PROVE  Steady(d)
<1>1. CASE DeferredReset(c)
  <2>1. Retires
    BY <1>1, NoneRetires DEF DeferredReset
  <2>2. TearDown({c}, [deferred EXCEPT ![c] = "done"], pump) /\ state' = state
    BY <1>1 DEF DeferredReset
  <2>3. {c} \in SUBSET Conns
    OBVIOUS
  <2> QED
    BY <2>1, <2>2, <2>3, TearDownSteady
<1>2. CASE ~DeferredReset(c) /\ d = c
  BY <1>2, DeferredHolds
<1>3. CASE ~DeferredReset(c) /\ d # c
  <2>1. Apart(d)
    BY <1>3, DeferredAlone
  <2>2. our_isn' = our_isn /\ our_seq' = our_seq
    BY <1>3
    DEF DeferredStep, DeferredStarts, DeferredCancelled, DeferredFails,
        DeferredAttaches, Flushed, FlushFailed, DialEnded, idVars, seqVars,
        fieldVars
  <2> QED
    BY <2>1, <2>2, ApartSteady
<1> QED
  BY <1>1, <1>2, <1>3

(* A pump that goes on carries bytes, or did already.                        *)
LEMMA PumpHolds ==
  ASSUME WaitInv, NEW c \in Conns, NEW o \in Starters, PumpStep(c, o),
         ~PumpReset(c, o)
  PROVE  Steady(c)
<1>0. /\ state \in [Conns -> States]
      /\ pump \in [Conns -> [Starters -> PumpPcs]]
      /\ our_seq \in [Conns -> SeqNums]
  BY DEF WaitInv, TypeInv, TypeOK
<1>1. UNCHANGED <<handler, key, chip_isn, conns, host, bufVars>>
  BY PumpAlone
<1>2. our_isn' = our_isn
  BY DEF PumpStep, PumpStarts, PumpReads, PumpSent, PumpEof, PumpFinSent,
     PumpRaises, NextRound, PumpGoesTo, idVars
<1>3. /\ SteadyId(c) /\ SteadyHost(c) /\ SteadyBytes(c)
      /\ FinInHand(c)' <=> FinInHand(c)
      /\ InGrace(c)' <=> InGrace(c)
      /\ pending_eof' = pending_eof
  BY <1>1, <1>2 DEF SteadyId, SteadyHost, SteadyBytes, Registered, FinInHand,
     InGrace, bufVars
<1>4. EndDue(c)' => EndDue(c)
  BY <1>1, <1>3 DEF EndDue
<1>5. CASE PumpStarts(c, o)
  <2>1. /\ state' = state /\ our_seq' = our_seq
        /\ \A q \in Starters : pump'[c][q] # pump[c][q] =>
             pump'[c][q] = IF Carries(c) THEN "read" ELSE "done"
    BY <1>0, <1>5 DEF PumpStarts, NextRound, PumpGoesTo
  <2>2. SteadyState(c)
    BY <2>1 DEF SteadyState
  <2>3. SteadyTasks(c)
    BY <1>3, <2>1 DEF SteadyTasks, Early
  <2> QED
    BY <1>3, <1>4, <2>2, <2>3 DEF Steady
<1>6. CASE ~PumpStarts(c, o)
  <2>1. pump[c][o] \in {"read", "sent", "finsent"}
        /\ \A q \in Starters \ {o} : pump'[c][q] = pump[c][q]
    <3>1. pump[c][o] \in {"read", "sent", "finsent"}
      BY <1>6
      DEF PumpStep, PumpReads, PumpSent, PumpEof, PumpFinSent, PumpRaises,
          PumpAt
    <3>2. PICK pc : PumpGoesTo(c, o, pc)
      BY <1>6
      DEF PumpStep, PumpReads, PumpSent, PumpEof, PumpFinSent, PumpRaises,
          NextRound
    <3>3. \A q \in Starters \ {o} : pump'[c][q] = pump[c][q]
      BY <1>0, <3>2 DEF PumpGoesTo
    <3> QED
      BY <3>1, <3>3
  <2>2. our_seq'[c] = our_seq[c] \/ pump[c][o] \in {"sent", "finsent"}
    BY <1>6
    DEF PumpStep, PumpReads, PumpSent, PumpEof, PumpFinSent, PumpRaises, PumpAt
  <2>3. SteadyState(c)
    <3>1. CASE PumpEof(c, o)
      BY <1>0, <3>1 DEF PumpEof, Carries, SteadyState
    <3>2. CASE PumpRaises(c, o)
      BY <1>0, <3>2 DEF PumpRaises, ResetChip, SteadyState
    <3>3. CASE ~PumpEof(c, o) /\ ~PumpRaises(c, o)
      BY <1>6, <3>3
      DEF PumpStep, PumpReads, PumpSent, PumpFinSent, SteadyState
    <3> QED
      BY <3>1, <3>2, <3>3
  <2>4. SteadyTasks(c)
    BY <1>3, <2>1, <2>2 DEF SteadyTasks, Early
  <2> QED
    BY <1>3, <1>4, <2>3, <2>4 DEF Steady
<1> QED
  BY <1>5, <1>6

(* Every step of a pump.                                                     *)
LEMMA PumpSteady ==
  ASSUME WaitInv, NEW c \in Conns, NEW o \in Starters, PumpStep(c, o),
         NEW d \in Conns
  PROVE  Steady(d)
<1>0. /\ pump \in [Conns -> [Starters -> PumpPcs]]
      /\ our_seq \in [Conns -> SeqNums]
  BY DEF WaitInv, TypeInv, TypeOK
<1>1. CASE PumpReset(c, o)
  <2>1. Retires
    BY <1>1, NoneRetires DEF PumpReset
  <2>2. PICK p : p = [pump EXCEPT ![c][o] = "done"]
    OBVIOUS
  <2>3. TearDown({c}, deferred, p) /\ state' = state
    BY <1>1, <2>2 DEF PumpReset
  <2>4. /\ {c} \in SUBSET Conns
        /\ \A q \in Starters : p[d][q] \in {pump[d][q], "done"}
    BY <1>0, <2>2
  <2> QED
    BY <2>1, <2>3, <2>4, TearDownSteady
<1>2. CASE ~PumpReset(c, o) /\ d = c
  BY <1>2, PumpHolds
<1>3. CASE ~PumpReset(c, o) /\ d # c
  <2>1. Apart(d)
    BY <1>3, PumpAlone
  <2>2. our_isn'[d] = our_isn[d] /\ our_seq'[d] = our_seq[d]
    BY <1>0, <1>3
    DEF PumpStep, PumpStarts, PumpReads, PumpSent, PumpEof, PumpFinSent,
        PumpRaises, NextRound, PumpGoesTo, idVars
  <2> QED
    BY <2>1, <2>2, ApartSteady
<1> QED
  BY <1>1, <1>2, <1>3

(* Every step of a task leaves all connections steady but one whose SYN it   *)
(* answers.                                                                  *)
LEMMA TaskSteady ==
  ASSUME WaitInv, TaskStep \/ \E h \in Handlers : stop(h), NEW d \in Conns
  PROVE  \/ Steady(d)
         \/ \E h \in Handlers :
              (GraceOpened(h) \/ GraceOver(h)) /\ d = handler[h].conn
<1>1. ASSUME NEW h \in Handlers, HandlerStep(h)
      PROVE  \/ Steady(d)
             \/ (GraceOpened(h) \/ GraceOver(h)) /\ d = handler[h].conn
  BY <1>1, HandlerSteady
<1>2. ASSUME NEW c \in Conns, DialStep(c) PROVE Steady(d)
  <2>1. Retires
    BY <1>2, NoneRetires
    DEF DialStep, HostAnswers, HostRefuses, AttemptTimesOut, Dials
  <2>2. UNCHANGED <<conns, idVars, fieldVars, pump>>
    BY <1>2
    DEF DialStep, HostAnswers, HostRefuses, AttemptTimesOut, Dials, tableVars,
        taskVars
  <2> QED
    BY <2>1, <2>2, StillSteady
<1>3. ASSUME NEW h \in Handlers, stop(h) PROVE Steady(d)
  <2>1. Retires
    BY <1>3, MovesAway DEF stop, At, WaitInv
  <2>2. UNCHANGED <<conns, idVars, fieldVars, pump>>
    BY <1>3 DEF stop, tableVars, taskVars
  <2> QED
    BY <2>1, <2>2, StillSteady
<1> QED
  BY <1>1, <1>2, <1>3, DeferredSteady, PumpSteady DEF TaskStep

(* A segment does not move what we send.                                     *)
LEMMA SegmentSeq ==
  ASSUME NEW h, NEW c, NEW seg, ConnSegment(h, c, seg)
  PROVE  our_seq' = our_seq /\ our_isn' = our_isn /\ pump' = pump
<1>1. OnPayload(h, c, seg) => our_seq' = our_seq
  BY DEF OnPayload, seqVars
<1>2. Ignore => our_seq' = our_seq
  BY DEF Ignore, fieldVars, seqVars
<1>3. AcceptFin(c) => our_seq' = our_seq
  BY DEF AcceptFin
<1>4. on_handshake_complete(h, c, seg) => our_seq' = our_seq
  BY <1>1, <1>2 DEF on_handshake_complete, seqVars
<1>5. on_data(h, c, seg) => our_seq' = our_seq
  BY <1>1, <1>2, <1>3 DEF on_data
<1>6. on_fin_wait(h, c, seg) => our_seq' = our_seq
  BY DEF on_fin_wait
<1> QED
  BY <1>2, <1>4, <1>5, <1>6 DEF ConnSegment, otherVars, idVars, taskVars

(* A segment leaves all connections steady but its own, and one it makes.    *)
LEMMA SegmentSteady ==
  ASSUME WaitInv, NEW h \in Handlers, NEW k \in Keys, NEW seg \in Segment,
         handle_chip_segment(h, k, seg), NEW d \in Conns
  PROVE  \/ Steady(d)
         \/ conns[k] = d /\ ConnSegment(h, d, seg)
         \/ on_passive_syn(h, k, seg) /\ key[d] = None /\ key'[d] = k
<1>1. handler[h].pc = "idle" /\ conns[k] \in Conns \cup {None} /\ TypeInv
      /\ key \in [Conns -> Keys \cup {None}]
      /\ chip_isn \in [Conns -> SeqNums] /\ our_isn \in [Conns -> SeqNums]
      /\ chip_seq \in [Conns -> SeqNums] /\ our_seq \in [Conns -> SeqNums]
  BY DEF handle_chip_segment, WaitInv, TypeInv, TypeOK, ConnsOrNone
<1>2. CASE ChipRst(k, seg)
  <2>1. {conns[k]} \ {None} \in SUBSET Conns /\ Retires
    BY <1>1, <1>2, NoneRetires DEF ChipRst
  <2> QED
    BY <1>2, <2>1, CloseSteady DEF ChipRst
<1>3. CASE DropSynRetransmit(k, seg) \/ RefuseSegment(k, seg)
  <2>1. Retires /\ UNCHANGED <<conns, idVars, fieldVars, pump>>
    BY <1>3, NoneRetires
    DEF DropSynRetransmit, RefuseSegment, otherVars, tableVars, taskVars
  <2> QED
    BY <2>1, StillSteady
<1>4. CASE on_passive_syn(h, k, seg)
  <2>1. PICK c \in Conns, isn \in ISNs :
          /\ key[c] = None
          /\ key' = [key EXCEPT ![c] = k]
          /\ chip_isn' = [chip_isn EXCEPT ![c] = seg.seq]
          /\ chip_seq' = [chip_seq EXCEPT ![c] = seq_add(seg.seq, 1)]
          /\ our_isn' = [our_isn EXCEPT ![c] = isn]
          /\ our_seq' = [our_seq EXCEPT ![c] = seq_add(isn, 1)]
          /\ handler' = [handler EXCEPT ![h] = At("grace", c, seg)]
    BY <1>4 DEF on_passive_syn
  <2>2. CASE d = c
    BY <1>1, <1>4, <2>1, <2>2
  <2>3. CASE d # c
    <3>1. /\ handler'[h].conn = c
          /\ \A g \in Handlers \ {h} : handler'[g] = handler[g]
      BY <1>1, <2>1 DEF At, TypeInv, TypeOK
    <3>2. NobodyMoves(d)
      BY <1>1, <2>3, <3>1 DEF NobodyMoves
    <3>3. SameFields(d)
      BY <1>1, <1>4, <2>1, <2>3
      DEF on_passive_syn, SameFields, bufVars, taskVars
    <3>4. our_isn'[d] = our_isn[d] /\ our_seq'[d] = our_seq[d]
      BY <1>1, <2>1, <2>3
    <3> QED
      BY <3>2, <3>3, <3>4, ApartSteady DEF Apart
  <2> QED
    BY <2>2, <2>3
<1>5. CASE conns[k] # None /\ ConnSegment(h, conns[k], seg)
  <2>1. CASE d = conns[k]
    BY <1>5, <2>1
  <2>2. CASE d # conns[k]
    <3>1. conns[k] \in Conns /\ Registered(conns[k])
      BY <1>1, <1>5 DEF Registered
    <3>2. Apart(d)
      BY <1>1, <1>5, <2>2, <3>1, ConnSegmentAlone
    <3> QED
      BY <1>5, <3>2, SegmentSeq, ApartSteady
  <2> QED
    BY <2>1, <2>2
<1>6. CASE conns[k] # None /\ LastAck(conns[k], seg)
  <2>1. {conns[k]} \in SUBSET Conns /\ Retires
    BY <1>1, <1>6, NoneRetires DEF LastAck
  <2> QED
    BY <1>6, <2>1, CloseSteady DEF LastAck
<1> QED
  BY <1>2, <1>3, <1>4, <1>5, <1>6 DEF handle_chip_segment
=============================================================================
