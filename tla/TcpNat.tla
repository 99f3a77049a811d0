------------------------------- MODULE TcpNat -------------------------------
(* The outbound TCP NAT of one bridge: velxiogw/net/tcp_nat.py.              *)
(*                                                                           *)
(* A chip SYN makes a connection object and a dial opens its host socket;    *)
(* the websocket handler feeds chip segments in, and a pump task carries the *)
(* host's bytes back.  All are asyncio tasks of one event loop: a step here  *)
(* is what a task runs from one await that may suspend to the next.  `out'   *)
(* holds the frames the step hands to _inject.                               *)
(*                                                                           *)
(* The chip is free: any of Segments may come whenever a handler is idle.    *)
(* TcpTunnel closes the system with a chip that follows the protocol.        *)
EXTENDS TcpSeq, FiniteSets, Sequences

CONSTANTS
    Keys,       \* (chip_ip, chip_port, dst_ip, dst_port) tuples
    Conns,      \* TcpConnection objects; its size bounds how many are made
    Handlers,   \* websocket reader tasks that deliver frames to this bridge
    None,       \* Python's None
    Blocked,    \* keys the egress guard refuses
    Slow,       \* the sockets, of "chip" and "host", on which a send suspends
    Attempts,   \* len(_CONNECT_ATTEMPT_TIMEOUTS)
    ISNs,       \* values random.randint may give
    Payloads,   \* payloads of chip segments
    Segments,   \* the segments the chip may send
    ReadSizes,  \* lengths of the chunks host_reader.read may return
    MaxBytes    \* bound: bytes one connection carries in each direction

Flags   == {"SYN", "ACK", "FIN", "RST"}
Segment == [flags : SUBSET Flags, seq : SeqNums, ack : SeqNums, data : Payloads]

ASSUME TcpNatAssumption ==
    /\ IsFiniteSet(Conns) /\ None \notin Conns \cup Keys
    /\ Blocked \subseteq Keys /\ Slow \subseteq {"chip", "host"}
    /\ Attempts \in Nat \ {0} /\ MaxBytes \in Nat
    /\ ISNs \subseteq SeqNums /\ Segments \subseteq Segment
    /\ <<>> \in Payloads /\ Payloads \subseteq Seq(Nat)
    /\ ReadSizes \subseteq Nat \ {0}

VARIABLES
    running,          \* PicowNetBridge.running
    conns,            \* TcpNat._conns
    connecting,       \* TcpNat._connecting
    key,              \* TcpConnection.key(), None for an object not made yet
    chip_isn, our_isn,
    state, chip_seq, our_seq, pending_payload, pending_eof,
    host,             \* host_writer: none, open, eof (write_eof done), closed
    written,          \* what host_writer.write was given
    dial, attempt,    \* _connect_with_retries: where it stands, which attempt
    deferred,         \* _finish_deferred_connect: where the task stands
    pump,             \* _pump_host_to_chip, by the code that started it
    host_pump_task,   \* which of them conn.host_pump_task names
    fetched,          \* how many bytes host_reader.read has returned
    at_eof,           \* whether it has returned its end of stream
    chunk,            \* length of the segment a pump is sending
    handler,          \* where each websocket handler stands
    out               \* frames handed to _inject in the last step

tableVars == <<conns, connecting>>
idVars    == <<key, chip_isn, our_isn>>
seqVars   == <<chip_seq, our_seq>>
bufVars   == <<written, pending_payload, pending_eof>>
dialVars  == <<dial, attempt>>
taskVars  == <<deferred, pump, host_pump_task>>
readVars  == <<fetched, at_eof, chunk>>
fieldVars == <<state, seqVars, host, bufVars>>
otherVars == <<running, tableVars, idVars, dialVars, taskVars, readVars>>
vars      == <<fieldVars, otherVars, handler, out>>

-----------------------------------------------------------------------------
States == {"SYN_RCVD", "ESTABLISHED", "FIN_WAIT_1", "FIN_WAIT_2",
           "CLOSE_WAIT", "LAST_ACK", "CLOSED"}

(* Who starts a pump: _on_passive_syn, or the deferred connect.              *)
Starters == {"syn", "deferred"}

(* Where a handler stands, and the connection and segment it holds there.    *)
NoSegment    == [flags |-> {}, seq |-> 0, ack |-> 0, data |-> <<>>]
At(pc, c, s) == [pc |-> pc, conn |-> c, seg |-> s]
Idle         == At("idle", None, NoSegment)

(* A frame for the chip; the payload is given by stream positions.           *)
Frame(k, flags, seq, ack, data) ==
    [key |-> k, flags |-> flags, seq |-> seq, ack |-> ack, data |-> data]

(* _inject drops every frame once the bridge has been stopped.               *)
Inject(f) == out' = IF running THEN <<f>> ELSE <<>>
Quiet     == out' = <<>>

(* _send_rst: the answer to a segment that has no connection.                *)
RstFor(k, s) ==
    Frame(k, {"RST", "ACK"}, IF "ACK" \in s.flags THEN s.ack ELSE 0,
          seq_add(s.seq, IF "SYN" \in s.flags THEN 1 ELSE Len(s.data)), <<>>)

AckWith(c, ack) == Frame(key[c], {"ACK"}, our_seq[c], ack, <<>>)

(* A task awaiting a send on a socket that is not slow does not suspend: the *)
(* event loop runs it on before any other.                                   *)
MustGoOn(pc) ==
    \/ "chip" \notin Slow
       /\ pc \in {"synack", "acked", "finack", "sent", "finsent", "rst"}
    \/ "host" \notin Slow /\ pc \in {"drain", "flush"}

Urgent ==
    { <<"handler", h>> : h \in {g \in Handlers : MustGoOn(handler[g].pc)} }
    \cup { <<"deferred", c>> : c \in {d \in Conns : MustGoOn(deferred[d])} }
    \cup { <<"pump", p[1], p[2]>> : p \in
             {q \in Conns \X Starters : MustGoOn(pump[q[1]][q[2]])} }

Turn(task) == Urgent \subseteq {task}

-----------------------------------------------------------------------------
Init ==
    /\ running = TRUE
    /\ conns = [k \in Keys |-> None]
    /\ connecting = {}
    /\ key = [c \in Conns |-> None]
    /\ state = [c \in Conns |-> "CLOSED"]
    /\ chip_isn = [c \in Conns |-> 0]
    /\ our_isn = [c \in Conns |-> 0]
    /\ chip_seq = [c \in Conns |-> 0]
    /\ our_seq = [c \in Conns |-> 0]
    /\ pending_payload = [c \in Conns |-> <<>>]
    /\ pending_eof = [c \in Conns |-> FALSE]
    /\ host = [c \in Conns |-> "none"]
    /\ written = [c \in Conns |-> <<>>]
    /\ dial = [c \in Conns |-> "none"]
    /\ attempt = [c \in Conns |-> 0]
    /\ deferred = [c \in Conns |-> "none"]
    /\ pump = [c \in Conns |-> [o \in Starters |-> "none"]]
    /\ host_pump_task = [c \in Conns |-> None]
    /\ fetched = [c \in Conns |-> 0]
    /\ at_eof = [c \in Conns |-> FALSE]
    /\ chunk = [c \in Conns |-> [o \in Starters |-> 0]]
    /\ handler = [h \in Handlers |-> Idle]
    /\ out = <<>>

-----------------------------------------------------------------------------
(* _close: the state first; then the RST, if one is due, which may suspend   *)
(* (ResetChip); then TearDown.                                               *)

(* A task cancelled before its first step never runs, its finally included.  *)
(* Mutant: the deferred connect is not cancelled.                            *)
CancelledNever(pc) == pc

Cancelled(pc) ==
    CASE pc = "created" -> "done"
      [] pc = "await"   -> "cancelled"
      [] OTHER          -> pc

(* Mutant: the host socket is left open.                                     *)
HostLeftOpen(w) == w

HostAfterClose(w) == IF w = "none" THEN w ELSE "closed"

(* For the connections in S: close the host socket, cancel the pump and the  *)
(* deferred connect, which takes the dial it awaits along, and forget the    *)
(* key.  d and p say where the tasks stand, the caller's step included.      *)
TearDown(S, d, p) ==
    /\ host' = [c \in Conns |->
          IF c \in S THEN HostAfterClose(host[c]) ELSE host[c]]
    /\ pump' = [c \in Conns |-> [o \in Starters |->
          IF c \in S /\ host_pump_task[c] = o THEN "done" ELSE p[c][o]]]
    /\ deferred' = [c \in Conns |-> IF c \in S THEN Cancelled(d[c]) ELSE d[c]]
    /\ dial' = [c \in Conns |->
          IF c \in S /\ d[c] = "await" /\ dial[c] = "dialling"
          THEN "cancelled" ELSE dial[c]]
    /\ conns' = [k \in Keys |->
          IF \E c \in S : key[c] = k THEN None ELSE conns[k]]
    /\ Quiet
    /\ UNCHANGED <<connecting, idVars, seqVars, bufVars, attempt,
                   host_pump_task, readVars>>

(* _close(conn, send_rst=False), and shutdown's loop over S: the bridge has  *)
(* stopped by then, so nothing is sent and nothing suspends.                 *)
CloseSilently(S) ==
    LET open == {c \in S : state[c] # "CLOSED"}
    IN  /\ state' = [c \in Conns |-> IF c \in open THEN "CLOSED" ELSE state[c]]
        /\ TearDown(open, deferred, pump)

(* _close(conn, send_rst=True) up to its inject, if it is not CLOSED yet.    *)
ResetChip(c) ==
    /\ state[c] # "CLOSED"
    /\ state' = [state EXCEPT ![c] = "CLOSED"]
    /\ Inject(Frame(key[c], {"RST"}, our_seq[c], chip_seq[c], <<>>))

-----------------------------------------------------------------------------
(* handle_chip_segment, up to its first await that may suspend.              *)

(* The chip aborts.                                                          *)
ChipRst(k, seg) ==
    /\ "RST" \in seg.flags
    /\ CloseSilently({conns[k]} \ {None})
    /\ UNCHANGED <<running, handler>>

OpensNew(k, seg) ==
    conns[k] = None /\ "SYN" \in seg.flags /\ seg.flags \cap {"RST", "ACK"} = {}

(* A SYN for a key that is being dialled already is dropped.                 *)
DropSynRetransmit(k, seg) ==
    /\ OpensNew(k, seg) /\ k \in connecting
    /\ Quiet
    /\ UNCHANGED <<fieldVars, otherVars, handler>>

(* A stray segment, or a SYN to a destination the egress guard refuses.      *)
RefuseSegment(k, seg) ==
    /\ conns[k] = None /\ "RST" \notin seg.flags
    /\ OpensNew(k, seg) => k \in Blocked \ connecting
    /\ Inject(RstFor(k, seg))
    /\ UNCHANGED <<fieldVars, otherVars, handler>>

(* Mutant: _connecting is not asked.                                         *)
MayDialAgain(k) == k \notin Blocked

MayDial(k) == k \notin connecting \cup Blocked

(* Mutant: the key is not noted.                                             *)
NotNoted(k) == connecting

Noted(k) == connecting \cup {k}

(* _on_passive_syn up to the grace: a new object, a dial, and the handler    *)
(* waits.  The connection is not registered yet.                             *)
on_passive_syn(h, k, seg) ==
    /\ OpensNew(k, seg) /\ MayDial(k)
    /\ \E c \in Conns, isn \in ISNs :
         /\ key[c] = None
         /\ key' = [key EXCEPT ![c] = k]
         /\ chip_isn' = [chip_isn EXCEPT ![c] = seg.seq]
         /\ chip_seq' = [chip_seq EXCEPT ![c] = seq_add(seg.seq, 1)]
         /\ our_isn' = [our_isn EXCEPT ![c] = isn]
         /\ our_seq' = [our_seq EXCEPT ![c] = seq_add(isn, 1)]
         /\ dial' = [dial EXCEPT ![c] = "dialling"]
         /\ attempt' = [attempt EXCEPT ![c] = 1]
         /\ handler' = [handler EXCEPT ![h] = At("grace", c, seg)]
    /\ connecting' = Noted(k)
    /\ Quiet
    /\ UNCHANGED <<running, conns, state, host, bufVars, taskVars, readVars>>

(* Mutants: a FIN takes no sequence number; its state is not set; it is      *)
(* forgotten while there is no socket.                                       *)
FinUncounted       == 0
StateKept(c)       == state[c]
EofForgotten(c)    == FALSE

FinSpan            == 1
StateAfterFin(c)   == "CLOSE_WAIT"
EofMustWait(c)     == host[c] = "none"

(* The FIN part of _on_data: write_eof, or the note that it is due once      *)
(* there is a socket.                                                        *)
AcceptFin(c) ==
    /\ chip_seq' = [chip_seq EXCEPT ![c] = seq_add(@, FinSpan)]
    /\ state' = [state EXCEPT ![c] = StateAfterFin(c)]
    /\ host' = [host EXCEPT ![c] = IF @ = "open" THEN "eof" ELSE @]
    /\ pending_eof' = [pending_eof EXCEPT ![c] = @ \/ EofMustWait(c)]
    /\ Inject(AckWith(c, chip_seq'[c]))
    /\ UNCHANGED <<our_seq, written, pending_payload>>

(* After the payload's ACK, the handler has a FIN to do or nothing.          *)
AfterPayload(h, c, seg) ==
    handler' = [handler EXCEPT ![h] =
        IF "FIN" \in seg.flags THEN At("acked", c, NoSegment) ELSE Idle]

HasRoom(c, seg) ==
    Len(written[c]) + Len(pending_payload[c]) + Len(seg.data) <= MaxBytes

(* Mutant: a retransmission is taken again.                                  *)
IsNextOrOlder(c, seg) == seq_leq(seg.seq, chip_seq[c])

IsNext(c, seg) == seg.seq = chip_seq[c]

(* _on_data with a payload, up to its first await.                           *)
OnPayload(h, c, seg) ==
    \/ \* not the next byte: say again what is expected
       /\ ~IsNext(c, seg)
       /\ Inject(AckWith(c, chip_seq[c]))
       /\ UNCHANGED <<seqVars, host, bufVars, handler>>
    \/ \* no socket yet: hold the bytes, and acknowledge them
       /\ IsNext(c, seg) /\ host[c] = "none" /\ HasRoom(c, seg)
       /\ pending_payload' = [pending_payload EXCEPT ![c] = @ \o seg.data]
       /\ chip_seq' = [chip_seq EXCEPT ![c] = seq_add(@, Len(seg.data))]
       /\ Inject(AckWith(c, chip_seq'[c]))
       /\ AfterPayload(h, c, seg)
       /\ UNCHANGED <<our_seq, host, written, pending_eof>>
    \/ \* write, then drain
       /\ IsNext(c, seg) /\ host[c] # "none" /\ HasRoom(c, seg)
       /\ written' = [written EXCEPT ![c] = @ \o seg.data]
       /\ handler' = [handler EXCEPT ![h] = At("drain", c, seg)]
       /\ Quiet
       /\ UNCHANGED <<seqVars, host, pending_payload, pending_eof>>

Ignore == Quiet /\ UNCHANGED <<fieldVars, handler>>

(* Mutant: a FIN is looked at before the payload that it comes with.         *)
FinFirst(h, c, seg) ==
    IF "FIN" \in seg.flags THEN AcceptFin(c) /\ UNCHANGED handler
    ELSE IF seg.data # <<>> THEN OnPayload(h, c, seg) /\ UNCHANGED state
    ELSE Ignore

on_data(h, c, seg) ==
    IF seg.data # <<>> THEN OnPayload(h, c, seg) /\ UNCHANGED state
    ELSE IF "FIN" \in seg.flags THEN AcceptFin(c) /\ UNCHANGED handler
    ELSE Ignore

on_handshake_complete(h, c, seg) ==
    IF "ACK" \in seg.flags /\ seg.ack = our_seq[c]
    THEN /\ state' = [state EXCEPT ![c] = "ESTABLISHED"]
         /\ IF seg.data # <<>> THEN OnPayload(h, c, seg)
            ELSE Quiet /\ UNCHANGED <<seqVars, host, bufVars, handler>>
    ELSE Ignore

(* _on_fin_wait_1 and _on_fin_wait_2: an ACK of our FIN moves on; a FIN is   *)
(* acknowledged, and the connection closed after that inject (FinAcked).     *)
on_fin_wait(h, c, seg) ==
    /\ state' = [state EXCEPT ![c] =
         IF @ = "FIN_WAIT_1" /\ "ACK" \in seg.flags /\ seg.ack = our_seq[c]
         THEN "FIN_WAIT_2" ELSE @]
    /\ IF "FIN" \in seg.flags
       THEN /\ chip_seq' = [chip_seq EXCEPT ![c] = seq_add(@, FinSpan)]
            /\ Inject(AckWith(c, chip_seq'[c]))
            /\ handler' = [handler EXCEPT ![h] = At("finack", c, NoSegment)]
       ELSE Quiet /\ UNCHANGED <<chip_seq, handler>>
    /\ UNCHANGED <<our_seq, host, bufVars>>

(* Mutant: an acknowledgement must be beyond our_seq.                        *)
AcksBeyondOurFin(c, seg) == "ACK" \in seg.flags /\ seq_lt(our_seq[c], seg.ack)

AcksOurFin(c, seg) == "ACK" \in seg.flags /\ seq_geq_or_eq(seg.ack, our_seq[c])

(* A segment of a registered connection, by the state of the connection.     *)
ConnSegment(h, c, seg) ==
    /\ \/ state[c] = "SYN_RCVD" /\ on_handshake_complete(h, c, seg)
       \/ state[c] = "ESTABLISHED" /\ on_data(h, c, seg)
       \/ state[c] \in {"FIN_WAIT_1", "FIN_WAIT_2"} /\ on_fin_wait(h, c, seg)
       \/ state[c] \in {"CLOSE_WAIT", "CLOSED"} /\ Ignore
       \/ state[c] = "LAST_ACK" /\ ~AcksOurFin(c, seg) /\ Ignore
    /\ UNCHANGED otherVars

(* The last ACK closes.                                                      *)
LastAck(c, seg) ==
    /\ state[c] = "LAST_ACK" /\ AcksOurFin(c, seg)
    /\ CloseSilently({c})
    /\ UNCHANGED <<running, handler>>

handle_chip_segment(h, k, seg) ==
    /\ running /\ handler[h].pc = "idle" /\ Turn(<<"handler", h>>)
    /\ \/ ChipRst(k, seg)
       \/ DropSynRetransmit(k, seg)
       \/ RefuseSegment(k, seg)
       \/ on_passive_syn(h, k, seg)
       \/ /\ conns[k] # None /\ "RST" \notin seg.flags
          /\ ConnSegment(h, conns[k], seg) \/ LastAck(conns[k], seg)

-----------------------------------------------------------------------------
(* The rest of a handler, after each await.                                  *)
Resumes(h, pc) == handler[h].pc = pc /\ Turn(<<"handler", h>>)

(* Register the connection and answer the SYN.                               *)
AnswerSyn(h, c) ==
    /\ state' = [state EXCEPT ![c] = "SYN_RCVD"]
    /\ conns' = [conns EXCEPT ![key[c]] = c]
    /\ Inject(Frame(key[c], {"SYN", "ACK"}, our_isn[c], chip_seq[c], <<>>))
    /\ handler' = [handler EXCEPT ![h] = At("synack", c, NoSegment)]
    /\ UNCHANGED <<running, idVars, seqVars, bufVars, attempt, pump,
                   host_pump_task, readVars>>

(* The dial ended within the grace, with a socket.                           *)
GraceOpened(h) ==
    LET c == handler[h].conn
    IN  /\ Resumes(h, "grace") /\ dial[c] = "opened"
        /\ connecting' = connecting \ {key[c]}
        /\ dial' = [dial EXCEPT ![c] = "taken"]
        /\ host' = [host EXCEPT ![c] = "open"]
        /\ AnswerSyn(h, c)
        /\ UNCHANGED deferred

(* Mutant: a refusal is not passed on.                                       *)
GraceRefusedQuietly(h) ==
    LET c == handler[h].conn
    IN  /\ Resumes(h, "grace") /\ dial[c] = "failed"
        /\ connecting' = connecting \ {key[c]}
        /\ Quiet
        /\ handler' = [handler EXCEPT ![h] = Idle]
        /\ UNCHANGED <<running, conns, idVars, fieldVars, dialVars, taskVars,
                       readVars>>

(* It ended without one: the SYN is answered by a RST.                       *)
GraceRefused(h) ==
    LET c == handler[h].conn
    IN  /\ Resumes(h, "grace") /\ dial[c] = "failed"
        /\ connecting' = connecting \ {key[c]}
        /\ Inject(RstFor(key[c], handler[h].seg))
        /\ handler' = [handler EXCEPT ![h] = Idle]
        /\ UNCHANGED <<running, conns, idVars, fieldVars, dialVars, taskVars,
                       readVars>>

(* The grace is over and the dial is not: answer anyway, and leave the dial  *)
(* to a deferred task, which has not run yet.                                *)
GraceOver(h) ==
    LET c == handler[h].conn
    IN  /\ Resumes(h, "grace") /\ dial[c] = "dialling"
        /\ deferred' = [deferred EXCEPT ![c] = "created"]
        /\ AnswerSyn(h, c)
        /\ UNCHANGED <<connecting, host, dial>>

StartPump(c, o) ==
    /\ pump' = [pump EXCEPT ![c][o] = "hs"]
    /\ host_pump_task' = [host_pump_task EXCEPT ![c] = o]

(* Mutant: a pump is started whether there is a socket or not.               *)
AlwaysAttached(c) == TRUE

Attached(c) == host[c] # "none"

(* The SYN+ACK is out.  The socket is looked at again before a pump starts.  *)
SynAnswered(h) ==
    LET c == handler[h].conn
    IN  /\ Resumes(h, "synack")
        /\ IF Attached(c) THEN StartPump(c, "syn")
           ELSE UNCHANGED <<pump, host_pump_task>>
        /\ handler' = [handler EXCEPT ![h] = Idle]
        /\ Quiet
        /\ UNCHANGED <<running, tableVars, idVars, fieldVars, dialVars,
                       deferred, readVars>>

(* The drain of _on_data returned: advance and acknowledge.                  *)
Drained(h) ==
    LET c == handler[h].conn
    IN  /\ Resumes(h, "drain")
        /\ chip_seq' = [chip_seq EXCEPT ![c] =
                          seq_add(@, Len(handler[h].seg.data))]
        /\ Inject(AckWith(c, chip_seq'[c]))
        /\ AfterPayload(h, c, handler[h].seg)
        /\ UNCHANGED <<state, our_seq, host, bufVars, otherVars>>

(* The drain raised: the host is gone.                                       *)
DrainFailed(h) ==
    LET c == handler[h].conn
    IN  /\ Resumes(h, "drain")
        /\ \/ /\ ResetChip(c)
              /\ handler' = [handler EXCEPT ![h] = At("rst", c, NoSegment)]
           \/ /\ state[c] = "CLOSED" /\ Quiet /\ UNCHANGED state
              /\ handler' = [handler EXCEPT ![h] = Idle]
        /\ UNCHANGED <<seqVars, host, bufVars, otherVars>>

(* The payload's ACK is out, and the segment had a FIN: the state is not     *)
(* looked at again.                                                          *)
DataAcked(h) ==
    /\ Resumes(h, "acked")
    /\ AcceptFin(handler[h].conn)
    /\ handler' = [handler EXCEPT ![h] = Idle]
    /\ UNCHANGED otherVars

(* The ACK of a FIN in FIN_WAIT is out: close.                               *)
FinAcked(h) ==
    /\ Resumes(h, "finack")
    /\ CloseSilently({handler[h].conn})
    /\ handler' = [handler EXCEPT ![h] = Idle]
    /\ UNCHANGED running

(* The RST of DrainFailed is out: the rest of _close.                        *)
HandlerReset(h) ==
    /\ Resumes(h, "rst")
    /\ TearDown({handler[h].conn}, deferred, pump)
    /\ handler' = [handler EXCEPT ![h] = Idle]
    /\ UNCHANGED <<running, state>>

(* PicowNetBridge.stop: nothing is injected from here on, and the NAT's      *)
(* shutdown is a task that gather starts.                                    *)
stop(h) ==
    /\ running /\ Resumes(h, "idle")
    /\ running' = FALSE
    /\ handler' = [handler EXCEPT ![h] = At("stopping", None, NoSegment)]
    /\ Quiet
    /\ UNCHANGED <<tableVars, idVars, fieldVars, dialVars, taskVars, readVars>>

shutdown(h) ==
    /\ Resumes(h, "stopping")
    /\ CloseSilently({c \in Conns : \E k \in Keys : conns[k] = c})
    /\ handler' = [handler EXCEPT ![h] = Idle]
    /\ UNCHANGED running

-----------------------------------------------------------------------------
(* _connect_with_retries.  A handler's grace is shorter than the first       *)
(* attempt's timeout, so no attempt times out while one waits.               *)
InGrace(c) == \E h \in Handlers : handler[h].pc = "grace" /\ handler[h].conn = c

Dials(c) ==
    /\ dial[c] = "dialling" /\ Turn(<<>>)
    /\ Quiet
    /\ UNCHANGED <<running, tableVars, idVars, fieldVars, taskVars, readVars,
                   handler>>

HostAnswers(c) ==
    Dials(c) /\ dial' = [dial EXCEPT ![c] = "opened"] /\ UNCHANGED attempt

HostRefuses(c) ==
    Dials(c) /\ dial' = [dial EXCEPT ![c] = "failed"] /\ UNCHANGED attempt

AttemptTimesOut(c) ==
    /\ Dials(c) /\ ~InGrace(c)
    /\ IF attempt[c] < Attempts
       THEN attempt' = [attempt EXCEPT ![c] = @ + 1] /\ UNCHANGED dial
       ELSE dial' = [dial EXCEPT ![c] = "failed"] /\ UNCHANGED attempt

-----------------------------------------------------------------------------
(* _finish_deferred_connect.                                                 *)
DeferredAt(c, pcs) == deferred[c] \in pcs /\ Turn(<<"deferred", c>>)

DeferredGoesTo(c, pc) == deferred' = [deferred EXCEPT ![c] = pc]

(* The task's first step, the dial still going on.                           *)
DeferredStarts(c) ==
    /\ DeferredAt(c, {"created"}) /\ dial[c] = "dialling"
    /\ DeferredGoesTo(c, "await")
    /\ Quiet
    /\ UNCHANGED <<running, tableVars, idVars, fieldVars, dialVars, pump,
                   host_pump_task, readVars, handler>>

(* Cancelled at its await: only the finally runs.                            *)
DeferredCancelled(c) ==
    /\ DeferredAt(c, {"cancelled"})
    /\ connecting' = connecting \ {key[c]}
    /\ DeferredGoesTo(c, "done")
    /\ Quiet
    /\ UNCHANGED <<running, conns, idVars, fieldVars, dialVars, pump,
                   host_pump_task, readVars, handler>>

(* The dial ended.  The connection is still open here (DeferredInTime), as   *)
(* long as the cancel of lines 588-589 takes effect, which the model takes   *)
(* for granted: asyncio.wait_for of Python 3.11 can lose a cancel that comes *)
(* as the dial ends.  Lines 305-312 then close the socket, to the same end.  *)
DialEnded(c) ==
    /\ DeferredAt(c, {"created", "await"}) /\ dial[c] \in {"opened", "failed"}
    /\ connecting' = connecting \ {key[c]}
    /\ UNCHANGED <<running, conns, idVars, seqVars, attempt, readVars, handler>>

(* Nobody answered: reset the chip's connection.                             *)
DeferredFails(c) ==
    /\ DialEnded(c) /\ dial[c] = "failed"
    /\ ResetChip(c)
    /\ DeferredGoesTo(c, "rst")
    /\ UNCHANGED <<host, bufVars, dial, pump, host_pump_task>>

(* Pass on an end of stream that came early, and start the pump.             *)
FinishAttach(c) ==
    /\ host' = [host EXCEPT ![c] =
         IF @ \in {"closed", "eof"} THEN @
         ELSE IF pending_eof[c] THEN "eof" ELSE "open"]
    /\ pending_eof' = [pending_eof EXCEPT ![c] = FALSE]
    /\ StartPump(c, "deferred")
    /\ DeferredGoesTo(c, "done")

(* Attach the socket; held bytes are written before anything newer.          *)
DeferredAttaches(c) ==
    /\ DialEnded(c) /\ dial[c] = "opened" /\ state[c] # "CLOSED"
    /\ dial' = [dial EXCEPT ![c] = "taken"]
    /\ written' = [written EXCEPT ![c] = @ \o pending_payload[c]]
    /\ pending_payload' = [pending_payload EXCEPT ![c] = <<>>]
    /\ IF pending_payload[c] = <<>> THEN FinishAttach(c)
       ELSE /\ host' = [host EXCEPT ![c] = "open"]
            /\ DeferredGoesTo(c, "flush")
            /\ UNCHANGED <<pending_eof, pump, host_pump_task>>
    /\ Quiet
    /\ UNCHANGED state

Flushed(c) ==
    /\ DeferredAt(c, {"flush"})
    /\ FinishAttach(c)
    /\ Quiet
    /\ UNCHANGED <<running, tableVars, idVars, state, seqVars, written,
                   pending_payload, dialVars, readVars, handler>>

FlushFailed(c) ==
    /\ DeferredAt(c, {"flush"})
    /\ \/ ResetChip(c) /\ DeferredGoesTo(c, "rst")
       \/ /\ state[c] = "CLOSED" /\ Quiet /\ UNCHANGED state
          /\ DeferredGoesTo(c, "done")
    /\ UNCHANGED <<running, tableVars, idVars, seqVars, host, bufVars, dialVars,
                   pump, host_pump_task, readVars, handler>>

(* The RST of this task is out: the rest of _close.                          *)
DeferredReset(c) ==
    /\ DeferredAt(c, {"rst"})
    /\ TearDown({c}, [deferred EXCEPT ![c] = "done"], pump)
    /\ UNCHANGED <<running, state, handler>>

-----------------------------------------------------------------------------
(* _pump_host_to_chip, started by o.                                         *)
PumpAt(c, o, pc) == pump[c][o] = pc /\ Turn(<<"pump", c, o>>)

PumpGoesTo(c, o, pc) ==
    /\ pump' = [pump EXCEPT ![c][o] = pc]
    /\ UNCHANGED <<running, tableVars, idVars, chip_seq, host, bufVars,
                   dialVars, deferred, host_pump_task, handler>>

(* Mutant: host bytes stop with the chip's FIN.                              *)
CarriesOneWay(c) == state[c] = "ESTABLISHED"

(* The loop goes on while the connection can carry host bytes.               *)
Carries(c) == state[c] \in {"ESTABLISHED", "CLOSE_WAIT"}

NextRound(c, o) == PumpGoesTo(c, o, IF Carries(c) THEN "read" ELSE "done")

(* The polling loop ends when the handshake does.                            *)
PumpStarts(c, o) ==
    /\ PumpAt(c, o, "hs") /\ state[c] # "SYN_RCVD"
    /\ NextRound(c, o)
    /\ Quiet
    /\ UNCHANGED <<state, our_seq, readVars>>

(* read returned n bytes, as it may until it has returned its end of stream: *)
(* one segment, since read is given the MSS.                                 *)
PumpReads(c, o, n) ==
    /\ PumpAt(c, o, "read") /\ host[c] \in {"open", "eof"}
    /\ ~at_eof[c]
    /\ fetched[c] + n <= MaxBytes
    /\ fetched' = [fetched EXCEPT ![c] = @ + n]
    /\ chunk' = [chunk EXCEPT ![c][o] = n]
    /\ Inject(Frame(key[c], {"ACK"}, our_seq[c], chip_seq[c],
                    [i \in 1..n |-> fetched[c] + i]))
    /\ PumpGoesTo(c, o, "sent")
    /\ UNCHANGED <<state, our_seq, at_eof>>

(* Mutant: our_seq stays.                                                    *)
SeqBeforeSend(c, o) == our_seq[c]

SeqAfterSend(c, o) == seq_add(our_seq[c], chunk[c][o])

(* The segment is out; our_seq moves only now.                               *)
PumpSent(c, o) ==
    /\ PumpAt(c, o, "sent")
    /\ our_seq' = [our_seq EXCEPT ![c] = SeqAfterSend(c, o)]
    /\ NextRound(c, o)
    /\ Quiet
    /\ UNCHANGED <<state, readVars>>

(* read returned nothing: the host's end of stream, or our own close.        *)
PumpEof(c, o) ==
    /\ PumpAt(c, o, "read")
    /\ IF Carries(c)
       THEN /\ state' = [state EXCEPT ![c] = IF @ = "ESTABLISHED"
                                             THEN "FIN_WAIT_1" ELSE "LAST_ACK"]
            /\ Inject(Frame(key[c], {"ACK", "FIN"}, our_seq[c], chip_seq[c],
                            <<>>))
            /\ PumpGoesTo(c, o, "finsent")
       ELSE PumpGoesTo(c, o, "done") /\ Quiet /\ UNCHANGED state
    /\ at_eof' = [at_eof EXCEPT ![c] = TRUE]
    /\ UNCHANGED <<our_seq, fetched, chunk>>

PumpFinSent(c, o) ==
    /\ PumpAt(c, o, "finsent")
    /\ our_seq' = [our_seq EXCEPT ![c] = seq_add(@, 1)]
    /\ PumpGoesTo(c, o, "done")
    /\ Quiet
    /\ UNCHANGED <<state, readVars>>

(* read raised: the host reset the socket, or another pump waits on the same *)
(* reader.                                                                   *)
PumpRaises(c, o) ==
    /\ PumpAt(c, o, "read")
    /\ \/ ResetChip(c) /\ PumpGoesTo(c, o, "rst")
       \/ /\ state[c] = "CLOSED" /\ Quiet /\ UNCHANGED state
          /\ PumpGoesTo(c, o, "done")
    /\ UNCHANGED <<our_seq, readVars>>

PumpReset(c, o) ==
    /\ PumpAt(c, o, "rst")
    /\ TearDown({c}, deferred, [pump EXCEPT ![c][o] = "done"])
    /\ UNCHANGED <<running, state, handler>>

-----------------------------------------------------------------------------
HandlerStep(h) ==
    \/ GraceOpened(h) \/ GraceRefused(h) \/ GraceOver(h) \/ SynAnswered(h)
    \/ Drained(h) \/ DrainFailed(h) \/ DataAcked(h) \/ FinAcked(h)
    \/ HandlerReset(h) \/ shutdown(h)

DialStep(c) == HostAnswers(c) \/ HostRefuses(c) \/ AttemptTimesOut(c)

DeferredStep(c) ==
    \/ DeferredStarts(c) \/ DeferredCancelled(c) \/ DeferredFails(c)
    \/ DeferredAttaches(c) \/ Flushed(c) \/ FlushFailed(c) \/ DeferredReset(c)

PumpStep(c, o) ==
    \/ PumpStarts(c, o) \/ PumpSent(c, o) \/ PumpEof(c, o) \/ PumpFinSent(c, o)
    \/ PumpRaises(c, o) \/ PumpReset(c, o)
    \/ \E n \in ReadSizes : PumpReads(c, o, n)

TaskStep ==
    \/ \E h \in Handlers : HandlerStep(h)
    \/ \E c \in Conns : DialStep(c) \/ DeferredStep(c)
    \/ \E c \in Conns, o \in Starters : PumpStep(c, o)

Next ==
    \/ \E h \in Handlers, k \in Keys, seg \in Segments :
         handle_chip_segment(h, k, seg)
    \/ \E h \in Handlers : stop(h)
    \/ TaskStep

Spec == Init /\ [][Next]_vars
=============================================================================
