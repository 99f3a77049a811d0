----------------------------- MODULE TcpInbound -----------------------------
(* HTTP requests into the server on the chip: velxiogw/net/tcp_inbound.py    *)
(* and its caller, PicowNetBridge.http_into_chip.  A request is a task that  *)
(* opens a connection of its own, and the websocket handler feeds it the     *)
(* chip's segments.  A step is what a task runs from one await that may      *)
(* suspend to the next; `out' holds the frames it hands to _inject.          *)
EXTENDS TcpSeq, FiniteSetsExt, Sequences

CONSTANTS
    Requests,    \* calls of http_into_chip, each with a port of its own
    None,        \* Python's None
    Slow,        \* whose sends suspend, of "handler" and "request"
    ISNs,        \* values random.randint may give
    RequestLen   \* len(raw_http)

ASSUME InboundAssumption ==
    /\ Requests \cap {None, "handler"} = {}
    /\ Slow \subseteq {"handler", "request"}
    /\ None \notin {"timeout", "failed", "fin", "complete", "deadline", "idle"}
    /\ ISNs \subseteq SeqNums /\ RequestLen \in Nat \ {0}

VARIABLES
    bridge,    \* running, stopping (shutdown is due), or stopped
    table,     \* the requests whose port is in TcpInbound._conns
    conn,      \* the _InboundConn of each request
    task,      \* request: where it stands, whether its deadline has passed,
               \* and how it ended
    handler,   \* where the websocket handler stands, with which segment
    out

inVars == <<bridge, table, conn, task, handler, out>>

-----------------------------------------------------------------------------
(* A response is a sequence of these: a carriage return, a line feed, the    *)
(* header that declares a length, anything else.                             *)
CR          == 13
LF          == 10
Declares(n) == 100 + n
Other       == 0

CrLf2 == <<CR, LF, CR, LF>>
Lf2   == <<LF, LF>>

Find(buf, sep) ==
    {i \in 1 .. Len(buf) - Len(sep) + 1 :
        SubSeq(buf, i, i + Len(sep) - 1) = sep}

http_headers_complete(buf) == Find(buf, CrLf2) \cup Find(buf, Lf2) # {}

(* Mutant: two bytes are taken off for either separator.                     *)
SepLenTwo(sep) == 2

SepLen(sep) == Len(sep)

(* A full header block, a declared length, and a body that long.             *)
http_response_complete(buf) ==
    LET sep      == IF Find(buf, CrLf2) # {} THEN CrLf2 ELSE Lf2
        at       == Min(Find(buf, sep))
        declared == {i \in 1 .. at - 1 : buf[i] >= Declares(0)}
    IN  /\ http_headers_complete(buf) /\ declared # {}
        /\ Declares(Len(buf) - (at - 1 + SepLen(sep))) >= buf[Min(declared)]

-----------------------------------------------------------------------------
NewConn(isn) ==
    [state |-> "SYN_SENT", our_isn |-> isn, our_seq |-> seq_add(isn, 1),
     chip_seq |-> 0, rx |-> <<>>, established |-> FALSE, finished |-> FALSE,
     data_event |-> FALSE, reset |-> FALSE]

Idle == [pc |-> "idle", req |-> None, fin |-> FALSE]

InboundInit ==
    /\ bridge = "running" /\ table = {}
    /\ conn = [r \in Requests |-> NewConn(0)]
    /\ task = [r \in Requests |-> [pc |-> "new", late |-> FALSE, how |-> None]]
    /\ handler = Idle
    /\ out = <<>>

(* A task awaiting a send that is not slow is run on before any other.       *)
Turn(who) ==
    /\ handler.pc # "idle" /\ "handler" \notin Slow => who = "handler"
    /\ \A r \in Requests :
         task[r].pc = "sending" /\ "request" \notin Slow => who = r

Frame(r, flags, seq, ack, len) ==
    [req |-> r, flags |-> flags, seq |-> seq, ack |-> ack, len |-> len]

Inject(f) == out' = IF bridge = "running" THEN <<f>> ELSE <<>>
Quiet     == out' = <<>>

(* _send: the sequence numbers are those of the connection, c.               *)
Emit(r, c, flags) == Inject(Frame(r, flags, c.our_seq, c.chip_seq, 0))

-----------------------------------------------------------------------------
(* request.                                                                  *)
At(r, pc) == task[r].pc = pc /\ Turn(r)

GoesTo(r, pc) == task' = [task EXCEPT ![r].pc = pc]

(* Mutant: the connection is forgotten at once.                              *)
ForgottenAtOnce(r) == table \ {r}

KeptInTimeWait(r) == table

(* The return, and the finally: CLOSED, and in the table for 5 s more.       *)
Returns(r, c, how) ==
    /\ task' = [task EXCEPT ![r].pc = "over", ![r].how = how]
    /\ conn' = [conn EXCEPT ![r] = [c EXCEPT !.state = "CLOSED"]]
    /\ table' = KeptInTimeWait(r)

(* http_into_chip: nothing on a bridge that does not run; else an ARP        *)
(* request and a sleep of 50 ms.                                             *)
http_into_chip(r) ==
    /\ At(r, "new")
    /\ GoesTo(r, IF bridge = "running" THEN "arp" ELSE "gone")
    /\ Quiet
    /\ UNCHANGED <<bridge, table, conn, handler>>

(* A connection and its SYN, whether the bridge still runs or not.  The send *)
(* of the SYN may suspend, and "await" stands for that as well: nothing can  *)
(* happen to the task there that could not happen to it once the send is     *)
(* done, and it may take as long as it likes before its next step.           *)
Opens(r) ==
    /\ At(r, "arp")
    /\ \E isn \in ISNs :
         /\ conn' = [conn EXCEPT ![r] = NewConn(isn)]
         /\ Inject(Frame(r, {"SYN"}, isn, 0, 0))
    /\ table' = table \cup {r}
    /\ GoesTo(r, "await")
    /\ UNCHANGED <<bridge, handler>>

(* The 4 s are over, and the task has not run since established was set, if  *)
(* it was.                                                                   *)
SynTimesOut(r) ==
    /\ At(r, "await")
    /\ Returns(r, conn[r], "timeout")
    /\ Quiet
    /\ UNCHANGED <<bridge, handler>>

Fails(r) ==
    /\ At(r, "await") /\ conn[r].established
    /\ conn[r].reset \/ conn[r].state # "ESTABLISHED"
    /\ Returns(r, conn[r], "failed")
    /\ Quiet
    /\ UNCHANGED <<bridge, handler>>

SendsRequest(r) ==
    /\ At(r, "await") /\ conn[r].established
    /\ ~conn[r].reset /\ conn[r].state = "ESTABLISHED"
    /\ Inject(Frame(r, {"ACK"}, conn[r].our_seq, conn[r].chip_seq, RequestLen))
    /\ GoesTo(r, "sending")
    /\ UNCHANGED <<bridge, table, conn, handler>>

(* A round of the loop, for a connection c: leave it, or clear data_event    *)
(* and wait.                                                                 *)
Round(r, c) ==
    \/ c.finished /\ Returns(r, c, "fin")
    \/ /\ ~c.finished /\ http_response_complete(c.rx)
       /\ Returns(r, c, "complete")
    \/ /\ ~c.finished /\ ~http_response_complete(c.rx) /\ task[r].late
       /\ Returns(r, c, "deadline")
    \/ /\ ~c.finished /\ ~http_response_complete(c.rx) /\ ~task[r].late
       /\ conn' = [conn EXCEPT ![r] = [c EXCEPT !.data_event = FALSE]]
       /\ GoesTo(r, "wait")
       /\ UNCHANGED table

(* The request is out; our_seq moves only now.                               *)
RequestSent(r) ==
    /\ At(r, "sending")
    /\ Round(r, [conn[r] EXCEPT !.our_seq = seq_add(@, RequestLen)])
    /\ Quiet
    /\ UNCHANGED <<bridge, handler>>

Wakes(r) ==
    /\ At(r, "wait") /\ conn[r].data_event
    /\ Round(r, conn[r])
    /\ Quiet
    /\ UNCHANGED <<bridge, handler>>

(* Mutant: the task waits for data alone.                                    *)
NoPoll(r) == FALSE

PollDue(r) == TRUE

(* 1.5 s without the task being woken: a full header block is enough.        *)
Polls(r) ==
    /\ At(r, "wait") /\ PollDue(r)
    /\ IF http_headers_complete(conn[r].rx) THEN Returns(r, conn[r], "idle")
       ELSE Round(r, conn[r])
    /\ Quiet
    /\ UNCHANGED <<bridge, handler>>

DeadlinePasses(r) ==
    /\ At(r, "wait") /\ ~task[r].late
    /\ task' = [task EXCEPT ![r].late = TRUE]
    /\ Quiet
    /\ UNCHANGED <<bridge, table, conn, handler>>

(* The 5 s are over.                                                         *)
Forgets(r) ==
    /\ At(r, "over")
    /\ table' = table \ {r}
    /\ GoesTo(r, "gone")
    /\ Quiet
    /\ UNCHANGED <<bridge, conn, handler>>

-----------------------------------------------------------------------------
(* handle_chip_segment, for a segment s of a request in the table.           *)
HandlerAt(pc) == handler.pc = pc /\ Turn("handler")

HandlerGoesTo(pc, r, s) ==
    handler' = [pc |-> pc, req |-> r, fin |-> "FIN" \in s.flags]

ChipRst(r, s) ==
    /\ "RST" \in s.flags
    /\ conn' = [conn EXCEPT ![r].reset = TRUE, ![r].state = "CLOSED",
                            ![r].established = TRUE, ![r].finished = TRUE]
    /\ Quiet
    /\ UNCHANGED handler

(* What it acknowledges is not looked at.                                    *)
SynAcked(r, s) ==
    /\ conn[r].state = "SYN_SENT" /\ "RST" \notin s.flags
    /\ IF {"SYN", "ACK"} \subseteq s.flags
       THEN /\ conn' = [conn EXCEPT ![r].chip_seq = seq_add(s.seq, 1),
                                    ![r].state = "ESTABLISHED"]
            /\ Emit(r, conn'[r], {"ACK"})
            /\ HandlerGoesTo("established", r, s)
       ELSE Quiet /\ UNCHANGED <<conn, handler>>

(* Mutant: late bytes are acknowledged as if they were collected.            *)
AcksLate(r, s) == seq_add(s.seq, Len(s.data))

AcksCollected(r, s) == conn[r].chip_seq

(* Late segments are acknowledged again.                                     *)
TimeWait(r, s) ==
    /\ conn[r].state = "CLOSED" /\ "RST" \notin s.flags
    /\ IF s.data # <<>> \/ s.flags \cap {"FIN", "SYN"} # {}
       THEN Inject(Frame(r, {"ACK"}, conn[r].our_seq, AcksCollected(r, s), 0))
       ELSE Quiet
    /\ UNCHANGED <<conn, handler>>

(* Mutant: a retransmission is taken again.                                  *)
NextOrOlder(r, s) == seq_leq(s.seq, conn[r].chip_seq)

InOrder(r, s) == s.seq = conn[r].chip_seq

(* Mutant: a FIN takes no sequence number.                                   *)
FinUncounted == 0

FinSpan == 1

(* The FIN part: its acknowledgement first.                                  *)
AcksFin(r, s) ==
    /\ conn' = [conn EXCEPT ![r].chip_seq = seq_add(@, FinSpan)]
    /\ Emit(r, conn'[r], {"ACK"})
    /\ HandlerGoesTo("fin_acked", r, s)

Collects(r, s) ==
    /\ conn[r].state = "ESTABLISHED" /\ "RST" \notin s.flags
    /\ \/ /\ s.data # <<>> /\ InOrder(r, s)
          /\ conn' = [conn EXCEPT
               ![r].rx = @ \o s.data,
               ![r].chip_seq = seq_add(@, Len(s.data))]
          /\ Emit(r, conn'[r], {"ACK"})
          /\ HandlerGoesTo("data_acked", r, s)
       \/ /\ s.data # <<>> /\ ~InOrder(r, s)
          /\ Emit(r, conn[r], {"ACK"})
          /\ UNCHANGED <<conn, handler>>
       \/ s.data = <<>> /\ "FIN" \in s.flags /\ AcksFin(r, s)
       \/ /\ s.data = <<>> /\ "FIN" \notin s.flags
          /\ Quiet /\ UNCHANGED <<conn, handler>>

(* A segment for a port that is not in the table goes to the outbound NAT,   *)
(* which has no connection for it: _send_rst.                                *)
Stray(r, s) ==
    /\ IF "RST" \in s.flags THEN Quiet
       ELSE Inject(Frame(r, {"RST", "ACK"}, s.ack,
                         seq_add(s.seq, IF "SYN" \in s.flags THEN 1
                                        ELSE Len(s.data)), 0))
    /\ UNCHANGED <<conn, handler>>

deliver_packet_out(r, s) ==
    /\ HandlerAt("idle")
    /\ \/ bridge # "running" /\ Quiet /\ UNCHANGED <<conn, handler>>
       \/ /\ bridge = "running" /\ r \in table
          /\ ChipRst(r, s) \/ SynAcked(r, s) \/ TimeWait(r, s) \/ Collects(r, s)
       \/ bridge = "running" /\ r \notin table /\ Stray(r, s)
    /\ UNCHANGED <<bridge, table, task>>

(* The ACK of the SYN+ACK is out.                                            *)
Established ==
    /\ HandlerAt("established")
    /\ conn' = [conn EXCEPT ![handler.req].established = TRUE]
    /\ handler' = Idle
    /\ Quiet
    /\ UNCHANGED <<bridge, table, task>>

(* Mutant: the task is not told of data that came with the FIN.              *)
ToldWithoutFin == ~handler.fin

Told == TRUE

(* The ACK of the data is out: wake the task; then the FIN, if there was     *)
(* one, whatever the state has become.                                       *)
DataAcked ==
    LET r == handler.req
        c == [conn[r] EXCEPT !.data_event = Told]
    IN  /\ HandlerAt("data_acked")
        /\ \/ /\ handler.fin
              /\ conn' = [conn EXCEPT ![r] = [c EXCEPT
                            !.chip_seq = seq_add(@, FinSpan)]]
              /\ Emit(r, conn'[r], {"ACK"})
              /\ handler' = [handler EXCEPT !.pc = "fin_acked"]
           \/ /\ ~handler.fin
              /\ conn' = [conn EXCEPT ![r] = c]
              /\ Quiet /\ handler' = Idle
        /\ UNCHANGED <<bridge, table, task>>

FinAcked ==
    /\ HandlerAt("fin_acked")
    /\ Emit(handler.req, conn[handler.req], {"ACK", "FIN"})
    /\ handler' = [handler EXCEPT !.pc = "fin_sent"]
    /\ UNCHANGED <<bridge, table, conn, task>>

FinSent ==
    /\ HandlerAt("fin_sent")
    /\ conn' = [conn EXCEPT ![handler.req].our_seq = seq_add(@, 1),
                            ![handler.req].state = "CLOSED",
                            ![handler.req].finished = TRUE]
    /\ handler' = Idle
    /\ Quiet
    /\ UNCHANGED <<bridge, table, task>>

-----------------------------------------------------------------------------
(* PicowNetBridge.stop, by any socket of the client; then shutdown, a task   *)
(* that gather starts.                                                       *)
stop ==
    /\ bridge = "running" /\ Turn(None)
    /\ bridge' = "stopping"
    /\ Quiet
    /\ UNCHANGED <<table, conn, task, handler>>

shutdown ==
    /\ bridge = "stopping" /\ Turn(None)
    /\ bridge' = "stopped" /\ table' = {}
    /\ conn' = [r \in Requests |->
         IF r \in table THEN [conn[r] EXCEPT !.reset = TRUE, !.finished = TRUE,
                                             !.established = TRUE]
         ELSE conn[r]]
    /\ Quiet
    /\ UNCHANGED <<task, handler>>

HandlerRuns == Established \/ DataAcked \/ FinAcked \/ FinSent

(* What the event loop runs for a request, its timers included.              *)
TaskRuns(r) ==
    \/ Opens(r) \/ SynTimesOut(r) \/ Fails(r) \/ SendsRequest(r)
    \/ RequestSent(r) \/ Wakes(r) \/ Polls(r)
=============================================================================
