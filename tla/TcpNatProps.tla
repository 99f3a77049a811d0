----------------------------- MODULE TcpNatProps -----------------------------
(* What must hold of TcpNat whatever the chip sends.                         *)
EXTENDS TcpNat

ConnsOrNone == Conns \cup {None}

HandlerPcs  == {"idle", "grace", "synack", "drain", "acked", "finack", "rst",
                "stopping"}
DeferredPcs == {"none", "created", "await", "cancelled", "flush", "rst", "done"}
PumpPcs     == {"none", "hs", "read", "sent", "finsent", "rst", "done"}
DialStates  == {"none", "dialling", "opened", "failed", "cancelled", "taken"}

FrameType == [key : Keys \cup {None}, flags : SUBSET Flags, seq : SeqNums,
              ack : SeqNums, data : Seq(Nat)]

HandlerType == [pc : HandlerPcs, conn : ConnsOrNone, seg : Segment]

(* The types of the variables of tcp_nat.py's objects and tasks.             *)
TypeOK ==
    /\ running \in BOOLEAN
    /\ conns \in [Keys -> ConnsOrNone]
    /\ connecting \subseteq Keys
    /\ key \in [Conns -> Keys \cup {None}]
    /\ chip_isn \in [Conns -> SeqNums]
    /\ our_isn \in [Conns -> SeqNums]
    /\ state \in [Conns -> States]
    /\ chip_seq \in [Conns -> SeqNums]
    /\ our_seq \in [Conns -> SeqNums]
    /\ pending_payload \in [Conns -> Seq(Nat)]
    /\ pending_eof \in [Conns -> BOOLEAN]
    /\ host \in [Conns -> {"none", "open", "eof", "closed"}]
    /\ written \in [Conns -> Seq(Nat)]
    /\ dial \in [Conns -> DialStates]
    /\ attempt \in [Conns -> 0 .. Attempts]
    /\ deferred \in [Conns -> DeferredPcs]
    /\ pump \in [Conns -> [Starters -> PumpPcs]]
    /\ host_pump_task \in [Conns -> Starters \cup {None}]
    /\ fetched \in [Conns -> Nat]
    /\ at_eof \in [Conns -> BOOLEAN]
    /\ chunk \in [Conns -> [Starters -> Nat]]
    /\ handler \in [Handlers -> HandlerType]
    /\ out \in Seq(FrameType)

(* A handler that is not idle, nor stopping the bridge, holds a connection.  *)
HoldsConn ==
    \A h \in Handlers :
        handler[h].pc \notin {"idle", "stopping"} => handler[h].conn \in Conns

TypeInv == TypeOK /\ HoldsConn

(* The table of connections has c.                                           *)
Registered(c) == \E k \in Keys : conns[k] = c

(* Who still has the dial of c to wait for.                                  *)
AwaitsDial(c) == InGrace(c) \/ deferred[c] \in {"created", "await", "cancelled"}

(* No key ever has two sockets being opened at a time, whatever SYNs arrive  *)
(* and whenever: what _connecting (tcp_nat.py:157-160, 178-183) is for.      *)
OneDialPerKey ==
    \A c, d \in Conns :
        /\ dial[c] = "dialling" /\ dial[d] = "dialling" /\ key[c] = key[d]
        => c = d

(* A key whose host socket is being opened is in _connecting until the dial  *)
(* is over and its waiter has run: no discard comes too early.               *)
DiallingIsConnecting ==
    \A c \in Conns :
        dial[c] = "dialling" \/ AwaitsDial(c) => key[c] \in connecting

(* A connection claims its key from the dial on until its waiter has run.    *)
Claims(c) == dial[c] = "dialling" \/ AwaitsDial(c)

(* What makes the two properties above inductive: claims do not share a key, *)
(* and there is one waiter per dial.                                         *)
DialInv ==
    /\ \A c \in Conns : Claims(c) => key[c] \in connecting
    /\ \A c, d \in Conns :
         Claims(c) /\ Claims(d) /\ key[c] = key[d] => c = d
    /\ \A h \in Handlers : handler[h].pc = "grace" =>
         deferred[handler[h].conn] = "none" /\ key[handler[h].conn] # None
    /\ \A h, g \in Handlers :
         /\ handler[h].pc = "grace" /\ handler[g].pc = "grace"
         /\ handler[h].conn = handler[g].conn
         => h = g
    /\ \A c \in Conns :
         key[c] = None => dial[c] = "none" /\ deferred[c] = "none"
    /\ \A c \in Conns : deferred[c] = "cancelled" => dial[c] # "dialling"

(* A dial that goes on, or has ended with a socket that nobody has taken.    *)
Dialled(c) == dial[c] \in {"dialling", "opened"}

(* A dial left behind: its connection was torn down while the deferred task  *)
(* had not run since its creation, or since the dial ended, so that the      *)
(* cancel of lines 588-589 kept it from ever taking the socket.              *)
LeftBehind(c) ==
    Dialled(c) /\ ~Registered(c) /\ deferred[c] \in {"cancelled", "done"}

(* Every socket the NAT opens is found again: an attached one belongs to the *)
(* object the table has for its key, so that _close and shutdown close it    *)
(* (lines 581-594); a dial, or the socket it opened, has a task that will    *)
(* take it, and once the handler's grace is over _close and shutdown find    *)
(* that task by the table.  The exception are the dials left behind.         *)
NoLostSocket ==
    /\ \A k \in Keys : conns[k] # None => key[conns[k]] = k
    /\ \A c \in Conns : host[c] \in {"open", "eof"} => conns[key[c]] = c
    /\ \A c \in Conns : Dialled(c) =>
         \/ InGrace(c)
         \/ deferred[c] \in {"created", "await"} /\ conns[key[c]] = c
         \/ LeftBehind(c)

(* Once the bridge has been stopped and the NAT shut down, no attached host  *)
(* socket is open but one that a task sending its RST is about to close, no  *)
(* task waits to attach another, and no dial goes on or holds a socket but   *)
(* those left behind (lines 561-594).                                        *)
StoppedIsQuiet ==
    ~running /\ (\A h \in Handlers : handler[h].pc = "idle") =>
        \A c \in Conns :
            /\ \/ host[c] \in {"none", "closed"}
               \/ deferred[c] = "rst" \/ \E o \in Starters : pump[c][o] = "rst"
            /\ deferred[c] \notin {"created", "await"}
            /\ Dialled(c) => LeftBehind(c)

(* A task waiting for the dial finds its connection open: _close cancels it  *)
(* first.  So the test at lines 305-312 guards a case that does not occur,   *)
(* as long as a cancel always takes effect.                                  *)
DeferredInTime ==
    \A c \in Conns : deferred[c] \in {"created", "await"} => state[c] # "CLOSED"

(* Bytes a suspended drain has passed on and not counted yet.                *)
Uncounted(c) ==
    LET hs == {h \in Handlers : handler[h].pc = "drain" /\ handler[h].conn = c}
    IN  IF hs = {} THEN 0 ELSE Len(handler[CHOOSE h \in hs : TRUE].seg.data)

(* Sequence accounting (lines 399-432): the next byte expected of the chip   *)
(* is the first that was neither given to the host socket nor held for it,   *)
(* one further once the chip's FIN was taken.                                *)
ByteAccounting ==
    \A c \in Conns : Registered(c) /\ state[c] # "CLOSED" =>
        LET taken == Len(written[c]) + Len(pending_payload[c]) - Uncounted(c)
            base  == seq_add(chip_isn[c], 1 + taken)
        IN  /\ chip_seq[c] \in {base, seq_add(base, 1)}
            /\ state[c] \in {"SYN_RCVD", "ESTABLISHED"} => chip_seq[c] = base
            /\ state[c] \in {"CLOSE_WAIT", "LAST_ACK"} =>
                 chip_seq[c] = seq_add(base, 1)

(* The chip's end of stream is passed on exactly when its FIN was taken, or  *)
(* is owed to a socket not ready for it; bytes are held only while there is  *)
(* no socket, so none is overtaken (lines 404-407, 421-432, 324-339).        *)
HalfClose ==
    \A c \in Conns : Registered(c) /\ state[c] # "CLOSED" =>
        /\ state[c] \in {"CLOSE_WAIT", "LAST_ACK"} <=>
             host[c] = "eof" \/ pending_eof[c]
        /\ pending_eof[c] => host[c] = "none" \/ deferred[c] = "flush"
        /\ pending_payload[c] # <<>> => host[c] = "none"

(* Nothing is written to a host socket after its end of stream or its close  *)
(* (a write after write_eof raises RuntimeError, which nothing here catches).*)
NoWriteAfterEof ==
    [][\A c \in Conns :
         host[c] \in {"eof", "closed"} => written'[c] = written[c]]_vars

PumpAlive(c, o) == pump[c][o] \in {"hs", "read", "sent"}

(* A pump that is started while another of its connection is alive.          *)
StartsSecond(c, o) ==
    /\ pump[c][o] = "none" /\ pump'[c][o] = "hs"
    /\ \E q \in Starters : PumpAlive(c, q)

(* How the two may cross: the SYN+ACK's send suspended while the deferred    *)
(* connect attached the socket and started its own (line 292).  Or, if there *)
(* is more than one handler, the SYN+ACK's send and the flush of held bytes  *)
(* overlap, and the flush ends last (line 332).                              *)
PumpsCross(c, o) ==
    /\ "chip" \in Slow
    /\ \/ o = "syn" /\ deferred[c] = "done"
       \/ /\ o = "deferred" /\ deferred[c] = "flush"
          /\ \E h, g \in Handlers : h # g

(* "A deferred connect starts its own pump" (lines 288-293), and             *)
(* _on_passive_syn then none.  It does start a second one, but only there:   *)
(* every other start of a pump finds none alive.                             *)
SecondPumpOnlyByCrossing ==
    [][\A c \in Conns, o \in Starters :
         StartsSecond(c, o) => PumpsCross(c, o)]_vars

(* A registered connection that can carry host bytes has somebody who reads  *)
(* the host, or will: it never waits for an end of stream nobody looks for   *)
(* (lines 433-434).                                                          *)
Served ==
    \A c \in Conns :
      Registered(c) /\ state[c] \in {"ESTABLISHED", "CLOSE_WAIT"} =>
        \/ \E o \in Starters : PumpAlive(c, o)
        \/ deferred[c] \in {"created", "await", "flush"}
        \/ \E h \in Handlers : handler[h].pc = "synack" /\ handler[h].conn = c
=============================================================================
