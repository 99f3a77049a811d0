---------------------------- MODULE GatewayServer ----------------------------
(* The websocket half: GatewayServer._handler (velxiogw/server.py), one task *)
(* per socket, and the life of the bridges it makes (velxiogw/net/bridge.py).*)
(* Sockets are those that _process_request let through.  A step is what a    *)
(* handler runs from one await to the next.                                  *)
EXTENDS Naturals, FiniteSets

CONSTANTS
    Clients,      \* client ids, the last part of the websocket's path
    Sockets,      \* websockets; its size bounds how many ever connect
    Bridges,      \* PicowNetBridge objects; its size bounds how many are made
    ClientOf,     \* the client id each socket names
    None,
    Overlapping   \* clients that may connect again before the handler of
                  \* their last socket has finished

ASSUME GatewayAssumption ==
    /\ ClientOf \in [Sockets -> Clients] /\ Overlapping \subseteq Clients
    /\ None \notin Bridges \cup Sockets

VARIABLES
    bridges,   \* GatewayServer._bridges
    owner,     \* the socket whose emit a bridge was made with
    phase,     \* of a bridge: running, stopping (running is False), down
    opened,    \* whether a bridge's NATs hold host sockets
    pc,        \* where the handler of a socket stands
    held       \* the bridge it holds there

gwVars     == <<bridges, owner, phase, opened>>
serverVars == <<gwVars, pc, held>>

ServerInit ==
    /\ bridges = [i \in Clients |-> None]
    /\ owner = [b \in Bridges |-> None]
    /\ phase = [b \in Bridges |-> "unmade"]
    /\ opened = [b \in Bridges |-> FALSE]
    /\ pc = [s \in Sockets |-> "none"]
    /\ held = [s \in Sockets |-> None]

-----------------------------------------------------------------------------
Live(s) == pc[s] \notin {"none", "done"}

Goes(s, to, b) ==
    pc' = [pc EXCEPT ![s] = to] /\ held' = [held EXCEPT ![s] = b]

Connects(s) ==
    /\ pc[s] = "none"
    /\ ClientOf[s] \notin Overlapping =>
         \A t \in Sockets : ClientOf[t] = ClientOf[s] => ~Live(t)
    /\ Goes(s, "loop", None)
    /\ UNCHANGED gwVars

(* Mutant: get in place of pop.                                              *)
Got(i) == bridges

Popped(i) == [bridges EXCEPT ![i] = None]

(* Take the client's bridge out of the table and stop it: PicowNetBridge.stop*)
(* up to its gather; or, if there is none, go on to after.                   *)
PopAndStop(s, stopping, IfNone) ==
    LET old == bridges[ClientOf[s]]
    IN  \/ /\ old # None
           /\ bridges' = Popped(ClientOf[s])
           /\ phase' = [phase EXCEPT ![old] = "stopping"]
           /\ Goes(s, stopping, old)
           /\ UNCHANGED <<owner, opened>>
        \/ old = None /\ IfNone

(* A new bridge for the socket's client; then its wifi_status is sent.       *)
Creates(s) ==
    /\ \E b \in Bridges :
         /\ phase[b] = "unmade"
         /\ phase' = [phase EXCEPT ![b] = "running"]
         /\ owner' = [owner EXCEPT ![b] = s]
         /\ bridges' = [bridges EXCEPT ![ClientOf[s]] = b]
         /\ Goes(s, "starting", b)
    /\ UNCHANGED opened

(* Mutant: the bridge of an earlier start_picow is not stopped.              *)
StartsOver(s) == Creates(s)

StartsAfterStop(s) == PopAndStop(s, "restarting", Creates(s))

start_picow(s) == pc[s] = "loop" /\ StartsAfterStop(s)

stop_picow(s) ==
    /\ pc[s] = "loop"
    /\ PopAndStop(s, "stopping", Goes(s, "loop", None) /\ UNCHANGED gwVars)

(* deliver_packet_out: the frame goes to the bridge now in the table.  The   *)
(* reply, a dial or a name lookup suspends, and the bridge is not looked at  *)
(* again.  (A bridge with WiFi off is one that gets no frame.)               *)
picow_packet_out(s) ==
    LET b == bridges[ClientOf[s]]
    IN  /\ pc[s] = "loop" /\ b # None
        /\ phase[b] = "running"
        /\ Goes(s, "delivering", b)
        /\ UNCHANGED gwVars

(* A frame may leave a host socket open in the NAT.                          *)
Delivered(s) ==
    /\ pc[s] = "delivering"
    /\ \E opens \in BOOLEAN :
         opened' = [opened EXCEPT ![held[s]] = @ \/ opens]
    /\ Goes(s, "loop", None)
    /\ UNCHANGED <<bridges, owner, phase>>

Started(s) == pc[s] = "starting" /\ Goes(s, "loop", None) /\ UNCHANGED gwVars

AllClosed(b) == [opened EXCEPT ![b] = FALSE]

(* The tasks that stop has gathered: the NATs close their host sockets.      *)
shutdown(b) ==
    /\ phase[b] = "stopping"
    /\ phase' = [phase EXCEPT ![b] = "down"]
    /\ opened' = AllClosed(b)
    /\ UNCHANGED <<bridges, owner, pc, held>>

IsStopped(s, at) == pc[s] = at /\ phase[held[s]] = "down"

(* stop returned: to start_picow, to stop_picow or to the finally block.     *)
Restarted(s) == IsStopped(s, "restarting") /\ Creates(s)

Stopped(s) ==
    IsStopped(s, "stopping") /\ Goes(s, "loop", None) /\ UNCHANGED gwVars

Ended(s) == IsStopped(s, "ending") /\ Goes(s, "done", None) /\ UNCHANGED gwVars

(* Mutant: the stop is not awaited in finally.                               *)
NotAwaited(s) == PopAndStop(s, "done", Goes(s, "done", None) /\ UNCHANGED gwVars)

Finally(s) == PopAndStop(s, "ending", Goes(s, "done", None) /\ UNCHANGED gwVars)

(* The socket closes, or a message or a frame raises what nothing catches.   *)
Ends(s) == pc[s] \in {"loop", "delivering"} /\ Finally(s)

ServerNext ==
    \/ \E s \in Sockets :
         \/ Connects(s) \/ start_picow(s) \/ stop_picow(s)
         \/ picow_packet_out(s) \/ Delivered(s) \/ Started(s)
         \/ Restarted(s) \/ Stopped(s) \/ Ended(s) \/ Ends(s)
    \/ \E b \in Bridges : shutdown(b)

ServerSpec == ServerInit /\ [][ServerNext]_serverVars

-----------------------------------------------------------------------------
Client(b) == ClientOf[owner[b]]

(* However the sockets of a client overlap, the table names only bridges     *)
(* that run and were made for that client, and none once the last of the     *)
(* client's sockets has ended: /status counts no session that is over.       *)
TableIsCurrent ==
    \A i \in Clients :
        /\ bridges[i] # None =>
             phase[bridges[i]] = "running" /\ Client(bridges[i]) = i
        /\ (\A s \in Sockets : ClientOf[s] = i => ~Live(s)) => bridges[i] = None

(* "One bridge instance per simulated chip" (bridge.py:5), for a client      *)
(* whose sockets do not overlap: every bridge that runs is the one in the    *)
(* table, and it was made by the socket being served.                        *)
OneBridge ==
    \A b \in Bridges :
        phase[b] = "running" /\ Client(b) \notin Overlapping =>
            bridges[Client(b)] = b /\ Live(owner[b])

(* For such a client nothing is left of a session once its handler is done:  *)
(* no bridge of the client runs, is still being stopped or holds a host      *)
(* socket, whether it was restarted, stopped or cut off while it awaited a   *)
(* frame (server.py:131-158, bridge.py:125-132).                             *)
EndsClean ==
    \A b \in Bridges :
        /\ phase[b] \in {"running", "stopping"} \/ opened[b]
        /\ Client(b) \notin Overlapping
        => \E s \in Sockets : ClientOf[s] = Client(b) /\ Live(s)

(* "The finally block cleans up" (server.py:118): a bridge whose client has  *)
(* no socket left does not run.                                              *)
FinallyCleansUp ==
    \A b \in Bridges : phase[b] = "running" =>
        \E s \in Sockets : ClientOf[s] = Client(b) /\ Live(s)
=============================================================================
