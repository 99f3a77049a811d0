-------------------------------- MODULE UdpNat --------------------------------
(* The UDP NAT of one bridge: velxiogw/net/udp_nat.py.  A flow is a host     *)
(* socket for one (chip, port, host, port); a reaper task closes those that  *)
(* were idle for too long.  A step is what a task runs from one await that   *)
(* suspends to the next.  Payloads are left out.                             *)
EXTENDS Naturals, FiniteSets

CONSTANTS
    Keys,        \* (chip_ip, chip_port, dst_ip, dst_port) tuples
    Flows,       \* _UdpFlow objects; its size bounds how many are made
    Handlers,    \* websocket reader tasks that deliver frames to this bridge
    Blocked,     \* keys the egress guard refuses
    Half,        \* UDP_IDLE_TIMEOUT / 2, in ticks of a clock
    MaxWaiting,  \* bound: host datagrams of a key that wait for their task
    None

ASSUME UdpAssumption ==
    /\ IsFiniteSet(Flows)
    /\ None \notin Flows \cup Keys \cup [left : Nat, ended : BOOLEAN]
    /\ Blocked \subseteq Keys /\ Half \in Nat \ {0} /\ MaxWaiting \in Nat

VARIABLES
    running,   \* PicowNetBridge.running
    flows,     \* UdpNat._flows
    key,       \* the key of a flow, None for an object not made yet
    open,      \* whether its transport is open
    last_used, \* ticks since its last_used was set
    reaper,    \* UdpNat._reaper_task: None, or a task and its ticks of sleep
    handler,   \* where each handler stands, and the key it opens
    waiting,   \* datagram_received: tasks made and not run yet, per key
    out,       \* frames handed to _inject in the last step
    quiet      \* history: ticks since a datagram last passed a flow

flowVars == <<flows, key, open, last_used, quiet>>
udpVars  == <<running, flowVars, reaper, handler, waiting, out>>

Timeout == 2 * Half
Never   == Timeout + Half + 1      \* where the clocks of a flow stop

Idle    == [pc |-> "idle", key |-> None]

UdpInit ==
    /\ running = TRUE
    /\ flows = [k \in Keys |-> None]
    /\ key = [f \in Flows |-> None]
    /\ open = [f \in Flows |-> FALSE]
    /\ last_used = [f \in Flows |-> 0]
    /\ quiet = [f \in Flows |-> 0]
    /\ reaper = None
    /\ handler = [h \in Handlers |-> Idle]
    /\ waiting = [k \in Keys |-> 0]
    /\ out = {}

-----------------------------------------------------------------------------
Asleep == [left |-> Half, ended |-> FALSE]

(* Mutant: the transport is not closed.                                      *)
LeftOpen(F) == open

Closed(F) == [f \in Flows |-> open[f] /\ f \notin F]

(* _reap_flow for the flows in F, which are in the table tbl.                *)
Reap(tbl, F) ==
    flows' = [k \in Keys |-> IF tbl[k] \in F THEN None ELSE tbl[k]]

(* A datagram passes f: last_used is set.                                    *)
Touch(f) == last_used' = [last_used EXCEPT ![f] = 0]

Passes(f) == quiet' = [quiet EXCEPT ![f] = 0]

(* handle_chip_datagram with a flow: send on it, or close it if that fails.  *)
Sends(h, k) ==
    LET f == flows[k]
    IN  /\ handler[h].pc = "idle" /\ running /\ f # None
        /\ Touch(f) /\ Passes(f)
        /\ \/ UNCHANGED <<flows, open>>
           \/ Reap(flows, {f}) /\ open' = Closed({f})
        /\ out' = {}
        /\ UNCHANGED <<running, key, reaper, handler, waiting>>

(* Without one: drop it, if the egress guard says so, or open a flow.        *)
Opens(h, k) ==
    /\ handler[h].pc = "idle" /\ running /\ flows[k] = None
    /\ handler' = [handler EXCEPT ![h] =
         IF k \in Blocked THEN Idle ELSE [pc |-> "opening", key |-> k]]
    /\ out' = {}
    /\ UNCHANGED <<running, flowVars, reaper, waiting>>

OpenFails(h) ==
    /\ handler[h].pc = "opening"
    /\ handler' = [handler EXCEPT ![h] = Idle]
    /\ out' = {}
    /\ UNCHANGED <<running, flowVars, reaper, waiting>>

(* Flows are all alike: any that is not in use yet stands for a new one.     *)
NewFlows == {f \in Flows : key[f] = None}

(* The socket is there: register the flow whatever the table has by now, see *)
(* that there is a reaper, and send.                                         *)
Opened(h) ==
    LET k == handler[h].key
    IN  /\ handler[h].pc = "opening"
        /\ NewFlows # {}
        /\ LET f   == CHOOSE g \in NewFlows : TRUE
               tbl == [flows EXCEPT ![k] = f]
           IN  /\ key' = [key EXCEPT ![f] = k]
               /\ Touch(f) /\ Passes(f)
               /\ \/ flows' = tbl /\ open' = [open EXCEPT ![f] = TRUE]
                  \/ Reap(tbl, {f}) /\ open' = Closed({f})
        /\ reaper' = IF reaper = None THEN Asleep ELSE reaper
        /\ handler' = [handler EXCEPT ![h] = Idle]
        /\ out' = {}
        /\ UNCHANGED <<running, waiting>>

-----------------------------------------------------------------------------
(* A datagram of the host: datagram_received makes a task.                   *)
HostSends(f) ==
    /\ open[f] /\ waiting[key[f]] < MaxWaiting
    /\ waiting' = [waiting EXCEPT ![key[f]] = @ + 1]
    /\ out' = {}
    /\ UNCHANGED <<running, flowVars, reaper, handler>>

(* Mutant: what comes from the host does not count as use.                   *)
NotTouched(f) == UNCHANGED last_used

TouchedByHost(f) == Touch(f)

(* _on_host_datagram: to the flow that now has the key, if there is one.     *)
on_host_datagram(k) ==
    LET f == flows[k]
    IN  /\ waiting[k] > 0
        /\ waiting' = [waiting EXCEPT ![k] = @ - 1]
        /\ \/ f = None /\ out' = {} /\ UNCHANGED <<last_used, quiet>>
           \/ /\ f # None
              /\ out' = IF running THEN {k} ELSE {}
              /\ TouchedByHost(f) /\ Passes(f)
        /\ UNCHANGED <<running, flows, key, open, reaper, handler>>

-----------------------------------------------------------------------------
Registered == {f \in Flows : \E k \in Keys : flows[k] = f}

Stale == {f \in Registered : last_used[f] > Timeout}

(* Mutant: the task that ended stays in _reaper_task.                        *)
StaysEnded == [left |-> 0, ended |-> TRUE]

NoReaper == None

(* The reaper wakes up.                                                      *)
Reaps ==
    /\ reaper # None /\ ~reaper.ended /\ reaper.left = 0
    /\ Reap(flows, Stale) /\ open' = Closed(Stale)
    /\ reaper' = IF Registered \subseteq Stale THEN NoReaper ELSE Asleep
    /\ out' = {}
    /\ UNCHANGED <<running, key, last_used, quiet, handler, waiting>>

(* Time passes; no task that is ready is left behind.                        *)
Tick ==
    LET Older(t) == [f \in Flows |->
          IF f \in Registered /\ t[f] < Never THEN t[f] + 1 ELSE t[f]]
        due == reaper # None /\ ~reaper.ended
    IN  /\ due => reaper.left > 0
        /\ \A k \in Keys : waiting[k] = 0
        /\ last_used' = Older(last_used) /\ quiet' = Older(quiet)
        /\ reaper' = IF due THEN [reaper EXCEPT !.left = @ - 1] ELSE reaper
        /\ out' = {}
        /\ UNCHANGED <<running, flows, key, open, handler, waiting>>

-----------------------------------------------------------------------------
(* Mutant: shutdown leaves the reaper alone.                                 *)
ReaperRunsOn == reaper

ReaperCancelled == None

(* PicowNetBridge.stop, and the NAT's shutdown, a task that gather starts.   *)
stop(h) ==
    /\ running /\ handler[h].pc = "idle"
    /\ running' = FALSE
    /\ handler' = [handler EXCEPT ![h] = [pc |-> "stopping", key |-> None]]
    /\ out' = {}
    /\ UNCHANGED <<flowVars, reaper, waiting>>

shutdown(h) ==
    /\ handler[h].pc = "stopping"
    /\ Reap(flows, Registered) /\ open' = Closed(Registered)
    /\ reaper' = ReaperCancelled
    /\ handler' = [handler EXCEPT ![h] = Idle]
    /\ out' = {}
    /\ UNCHANGED <<running, key, last_used, quiet, waiting>>

-----------------------------------------------------------------------------
(* Every open transport is that of the flow the table has for its key, so    *)
(* that the reaper and shutdown find it (udp_nat.py:142, 173-179).           *)
NoLostTransport == \A f \in Flows : open[f] => flows[key[f]] = f

(* "Idle UDP flows are reaped after UDP_IDLE_TIMEOUT seconds"                *)
(* (udp_nat.py:11): by the second round of the reaper after that, at latest. *)
IdleIsReaped == \A f \in Registered : quiet[f] <= Timeout + Half

(* A flow on which datagrams passed within the timeout, in either direction, *)
(* is closed only with the bridge, or by a datagram that could not be sent   *)
(* on it (udp_nat.py:86-91, 155, 184-188).                                   *)
UsedIsKept ==
    [][\A f \in Flows :
         open[f] /\ ~open'[f] /\ running /\ quiet'[f] > 0 =>
            quiet[f] > Timeout]_udpVars

(* Once the bridge was stopped, nothing is open and nothing will reap        *)
(* (udp_nat.py:195-200).                                                     *)
StoppedIsClosed ==
    ~running /\ (\A h \in Handlers : handler[h].pc = "idle") =>
        reaper = None /\ \A f \in Flows : ~open[f]
=============================================================================
