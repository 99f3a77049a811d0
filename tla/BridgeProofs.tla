----------------------------- MODULE BridgeProofs -----------------------------
(* The flows of a bridge, for every number of keys and flows and whatever    *)
(* the chip does.  With one websocket, whose read loop is the only one to    *)
(* open flows, no transport is lost and a stopped bridge holds none.  With   *)
(* any number of them, idle flows are reaped and used ones are not.          *)
EXTENDS Bridge, TLAPS

OneHandler == \E h : Handlers = {h}

UdpTypes ==
    /\ flows \in [Keys -> Flows \cup {None}]
    /\ key \in [Flows -> Keys \cup {None}]
    /\ open \in [Flows -> BOOLEAN]
    /\ handler \in [Handlers ->
         [pc : {"idle", "opening", "stopping", "lookup"},
          key : Keys \cup {None}]]

(* The table has a flow at its own key.                                      *)
AtItsKey == \A k \in Keys : flows[k] # None => key[flows[k]] = k

(* An open transport is that of a flow in the table.                         *)
OpenIsIn == \A f \in Flows : open[f] => key[f] # None /\ flows[key[f]] = f

(* A key that is being opened has no flow: this is what a second handler     *)
(* would break.                                                              *)
OpensNone ==
    \A h \in Handlers : handler[h].pc = "opening" =>
        handler[h].key # None /\ flows[handler[h].key] = None

(* A bridge that was stopped is being shut down, or is closed.               *)
DownIsClosed ==
    ~running => \A h \in Handlers :
        \/ handler[h].pc = "stopping"
        \/ /\ handler[h].pc = "idle" /\ reaper = None
           /\ \A f \in Flows : ~open[f]

UdpInv == UdpTypes /\ AtItsKey /\ OpenIsIn /\ OpensNone /\ DownIsClosed

-----------------------------------------------------------------------------
(* The steps of the chip, of the websocket and of time leave the flows, and  *)
(* the handlers that open one, alone.                                        *)
LEMMA LanStep ==
    ASSUME OneHandler, UdpInv,
           \/ UNCHANGED udpVars
           \/ /\ \E h \in Handlers : deliver_packet_out(h) \/ Resolved(h)
                                     \/ NotResolved(h)
    PROVE  UdpInv'
<1>1. CASE UNCHANGED udpVars
  BY <1>1 DEF UdpInv, UdpTypes, AtItsKey, OpenIsIn, OpensNone, DownIsClosed,
              udpVars, flowVars
<1>2. ASSUME NEW h \in Handlers, deliver_packet_out(h)
      PROVE  UdpInv'
  BY <1>2 DEF UdpInv, UdpTypes, AtItsKey, OpenIsIn, OpensNone, DownIsClosed,
              deliver_packet_out, flowVars, OneHandler
<1>3. ASSUME NEW h \in Handlers, Resolved(h) \/ NotResolved(h)
      PROVE  UdpInv'
  BY <1>3 DEF UdpInv, UdpTypes, AtItsKey, OpenIsIn, OpensNone, DownIsClosed,
              Resolved, NotResolved, flowVars, OneHandler
<1> QED
  BY <1>1, <1>2, <1>3

(* Reaping flows, and closing them, keeps what is said of the table.         *)
LEMMA ReapKeeps ==
    ASSUME UdpInv, NEW F \in SUBSET Flows, Reap(flows, F), open' = Closed(F),
           UNCHANGED key
    PROVE  /\ flows' \in [Keys -> Flows \cup {None}]
           /\ open' \in [Flows -> BOOLEAN]
           /\ AtItsKey' /\ OpenIsIn'
           /\ \A k \in Keys : flows[k] = None => flows'[k] = None
           /\ \A f \in Flows : ~open[f] => ~open'[f]
BY UdpAssumption, ZenonT(40)
DEF UdpInv, UdpTypes, AtItsKey, OpenIsIn, Reap, Closed

(* A socket that was opened: registered, or reaped at once.                  *)
LEMMA OpenedKeeps ==
    ASSUME OneHandler, UdpInv, NEW h \in Handlers, Opened(h)
    PROVE  UdpInv'
PROOF
<1> DEFINE k == handler[h].key
<1>1. PICK f \in Flows :
        /\ key[f] = None /\ key' = [key EXCEPT ![f] = k]
        /\ LET tbl == [flows EXCEPT ![k] = f]
           IN  \/ flows' = tbl /\ open' = [open EXCEPT ![f] = TRUE]
               \/ Reap(tbl, {f}) /\ open' = Closed({f})
  BY DEF Opened, NewFlows
<1>2. /\ k \in Keys /\ flows[k] = None /\ handler[h].pc = "opening"
      /\ handler' = [handler EXCEPT ![h] = Idle]
      /\ running' = running /\ running
  BY DEF Opened, UdpInv, UdpTypes, OpensNone, DownIsClosed
<1>3. /\ \A g \in Flows : open[g] => g # f
      /\ \A j \in Keys : flows[j] # f
  BY <1>1, UdpAssumption DEF UdpInv, UdpTypes, AtItsKey, OpenIsIn
<1>4. handler' \in [Handlers ->
         [pc : {"idle", "opening", "stopping", "lookup"},
          key : Keys \cup {None}]]
      /\ OpensNone' /\ DownIsClosed'
  BY <1>2 DEF UdpInv, UdpTypes, OneHandler, Idle, OpensNone, DownIsClosed
<1>5. CASE flows' = [flows EXCEPT ![k] = f] /\ open' = [open EXCEPT ![f] = TRUE]
  BY <1>1, <1>2, <1>3, <1>4, <1>5, UdpAssumption
     DEF UdpInv, UdpTypes, AtItsKey, OpenIsIn
<1>6. CASE Reap([flows EXCEPT ![k] = f], {f}) /\ open' = Closed({f})
  <2>1. flows' = flows
    BY <1>2, <1>3, <1>6 DEF Reap, UdpInv, UdpTypes
  <2>2. open' = open
    BY <1>3, <1>6 DEF Closed, UdpInv, UdpTypes
  <2> QED
    BY <1>1, <1>2, <1>3, <1>4, <2>1, <2>2, UdpAssumption
       DEF UdpInv, UdpTypes, AtItsKey, OpenIsIn
<1> QED
  BY <1>1, <1>5, <1>6

(* Every other step of the NAT.                                              *)
LEMMA UdpStep ==
    ASSUME OneHandler, UdpInv, UdpRuns
    PROVE  UdpInv'
PROOF
<1> USE UdpAssumption
<1>1. ASSUME NEW h \in Handlers, NEW k \in Keys, Sends(h, k)
      PROVE  UdpInv'
  <2>1. flows[k] \in Flows /\ running /\ UNCHANGED <<running, key, handler>>
    BY <1>1 DEF Sends, UdpInv, UdpTypes
  <2>2. CASE UNCHANGED <<flows, open>>
    BY <2>1, <2>2 DEF UdpInv, UdpTypes, AtItsKey, OpenIsIn, OpensNone,
                      DownIsClosed
  <2>3. CASE Reap(flows, {flows[k]}) /\ open' = Closed({flows[k]})
    BY <2>1, <2>3, ReapKeeps DEF UdpInv, UdpTypes, OpensNone, DownIsClosed
  <2> QED
    BY <1>1, <2>2, <2>3 DEF Sends
<1>2. ASSUME NEW h \in Handlers, NEW k \in Keys, Opens(h, k)
      PROVE  UdpInv'
  BY <1>2 DEF Opens, UdpInv, UdpTypes, AtItsKey, OpenIsIn, OpensNone,
              DownIsClosed, flowVars, OneHandler, Idle
<1>3. ASSUME NEW h \in Handlers, OpenFails(h)
      PROVE  UdpInv'
  BY <1>3 DEF OpenFails, UdpInv, UdpTypes, AtItsKey, OpenIsIn, OpensNone,
              DownIsClosed, flowVars, OneHandler, Idle
<1>4. ASSUME NEW h \in Handlers, stop(h)
      PROVE  UdpInv'
  BY <1>4 DEF stop, UdpInv, UdpTypes, AtItsKey, OpenIsIn, OpensNone,
              DownIsClosed, flowVars, OneHandler
<1>5. ASSUME NEW h \in Handlers, shutdown(h)
      PROVE  UdpInv'
  <2>1. Registered \in SUBSET Flows
    BY DEF Registered
  <2>2. \A f \in Flows : open[f] => f \in Registered
    BY DEF UdpInv, UdpTypes, OpenIsIn, Registered
  <2>3. \A f \in Flows : ~open'[f]
    BY <1>5, <2>2 DEF shutdown, Closed
  <2> QED
    BY <1>5, <2>1, <2>3, ReapKeeps
       DEF shutdown, ReaperCancelled, UdpInv, UdpTypes, OpensNone,
           DownIsClosed, OneHandler, Idle
<1>6. ASSUME Reaps
      PROVE  UdpInv'
  <2>1. Stale \in SUBSET Flows
    BY DEF Stale, Registered
  <2> QED
    BY <1>6, <2>1, ReapKeeps
       DEF Reaps, UdpInv, UdpTypes, OpensNone, DownIsClosed
<1>7. ASSUME \/ \E f \in Flows : HostSends(f)
             \/ \E k \in Keys : on_host_datagram(k)
             \/ Tick
      PROVE  UdpInv'
  <2>1. UNCHANGED <<running, flows, key, open, handler>>
        /\ (reaper = None => reaper' = None)
    BY <1>7 DEF HostSends, on_host_datagram, Tick, flowVars
  <2> QED
    BY <2>1 DEF UdpInv, UdpTypes, AtItsKey, OpenIsIn, OpensNone, DownIsClosed
<1> QED
  BY <1>1, <1>2, <1>3, <1>4, <1>5, <1>6, <1>7, OpenedKeeps
     DEF UdpRuns, Datagram

-----------------------------------------------------------------------------
LEMMA BridgeStep == OneHandler /\ UdpInv /\ [BridgeNext]_bridgeVars => UdpInv'
PROOF
<1> SUFFICES ASSUME OneHandler, UdpInv, [BridgeNext]_bridgeVars
             PROVE  UdpInv'
  OBVIOUS
<1>1. CASE UNCHANGED bridgeVars \/ Starts \/ AsksAgain \/ Checked
           \/ ChipReceives
  <2>1. UNCHANGED udpVars
    BY <1>1 DEF bridgeVars, Starts, AsksAgain, Checked, ChipReceives
  <2> QED
    BY <2>1, LanStep
<1>2. CASE \E h \in Handlers :
             deliver_packet_out(h) \/ Resolved(h) \/ NotResolved(h)
  BY <1>2, LanStep
<1>3. CASE UdpRuns
  BY <1>3, UdpStep
<1> QED
  BY <1>1, <1>2, <1>3 DEF BridgeNext

(* Started with no flow and no open transport.                               *)
LEMMA BridgeStarts == BridgeInit => UdpInv
BY DEF BridgeInit, UdpInit, UdpInv, UdpTypes, AtItsKey, OpenIsIn, OpensNone,
       DownIsClosed, Idle

(* The UDP NAT of a bridge with one websocket loses no transport             *)
(* (udp_nat.py:80-91, 133-145, 173-179).                                     *)
THEOREM NothingIsLost ==
    ASSUME OneHandler
    PROVE  BridgeSpec => []NoLostTransport
PROOF
<1>1. UdpInv => NoLostTransport
  BY DEF UdpInv, OpenIsIn, NoLostTransport
<1>2. UdpInv /\ [BridgeNext]_bridgeVars => UdpInv'
  BY BridgeStep
<1> QED
  BY <1>1, <1>2, BridgeStarts, PTL DEF BridgeSpec

(* Once it was stopped it holds none, and no task will reap                  *)
(* (bridge.py:124-132, udp_nat.py:195-200).                                  *)
THEOREM NothingIsLeft ==
    ASSUME OneHandler
    PROVE  BridgeSpec => []StoppedIsClosed
PROOF
<1>1. UdpInv => StoppedIsClosed
  BY DEF UdpInv, DownIsClosed, StoppedIsClosed, OneHandler
<1>2. UdpInv /\ [BridgeNext]_bridgeVars => UdpInv'
  BY BridgeStep
<1> QED
  BY <1>1, <1>2, BridgeStarts, PTL DEF BridgeSpec

-----------------------------------------------------------------------------
Sleeps == [left : 0..Half, ended : {FALSE}]

ClockTypes ==
    /\ flows \in [Keys -> Flows \cup {None}]
    /\ handler \in [Handlers ->
         [pc : {"idle", "opening", "stopping", "lookup"},
          key : Keys \cup {None}]]
    /\ open \in [Flows -> BOOLEAN]
    /\ quiet \in [Flows -> Nat] /\ last_used = quiet
    /\ reaper \in Sleeps \cup {None}

StopsFirst == \A h \in Handlers : handler[h].pc = "stopping" => ~running

(* As long as a flow is registered there is a reaper, and when it wakes up   *)
(* no flow has been idle for longer than the timeout and half of it.         *)
IdleSoFar ==
    \A f \in Registered :
        reaper # None /\ quiet[f] + reaper.left <= Timeout + Half

ClockInv == ClockTypes /\ StopsFirst /\ IdleSoFar

LEMMA SleepsLeft ==
    ASSUME NEW r \in Sleeps
    PROVE  r # None /\ r.left \in 0..Half /\ ~r.ended
PROOF
<1>1. r.left \in 0..Half /\ r.ended \in {FALSE}
  BY DEF Sleeps
<1>2. r \in [left : Nat, ended : BOOLEAN]
  <2>1. \A n \in 0..Half : n \in Nat
    OBVIOUS
  <2>2. FALSE \in BOOLEAN
    OBVIOUS
  <2> QED
    BY <2>1, <2>2 DEF Sleeps
<1> QED
  BY <1>1, <1>2, UdpAssumption

(* A bridge starts with no flow.                                             *)
LEMMA ClockStarts == BridgeInit => ClockInv
BY UdpAssumption DEF BridgeInit, UdpInit, ClockInv, ClockTypes, StopsFirst,
                     IdleSoFar, Registered, Idle

(* Flows that are reaped leave; no other comes or grows older.               *)
LEMMA ReapAges ==
    ASSUME ClockInv, NEW F \in SUBSET Flows, Reap(flows, F)
    PROVE  /\ flows' \in [Keys -> Flows \cup {None}]
           /\ Registered' \subseteq Registered \ F
BY UdpAssumption DEF ClockInv, ClockTypes, Reap, Registered

(* A datagram passes a flow.                                                 *)
LEMMA TouchAges ==
    ASSUME ClockInv, NEW f \in Flows, Touch(f), Passes(f)
    PROVE  /\ quiet' \in [Flows -> Nat] /\ last_used' = quiet' /\ quiet'[f] = 0
           /\ \A g \in Flows : quiet'[g] <= quiet[g]
BY DEF ClockInv, ClockTypes, Touch, Passes

(* A step that adds no flow and lets none grow older.                        *)
LEMMA NoneAges ==
    ASSUME ClockInv, ClockTypes', UNCHANGED reaper,
           Registered' \subseteq Registered,
           \A f \in Flows : quiet'[f] <= quiet[f]
    PROVE  IdleSoFar'
PROOF
<1> SUFFICES ASSUME NEW f \in Registered'
             PROVE  reaper # None /\ quiet'[f] + reaper.left <= Timeout + Half
  BY DEF IdleSoFar
<1>1. f \in Registered /\ f \in Flows
  BY DEF Registered
<1>2. reaper # None /\ quiet[f] + reaper.left <= Timeout + Half
  BY <1>1 DEF ClockInv, IdleSoFar
<1>3. quiet[f] \in Nat /\ quiet'[f] \in Nat /\ quiet'[f] <= quiet[f]
  BY <1>1 DEF ClockInv, ClockTypes
<1>4. reaper.left \in 0..Half
  BY <1>2, SleepsLeft DEF ClockInv, ClockTypes
<1> QED
  BY <1>2, <1>3, <1>4, UdpAssumption DEF Timeout

(* A socket that was opened is used at once, and there is a reaper.          *)
LEMMA OpenedAges ==
    ASSUME ClockInv, NEW h \in Handlers, Opened(h)
    PROVE  ClockInv'
PROOF
<1> DEFINE k == handler[h].key
<1>1. PICK f \in Flows :
        /\ Touch(f) /\ Passes(f)
        /\ LET tbl == [flows EXCEPT ![k] = f]
           IN  \/ flows' = tbl /\ open' = [open EXCEPT ![f] = TRUE]
               \/ Reap(tbl, {f}) /\ open' = Closed({f})
  BY DEF Opened, NewFlows
<1>2. /\ quiet' \in [Flows -> Nat] /\ last_used' = quiet' /\ quiet'[f] = 0
      /\ \A g \in Flows : quiet'[g] <= quiet[g]
  BY <1>1, TouchAges
<1>3. /\ flows' \in [Keys -> Flows \cup {None}]
      /\ Registered' \subseteq Registered \cup {f}
  BY <1>1, UdpAssumption DEF ClockInv, ClockTypes, Reap, Registered
<1>3a. open' \in [Flows -> BOOLEAN]
  BY <1>1 DEF ClockInv, ClockTypes, Closed
<1>4. /\ reaper' = IF reaper = None THEN Asleep ELSE reaper
      /\ handler' = [handler EXCEPT ![h] = Idle] /\ running' = running
  BY DEF Opened
<1>5. Asleep \in Sleeps /\ Asleep.left = Half /\ Half \in Nat
  BY UdpAssumption DEF Asleep, Sleeps
<1>6. \A r \in Sleeps : r # None /\ r.left \in 0..Half
  BY SleepsLeft
<1>7. reaper' \in Sleeps /\ (reaper # None => reaper' = reaper)
  BY <1>4, <1>5 DEF ClockInv, ClockTypes
<1>8. ClockTypes' /\ StopsFirst'
  BY <1>2, <1>3, <1>4, <1>7, <1>3a DEF ClockInv, ClockTypes, StopsFirst, Idle
<1>9. IdleSoFar'
  <2> SUFFICES ASSUME NEW g \in Registered'
               PROVE  /\ reaper' # None
                      /\ quiet'[g] + reaper'.left <= Timeout + Half
    BY DEF IdleSoFar
  <2>1. reaper' # None /\ reaper'.left \in 0..Half
    BY <1>6, <1>7
  <2>2. CASE g = f
    BY <1>2, <1>5, <2>1, <2>2 DEF Timeout
  <2>3. CASE g # f
    <3>1. g \in Registered /\ g \in Flows
      BY <1>3, <2>3 DEF Registered
    <3>2. /\ reaper # None /\ quiet[g] + reaper.left <= Timeout + Half
          /\ quiet[g] \in Nat /\ quiet'[g] \in Nat /\ quiet'[g] <= quiet[g]
      BY <1>2, <3>1 DEF ClockInv, ClockTypes, IdleSoFar
    <3> QED
      BY <1>5, <1>7, <2>1, <3>2 DEF Timeout
  <2> QED
    BY <2>2, <2>3
<1> QED
  BY <1>8, <1>9 DEF ClockInv

(* The reaper closes what was idle for longer than the timeout.              *)
LEMMA ReapsAges ==
    ASSUME ClockInv, Reaps
    PROVE  ClockInv'
PROOF
<1>1. /\ flows' \in [Keys -> Flows \cup {None}]
      /\ Registered' \subseteq Registered \ Stale
  BY ReapAges DEF Reaps, Stale, Registered
<1>2. /\ UNCHANGED <<quiet, last_used, handler, running>>
      /\ open' \in [Flows -> BOOLEAN]
      /\ reaper' = IF Registered \subseteq Stale THEN NoReaper ELSE Asleep
  BY DEF Reaps, Closed, ClockInv, ClockTypes
<1>3. Asleep \in Sleeps /\ Asleep.left = Half /\ Half \in Nat
  BY UdpAssumption DEF Asleep, Sleeps
<1>4. ClockTypes' /\ StopsFirst'
  BY <1>1, <1>2, <1>3 DEF ClockInv, ClockTypes, StopsFirst, NoReaper
<1>5. ASSUME NEW f \in Registered'
      PROVE  reaper' # None /\ quiet'[f] + reaper'.left <= Timeout + Half
  <2>1. f \in Registered /\ f \notin Stale /\ f \in Flows
    BY <1>1 DEF Registered
  <2>2. reaper' = Asleep /\ Asleep # None
    BY <1>2, <1>3, <2>1, SleepsLeft
  <2>3. quiet[f] \in Nat /\ ~(quiet[f] > Timeout)
    BY <2>1 DEF Stale, ClockInv, ClockTypes
  <2> QED
    BY <1>2, <1>3, <2>2, <2>3 DEF Timeout
<1> QED
  BY <1>4, <1>5 DEF ClockInv, IdleSoFar

(* A tick: the reaper, being there, has less to sleep as flows grow older.   *)
LEMMA TickAges ==
    ASSUME ClockInv, Tick
    PROVE  ClockInv'
PROOF
<1> DEFINE Older(t) == [f \in Flows |->
             IF f \in Registered /\ t[f] < Never THEN t[f] + 1 ELSE t[f]]
           due == reaper # None /\ ~reaper.ended
<1>1. /\ last_used' = Older(last_used) /\ quiet' = Older(quiet)
      /\ due => reaper.left > 0
      /\ reaper' = IF due THEN [reaper EXCEPT !.left = @ - 1] ELSE reaper
      /\ UNCHANGED <<running, flows, open, handler>>
  BY DEF Tick
<1>2. quiet' \in [Flows -> Nat] /\ last_used' = quiet'
      /\ \A f \in Flows : quiet'[f] <= quiet[f] + 1
  BY <1>1, UdpAssumption DEF ClockInv, ClockTypes, Never, Timeout
<1>3. ASSUME reaper # None
      PROVE  /\ due /\ reaper.left \in 0..Half
             /\ reaper' \in Sleeps /\ reaper'.left = reaper.left - 1
  <2>1. reaper \in Sleeps
    BY <1>3 DEF ClockInv, ClockTypes
  <2>2. due /\ reaper.left \in 0..Half /\ reaper.left > 0
    BY <1>1, <1>3, <2>1, SleepsLeft
  <2>3. reaper' = [reaper EXCEPT !.left = reaper.left - 1]
    BY <1>1, <2>2
  <2>4. reaper.left - 1 \in 0..Half
    BY <2>2, UdpAssumption
  <2> QED
    BY <2>1, <2>2, <2>3, <2>4 DEF Sleeps
<1>4. reaper = None => reaper' = None
  BY <1>1
<1>5. ClockTypes' /\ StopsFirst'
  BY <1>1, <1>2, <1>3, <1>4 DEF ClockInv, ClockTypes, StopsFirst
<1>6. ASSUME NEW f \in Registered'
      PROVE  reaper' # None /\ quiet'[f] + reaper'.left <= Timeout + Half
  <2>1. f \in Registered /\ f \in Flows
    BY <1>1 DEF Registered
  <2>2. reaper # None /\ quiet[f] + reaper.left <= Timeout + Half
    BY <2>1 DEF ClockInv, IdleSoFar
  <2>3. quiet[f] \in Nat /\ quiet'[f] \in Nat /\ quiet'[f] <= quiet[f] + 1
    BY <1>2, <2>1 DEF ClockInv, ClockTypes
  <2>4. reaper' # None
    BY <1>3, <2>2, SleepsLeft
  <2> QED
    BY <1>3, <2>2, <2>3, <2>4, UdpAssumption DEF Timeout
<1> QED
  BY <1>5, <1>6 DEF ClockInv, IdleSoFar

(* A step that opens no flow, and at most lets a datagram pass one.          *)
LEMMA UseAges ==
    ASSUME ClockInv, UNCHANGED <<running, reaper>>,
           flows' \in [Keys -> Flows \cup {None}],
           Registered' \subseteq Registered, handler' = handler,
           open' \in [Flows -> BOOLEAN],
           \/ UNCHANGED <<quiet, last_used>>
           \/ \E f \in Flows : Touch(f) /\ Passes(f)
    PROVE  ClockInv'
PROOF
<1>1. /\ quiet' \in [Flows -> Nat] /\ last_used' = quiet'
      /\ \A g \in Flows : quiet'[g] <= quiet[g]
  BY TouchAges DEF ClockInv, ClockTypes
<1>2. ClockTypes' /\ StopsFirst'
  BY <1>1 DEF ClockInv, ClockTypes, StopsFirst
<1> QED
  BY <1>1, <1>2, NoneAges DEF ClockInv

(* A step of a handler that leaves the flows alone.                          *)
LEMMA HandlerAges ==
    ASSUME ClockInv, UNCHANGED <<flows, quiet, last_used, reaper>>,
           ClockTypes', StopsFirst'
    PROVE  ClockInv'
PROOF
<1>1. Registered' = Registered
  BY DEF Registered
<1>2. \A f \in Flows : quiet'[f] <= quiet[f]
  BY DEF ClockInv, ClockTypes
<1> QED
  BY <1>1, <1>2, NoneAges DEF ClockInv

LEMMA ClockStep == ClockInv /\ [BridgeNext]_bridgeVars => ClockInv'
PROOF
<1> SUFFICES ASSUME ClockInv, [BridgeNext]_bridgeVars
             PROVE  ClockInv'
  OBVIOUS
<1>1. CASE UNCHANGED bridgeVars \/ Starts \/ AsksAgain \/ Checked
           \/ ChipReceives
  <2>1. UNCHANGED <<running, flows, open, quiet, last_used, reaper, handler>>
    BY <1>1 DEF bridgeVars, udpVars, flowVars, Starts, AsksAgain, Checked,
                ChipReceives
  <2> QED
    BY <2>1, HandlerAges DEF ClockInv, ClockTypes, StopsFirst
<1>2. ASSUME NEW h \in Handlers,
             \/ deliver_packet_out(h) \/ Resolved(h) \/ NotResolved(h)
             \/ OpenFails(h) \/ \E k \in Keys : Opens(h, k)
      PROVE  ClockInv'
  <2>1. /\ UNCHANGED <<running, flows, open, quiet, last_used, reaper>>
        /\ \/ handler' = handler
           \/ \E to \in {"idle", "lookup"} :
                 handler' = [handler EXCEPT ![h].pc = to]
           \/ handler' = [handler EXCEPT ![h] = Idle]
           \/ \E k \in Keys :
                 handler' = [handler EXCEPT ![h] = [pc |-> "opening",
                                                    key |-> k]]
    BY <1>2 DEF deliver_packet_out, Resolved, NotResolved, OpenFails, Opens,
                flowVars
  <2>2. ClockTypes' /\ StopsFirst'
    BY <2>1 DEF ClockInv, ClockTypes, StopsFirst, Idle
  <2> QED
    BY <2>1, <2>2, HandlerAges
<1>3. ASSUME NEW h \in Handlers, NEW k \in Keys, Sends(h, k)
      PROVE  ClockInv'
  <2> DEFINE f == flows[k]
  <2>1. f \in Flows /\ Touch(f) /\ Passes(f)
        /\ UNCHANGED <<running, reaper, handler>>
        /\ open' \in [Flows -> BOOLEAN]
    BY <1>3 DEF Sends, Closed, ClockInv, ClockTypes
  <2>2. /\ flows' \in [Keys -> Flows \cup {None}]
        /\ Registered' \subseteq Registered
    <3>1. CASE UNCHANGED flows
      BY <3>1 DEF ClockInv, ClockTypes, Registered
    <3>2. CASE Reap(flows, {f})
      BY <2>1, <3>2, ReapAges
    <3> QED
      BY <1>3, <3>1, <3>2 DEF Sends
  <2> QED
    BY <2>1, <2>2, UseAges
<1>4. ASSUME NEW h \in Handlers, stop(h)
      PROVE  ClockInv'
  <2>1. ClockTypes' /\ StopsFirst'
        /\ UNCHANGED <<flows, quiet, last_used, reaper>>
    BY <1>4 DEF stop, flowVars, ClockInv, ClockTypes, StopsFirst
  <2> QED
    BY <2>1, HandlerAges
<1>5. ASSUME NEW h \in Handlers, shutdown(h)
      PROVE  ClockInv'
  <2>1. /\ flows' \in [Keys -> Flows \cup {None}]
        /\ Registered' \subseteq {}
    BY <1>5, ReapAges DEF shutdown, Registered
  <2>2. ClockTypes' /\ StopsFirst'
    BY <1>5, <2>1 DEF shutdown, ReaperCancelled, Closed, ClockInv,
                      ClockTypes, StopsFirst, Idle
  <2> QED
    BY <2>1, <2>2 DEF ClockInv, IdleSoFar
<1>6. ASSUME NEW f \in Flows, HostSends(f)
      PROVE  ClockInv'
  <2>1. ClockTypes' /\ StopsFirst'
        /\ UNCHANGED <<flows, quiet, last_used, reaper>>
    BY <1>6 DEF HostSends, flowVars, ClockInv, ClockTypes, StopsFirst
  <2> QED
    BY <2>1, HandlerAges
<1>7. ASSUME NEW k \in Keys, on_host_datagram(k)
      PROVE  ClockInv'
  <2>1. /\ UNCHANGED <<running, reaper, handler, flows, open>>
        /\ \/ UNCHANGED <<quiet, last_used>>
           \/ flows[k] \in Flows /\ Touch(flows[k]) /\ Passes(flows[k])
    BY <1>7 DEF on_host_datagram, TouchedByHost, ClockInv, ClockTypes
  <2>2. Registered' = Registered
    BY <2>1 DEF Registered
  <2> QED
    BY <2>1, <2>2, UseAges DEF ClockInv, ClockTypes
<1> QED
  BY <1>1, <1>2, <1>3, <1>4, <1>5, <1>6, <1>7, OpenedAges, ReapsAges, TickAges
     DEF BridgeNext, UdpRuns, Datagram

(* Whatever opens, reaps and closes flows, one that nothing passes is gone   *)
(* within the timeout and half of it (udp_nat.py:11, 160-171).               *)
THEOREM IdleIsGone == BridgeSpec => []IdleIsReaped
PROOF
<1>1. ClockInv => IdleIsReaped
  <2> SUFFICES ASSUME ClockInv, NEW f \in Registered
               PROVE  quiet[f] <= Timeout + Half
    BY DEF IdleIsReaped
  <2>1. reaper # None /\ quiet[f] + reaper.left <= Timeout + Half
        /\ quiet[f] \in Nat
    BY DEF ClockInv, ClockTypes, IdleSoFar, Registered
  <2>2. reaper.left \in 0..Half
    BY <2>1, SleepsLeft DEF ClockInv, ClockTypes
  <2> QED
    BY <2>1, <2>2, UdpAssumption DEF Timeout
<1> QED
  BY <1>1, ClockStarts, ClockStep, PTL DEF BridgeSpec

(* And one that is used is kept (udp_nat.py:86-91, 155, 184-188).            *)
THEOREM UsedStays == BridgeSpec => UsedIsKept
PROOF
<1> DEFINE Kept ==
      \A f \in Flows :
         open[f] /\ ~open'[f] /\ running /\ quiet'[f] > 0 =>
            quiet[f] > Timeout
<1>1. ClockInv /\ [BridgeNext]_bridgeVars => [Kept]_udpVars
  <2> SUFFICES ASSUME ClockInv, BridgeNext, NEW f \in Flows,
                      open[f], ~open'[f], running, quiet'[f] > 0
               PROVE  quiet[f] > Timeout
    BY DEF bridgeVars, udpVars, flowVars
  <2>1. ~\E h \in Handlers : shutdown(h)
    BY DEF ClockInv, StopsFirst, shutdown
  <2>2. ASSUME NEW h \in Handlers, NEW k \in Keys, Sends(h, k)
        PROVE  FALSE
    <3>1. f # flows[k]
      BY <2>2 DEF Sends, Passes, ClockInv, ClockTypes
    <3> QED
      BY <2>2, <3>1 DEF Sends, Closed
  <2>3. ASSUME NEW h \in Handlers, Opened(h)
        PROVE  FALSE
    <3>1. PICK g \in Flows :
            /\ Passes(g)
            /\ open' = [open EXCEPT ![g] = TRUE] \/ open' = Closed({g})
      BY <2>3 DEF Opened, NewFlows
    <3>2. f # g
      BY <3>1 DEF Passes, ClockInv, ClockTypes
    <3> QED
      BY <3>1, <3>2 DEF Closed, ClockInv, ClockTypes
  <2>4. CASE Reaps
    <3>1. f \in Stale
      BY <2>4 DEF Reaps, Closed
    <3> QED
      BY <3>1 DEF Stale, ClockInv, ClockTypes
  <2> QED
    BY <2>1, <2>2, <2>3, <2>4
       DEF BridgeNext, UdpRuns, Datagram, Opens, OpenFails, stop, HostSends,
           on_host_datagram, Tick, Starts, AsksAgain, Checked, ChipReceives,
           deliver_packet_out, Resolved, NotResolved, udpVars, flowVars
<1> QED
  BY <1>1, ClockStarts, ClockStep, PTL DEF BridgeSpec, UsedIsKept
=============================================================================
