----------------------------- MODULE GatewayProofs -----------------------------
(* Theorems about GatewayServer, for every number of clients, sockets and    *)
(* bridges, and whichever clients' sockets overlap.                          *)
EXTENDS GatewayServer, TLAPS

Pcs == {"none", "loop", "starting", "delivering", "restarting", "stopping",
        "ending", "done"}

(* Where a handler stands that has not taken the client's bridge out of the  *)
(* table, and where one waits for the bridge it has taken out.               *)
Serving == {"starting", "loop", "delivering"}
Waiting == {"restarting", "stopping", "ending"}

ServerTypes ==
    /\ bridges \in [Clients -> Bridges \cup {None}]
    /\ owner \in [Bridges -> Sockets \cup {None}]
    /\ phase \in [Bridges -> {"unmade", "running", "stopping", "down"}]
    /\ opened \in [Bridges -> BOOLEAN]
    /\ pc \in [Sockets -> Pcs]
    /\ held \in [Sockets -> Bridges \cup {None}]

(* A bridge in the table runs, was made for that client, and by a socket     *)
(* that serves: whoever stops serving takes what is there out of the table.  *)
InTable ==
    \A i \in Clients : bridges[i] # None =>
        /\ phase[bridges[i]] = "running"
        /\ owner[bridges[i]] \in Sockets
        /\ ClientOf[owner[bridges[i]]] = i
        /\ pc[owner[bridges[i]]] \in Serving

Alone(s) == ClientOf[s] \notin Overlapping

(* Of a client whose sockets do not overlap, one is served at a time; while  *)
(* it waits for a stop there is no bridge in the table; and the bridge that  *)
(* it delivers to, which is one of that client in any case, is in it.        *)
OneSocket ==
    \A s, t \in Sockets :
        Alone(s) /\ ClientOf[t] = ClientOf[s] /\ Live(s) /\ Live(t) => s = t

NoneWhileWaiting ==
    \A s \in Sockets : Alone(s) /\ pc[s] \in Waiting =>
        bridges[ClientOf[s]] = None

DeliversToOwn ==
    \A s \in Sockets : pc[s] = "delivering" =>
        /\ held[s] \in Bridges /\ phase[held[s]] # "unmade"
        /\ Client(held[s]) = ClientOf[s]
        /\ Alone(s) => bridges[ClientOf[s]] = held[s]

(* A bridge that has been made has the socket it was made for.               *)
Made ==
    \A b \in Bridges : phase[b] # "unmade" => owner[b] \in Sockets

(* Some handler of its client waits for a bridge that is being stopped.      *)
IsAwaited(b) ==
    \E s \in Sockets :
        pc[s] \in Waiting /\ held[s] = b /\ ClientOf[s] = Client(b)

StopsAreAwaited == \A b \in Bridges : phase[b] = "stopping" => IsAwaited(b)

(* A bridge that is down has no host socket, unless another socket of its    *)
(* client stopped it during a frame; nor has one that was not made.          *)
ClosedWhenDown ==
    \A b \in Bridges :
        \/ phase[b] = "unmade"
        \/ phase[b] = "down" /\ Client(b) \notin Overlapping
        => ~opened[b]

ServerInv ==
    /\ ServerTypes /\ InTable /\ OneSocket /\ NoneWhileWaiting
    /\ DeliversToOwn /\ Made /\ OneBridge /\ StopsAreAwaited /\ ClosedWhenDown

-----------------------------------------------------------------------------
LEMMA ServerStarts == ServerInit => ServerInv
BY GatewayAssumption
   DEF ServerInit, ServerInv, ServerTypes, InTable, OneSocket, Made, OneBridge,
       NoneWhileWaiting, DeliversToOwn, StopsAreAwaited, ClosedWhenDown, Live,
       Pcs, Waiting

(* A handler takes the client's bridge out of the table and stops it.        *)
Pops(s, to) ==
    /\ bridges' = [bridges EXCEPT ![ClientOf[s]] = None]
    /\ phase' = [phase EXCEPT ![bridges[ClientOf[s]]] = "stopping"]
    /\ Goes(s, to, bridges[ClientOf[s]])
    /\ UNCHANGED <<owner, opened>>

LEMMA PopKeeps ==
    ASSUME ServerInv, NEW s \in Sockets, NEW to \in Waiting,
           pc[s] \in Serving, bridges[ClientOf[s]] # None, Pops(s, to)
    PROVE  ServerInv'
PROOF
<1> USE DEF Pops
<1> DEFINE i == ClientOf[s]
           old == bridges[i]
<1>1. i \in Clients /\ old \in Bridges /\ phase[old] = "running"
      /\ Client(old) = i
  BY GatewayAssumption DEF ServerInv, ServerTypes, InTable, Client
<1>2. \A j \in Clients : j # i /\ bridges[j] # None => bridges[j] # old
  BY <1>1 DEF ServerInv, InTable, Client
<1>3. pc' = [pc EXCEPT ![s] = to] /\ held' = [held EXCEPT ![s] = old]
      /\ to \notin {"none", "done", "delivering"} /\ to \in Pcs
  BY DEF Goes, Waiting, Pcs
<1>4. ServerTypes'
  BY <1>1, <1>3 DEF ServerInv, ServerTypes
<1>5. InTable'
  <2> SUFFICES ASSUME NEW j \in Clients, bridges'[j] # None
               PROVE  /\ phase'[bridges'[j]] = "running"
                      /\ owner'[bridges'[j]] \in Sockets
                      /\ ClientOf[owner'[bridges'[j]]] = j
                      /\ pc'[owner'[bridges'[j]]] \in Serving
    BY DEF InTable
  <2>1. j # i /\ bridges'[j] = bridges[j] /\ bridges[j] \in Bridges
    BY <1>1 DEF ServerInv, ServerTypes
  <2>2. phase'[bridges[j]] = phase[bridges[j]]
    BY <1>1, <1>2, <2>1 DEF ServerInv, ServerTypes
  <2>3. owner[bridges[j]] # s
    BY <2>1 DEF ServerInv, InTable
  <2> QED
    BY <1>3, <2>1, <2>2, <2>3 DEF ServerInv, ServerTypes, InTable
<1>6. \A t \in Sockets : Live(t)' = Live(t)
  BY <1>3 DEF Live, Serving, ServerInv, ServerTypes
<1>7. OneSocket'
  BY <1>6 DEF ServerInv, OneSocket, Alone
<1>8. NoneWhileWaiting'
  BY <1>1, <1>3 DEF ServerInv, ServerTypes, NoneWhileWaiting, Alone
<1>9. \A t \in Sockets : Alone(t) /\ ClientOf[t] = i /\ Live(t) => t = s
  BY <1>3 DEF ServerInv, OneSocket, Alone, Live, Serving
<1>10. DeliversToOwn'
  <2> SUFFICES ASSUME NEW t \in Sockets, pc'[t] = "delivering"
               PROVE  /\ held'[t] \in Bridges /\ phase'[held'[t]] # "unmade"
                      /\ Client(held'[t]) = ClientOf[t]
                      /\ Alone(t) => bridges'[ClientOf[t]] = held'[t]
    BY DEF DeliversToOwn, Alone, Client
  <2>1. t # s /\ pc[t] = "delivering" /\ held'[t] = held[t]
    BY <1>3 DEF ServerInv, ServerTypes
  <2>2. Alone(t) => ClientOf[t] # i
    BY <1>9, <2>1 DEF Live
  <2> QED
    BY <1>1, <2>1, <2>2 DEF ServerInv, ServerTypes, DeliversToOwn
<1>11. Made'
  BY <1>1 DEF ServerInv, ServerTypes, Made
<1>12. OneBridge'
  <2> SUFFICES ASSUME NEW b \in Bridges, phase'[b] = "running",
                      Client(b) \notin Overlapping
               PROVE  bridges'[Client(b)] = b /\ Live(owner[b])'
    BY DEF OneBridge, Client
  <2>1. b # old /\ phase[b] = "running"
    BY <1>1 DEF ServerInv, ServerTypes
  <2>2. owner[b] \in Sockets /\ Client(b) \in Clients
    BY <2>1, GatewayAssumption DEF ServerInv, Made, Client
  <2>3. bridges[Client(b)] = b /\ Live(owner[b])
    BY <2>1 DEF ServerInv, OneBridge
  <2> QED
    BY <1>1, <1>6, <2>1, <2>2, <2>3 DEF ServerInv, ServerTypes, Live
<1>13. ClosedWhenDown'
  BY <1>1 DEF ServerInv, ServerTypes, ClosedWhenDown, Client
<1>14. StopsAreAwaited'
  <2> SUFFICES ASSUME NEW b \in Bridges, phase'[b] = "stopping"
               PROVE  \E t \in Sockets : /\ pc'[t] \in Waiting /\ held'[t] = b
                                         /\ ClientOf[t] = ClientOf[owner'[b]]
    BY DEF StopsAreAwaited, IsAwaited, Client
  <2>1. CASE b = old
    BY <1>1, <1>3, <2>1 DEF ServerInv, ServerTypes, Client
  <2>2. CASE b # old
    <3>1. phase[b] = "stopping"
      BY <1>1, <2>2 DEF ServerInv, ServerTypes
    <3>2. PICK t \in Sockets :
            pc[t] \in Waiting /\ held[t] = b /\ ClientOf[t] = Client(b)
      BY <3>1 DEF ServerInv, StopsAreAwaited, IsAwaited
    <3>3. t # s
      BY <3>2 DEF Waiting, Serving
    <3> QED
      BY <1>3, <3>2, <3>3 DEF ServerInv, ServerTypes, Client
  <2> QED
    BY <2>1, <2>2
<1> QED
  BY <1>4, <1>5, <1>7, <1>8, <1>10, <1>11, <1>12, <1>13, <1>14 DEF ServerInv

(* A handler whose client has no bridge in the table, unless its sockets     *)
(* overlap, makes one.                                                       *)
LEMMA CreateKeeps ==
    ASSUME ServerInv, NEW s \in Sockets, Creates(s),
           pc[s] = "loop" \/ (pc[s] = "restarting" /\ phase[held[s]] = "down"),
           Alone(s) => bridges[ClientOf[s]] = None
    PROVE  ServerInv'
PROOF
<1> DEFINE i == ClientOf[s]
<1>1. PICK b \in Bridges :
        /\ phase[b] = "unmade"
        /\ phase' = [phase EXCEPT ![b] = "running"]
        /\ owner' = [owner EXCEPT ![b] = s]
        /\ bridges' = [bridges EXCEPT ![i] = b]
        /\ pc' = [pc EXCEPT ![s] = "starting"]
        /\ held' = [held EXCEPT ![s] = b]
  BY DEF Creates, Goes
<1>2. i \in Clients /\ opened' = opened
  BY GatewayAssumption DEF Creates
<1>3. ServerTypes'
  BY <1>1, <1>2 DEF ServerInv, ServerTypes, Pcs
<1>4. \A j \in Clients : bridges[j] # None => bridges[j] # b
  BY <1>1 DEF ServerInv, InTable
<1>5. InTable'
  <2> SUFFICES ASSUME NEW j \in Clients, bridges'[j] # None
               PROVE  /\ phase'[bridges'[j]] = "running"
                      /\ owner'[bridges'[j]] \in Sockets
                      /\ ClientOf[owner'[bridges'[j]]] = j
                      /\ pc'[owner'[bridges'[j]]] \in Serving
    BY DEF InTable
  <2>1. CASE j = i
    BY <1>1, <1>2, <2>1 DEF ServerInv, ServerTypes, Serving
  <2>2. CASE j # i
    <3>1. bridges'[j] = bridges[j] /\ bridges[j] # b /\ bridges[j] \in Bridges
      BY <1>1, <1>4, <2>2 DEF ServerInv, ServerTypes
    <3>2. /\ phase'[bridges[j]] = phase[bridges[j]]
          /\ owner'[bridges[j]] = owner[bridges[j]]
      BY <1>1, <3>1 DEF ServerInv, ServerTypes
    <3> QED
      BY <1>1, <3>1, <3>2 DEF ServerInv, ServerTypes, InTable, Serving
  <2> QED
    BY <2>1, <2>2
<1>6. \A t \in Sockets : Live(t)' = Live(t)
  BY <1>1 DEF Live, ServerInv, ServerTypes
<1>7. OneSocket'
  BY <1>6 DEF ServerInv, OneSocket, Alone
<1>8. \A t \in Sockets : t # s /\ Alone(t) /\ Live(t) => ClientOf[t] # i
  BY <1>1 DEF ServerInv, OneSocket, Alone, Live
<1>9. \A t \in Sockets : t # s /\ Alone(t) /\ Live(t) =>
        bridges'[ClientOf[t]] = bridges[ClientOf[t]]
        /\ pc'[t] = pc[t] /\ held'[t] = held[t]
  BY <1>1, <1>8, GatewayAssumption DEF ServerInv, ServerTypes
<1>10. NoneWhileWaiting' /\ DeliversToOwn'
  <2>1. pc'[s] = "starting"
    BY <1>1 DEF ServerInv, ServerTypes
  <2>2. \A t \in Sockets : pc'[t] \in Waiting \cup {"delivering"} =>
          t # s /\ Live(t)
    BY <1>6, <2>1 DEF Waiting, Live
  <2>3. NoneWhileWaiting'
    BY <1>9, <2>2 DEF ServerInv, NoneWhileWaiting, Alone
  <2>4. ASSUME NEW t \in Sockets, pc'[t] = "delivering"
        PROVE  /\ held'[t] \in Bridges /\ phase'[held'[t]] # "unmade"
               /\ ClientOf[owner'[held'[t]]] = ClientOf[t]
               /\ Alone(t) => bridges'[ClientOf[t]] = held'[t]
    <3>1. t # s /\ pc[t] = "delivering" /\ held'[t] = held[t]
      BY <1>1, <2>2, <2>4 DEF ServerInv, ServerTypes
    <3>2. /\ held[t] \in Bridges /\ phase[held[t]] # "unmade"
          /\ ClientOf[owner[held[t]]] = ClientOf[t] /\ held[t] # b
      BY <1>1, <3>1 DEF ServerInv, DeliversToOwn, Client
    <3>3. Alone(t) => bridges'[ClientOf[t]] = held[t]
      BY <1>9, <2>2, <2>4, <3>1 DEF ServerInv, DeliversToOwn
    <3> QED
      BY <1>1, <3>1, <3>2, <3>3 DEF ServerInv, ServerTypes, Client
  <2> QED
    BY <2>3, <2>4 DEF DeliversToOwn, Alone, Client
<1>11. Made'
  BY <1>1 DEF ServerInv, ServerTypes, Made
<1>12. OneBridge'
  <2> SUFFICES ASSUME NEW c \in Bridges, phase'[c] = "running",
                      ClientOf[owner'[c]] \notin Overlapping
               PROVE  bridges'[ClientOf[owner'[c]]] = c /\ Live(owner[c])'
    BY DEF OneBridge, Client
  <2>1. CASE c = b
    BY <1>1, <1>2, <2>1 DEF ServerInv, ServerTypes, Live
  <2>2. CASE c # b
    <3>1. phase[c] = "running" /\ owner'[c] = owner[c]
      BY <1>1, <2>2 DEF ServerInv, ServerTypes
    <3>2. bridges[Client(c)] = c /\ Live(owner[c]) /\ owner[c] \in Sockets
      BY <3>1 DEF ServerInv, OneBridge, Made, Client
    <3>3. Client(c) # i
      BY <3>1, <3>2, GatewayAssumption DEF Alone, Client
    <3> QED
      BY <1>1, <1>6, <3>1, <3>2, <3>3 DEF ServerInv, ServerTypes, Client, Live
  <2> QED
    BY <2>1, <2>2
<1>13. ClosedWhenDown'
  BY <1>1, <1>2 DEF ServerInv, ServerTypes, ClosedWhenDown, Client
<1>14. StopsAreAwaited'
  <2> SUFFICES ASSUME NEW c \in Bridges, phase'[c] = "stopping"
               PROVE  \E t \in Sockets : /\ pc'[t] \in Waiting /\ held'[t] = c
                                         /\ ClientOf[t] = ClientOf[owner'[c]]
    BY DEF StopsAreAwaited, IsAwaited, Client
  <2>1. c # b /\ phase[c] = "stopping"
    BY <1>1 DEF ServerInv, ServerTypes
  <2>2. PICK t \in Sockets :
          pc[t] \in Waiting /\ held[t] = c /\ ClientOf[t] = Client(c)
    BY <2>1 DEF ServerInv, StopsAreAwaited, IsAwaited
  <2>3. t # s
    BY <2>1, <2>2 DEF Waiting
  <2> QED
    BY <1>1, <2>1, <2>2, <2>3 DEF ServerInv, ServerTypes, Client
<1> QED
  BY <1>3, <1>5, <1>7, <1>10, <1>11, <1>12, <1>13, <1>14 DEF ServerInv

(* A handler delivers to the bridge in the table only, ends with none of its *)
(* own there, and does not go before a bridge that it waits for is down.     *)
MayGo(s, to, b) ==
    /\ to # "none"
    /\ to = "delivering" => b # None /\ bridges[ClientOf[s]] = b
    /\ to = "done" => pc[s] \in Waiting \/ bridges[ClientOf[s]] = None
    /\ pc[s] \in Waiting => phase[held[s]] = "down"

(* And only a frame that it has delivered opens sockets.                     *)
MayOpen(s) ==
    \/ UNCHANGED opened
    \/ /\ pc[s] = "delivering"
       /\ \E opens \in BOOLEAN :
            opened' = [opened EXCEPT ![held[s]] = @ \/ opens]

(* A handler goes from one place to another and leaves the bridges alone but *)
(* for the sockets that its frame opens.                                     *)
LEMMA GoKeeps ==
    ASSUME ServerInv, NEW s \in Sockets, NEW to \in Pcs \ Waiting,
           NEW b \in Bridges \cup {None}, Goes(s, to, b), Live(s),
           UNCHANGED <<bridges, owner, phase>>,
           MayGo(s, to, b),
           MayOpen(s)
    PROVE  ServerInv'
PROOF
<1> USE DEF MayGo, MayOpen
<1>1. pc' = [pc EXCEPT ![s] = to] /\ held' = [held EXCEPT ![s] = b]
  BY DEF Goes
<1>2. ServerTypes'
  <2>1. opened' \in [Bridges -> BOOLEAN]
    BY DEF ServerInv, ServerTypes
  <2> QED
    BY <1>1, <2>1 DEF ServerInv, ServerTypes
<1>3. InTable'
  <2> SUFFICES ASSUME NEW i \in Clients, bridges[i] # None,
                      owner[bridges[i]] = s
               PROVE  to \in Serving
    BY <1>1 DEF ServerInv, ServerTypes, InTable
  <2>1. pc[s] \in Serving /\ ClientOf[s] = i
    BY DEF ServerInv, InTable
  <2> QED
    BY <2>1 DEF Serving, Waiting, Pcs
<1>4. \A t \in Sockets : Live(t)' => Live(t)
  BY <1>1 DEF ServerInv, ServerTypes, Live
<1>5. OneSocket'
  BY <1>4 DEF ServerInv, OneSocket, Alone
<1>6. NoneWhileWaiting' /\ Made'
  BY <1>1 DEF ServerInv, ServerTypes, NoneWhileWaiting, Alone, Made
<1>9. DeliversToOwn'
  <2> SUFFICES ASSUME NEW t \in Sockets, pc'[t] = "delivering"
               PROVE  /\ held'[t] \in Bridges /\ phase[held'[t]] # "unmade"
                      /\ ClientOf[owner[held'[t]]] = ClientOf[t]
                      /\ Alone(t) => bridges[ClientOf[t]] = held'[t]
    BY DEF DeliversToOwn, Alone, Client
  <2>1. CASE t = s
    <3>1. to = "delivering" /\ held'[t] = b
      BY <1>1, <2>1 DEF ServerInv, ServerTypes
    <3>2. b \in Bridges /\ bridges[ClientOf[s]] = b /\ ClientOf[s] \in Clients
      BY <3>1, GatewayAssumption
    <3> QED
      BY <2>1, <3>1, <3>2, GatewayAssumption DEF ServerInv, InTable
  <2>2. CASE t # s
    BY <1>1, <2>2 DEF ServerInv, ServerTypes, DeliversToOwn, Client
  <2> QED
    BY <2>1, <2>2
<1>7. OneBridge'
  <2> SUFFICES ASSUME NEW c \in Bridges, phase[c] = "running",
                      Client(c) \notin Overlapping
               PROVE  bridges[Client(c)] = c /\ Live(owner[c])'
    BY DEF OneBridge, Client
  <2>1. bridges[Client(c)] = c /\ Live(owner[c]) /\ owner[c] \in Sockets
    BY DEF ServerInv, OneBridge, Made
  <2>2. CASE owner[c] = s
    <3>1. to # "done"
      BY <2>1, <2>2, GatewayAssumption
         DEF ServerInv, NoneWhileWaiting, Alone, Client
    <3> QED
      BY <1>1, <2>1, <2>2, <3>1 DEF ServerInv, ServerTypes, Live
  <2>3. CASE owner[c] # s
    BY <1>1, <2>1, <2>3 DEF ServerInv, ServerTypes, Live
  <2> QED
    BY <2>1, <2>2, <2>3
<1>8. ClosedWhenDown'
  <2>1. CASE UNCHANGED opened
    BY <2>1 DEF ServerInv, ClosedWhenDown, Client
  <2>2. ASSUME pc[s] = "delivering", NEW opens \in BOOLEAN,
               opened' = [opened EXCEPT ![held[s]] = @ \/ opens]
        PROVE  ClosedWhenDown'
    <3> SUFFICES ASSUME NEW c \in Bridges,
                        \/ phase[c] = "unmade"
                        \/ phase[c] = "down" /\ Client(c) \notin Overlapping
                 PROVE  ~opened'[c]
      BY DEF ClosedWhenDown, Client
    <3>1. ~opened[c]
      BY DEF ServerInv, ClosedWhenDown
    <3>2. ASSUME c = held[s] PROVE FALSE
      <4>1. phase[c] = "down" /\ Client(c) \notin Overlapping
        BY <2>2, <3>2 DEF ServerInv, DeliversToOwn
      <4>2. Client(c) = ClientOf[s] /\ bridges[ClientOf[s]] = c
        BY <2>2, <3>2, <4>1 DEF ServerInv, DeliversToOwn, Alone
      <4> QED
        BY <4>1, <4>2, GatewayAssumption DEF ServerInv, InTable
    <3> QED
      BY <2>2, <3>1, <3>2 DEF ServerInv, ServerTypes
  <2> QED
    BY <2>1, <2>2
<1>10. StopsAreAwaited'
  <2> SUFFICES ASSUME NEW c \in Bridges, phase[c] = "stopping"
               PROVE  \E t \in Sockets : /\ pc'[t] \in Waiting /\ held'[t] = c
                                         /\ ClientOf[t] = Client(c)
    BY DEF StopsAreAwaited, IsAwaited, Client
  <2>1. PICK t \in Sockets :
          pc[t] \in Waiting /\ held[t] = c /\ ClientOf[t] = Client(c)
    BY DEF ServerInv, StopsAreAwaited, IsAwaited
  <2>2. t # s
    BY <2>1
  <2> QED
    BY <1>1, <2>1, <2>2 DEF ServerInv, ServerTypes
<1> QED
  BY <1>2, <1>3, <1>5, <1>6, <1>9, <1>7, <1>8, <1>10 DEF ServerInv

LEMMA StayKeeps ==
    ASSUME ServerInv, NEW s \in Sockets, NEW to \in Pcs \ Waiting,
           NEW b \in Bridges \cup {None}, Goes(s, to, b), Live(s),
           UNCHANGED gwVars, MayGo(s, to, b)
    PROVE  ServerInv'
PROOF
<1>1. UNCHANGED <<bridges, owner, phase>> /\ MayOpen(s)
  BY DEF gwVars, MayOpen
<1> QED
  BY <1>1, GoKeeps

LEMMA ShutdownKeeps ==
    ASSUME ServerInv, NEW b \in Bridges, shutdown(b)
    PROVE  ServerInv'
PROOF
<1>1. /\ phase[b] = "stopping" /\ phase' = [phase EXCEPT ![b] = "down"]
      /\ opened' = [opened EXCEPT ![b] = FALSE]
      /\ UNCHANGED <<bridges, owner, pc, held>>
  BY DEF shutdown, AllClosed
<1>2. \A c \in Bridges : (phase'[c] = "running" <=> phase[c] = "running")
                         /\ (phase'[c] = "unmade" <=> phase[c] = "unmade")
  BY <1>1 DEF ServerInv, ServerTypes
<1>3. ServerTypes' /\ ClosedWhenDown'
  BY <1>1 DEF ServerInv, ServerTypes, ClosedWhenDown, Client
<1>4. InTable' /\ Made' /\ OneBridge'
  BY <1>1, <1>2
     DEF ServerInv, ServerTypes, InTable, Made, OneBridge, Client, Live
<1>5. OneSocket' /\ NoneWhileWaiting' /\ DeliversToOwn'
  BY <1>1, <1>2 DEF ServerInv, OneSocket, NoneWhileWaiting, DeliversToOwn,
                    Alone, Live, Client
<1>6. StopsAreAwaited'
  BY <1>1 DEF ServerInv, ServerTypes, StopsAreAwaited, IsAwaited, Client
<1> QED
  BY <1>3, <1>4, <1>5, <1>6 DEF ServerInv

LEMMA ConnectKeeps ==
    ASSUME ServerInv, NEW s \in Sockets, Connects(s)
    PROVE  ServerInv'
PROOF
<1>1. /\ pc[s] = "none" /\ pc' = [pc EXCEPT ![s] = "loop"]
      /\ held' = [held EXCEPT ![s] = None]
      /\ UNCHANGED <<bridges, owner, phase, opened>>
      /\ Alone(s) => \A t \in Sockets : ClientOf[t] = ClientOf[s] => ~Live(t)
  BY DEF Connects, Goes, gwVars, Alone
<1>2. ServerTypes'
  BY <1>1 DEF ServerInv, ServerTypes, Pcs
<1>3. \A t \in Sockets : t # s => pc'[t] = pc[t] /\ held'[t] = held[t]
  BY <1>1 DEF ServerInv, ServerTypes
<1>4. pc'[s] = "loop"
  BY <1>1 DEF ServerInv, ServerTypes
<1>5. InTable' /\ Made' /\ ClosedWhenDown'
  BY <1>1, <1>3, <1>4
     DEF ServerInv, InTable, Made, ClosedWhenDown, Client, Serving
<1>6. OneSocket'
  BY <1>1, <1>3, <1>4 DEF ServerInv, OneSocket, Alone, Live
<1>7. NoneWhileWaiting' /\ DeliversToOwn'
  BY <1>1, <1>3, <1>4
     DEF ServerInv, NoneWhileWaiting, DeliversToOwn, Alone, Waiting, Client
<1>8. OneBridge'
  BY <1>1, <1>3, <1>4 DEF ServerInv, OneBridge, Made, Live, Client
<1>9. StopsAreAwaited'
  <2>1. \A b \in Bridges : IsAwaited(b) => IsAwaited(b)'
    BY <1>1, <1>3 DEF IsAwaited, Client, Waiting
  <2> QED
    BY <1>1, <2>1 DEF ServerInv, StopsAreAwaited
<1> QED
  BY <1>2, <1>5, <1>6, <1>7, <1>8, <1>9 DEF ServerInv

LEMMA ServerStep == ServerInv /\ [ServerNext]_serverVars => ServerInv'
PROOF
<1> SUFFICES ASSUME ServerInv, [ServerNext]_serverVars
             PROVE  ServerInv'
  OBVIOUS
<1> USE GatewayAssumption
<1>1. CASE UNCHANGED serverVars
  BY <1>1 DEF serverVars, gwVars, ServerInv, ServerTypes, InTable, OneSocket,
              NoneWhileWaiting, DeliversToOwn, Made, OneBridge,
              StopsAreAwaited, IsAwaited, ClosedWhenDown, Alone, Live, Client
<1>2. ASSUME NEW s \in Sockets, start_picow(s)
      PROVE  ServerInv'
  <2>1. pc[s] = "loop" /\ PopAndStop(s, "restarting", Creates(s))
    BY <1>2 DEF start_picow, StartsAfterStop
  <2>2. CASE bridges[ClientOf[s]] # None
    <3>1. Pops(s, "restarting")
      BY <2>1, <2>2 DEF PopAndStop, Popped, Pops
    <3> QED
      BY <2>1, <2>2, <3>1, PopKeeps DEF Waiting, Serving
  <2>3. CASE bridges[ClientOf[s]] = None
    <3>1. Creates(s)
      BY <2>1, <2>3 DEF PopAndStop
    <3> QED
      BY <2>1, <2>3, <3>1, CreateKeeps
  <2> QED
    BY <2>2, <2>3
<1>3. ASSUME NEW s \in Sockets, Restarted(s)
      PROVE  ServerInv'
  <2>1. pc[s] = "restarting" /\ Creates(s) /\ phase[held[s]] = "down"
    BY <1>3 DEF Restarted, IsStopped
  <2>2. Alone(s) => bridges[ClientOf[s]] = None
    BY <2>1 DEF ServerInv, NoneWhileWaiting, Waiting
  <2> QED
    BY <2>1, <2>2, CreateKeeps
<1>4. ASSUME NEW s \in Sockets, stop_picow(s)
      PROVE  ServerInv'
  <2>1. /\ pc[s] = "loop"
        /\ PopAndStop(s, "stopping", Goes(s, "loop", None) /\ UNCHANGED gwVars)
    BY <1>4 DEF stop_picow
  <2>2. CASE bridges[ClientOf[s]] # None
    <3>1. Pops(s, "stopping")
      BY <2>1, <2>2 DEF PopAndStop, Popped, Pops
    <3> QED
      BY <2>1, <2>2, <3>1, PopKeeps DEF Waiting, Serving
  <2>3. CASE bridges[ClientOf[s]] = None
    <3>1. Goes(s, "loop", None) /\ UNCHANGED gwVars
      BY <2>1, <2>3 DEF PopAndStop
    <3>2. "loop" \in Pcs \ Waiting /\ Live(s) /\ MayGo(s, "loop", None)
      BY <2>1 DEF Live, Pcs, Waiting, MayGo
    <3> QED
      BY <3>1, <3>2, StayKeeps
  <2> QED
    BY <2>2, <2>3
<1>5. ASSUME NEW s \in Sockets, Ends(s)
      PROVE  ServerInv'
  <2>1. /\ pc[s] \in {"loop", "delivering"}
        /\ PopAndStop(s, "ending", Goes(s, "done", None) /\ UNCHANGED gwVars)
    BY <1>5 DEF Ends, Finally
  <2>2. CASE bridges[ClientOf[s]] # None
    <3>1. Pops(s, "ending")
      BY <2>1, <2>2 DEF PopAndStop, Popped, Pops
    <3> QED
      BY <2>1, <2>2, <3>1, PopKeeps DEF Waiting, Serving
  <2>3. CASE bridges[ClientOf[s]] = None
    <3>1. Goes(s, "done", None) /\ UNCHANGED gwVars
      BY <2>1, <2>3 DEF PopAndStop
    <3>2. "done" \in Pcs \ Waiting /\ Live(s) /\ MayGo(s, "done", None)
      BY <2>1, <2>3 DEF Live, Pcs, Waiting, MayGo
    <3> QED
      BY <3>1, <3>2, StayKeeps
  <2> QED
    BY <2>2, <2>3
<1>6. ASSUME NEW s \in Sockets, Delivered(s)
      PROVE  ServerInv'
  <2>1. "loop" \in Pcs \ Waiting /\ Live(s) /\ MayGo(s, "loop", None)
    BY <1>6 DEF Delivered, Live, Pcs, Waiting, MayGo
  <2>2. /\ Goes(s, "loop", None) /\ MayOpen(s)
        /\ UNCHANGED <<bridges, owner, phase>>
    BY <1>6 DEF Delivered, MayOpen
  <2> QED
    BY <2>1, <2>2, GoKeeps
<1>7. ASSUME NEW s \in Sockets,
             picow_packet_out(s) \/ Started(s) \/ Stopped(s) \/ Ended(s)
      PROVE  ServerInv'
  <2>1. CASE picow_packet_out(s)
    <3> DEFINE b == bridges[ClientOf[s]]
    <3>1. /\ b \in Bridges /\ Goes(s, "delivering", b) /\ UNCHANGED gwVars
          /\ pc[s] = "loop"
      BY <2>1 DEF picow_packet_out, ServerInv, ServerTypes
    <3>2. "delivering" \in Pcs \ Waiting /\ Live(s)
          /\ MayGo(s, "delivering", b)
      BY <3>1 DEF Live, Pcs, Waiting, MayGo
    <3> HIDE DEF b
    <3> QED
      BY <3>1, <3>2, StayKeeps
  <2>2. CASE Started(s) \/ Stopped(s)
    <3>1. Goes(s, "loop", None) /\ UNCHANGED gwVars /\ Live(s)
      BY <2>2 DEF Started, Stopped, IsStopped, Live
    <3>2. "loop" \in Pcs \ Waiting /\ MayGo(s, "loop", None)
      BY <2>2 DEF Pcs, Waiting, MayGo, Started, Stopped, IsStopped
    <3> QED
      BY <3>1, <3>2, StayKeeps
  <2>3. CASE Ended(s)
    <3>1. /\ Goes(s, "done", None) /\ UNCHANGED gwVars
          /\ Live(s) /\ pc[s] \in Waiting /\ phase[held[s]] = "down"
      BY <2>3 DEF Ended, IsStopped, Live, Waiting
    <3>2. "done" \in Pcs \ Waiting /\ MayGo(s, "done", None)
      BY <3>1 DEF Pcs, Waiting, MayGo
    <3> QED
      BY <3>1, <3>2, StayKeeps
  <2> QED
    BY <1>7, <2>1, <2>2, <2>3
<1> QED
  BY <1>1, <1>2, <1>3, <1>4, <1>5, <1>6, <1>7, ShutdownKeeps, ConnectKeeps
     DEF ServerNext

LEMMA ServerInvariant == ServerSpec => []ServerInv
BY ServerStarts, ServerStep, PTL DEF ServerSpec

-----------------------------------------------------------------------------
(* The table names only bridges that run and were made for that client, and  *)
(* none once the client's sockets have ended (server.py:132-137, 153-158).   *)
THEOREM TableStaysCurrent == ServerSpec => []TableIsCurrent
PROOF
<1>1. ServerInv => TableIsCurrent
  <2> SUFFICES ASSUME ServerInv, NEW i \in Clients, bridges[i] # None
               PROVE  /\ phase[bridges[i]] = "running"
                      /\ Client(bridges[i]) = i
                      /\ \E s \in Sockets : ClientOf[s] = i /\ Live(s)
    BY DEF TableIsCurrent
  <2> QED
    BY DEF ServerInv, InTable, Client, Live, Serving
<1> QED
  BY <1>1, ServerInvariant, PTL

(* "One bridge instance per simulated chip" (bridge.py:5), for a client      *)
(* whose sockets do not overlap.                                             *)
THEOREM OneBridgeEach == ServerSpec => []OneBridge
PROOF
<1>1. ServerInv => OneBridge
  BY DEF ServerInv
<1> QED
  BY <1>1, ServerInvariant, PTL

(* For such a client nothing is left of a session once its handler is done:  *)
(* no bridge that runs, is still being stopped or holds a host socket        *)
(* (server.py:131-158, bridge.py:125-132).                                   *)
THEOREM SessionEndsClean == ServerSpec => []EndsClean
PROOF
<1>1. ServerInv => EndsClean
  <2> SUFFICES ASSUME ServerInv, NEW b \in Bridges,
                      phase[b] \in {"running", "stopping"} \/ opened[b],
                      Client(b) \notin Overlapping
               PROVE  \E s \in Sockets : ClientOf[s] = Client(b) /\ Live(s)
    BY DEF EndsClean
  <2>1. phase[b] \in {"running", "stopping"}
    BY DEF ServerInv, ServerTypes, ClosedWhenDown
  <2>2. CASE phase[b] = "running"
    BY <2>2 DEF ServerInv, OneBridge, Made, Client
  <2>3. CASE phase[b] = "stopping"
    BY <2>3 DEF ServerInv, StopsAreAwaited, IsAwaited, Live, Waiting
  <2> QED
    BY <2>1, <2>2, <2>3
<1> QED
  BY <1>1, ServerInvariant, PTL
=============================================================================
