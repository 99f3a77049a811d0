------------------------------- MODULE Bridge -------------------------------
(* PicowNetBridge.deliver_packet_out (velxiogw/net/bridge.py) and what it    *)
(* answers from: the ARP, DHCP and ICMP responders, the DNS resolver (of     *)
(* which only the wait is here: see DnsResolver) and the UDP NAT (UdpNat).   *)
(* The chip is not in this repository: it comes up the way lwIP does, gets   *)
(* an address, checks it, finds the gateway, pings it, asks for a name, and  *)
(* then sends datagrams.                                                     *)
EXTENDS UdpNat, Sequences

CONSTANTS
    STA_MAC,      \* the address the bridge assumes until it has seen another
    GATEWAY_MAC,
    Broadcast,
    ChipMac,      \* the chip's own
    MaxRetries,   \* bound: requests the chip sends again, per start
    MaxStarts     \* bound: how often it brings its interface up

ASSUME BridgeAssumption ==
    /\ {STA_MAC, ChipMac} \cap {GATEWAY_MAC, Broadcast} = {}
    /\ MaxRetries \in Nat /\ MaxStarts \in Nat

VARIABLES
    chip_mac,       \* PicowNetBridge._chip_mac
    lease_active,   \* DhcpServer.lease_active
    to_gw, to_chip, \* frames on the websocket
    chip            \* what the chip does, its DHCP transaction, its retries

lanVars    == <<chip_mac, lease_active, to_gw, to_chip, chip>>
bridgeVars == <<udpVars, lanVars>>

-----------------------------------------------------------------------------
(* Frames.  Addresses are STA, GATEWAY and 0.0.0.0.                          *)
Frame(dst, src, kind, body) ==
    [dst |-> dst, src |-> src, kind |-> kind, body |-> body]

Arp(op, sha, spa, tpa)   == [op |-> op, sha |-> sha, spa |-> spa, tpa |-> tpa]
Dhcp(op, type, xid)      == [op |-> op, type |-> type, xid |-> xid]
Packet(src, dst, type)   == [src |-> src, dst |-> dst, type |-> type]

(* Mutant: a request is answered whoever asks.                               *)
AnyAsker(spa) == TRUE

OwnSta(spa) == spa = "STA"

(* ArpResponder.handle: every address is at the gateway.                     *)
arp_reply(a) ==
    IF a.op = "request" /\ OwnSta(a.spa)
    THEN <<Frame(a.sha, GATEWAY_MAC, "arp",
                 Arp("reply", GATEWAY_MAC, a.tpa, a.spa))>>
    ELSE <<>>

Answers == [DISCOVER |-> "OFFER", REQUEST |-> "ACK"]

(* DhcpServer.handle: the transaction id is that of the request.             *)
dhcp_reply(d) ==
    IF d.op = 1 /\ d.type \in DOMAIN Answers
    THEN <<Frame(Broadcast, GATEWAY_MAC, "dhcp",
                 Dhcp(2, Answers[d.type], d.xid))>>
    ELSE <<>>

(* IcmpResponder.handle, to the address of the chip as the bridge knows it.  *)
icmp_reply(mac, p) ==
    IF p.type = "echo"
    THEN <<Frame(mac, GATEWAY_MAC, "icmp", Packet(p.dst, p.src, "echo_reply"))>>
    ELSE <<>>

BridgeInit ==
    /\ UdpInit
    /\ chip_mac = STA_MAC /\ lease_active = FALSE
    /\ to_gw = <<>> /\ to_chip = <<>>
    /\ chip = [at |-> "off", xid |-> 0, retries |-> 0]

-----------------------------------------------------------------------------
(* _inject drops what a bridge that was stopped sends.                       *)
Inject(frames) == to_chip' = IF running THEN to_chip \o frames ELSE to_chip

Learned(f) == chip_mac' = f.src

(* deliver_packet_out for all but datagrams that need a lookup or the NAT.   *)
Replies(f) ==
    \/ f.kind = "arp" /\ Inject(arp_reply(f.body)) /\ UNCHANGED lease_active
    \/ /\ f.kind = "icmp" /\ Inject(icmp_reply(f.src, f.body))
       /\ UNCHANGED lease_active
    \/ /\ f.kind = "dhcp" /\ Inject(dhcp_reply(f.body))
       /\ lease_active' =
            (lease_active \/ (f.body.op = 1 /\ f.body.type = "REQUEST"))
    \/ f.kind = "ipv6" /\ UNCHANGED <<to_chip, lease_active>>

(* A frame of the chip reaches an idle handler.                              *)
deliver_packet_out(h) ==
    /\ to_gw # <<>> /\ handler[h].pc = "idle"
    /\ to_gw' = Tail(to_gw)
    /\ LET f == Head(to_gw)
       IN  \/ /\ ~running
              /\ UNCHANGED <<chip_mac, lease_active, to_chip, handler>>
           \/ /\ running /\ Learned(f) /\ Replies(f)
              /\ UNCHANGED handler
           \/ /\ running /\ Learned(f) /\ f.kind = "dns"
              /\ handler' = [handler EXCEPT ![h].pc = "lookup"]
              /\ UNCHANGED <<lease_active, to_chip>>
    /\ UNCHANGED <<running, flowVars, reaper, waiting, out, chip>>

(* The resolver returns an answer.                                           *)
Resolved(h) ==
    /\ handler[h].pc = "lookup"
    /\ handler' = [handler EXCEPT ![h].pc = "idle"]
    /\ Inject(<<Frame(chip_mac, GATEWAY_MAC, "dns",
                      Packet("GATEWAY", "STA", "answer"))>>)
    /\ UNCHANGED <<running, flowVars, reaper, waiting, out, chip_mac,
                   lease_active, to_gw, chip>>

(* It drops the query for taking too long, and the chip may ask again.       *)
NotResolved(h) ==
    /\ handler[h].pc = "lookup" /\ chip.retries < MaxRetries
    /\ handler' = [handler EXCEPT ![h].pc = "idle"]
    /\ UNCHANGED <<running, flowVars, reaper, waiting, out, lanVars>>

-----------------------------------------------------------------------------
(* The chip.                                                                 *)
FromChip(dst, kind, body) == Frame(dst, ChipMac, kind, body)

(* What it sends in each of its states, and the one after the answer.        *)
Request ==
    CASE chip'.at = "selecting"  ->
           <<FromChip(Broadcast, "dhcp", Dhcp(1, "DISCOVER", chip'.xid))>>
      [] chip'.at = "requesting" ->
           <<FromChip(Broadcast, "dhcp", Dhcp(1, "REQUEST", chip'.xid))>>
      [] chip'.at = "checking"   ->
           <<FromChip(Broadcast, "arp",
                      Arp("request", ChipMac, "0.0.0.0", "STA"))>>
      [] chip'.at = "resolving"  ->
           <<FromChip(Broadcast, "arp",
                      Arp("request", ChipMac, "STA", "GATEWAY"))>>
      [] chip'.at = "pinging"    ->
           <<FromChip(GATEWAY_MAC, "icmp", Packet("STA", "GATEWAY", "echo"))>>
      [] chip'.at = "naming"     ->
           <<FromChip(GATEWAY_MAC, "dns", Packet("STA", "GATEWAY", "query"))>>
      [] OTHER -> <<>>

(* It goes to a state and sends the request of it, after `first'.            *)
GoesTo(at, first) ==
    /\ chip' = [chip EXCEPT !.at = at]
    /\ to_gw' = to_gw \o first \o Request

(* The interface comes up, or goes down and up again, at any time: a new     *)
(* transaction, while answers to an older one may be under way.              *)
Starts ==
    /\ chip.xid < MaxStarts
    /\ chip' = [at |-> "selecting", xid |-> chip.xid + 1, retries |-> 0]
    /\ to_gw' = to_gw \o
         (IF chip.at = "online"
          THEN <<FromChip(Broadcast, "dhcp", Dhcp(1, "RELEASE", chip.xid))>>
          ELSE <<FromChip(Broadcast, "ipv6", None)>>) \o Request
    /\ UNCHANGED <<udpVars, chip_mac, lease_active, to_chip>>

(* A timer of the chip: it asks again.                                       *)
AsksAgain ==
    /\ chip.at \notin {"off", "checking", "online"}
    /\ chip.retries < MaxRetries
    /\ chip' = [chip EXCEPT !.retries = @ + 1]
    /\ to_gw' = to_gw \o Request
    /\ UNCHANGED <<udpVars, chip_mac, lease_active, to_chip>>

(* Nobody has answered for the new address: announce it and go on.           *)
Checked ==
    /\ chip.at = "checking" /\ to_gw = <<>> /\ to_chip = <<>>
    /\ GoesTo("resolving", <<FromChip(Broadcast, "arp",
                             Arp("request", ChipMac, "STA", "STA"))>>)
    /\ UNCHANGED <<udpVars, chip_mac, lease_active, to_chip>>

(* The answer to the request of a state.                                     *)
Awaited(f) ==
    \/ /\ f.kind = "dhcp" /\ f.body.op = 2 /\ f.body.xid = chip.xid
       /\ <<chip.at, f.body.type>> \in
            {<<"selecting", "OFFER">>, <<"requesting", "ACK">>}
    \/ /\ f.kind = "arp" /\ f.body.op = "reply"
       /\ <<chip.at, f.body.spa>> \in
            {<<"checking", "STA">>, <<"resolving", "GATEWAY">>}
    \/ f.kind = "icmp" /\ chip.at = "pinging"
    \/ f.kind = "dns" /\ chip.at = "naming"

(* An answer to the check means that the address is taken: decline it, and   *)
(* begin anew.                                                               *)
After == [selecting |-> "requesting", requesting |-> "checking",
          checking |-> "selecting", resolving |-> "pinging",
          pinging |-> "naming", naming |-> "online"]

ChipReceives ==
    /\ to_chip # <<>>
    /\ to_chip' = Tail(to_chip)
    /\ LET f    == Head(to_chip)
           mine == f.dst \in {ChipMac, Broadcast} /\ Awaited(f)
       IN  \/ /\ mine
              /\ GoesTo(After[chip.at],
                   IF chip.at = "checking"
                   THEN <<FromChip(Broadcast, "dhcp",
                                   Dhcp(1, "DECLINE", chip.xid))>>
                   ELSE <<>>)
           \/ ~mine /\ UNCHANGED <<to_gw, chip>>
    /\ UNCHANGED <<udpVars, chip_mac, lease_active>>

-----------------------------------------------------------------------------
(* A chip that is online sends datagrams, which the handler takes in the     *)
(* order of the websocket.                                                   *)
Datagram(h) ==
    /\ chip.at = "online" /\ to_gw = <<>>
    /\ \E k \in Keys : Sends(h, k) \/ Opens(h, k)

UdpRuns ==
    \/ \E h \in Handlers : Datagram(h) \/ OpenFails(h) \/ Opened(h)
                           \/ stop(h) \/ shutdown(h)
    \/ \E f \in Flows : HostSends(f)
    \/ \E k \in Keys : on_host_datagram(k)
    \/ Reaps
    \/ Tick

BridgeNext ==
    \/ Starts \/ AsksAgain \/ Checked \/ ChipReceives
    \/ \E h \in Handlers :
         deliver_packet_out(h) \/ Resolved(h) \/ NotResolved(h)
    \/ UdpRuns /\ UNCHANGED lanVars

BridgeSpec == BridgeInit /\ [][BridgeNext]_bridgeVars

(* The websocket delivers, the handler goes on (a lookup and the opening of  *)
(* a socket end, being timed), and the chip's timers run.                    *)
BridgeFairness ==
    /\ WF_bridgeVars(ChipReceives) /\ WF_bridgeVars(Checked)
    /\ WF_bridgeVars(AsksAgain)
    /\ \A h \in Handlers :
         /\ WF_bridgeVars(deliver_packet_out(h))
         /\ WF_bridgeVars(Resolved(h) \/ NotResolved(h))
         /\ WF_bridgeVars((OpenFails(h) \/ Opened(h)) /\ UNCHANGED lanVars)

LiveBridgeSpec == BridgeSpec /\ BridgeFairness

-----------------------------------------------------------------------------
(* A chip whose interface comes up gets an address that nobody else seems to *)
(* have, finds the gateway, and has its ping and its query answered, though  *)
(* answers to an older transaction are still under way, queries are dropped, *)
(* its MAC is not the default, and the responder claims every address        *)
(* (arp.py:26-45, dhcp.py:87-108, bridge.py:143-209).                        *)
GetsOnline == chip.at = "selecting" ~> chip.at = "online" \/ ~running
=============================================================================
