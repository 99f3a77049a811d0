------------------------------ MODULE WirePackets ------------------------------
(* What the functions of Wire promise each other, over small packets: a      *)
(* variable holds one, of one kind at a time.                                *)
EXTENDS Wire

VARIABLE packet

NoPacket == <<"none", <<>> >>
Is(kind) == packet[1] = kind
P        == packet[2]

UpTo(n, S)   == UNION {[1..i -> S] : i \in 0..n}
Edge         == {0, 1, 255}           \* bytes at the edges of their range
Addresses    == {<<10, 13, 37, 42>>, <<255, 255, 255, 255>>}
Gateway      == <<10, 13, 37, 1>>
Fields       == <<255, 255, 0, 80>> \o Zeros(3) \o <<1>> \o Zeros(3) \o <<2>>

(* Payloads under a checksum.                                                *)
Summed == {<<"summed", [src |-> a, payload |-> p]>> :
             a \in Addresses, p \in UpTo(5, Edge)}

(* Options of distinct kinds, with the padding before each.                  *)
Option(pads)   == {<<pads, k, v>> : k \in {2, 3, 5}, v \in UpTo(2, {0, 2, 255})}
OptionLists ==
    {<<o>> : o \in Option(0) \cup Option(1)}
    \cup {<<o, p>> : o \in Option(1), p \in {q \in Option(2) : q[2] = 2}}

Optioned == {<<"options", os>> : os \in
    {l \in OptionLists : \A i, j \in DOMAIN l : i # j => l[i][2] # l[j][2]}}

(* Segments of a chip: with options in the IP header or not, in a frame that *)
(* was padded or not.                                                        *)
Segments == {<<"segment", [ihl |-> i, options |-> o, payload |-> p,
                           padding |-> n]>> :
               i \in {5, 6}, o \in UpTo(5, {1}), p \in UpTo(2, {0, 9}),
               n \in {0, 1, 6}}

(* Messages with up to two questions and up to two answers.                  *)
Labels     == {<<97>>, <<98, 99>>}
DnsNames   == UpTo(2, Labels)
Messages == {<<"message", [qd |-> q, an |-> a]>> :
               q \in UpTo(2, DnsNames),
               a \in UpTo(1, {<<n, d>> : n \in DnsNames,
                                         d \in {<<>>, <<1, 2, 3, 192>>}})
                     \cup {<< <<n, <<4>> >>, <<n, <<5>> >> >> : n \in DnsNames}}

Packets == {NoPacket} \cup Summed \cup Optioned \cup Segments \cup Messages

-----------------------------------------------------------------------------
(* What receives and sends these packets at the other end.                   *)
Verifies(data) == Total(data) > 0 /\ Total(data) % 65535 = 0

Pseudo(protocol, segment) ==
    tcp_udp_pseudo_header(P.src, Gateway, protocol, Len(segment))

(* A TCP stack's options, and those of a DHCP client.                        *)
TcpOptions(os) ==
    FlattenSeq([i \in DOMAIN os |->
        [j \in 1..os[i][1] |-> 1] \o <<os[i][2], 2 + Len(os[i][3])>>
        \o os[i][3]])

DhcpOptions(os) ==
    FlattenSeq([i \in DOMAIN os |-> Zeros(os[i][1])
        \o <<os[i][2], Len(os[i][3])>> \o os[i][3]]) \o <<255>>

Dict(os) == [k \in {os[i][2] : i \in DOMAIN os} |->
               LET i == CHOOSE j \in DOMAIN os : os[j][2] = k IN os[i][3]]

(* An IP packet with options, and the padding of its frame.                  *)
IpPacket(ihl, payload, padding) ==
    <<64 + ihl, 0>> \o U16(4 * ihl + Len(payload)) \o <<0, 0, 64, 0>>
    \o <<64, 6, 0, 0>> \o Gateway \o Gateway \o Zeros(4 * (ihl - 5)) \o payload
    \o Zeros(padding)

(* A name that points to where the first question has the same labels, as    *)
(* RFC 1035 lets names be shortened.                                         *)
Pointer(i) == <<192 + (i \div 256), i % 256>>

Shortened(first, name) ==
    IF name = first THEN Pointer(12)
    ELSE IF Len(first) = 2 /\ name # <<>> /\ Tail(name) = Tail(first)
    THEN <<Len(name[1])>> \o name[1] \o Pointer(13 + Len(first[1]))
    ELSE write_dns_name(name)

Message(m) ==
    DnsHead(m)
    \o FlattenSeq([i \in DOMAIN m.qd |->
         (IF i = 1 THEN write_dns_name(m.qd[1])
          ELSE Shortened(m.qd[1], m.qd[i])) \o <<0, 1, 0, 1>>])
    \o FlattenSeq([i \in DOMAIN m.an |->
         (IF m.qd = <<>> THEN write_dns_name(m.an[i][1])
          ELSE Shortened(m.qd[1], m.an[i][1])) \o <<0, 1, 0, 1, 0, 0, 0, 60>>
         \o U16(Len(m.an[i][2])) \o m.an[i][2]])

-----------------------------------------------------------------------------
(* A receiver that adds up a packet with its checksum finds all ones, also   *)
(* where the carries carry and where the length is odd; a UDP datagram never *)
(* says that it has no checksum (checksums.py:14-46, protocols.py:287-290).  *)
ChecksumsVerify ==
    Is("summed") =>
        LET tcp  == tcp_to_bytes(P.src, Gateway, Fields, 24, <<>>, P.payload)
            udp  == udp_to_bytes(P.src, Gateway, <<0, 53, 255, 255>>, P.payload)
            icmp == icmp_to_bytes(0, <<255, 255, 255, 254>>, P.payload)
        IN  /\ Verifies(Pseudo(6, tcp) \o tcp)
            /\ Verifies(Pseudo(17, udp) \o udp) /\ U16At(udp, 6) # 0
            /\ Verifies(icmp)
            /\ Verifies(Slice(ip_to_bytes(P.src, Gateway, 6, tcp), 0, 20))

(* The two option walks, whose lengths count differently, read what a chip   *)
(* wrote; of TCP options that are cut short, only those that are there as a  *)
(* whole; and the gateway's DHCP options read back (protocols.py:238-262,    *)
(* 360-374, 394-399).                                                        *)
OptionsReadBack ==
    Is("options") =>
        LET tcp == TcpOptions(P)
        IN  /\ tcp_options[tcp \o Zeros(3)] = Dict(P)
            /\ dhcp_options[DhcpOptions(P)] = Dict(P)
            /\ dhcp_options[dhcp_to_bytes([i \in DOMAIN P |-> Tail(P[i])])]
                   = Dict(P)
            /\ \A n \in 0..Len(tcp) :
                 LET opts == tcp_options[Slice(tcp, 0, n)]
                 IN  \A k \in DOMAIN opts : opts[k] = Dict(P)[k]

(* A payload is what the sender put there, without the options before it and *)
(* the padding behind it, which would be counted as bytes of the stream      *)
(* (protocols.py:107-128, 195-212, 280).                                     *)
PayloadsReadBack ==
    Is("segment") =>
        LET tcp  == tcp_to_bytes(Gateway, Gateway, Fields, 24, P.options,
                                 P.payload)
            udp  == udp_to_bytes(Gateway, Gateway, <<0, 53, 0, 53>>, P.payload)
            read == tcp_parse(ip_payload(IpPacket(P.ihl, tcp, P.padding)))
        IN  /\ read # Bad /\ read.payload = P.payload
            /\ Len(read.options) % 4 = 0 /\ IsPrefix(P.options, read.options)
            /\ udp_payload(ip_payload(IpPacket(P.ihl, udp, P.padding)))
                   = P.payload

(* A message reads back as the one that was written, whether its names are   *)
(* in full, as the gateway writes them, or point to earlier ones, whose ends *)
(* are not where reading goes on (protocols.py:412-494).                     *)
NamesReadBack ==
    Is("message") => dns_parse(dns_to_bytes(P)) = P /\ dns_parse(Message(P)) = P
=============================================================================
