--------------------------------- MODULE Wire ---------------------------------
(* How packets become bytes and bytes packets: velxiogw/net/protocols.py and *)
(* checksums.py.  A packet is a sequence of bytes; a field whose value       *)
(* decides nothing is a sequence of bytes too.  Positions are those of the   *)
(* code, which count from 0.  Loops that walk by lengths found in the packet *)
(* are recursive functions.                                                  *)
EXTENDS Integers, SequencesExt

At(s, i)       == s[i + 1]
Slice(s, a, b) == SubSeq(s, a + 1, IF b < Len(s) THEN b ELSE Len(s))
U16(n)         == <<n \div 256, n % 256>>
U16At(s, i)    == 256 * At(s, i) + At(s, i + 1)
Zeros(n)       == [i \in 1..n |-> 0]

-----------------------------------------------------------------------------
(* Checksums.  The words of an odd number of bytes end in a zero byte.       *)
Total(data) ==
    MapThenSumSet(LAMBDA i : data[i] * (IF i % 2 = 1 THEN 256 ELSE 1),
                  DOMAIN data)

Fold(s) == (s % 65536) + (s \div 65536)

folded[s \in Nat] == IF s < 65536 THEN s ELSE folded[Fold(s)]

(* Mutant: the carry of the carry is forgotten.                              *)
FoldedOnce(s) == Fold(s)

Folded(s) == folded[s]

ones_complement_sum(data) == Folded(Total(data))

internet_checksum(data) == (65535 - ones_complement_sum(data)) % 65536

tcp_udp_pseudo_header(src, dst, protocol, length) ==
    src \o dst \o <<0, protocol>> \o U16(length)

tcp_udp_checksum(src, dst, protocol, segment) ==
    internet_checksum(
        tcp_udp_pseudo_header(src, dst, protocol, Len(segment)) \o segment)

(* The two bytes at i, which were 0, become n.                               *)
Filled(data, i, n) ==
    Slice(data, 0, i) \o U16(n) \o Slice(data, i + 2, Len(data))

-----------------------------------------------------------------------------
(* IPv4, TCP, UDP, ICMP.                                                     *)
Bad == [bad |-> TRUE]                        \* ValueError

ip_to_bytes(src, dst, protocol, payload) ==
    LET header == <<69, 0>> \o U16(20 + Len(payload)) \o <<0, 0, 64, 0>>
                  \o <<64, protocol, 0, 0>> \o src \o dst
    IN  Filled(header, 10, internet_checksum(header)) \o payload

(* Mutant: the padding of a short Ethernet frame is taken for payload.       *)
EndOfFrame(data) == Len(data)

EndOfPacket(data) == U16At(data, 2)

ip_payload(data) ==
    LET ihl == At(data, 0) % 16
    IN  IF Len(data) < 20 \/ ihl < 5 THEN Bad
        ELSE Slice(data, 4 * ihl, EndOfPacket(data))

(* `fields' are ports, sequence and acknowledgement number; `flags' includes *)
(* the ninth bit.                                                            *)
tcp_to_bytes(src, dst, fields, flags, options, payload) ==
    LET opts    == options \o Zeros((4 - (Len(options) % 4)) % 4)
        header  == fields \o U16(4096 * ((20 + Len(opts)) \div 4) + flags)
                   \o <<255, 255, 0, 0, 0, 0>>
        segment == header \o opts \o payload
    IN  Filled(segment, 16, tcp_udp_checksum(src, dst, 6, segment))

tcp_parse(segment) ==
    LET header_len == 4 * (At(segment, 12) \div 16)
    IN  IF Len(segment) < 20 THEN Bad
        ELSE IF header_len < 20 \/ header_len > Len(segment) THEN Bad
        ELSE [options |-> Slice(segment, 20, header_len),
              payload |-> Slice(segment, header_len, Len(segment))]

udp_to_bytes(src, dst, ports, payload) ==
    LET segment == ports \o U16(8 + Len(payload)) \o <<0, 0>> \o payload
        cksum   == tcp_udp_checksum(src, dst, 17, segment)
    IN  Filled(segment, 6, IF cksum = 0 THEN 65535 ELSE cksum)

udp_payload(segment) ==
    IF Len(segment) < 8 THEN Bad ELSE Slice(segment, 8, U16At(segment, 4))

icmp_to_bytes(type, rest, payload) ==
    LET message == <<type, 0, 0, 0>> \o rest \o payload
    IN  Filled(message, 2, internet_checksum(message))

-----------------------------------------------------------------------------
(* Options: a dict from kinds to values.  The length of a TCP option counts  *)
(* its two bytes of head, that of a DHCP option does not; the kinds that     *)
(* pad and end differ too.                                                   *)
(* Mutant: no look at whether the option is there as a whole.                *)
FitsAnyhow(o) == o[2] >= 2

Fits(o) == o[2] >= 2 /\ o[2] <= Len(o)

(* parse_tcp_options, of what is left of the options.                        *)
tcp_options[o \in Seq(Nat)] ==
    CASE o = <<>> \/ o[1] = 0        -> <<>>
      [] o # <<>> /\ o[1] = 1        -> tcp_options[Tail(o)]
      [] Len(o) = 1 /\ o[1] > 1      -> <<>>
      [] Len(o) > 1 /\ o[1] > 1      ->
           IF Fits(o)
           THEN tcp_options[Slice(o, o[2], Len(o))]
                @@ (o[1] :> Slice(o, 2, o[2]))
           ELSE <<>>

(* Dhcp.parse, after the magic cookie.                                       *)
dhcp_options[o \in Seq(Nat)] ==
    CASE o = <<>> \/ o[1] = 255                -> <<>>
      [] o # <<>> /\ o[1] = 0                  -> dhcp_options[Tail(o)]
      [] Len(o) = 1 /\ o[1] \notin {0, 255}    -> <<>>
      [] Len(o) > 1 /\ o[1] \notin {0, 255}    ->
           dhcp_options[Slice(o, 2 + o[2], Len(o))]
           @@ (o[1] :> Slice(o, 2, 2 + o[2]))

(* Dhcp.to_bytes, likewise, for a sequence of kinds and values.              *)
dhcp_to_bytes(opts) ==
    FlattenSeq([i \in DOMAIN opts |->
        <<opts[i][1], Len(opts[i][2])>> \o opts[i][2]]) \o <<255>>

-----------------------------------------------------------------------------
(* DNS.  A name is a sequence of labels.                                     *)
IsPointer(b) == b >= 192

Pointed(payload, i) == (At(payload, i) % 64) * 256 + At(payload, i + 1)

name_at(payload, offset) ==
    LET labels[i \in Nat] ==
          CASE i >= Len(payload)            -> <<>>
            [] i < Len(payload) ->
                 LET n == At(payload, i)
                 IN  IF n = 0 THEN <<>>
                     ELSE IF IsPointer(n) THEN labels[Pointed(payload, i)]
                     ELSE <<Slice(payload, i + 1, i + 1 + n)>>
                          \o labels[i + 1 + n]
    IN  labels[offset]

(* Mutant: the second byte of a pointer is read again.                       *)
AmidPointer(i) == i + 1

AfterPointer(i) == i + 2

(* Where what follows the name begins.                                       *)
after_name(payload, offset) ==
    LET after[i \in Nat] ==
          CASE i >= Len(payload)            -> i
            [] i < Len(payload) ->
                 LET n == At(payload, i)
                 IN  IF n = 0 THEN i + 1
                     ELSE IF IsPointer(n) THEN AfterPointer(i)
                     ELSE after[i + 1 + n]
    IN  after[offset]

write_dns_name(name) ==
    FlattenSeq([i \in DOMAIN name |->
        LET data == Slice(name[i], 0, 63) IN <<Len(data)>> \o data]) \o <<0>>

(* A question is a name and four bytes; an answer a name, eight bytes, the   *)
(* length of its data and the data.                                          *)
dns_parse(payload) ==
    LET At4(i) == after_name(payload, i) + 4
        At8(i) == after_name(payload, i) + 8
        question[n \in Nat] ==
            IF n = 0 THEN 12 ELSE At4(question[n - 1])
        qdcount == U16At(payload, 4)
        answer[n \in Nat] ==
            IF n = 0 THEN question[qdcount]
            ELSE LET i == At8(answer[n - 1]) IN i + 2 + U16At(payload, i)
        Rdata(i) == Slice(payload, At8(i) + 2,
                          At8(i) + 2 + U16At(payload, At8(i)))
    IN  [qd |-> [n \in 1..qdcount |-> name_at(payload, question[n - 1])],
         an |-> [n \in 1..U16At(payload, 6) |->
                   <<name_at(payload, answer[n - 1]), Rdata(answer[n - 1])>>]]

DnsHead(m) == <<0, 0, 1, 0>> \o U16(Len(m.qd)) \o U16(Len(m.an)) \o Zeros(4)

dns_to_bytes(m) ==
    DnsHead(m)
    \o FlattenSeq([i \in DOMAIN m.qd |->
         write_dns_name(m.qd[i]) \o <<0, 1, 0, 1>>])
    \o FlattenSeq([i \in DOMAIN m.an |->
         write_dns_name(m.an[i][1]) \o <<0, 1, 0, 1, 0, 0, 0, 60>>
         \o U16(Len(m.an[i][2])) \o m.an[i][2]])
=============================================================================
