# velxiogw in TLA+

velxiogw is a local gateway: a simulated Pico W in a browser sends its
Ethernet frames over a websocket, and the gateway gives it a network - ARP,
DHCP, DNS, a TCP and a UDP NAT. This directory holds TLA+ modules of the parts
that have state and concurrency, TLC configurations that check them on small
instances, and theorems about them that TLAPS proves for every instance.

## 1. Inventory

All of it is asyncio: one event loop, one task per websocket, and tasks that
handlers start. A task runs undisturbed from one `await` that suspends to the
next; whatever it has read before an await may be stale after it. That is where
nearly every hazard of this code is.

| Component | State | Operations | Interacts with |
|---|---|---|---|
| Gateway server (`server.py`) | `_bridges`: client id -> bridge | a socket connects, `start_picow`, `picow_packet_out`, `stop_picow`, the `finally` block | makes, feeds and stops bridges |
| Bridge (`net/bridge.py`) | `running`, `wifi_enabled`, the chip's MAC | `start`, `deliver_packet_out`, `_inject`, `stop`, `http_into_chip` | calls each service below; `_inject` is their way to the chip |
| Outbound TCP NAT (`net/tcp_nat.py`) | `_conns`, `_connecting`, one `TcpConnection` per key, its dial, deferred connect and pump tasks | chip segments by state; grace, dial with retries, deferred attach and flush; pump; `_close`; `shutdown` | host sockets, `_inject` |
| Inbound TCP (`net/tcp_inbound.py`) | `_conns` by our port, each with its buffer and events | `request`, chip segments, TIME_WAIT, `shutdown` | `_inject`; asked before the NAT |
| DNS (`net/dns.py`) | process-wide cache and lookups in flight, per-bridge cache | `handle`, `_resolve_a`, `_lookup` | shared by all bridges; egress guard |
| UDP NAT (`net/udp_nat.py`) | `_flows`, the reaper task | chip datagram, `_open_flow`, host datagram, reaper, `shutdown` | host sockets, `_inject` |
| DHCP (`net/dhcp.py`) | `lease_active`, never read | DISCOVER, REQUEST | answers through the bridge |
| ARP, ICMP (`net/arp.py`, `net/icmp.py`) | none | one answer per frame | answer through the bridge |
| Formats (`net/protocols.py`, `checksums.py`) | none | parse, to_bytes, checksums | every service |
| Egress guard, egress log | none | a test of an address; a sink | TCP, UDP, DNS |
| `cli.py`, `entry.py`, tests, scripts | none | start-up | - |

What is hard, and what makes each part correct:

* **TCP NAT.** A SYN waits for its dial (0.35 s), then is answered early and
  the dial goes on in a task, which attaches the socket later. Sends suspend
  when the websocket is full, drains when the host is slow; segments,
  the dial's end, host EOF, a reset or a stop may come in between. Correct: one
  dial per key; the chip's bytes reach the host once, in order, before its end
  of stream; an ACK covers only what was taken; each end of stream is passed
  on, and a clean end is not reported of a stream that was cut short; no socket
  is lost; one pump reads the host; every SYN is answered; connections end. Not
  all of this holds of the code: see "What the runs show" in 3.
* **Gateway server.** Sockets of one client may overlap. Correct: the table
  names live bridges only; a bridge runs only while its client has a socket;
  a session that has ended leaves nothing behind.
* **DNS.** Lookups are shared by bridges and outlive the query that started
  them. Correct: one lookup per name; answers no older than they may be; a
  retry is served.
* **UDP NAT.** Opening suspends; a reaper closes idle flows. Correct: flows
  that are used stay, idle ones go, none is lost.
* **Inbound TCP.** A request races its timeouts with the segments of the chip,
  and the handler that takes those suspends between an acknowledgement and what
  follows it. Correct: the response is the chip's bytes in order; a request that
  ends by length has all of it; no wakeup is lost; the request returns; both
  ends close.
* **Bridge.** The chip drives DHCP, ARP, ICMP and DNS in an order that the
  responders know nothing of, and may start over while older answers are under way.
  Correct: it gets online.
* **Formats.** Lengths and counts come out of the packet. Correct: what one end
  writes the other reads back; a checksum verifies.

`PROJECT.json` lists every component with its status and every hazard at its
line.

## 2. Modules

| Module | Models | Uses |
|---|---|---|
| `TcpSeq` | 32-bit sequence arithmetic, with the modulus as a constant | - |
| `ByteStream` | abstract: what a relay of TCP promises of one direction | - |
| `TcpNat` | `TcpNat` and its tasks; the chip may send any segment | `TcpSeq` |
| `TcpNatProps` | type invariant, invariants and action properties of `TcpNat` | `TcpNat` |
| `TcpTunnel` | the NAT, the websocket and a chip that follows TCP; fairness, liveness; implements `ByteStream` upstream | `TcpNatProps`, `ByteStream` |
| `TcpInbound` | requests into the chip's server, their timeouts, TIME_WAIT | `TcpSeq` |
| `InboundTunnel` | `TcpInbound`, the websocket and an HTTP server on the chip; implements `ByteStream` for the response | `TcpInbound`, `ByteStream` |
| `UdpNat` | the UDP NAT of one bridge, its reaper | - |
| `Bridge` | `deliver_packet_out` but for TCP; ARP, DHCP, ICMP; a chip that comes up and then sends datagrams | `UdpNat` |
| `GatewayServer` | the websocket handlers, the table of bridges, the life of a bridge | - |
| `DnsResolver` | the resolvers of all bridges over the shared cache and lookups | - |
| `Wire` | checksums, packets and names as functions of bytes | - |
| `WirePackets` | small packets, and what the functions of `Wire` promise each other of them | `Wire` |
| `TcpSeqProofs` | lemmas of modular addition | `TcpSeq`, TLAPS |
| `TcpNatProofs` | `TcpNat`: types, dials, streams, pumps; lemmas of what a step leaves alone | `TcpNatProps`, `TcpSeqProofs` |
| `TcpTunnelProofs` | `TcpTunnel`: that it is a `TcpNat`, sockets, the stop, and that the way up implements `ByteStream` | `TcpTunnel`, `TcpNatProofs` |
| `InboundProofs` | inbound requests, and that they implement `ByteStream` | `InboundTunnel`, `TcpSeqProofs` |
| `GatewayProofs`, `BridgeProofs`, `DnsProofs`, `ByteStreamProofs` | the theorems about the module they are named for | it, TLAPS |
| `MC...` | small instances for TLC | the module they are named for |

### How a definition corresponds to the code

A **step** is what one task runs from one `await` that really suspends to the
next. An action is named after the handler it begins, in the code's spelling
(`on_passive_syn`, `handle_chip_segment`, `stop_picow`), or after the event that
resumes a task (`GraceOver`, `Drained`, `PumpSent`, `LookupEnds`). What a task
holds across an await - the connection, the segment, the bridge - is part of its
state (`handler`, `held`, `query`), so a step uses it as stale as the code does.
`PROJECT.json` gives the lines of each definition.

**TcpNat.** The variables are the fields of `TcpNat` and `TcpConnection`, plus
one position per task: `handler` (the websocket reader, which runs
`handle_chip_segment` to its end before it reads the next frame), `dial`,
`deferred`, and `pump`. There are two places that start a pump, so `pump` has two
entries per connection; `host_pump_task` is the one that `_close` will cancel.
Payload bytes are stream positions. Whether a send to the chip or a drain to
the host suspends is the constant `Slow`: a task whose socket is not in it does
not suspend there, and its next step comes before any other (`Urgent`, `Turn`).
`_close` sets CLOSED, awaits the RST and only then frees the socket
(`ResetChip`, then `TearDown`); without an RST it is one step.

**TcpTunnel.** Two sequences are the websocket: in order, nothing lost or
duplicated. The chip's TCP is not in this repository and is marked external: it
opens each key once, sends its bytes in order, keeps and may retransmit a part
until it is acknowledged, takes only the next byte, and answers what it does not
know with a RST. What it has of the stream is given by offsets.

**GatewayServer.** One handler task per socket, `pc` and `held` its position
and the bridge it holds there. `stop` is two steps, `running = False` and the
shutdowns that `gather` starts. What a frame does in the bridge is left out but
for one fact: it may leave a host socket open. `Overlapping` is the set of
clients whose page may connect again before the handler of the old socket ended.

**DnsResolver.** `own` is `DnsResolver._cache`, `shared` is `_shared_cache`,
`inflight` and `lookup` are the table of tasks and the tasks. A lookup that is
done stays in the table until its callbacks run, as in asyncio. A lookup's failure is
the empty answer; a name that cannot be encoded makes `getaddrinfo` raise what
nobody catches. `TimesOut` may come at any time of a wait, and also when the
result is there but the query has not run. The clock is a tick that comes only
when no task is ready; `since` remembers the age of what was resolved.

**UdpNat.** `flows`, the transport and `last_used` of each flow, the reaper as
`None` or the ticks it still sleeps, the datagrams of the host as tasks that wait
to run. Ages are capped at `Never`, the first value at which nothing changes.

**Bridge.** A frame is its two MAC addresses, its kind and the few fields that
decide the answer; `deliver_packet_out` picks the responder as the code does and
learns the MAC. A DNS query only occupies the handler until `Resolved` or
`NotResolved`: what happens meanwhile is `DnsResolver`. The chip is external. It
goes from `off` through `selecting`, `requesting`, `checking` (it asks by ARP
whether its address is taken, and sends a DECLINE when it hears so), `resolving`,
`pinging` and `naming` to `online`, as lwIP does, with a new transaction id
at each start; answers to an older one may still be on the websocket. Once online,
its datagrams drive the steps of `UdpNat`, which are the actions of that
module.

**TcpInbound.** `task` is where each `request` stands (before the ARP, before the
SYN, in one of its sends or waits, over, forgotten) and `handler` where the
websocket reader stands in a segment. The loop of `request` with its three ways to
end - finished, complete by length, deadline - is `TaskRuns`; a time that passes
is `DeadlinePasses` or the timeout of a wait. `Forgets` is the end of TIME_WAIT. A
response is a sequence of CR, LF, a header that declares a length, and anything
else, so that `http_response_complete` is the code's search. `Slow` and `Turn`
say which sends suspend, as in `TcpNat`. `InboundTunnel` adds the
websocket and the server, which is external: it may refuse, be silent, stop short,
abort, or send again the oldest segment that is not acknowledged (`unacked` is a set:
the offsets of the segments order it).

**Wire, WirePackets.** Bytes are sequences of 0..255; the loops that walk by
a length found in the packet are recursive functions over positions. A packet is
the variable `packet` of initial states of its own: `MCDnsResolver` starts
either with the resolvers and no packet, or with a packet and nothing
else, so that the properties of both are checked in one run.

## 3. Runs

| Run | Asks | Result |
|---|---|---|
| `nat_any_chip` | any segment, at any time, any task suspended: types, one dial per key, byte accounting, half close, no write after the end | holds |
| `tunnel` | a chip that follows TCP, all faults, both sockets slow: the chip's stream into the host is a `ByteStream`, a clean end is of the whole stream unless something cut it, no socket is lost and a stop leaves none but in a dial left behind, a second pump starts at one place only | holds |
| `tunnel_live` | the same with fairness: SYNs answered, host bytes arrive, connections end, somebody reads the host | holds |
| `gateway_server` | two clients, overlapping sockets or not: the table, one bridge, nothing left of a session | holds |
| `dns` | two bridges, three names, a cache for one: one lookup per name, policy, age, eviction, answers in the end; and small packets: checksums verify, options, payloads and names read back | holds |
| `bridge` | a chip that starts twice gets online; its datagrams, the reaper and a stop: no transport lost, idle flows go, used ones stay | holds |
| `inbound` | a server that refuses, stops short, aborts or retransmits, a slow handler, a stop: the response is a `ByteStream`, complete means whole, no wakeup lost, clean closing, a request returns | holds |
| `v_unserved` | `Served`, where a FIN may come with data | violated |
| `v_acked` | `AckedIsTaken` | violated |
| `v_connecting` | `DialsAreWaitedFor` | violated |
| `v_inbound` | `CompleteIsClosed` | violated |
| `v_finally` | `FinallyCleansUp`, with overlapping sockets | violated |

Two of these are refinements. In `tunnel`, `Upstream == INSTANCE ByteStream WITH
...` maps what the chip's application has sent and closed, and what the host socket
was given and whether `write_eof`, a close or neither followed. In
`inbound`, `Response` does so for the server's bytes and `rx` with `finished` and
`reset`. Both say of the whole path - the chip's retransmissions, the websocket,
the bytes held during a dial or between two awaits - that nothing is doubled or
reordered, and nothing left out before a later byte or the end.

The `end` of a stream is what the gateway has done, not what the host can tell:
`Upstream` has `write_eof` for the true end and maps every `host_writer.close()`
(tcp_nat.py:581-583) to `broken`, after which nothing is promised. To the host a
close is a clean end of stream too. When it may be of a stream that is not
whole is a property of its own, `EndIsWhole`: if the chip aborted, the gateway
reset the connection, the bridge was stopped, or the host had ended its own
stream. In each of these cases the code does it, and the host is not told.

### Bounds, and why they are enough

* **One key, two connection objects, one handler** for TCP. Connections of
  different keys share only the reader task and the sets indexed by key; the
  second object is for the reuse of a key. One handler is one socket that
  delivers to the bridge, which is what the server gives a bridge unless sockets
  of a client overlap; what that overlap does is `GatewayServer`'s question.
* **SeqMod 4 or 8** for 2^32, with an initial number next to the top, so that
  every stream wraps. The theorems hold for every even modulus.
* **One or two bytes** per connection and direction (`MaxBytes`, `ChipBytes`),
  which suffices for a byte held during the dial and one after it, for a
  retransmission of the older, and for a FIN with and without data.
  `MaxRetransmits` 1: the order in which a second copy arrives is what matters.
* **`MaxQueued`** 1: a chip sends by itself only when the websocket has nothing
  from it. The gateway takes segments one at a time and in order, so that a longer
  queue only delays them; answers to frames are sent in any case, and a segment
  overtakes nothing.
* **`Attempts`** 2 in `tunnel_live`, a first attempt and a last one. 1 in `tunnel`
  and `nat_any_chip`, where a failed attempt between only prolongs the dial.
* **`MCSegments`** of `nat_any_chip` has SYN, RST, and ACK and FIN with the
  expected and an older or newer sequence number. SYN+ACK and the like fall
  through to the same branches. Its chip may open a key a second time.
* **`tunnel`** reads no host bytes (`ReadSizes` empty): it is about the way up;
  `tunnel_live` reads them.
* **Four sockets, three bridges** for the server: two sockets of a client may be
  at any pair of awaits, with a bridge of an earlier start to be stopped.
* **DNS**: a cache for one of three names makes every put at the limit an
  eviction; three lookups are one for each name, more cannot run
  (`OneLookup`); a `Ttl` of 1 tells fresh, last tick and expired apart.
* **Bridge**: `Half` 1 makes the idle limit two ticks, so that `last_used` falls
  at, between and off the reaper's rounds; three flows for three keys, one of
  which may not be opened, so that a key is opened again after its flow was closed;
  two starts are one with answers of another under way; one retry.
* **Inbound**: one request, as requests share only the handler and the websocket.
  `SeqMod` 16 is past the longest response, with its FIN, and both
  initial numbers are next to the top. `ResponseAssumption` asks this of every
  instance: in a response as long as the sequence space an old segment could not be
  told from a new one, by the code no more than by the model. The two responses
  have one separator each, one with a declared length and one without; segments of
  2 and 4 cut the first before, in and behind its separator. One retransmission, of
  the oldest part that is not acknowledged. `Slow` is the handler alone, see below.
* **Packets**: up to five bytes of 0, 1 and 255, so that sums carry twice, are of
  odd length and become zero; up to two options of three kinds, two questions and
  two answers; names of up to two labels; IP headers with and without
  options; padding of one byte and of six, behind payloads that may be empty.

Runs that check deadlock: `dns`. The other systems stop when their bounded
supply of objects, bytes or sockets is used up.

### Fairness

* *Tasks that can run do* (`WF` of handler, dial, deferred, pump and lookup
  steps): the event loop runs ready callbacks in order.
* *A dial ends*: every attempt is under `asyncio.wait_for`. *A lookup ends*:
  `getaddrinfo` has the resolver's timeouts.
* *The wires deliver*: a websocket is a TCP connection; a dead one ends its
  handler, which is the server's business. For `inbound` nothing is asked of the
  wires, the handler or the chip: `RequestReturns` rests on the task of the
  request and its timers alone.
* *The chip's timers run* (`bridge` only): lwIP asks again and goes on when its
  check of the address heard nothing.
* *Both ends finish* (`EndsFinish`, for `tunnel_live` only): the sketch closes
  its socket and the host its own. Without that a connection may stay for ever,
  as `TCP_IDLE_TIMEOUT` (consts.py:45) is used nowhere.
* *No race is lost for ever* (`SF`, for `dns` only): a query against its own
  timeout once the lookup is done, a chip that asks each second against an entry that
  lives for a minute.

### What the runs show

* **v_unserved** (tcp_nat.py:423): data and FIN on one segment. The handler
  awaits the drain or the ACK of the payload and then sets CLOSE_WAIT. If the host's
  end of stream comes in between, the pump has sent its FIN and set FIN_WAIT_1; that is
  overwritten, the ACK of the FIN is ignored in CLOSE_WAIT, and the connection
  stays in the table. lwIP joins the last data and the FIN as a matter of course.
  `tunnel_live` has `Coalesce = FALSE` for this reason.
* **v_acked** (tcp_nat.py:440-449): in FIN_WAIT the payload of a segment is not
  looked at and a FIN is taken at any sequence number: the chip's last bytes are
  acknowledged, by a number past them or with the FIN, and lost.
* **v_connecting** (tcp_nat.py:588): an RST right after the early SYN+ACK cancels
  the deferred connect before its first step; its `finally` never runs, and the
  key stays in `_connecting`. Later SYNs of that key are dropped. The dial of line
  266 goes on, as nothing cancels it; the socket it opens is taken by nobody, and
  lines 305-312, which would close it, are in the task that never ran. The same
  socket is lost when the cancel comes after the dial has ended and before its
  waiter has run, or with a stop in place of the RST. `DialsAreWaitedFor` says that
  none of this happens; `NoLostSocket` and `StoppedIsQuiet` name it (`LeftBehind`)
  as the one exception to what they say.
* **v_inbound** (tcp_inbound.py:130): a request that ends by Content-Length sets
  CLOSED before the chip's FIN has come, and no FIN of ours is ever sent. The run
  shows this for a request that is over and a chip that was not told. How a FIN of
  the chip is then answered is lines 130-135: by a number that does not count it,
  until the outbound NAT, 5 s later, answers a retransmission by a RST.
* **v_finally** (server.py:137): two sockets of a client, both between the pop
  and the assignment: a bridge is overwritten and never stopped.

What was seen and is not a run:

* tcp_nat.py:292: a dial that ends while the SYN+ACK is being sent starts two
  pumps, which both send with one `our_seq`, against lines 288-291 ("A deferred
  connect starts its own pump"). This needs a websocket that pushes back.
  `tunnel` has one, and does start two; what it checks is that nothing else does
  (`SecondPumpOnlyByCrossing`). With two handlers there is a second place, line 332,
  where the flush of held bytes ends after a SYN+ACK that was sent meanwhile.
  `tunnel_live` has a websocket that takes every frame, so that its liveness is
  of one pump.
* tcp_nat.py:581: after an abort of the chip, or bytes dropped in FIN_WAIT
  (`v_acked`), the host socket is closed as after a whole stream.
* tcp_nat.py:423: after the await of the payload's ACK, `_on_data` sets
  CLOSE_WAIT whatever the state is by then, a CLOSED one included. A chip
  that opens a key again can then have the entry of its new connection removed by
  the `_close` of the old one (line 590), which pops by key. So `NoLostSocket` is
  checked where a key is opened once, in `tunnel`.
* tcp_nat.py:566: the RST of `_close` carries `our_seq` as it is before a
  suspended send has moved it, so the chip need not take it. Line 213 takes an MSS
  option of 0 as it is, and `read(0)` looks like the end of stream.
* tcp_inbound.py:186: `our_seq` counts the request only after its send. A
  response that arrives while that send is suspended is acknowledged with the old
  number, and the FIN of ours with it: `FinishedIsClosed` fails with `"request"`
  in `Slow`. Line 123 takes a SYN+ACK without a look at its ack, and a request
  whose SYN timed out (line 178) sends neither FIN nor RST to a chip that has
  just accepted.
* dns.py:186: the cache of a bridge has no expiry, whatever lines 46-47 say of the
  life of an answer; `LearnsFresh` is about what enters it.
* dhcp.py:10-11 says that a RELEASE clears the lease; lines 92-93 ignore it, and
  `lease_active` is never read. arp.py:27-28 says that the gateway never sends
  ARP requests; `http_into_chip` does (bridge.py:225-232).

## 4. Proofs

Every theorem holds for any values of the constants that satisfy the named
assumptions, and of the hypotheses it states itself. TLC checked each
invariant before it was proved. The proofs go action by action, with lemmas for
what several actions have in common.

**The NAT** (`TcpNatProofs`): any sets of keys, connections,
segments and read sizes, any even modulus.

* `TypeCorrect`: `Spec => []TypeOK`. `TypeOK` alone is not inductive: a handler's
  frame is built from the fields of the connection it holds. `HoldsConn` says
  that every handler that is not idle and not stopping the bridge holds one;
  `TypeInv == TypeOK /\ HoldsConn` is kept by every step.
* `DialsAreGuarded`: `Spec => []DiallingIsConnecting`, and
* `OneDial`: `Spec => []OneDialPerKey`. Neither is inductive. A connection
  *claims* its key from its dial on until whoever waits for the dial has run:
  the handler in its grace, then the deferred connect. `DialInv` says that a
  claimed key is in `_connecting`, that no two connections claim a key, and that
  a dial has one waiter: one handler in its grace, or a deferred connect that no
  handler still waits along with. A new dial finds its key outside `_connecting`,
  hence unclaimed; a discard is done by the waiter, when its claim is over, and
  by the one-claim part no other claim has that key.
* `DeferredFindsOpen`: `Spec => []DeferredInTime`. `WaitInv` says what makes it
  impossible to close a connection behind the back of its deferred connect: it
  has no host socket and no pump, no handler is in a drain or a reset of it, and
  before it is registered it is held by the one handler in its grace. All
  other ways to close go through `_close`, which cancels the task.
* `EveryByteCounted`, `EndIsPassedOn`, `EndIsLast`: `ByteAccounting`, `HalfClose`
  and `NoWriteAfterEof`, with one handler (`OneHandler`). `StreamInv` gives
  `chip_seq` in every state of a connection as the initial number and the bytes
  given to the host or held for it, less those that a drain under way has written
  and not yet counted, plus one for a FIN that was taken (`CountOK`), and
  ties `state`, `host` and `pending_eof` together at every await (`EndOK`). The
  hypothesis is needed: two handlers in drains of one connection have both
  written and then both count, each from its own segment. The server
  gives a bridge one handler unless sockets of one client overlap.
* `SecondPumpCrosses`: `Spec => SecondPumpOnlyByCrossing`, for any number of
  handlers and whatever suspends. A second pump is started by the handler whose
  SYN+ACK was suspended while the deferred connect ran to its end, or by a
  deferred connect in its flush when there are two handlers; with sends that do
  not suspend there is none. `PumpInv` says of each pump what it leaves of the
  other's starter: while the pump of a deferred connect lives, its task is done;
  where sends do not suspend, there is no deferred connect beside the pump of the
  SYN's handler, and none has attached the socket when that handler looks; with one
  handler, no flush goes on beside either.
* `EveryoneServed`: `Spec => []Served` where no segment has a FIN and data
  (`PlainSegments`; `v_unserved` is the rest). `ServeInv` names, for every
  state of a registered connection, who will start or continue its pump.

**The NAT and a chip that follows TCP** (`TcpTunnelProofs`): any sets of
keys, connections and handlers, any faults, any bounds.

* `TunnelImplementsNat`: `TunnelSpec => Spec`. What the chip puts on the
  websocket is one of the segments `TcpNat` allows (`WireInv`, with the assumption
  that `Segments` is `ChipSegments`), and each step of the tunnel is a step of
  `TcpNat` or leaves it alone; so the theorems above hold of the tunnel too.
* `NoSocketLost`: `TunnelSpec => []NoLostSocket`, for any number of handlers. It
  is of attached sockets and of dials: `DialledInv` of `TcpNatProofs` says that the
  waiter of a dial is there, or was cancelled with the connection torn down
  (`LeftBehind`). For a
  chip that sends anything it is false (see tcp_nat.py:423 in 3), so the invariant,
  `TableInv`, has to know of the chip. Its `ChipInv` says that no data of a key is
  on the websocket before a SYN of that key. From there on the key is *settled*: no
  SYN is sent again, none is under way and no handler waits with one, so that no
  second connection can get the key. `OwnInv` follows the entry of the table: who
  is about to close a connection (`MayClose` - the next `_close`, or a task between
  the RST and the end of one) finds its own entry, or none and a settled key; and
  two may be about to close it only when the key is settled.
* `NothingOutlivesStop`: `TunnelSpec => []StoppedIsQuiet`, with one handler.
  `StopInv` says that after the stop the handler only has the shutdown left
  (`Halting`), and that a registered connection which is CLOSED already has its
  RST going out from a task that will close its socket (`RstPending`). `shutdown`
  skips those, and closes every other socket, since by `NoSocketLost` all are in
  the table. What the stop leaves starts nothing: a deferred connect that waited
  is cancelled, and no pump is begun where one sends a RST (`NotYet`). By
  `DialledInv`, a dial that goes on after the stop is one that was left behind; that
  there are such is the code (`v_connecting`).
* `UpstreamArrives`: `TunnelSpec => UpstreamIsAStream`, the refinement of `ByteStream`
  by the way from the chip to the host, with one handler and a stream shorter
  than the sequence numbers are many (`ChipBytes + 1 < SeqMod`, as in `tunnel`): where
  the numbers come round within what may still be under way, a byte sent
  again has the number of the next one. `WayUp` is `StreamInv`, for what the gateway
  has counted, with `TableInv`, for whose the segments are, and `UpInv`:
  - `SentInv`: what the chip keeps and what is on the websocket is a SYN, a byte
    with its own offset, or a FIN after all of them;
  - `AckInv`: what acknowledges the SYN+ACK is behind every SYN of its key;
  - `BytesOK`: the bytes given to the host, then those held for it, are the
    chip's first, and all of them once its end was seen;
  - `FlowOK`: every byte that an open connection lacks is still on the
    websocket, before everything that needs it (`Comes`, `Flow`). Hence the segment at
    the head is old or the very next, and a FIN at the head is the end: a gap,
    which the gateway would not fill, does not come up;
  - `KeyInv`: of a key that is not settled nothing was taken, and the chip has heard
    neither bytes nor an end (`Plain`), which makes the handshake begin with
    the first byte still to come (`PastOK` is where it ends). The exception is a
    connection whose SYN+ACK follows one that the chip took from an earlier
    connection of the key (`Doomed`): its handshake is never completed.

  `Steady` is what every other step does to a connection: it passes on what is held,
  or nothing. By `UpstreamStep`, at each step the stream of every connection
  `Sends`, `Delivers`, `Breaks` or `Rests`, or nothing that `ByteStream` sees changes.

* `EndsAreWhole`: `TunnelSpec => EndIsWhole`, under the same hypotheses. That all
  was written at a `write_eof` is `BytesOK` of `WayUp`. For a close, `EofInv` says
  that the host's own end was seen wherever the gateway has sent a FIN, that this is
  so while the ACK of a FIN is sent before a close, and that `stop` has begun
  where a handler is in the shutdown; the proof then goes through all that close a
  socket.

**Inbound requests** (`InboundProofs`): any requests, responses, sizes of segments,
initial numbers, faults and bounds that satisfy the assumptions of `TcpInbound` and
`InboundTunnel`. The sequence numbers of segments are read as offsets in the
server's stream (`OffsetOf`, `SeqAt`), which is where `ResponseAssumption` is
used.

* `InboundInvariance`: `TunnelSpec => []InboundInv`, on which the others rest.
  Its parts: what the server keeps and has sent is a SYN, bytes of its
  response and a FIN at the end (`ServerOK`), and so is every segment under way
  (`SegsOK`); what was collected is a beginning of the response, and `chip_seq`
  its length (`ConnOK`), where `Taken` says how far the gateway is while
  a handler is between two awaits; a request that has not begun has nothing
  under way (`UnopenedOK`). The part that makes it inductive is `OrderOK`: of the
  segments on the websocket each is *old* - it ends before what was taken, or
  before one ahead of it - or *fresh*, beginning exactly where all of that ends;
  and together they reach what the server sent last. Hence the segment at the head is
  either a repetition, or the very next.
* `CompleteIsToldTheorem`: `TunnelSpec => []CompleteIsTold`.
* `ResponseIsAStreamTheorem`: `TunnelSpec => Response!Spec`. The initial states
  are those of `ByteStream`, and every step of the tunnel is one of its steps, or
  changes nothing that it sees; `InboundInv` before and after the step
  says which.
* `CompleteIsWholeTheorem`: `TunnelSpec => []CompleteIsWhole` under `WellDeclared`,
  that no proper beginning of a response is complete by itself. What is
  asked is that the server's lengths are right: for one that declares
  less than it sends, the request ends early, by the code and by HTTP. Both
  responses of the run satisfy it.
* `AckedIsCollectedTheorem`: `TunnelSpec => []AckedIsCollected`. `AckInv` adds to
  `InboundInv` that the one SYN goes before every other frame of a request
  (`SynFirst`), that a frame's ack covers no more than what was collected, or the
  FIN when all was (`Counted`), and that the server keeps every byte past what
  was collected (`Covers`). A connection that is closed before it is established
  sends no request, so its acks, which are 0 and mean nothing, reach a server
  that has nothing to lose (`Mute`).
* `LateIsAbsorbedTheorem`: `TunnelSpec => []LateIsAbsorbed`. `LateInv` says that a
  request is in the table from its SYN until it is forgotten, and that until then
  no RST to it is under way.
* `FinishedIsClosedTheorem`: `TunnelSpec => []FinishedIsClosed` where the send of
  the request does not suspend (`"request"` not in `Slow`; see tcp_inbound.py:186 in
  3 for what happens when it does). `CloseInv` follows both numbers of the gateway's
  FIN. The server has the initial number of the connection, from its one SYN
  (`SameStart`), and hears of the request no sooner than it is sent (`HeardLater`);
  `our_seq` counts the request from then on (`OurSeqOK`), so the FIN has the
  number that the server expects. `chip_seq` counts the server's FIN by then, also
  when the request's deadline has closed the connection meanwhile (`CountedOK`), so
  the FIN acknowledges all that was sent. It is under way until the server has
  taken it or has given up (`FinComes`), and a request is forgotten only when nothing
  of it is under way (`BusyOK`, with `Quiescent` of the model).

**The server** (`GatewayProofs`): any numbers of clients, sockets and bridges,
whichever overlap. `TableStaysCurrent`, `OneBridgeEach` and `SessionEndsClean`
prove `TableIsCurrent`, `OneBridge` and `EndsClean`. `ServerInv` says that a bridge
in the table runs and was made by a socket that still serves (`InTable`), and of a client whose sockets do not overlap
that one of them is served (`OneSocket`), that its entry is empty while it
waits for a stop (`NoneWhileWaiting`), and that what it delivers to is its
entry (`DeliversToOwn`). For `EndsClean` it adds that a bridge which is being
stopped has a handler of its client that waits for it (`StopsAreAwaited`), which is
why a session cannot be over before its stop is, and that a bridge which is down
has nothing open (`ClosedWhenDown`), which needs `DeliversToOwn`: no frame is under
way in a bridge that is stopped.

**UDP and the bridge** (`BridgeProofs`): `NothingIsLost` and `NothingIsLeft` -
`NoLostTransport` and `StoppedIsClosed` - for a `Bridge` with one handler.
`UdpInv` says that the table and the flows' own keys agree, that an open
transport is in the table, that a key which is being opened has no flow in it, and
that a bridge which is down is being shut down or has nothing open. The third
part is why `_open_flow` may register without looking again, and what
`OneHandler` is for: with two, it is false (see 5). `IdleIsGone` and `UsedStays` -
`IdleIsReaped` and `UsedIsKept` - need no such hypothesis, and hold for every
idle limit: by `ClockInv`, while a flow is registered there is a reaper, and the
age of the flow and the time the reaper still sleeps are together at most
the limit and half of it.

**DNS** (`DnsProofs`): `OneLookup`, `LookedUpIsNotCached`, `LearnsFresh` and
`OnlyGlobal` (the theorems `LookedUpOnce`, `NotCachedMeanwhile`, `LearnedIsFresh`,
`RefusedIsNotSent`), for any number of names, resolvers, queries and tasks and
any life and limit of the cache. `DnsInv` adds that the tasks that are not free
and the entries of `_inflight` correspond one to one (`InTable`), that the age of an
answer and the life left to its entry are together at most the `Ttl`
(`LivesAsLong`), and that no time passes between the end of a lookup and
the query that takes its result (`TakenAtOnce`), which is the assumption of the
`Tick` that time is long compared to a turn of the event loop.

**The abstract stream** (`ByteStreamProofs`): `StreamIsFaithful` says that what was
received is always a prefix of what was sent, and once the end is told, all of it,
the sender having closed. With the refinements proved in `InboundProofs` and
`TcpTunnelProofs` this is what a request promises, and what the NAT promises
upstream.

Model-checked only:

* all liveness, as fairness and `ENABLED` are out of the prover's reach:
  `SynIsAnswered`, `ConnectionsEnd`, `DownstreamArrives`, `AskedIsAnswered`,
  `GetsOnline`, `RequestReturns`;
* the functions of `Wire`, which walk by recursion: what they compute for every
  input needs induction over data.

## 5. What is not modelled

* TCP: window and MSS values, `last_activity`, the egress log. `chip_window` is
  stored and never read, so a chip whose buffer is full would lose bytes.
* An address is allowed or not (`Blocked`, `Global`): the guard is a pure test.
* A cancel that is lost: `asyncio.wait_for` of Python 3.11, which the package still
  allows, may swallow one that comes together with the end of what it waits for.
  A deferred connect would then find its connection CLOSED and close the socket
  itself, by tcp_nat.py:305-312, a branch the models do not have (`DeferredInTime`
  is why: here every cancel takes effect).
* The caller of `request` (tcp_inbound.py:204): it gets what was collected also
  after a reset, and is not told; `reset` is a field of the model's connection.
* A second socket that delivers to the same bridge, in the NATs: needs two
  overlapping sockets of one client. By the code, two handlers in
  `UdpNat._open_flow` for one key lose a transport (udp_nat.py:83, 142), and a
  flow being opened survives a stop by the other socket.
* A chip with a receive window (tcp_nat.py:191), and one that opens a key again in
  `TcpTunnel`.
* DNS queries that need no resolution, and the order of addresses.
* Formats: Ethernet and ARP, whose fields are at fixed places, the fixed part of
  DHCP, and names that point to themselves or past the packet.
* `wifi_enabled`: without it a bridge drops every frame.
* The tables of the egress guard, the egress log, the constants' values, the
  command line, tests and scripts: no state, or none that is read.
* The pairing code and the Origin check decide which sockets exist at all.
* Calls of `http_into_chip`: nothing here makes one. A request in the model
  is a call by whoever embeds the stack.

## 6. Plan

Done: the NAT and its tunnel, the server, name resolution, UDP with the bridge
and its responders, inbound TCP, formats, the abstract stream. Left:

1. Two handlers in `Bridge` and `TcpNat`, as `GatewayServer` lets two sockets of
   a client be, each with the properties that survive it.
2. `TcpTunnel` where a key is opened again, and a chip with a receive window.
3. The way down of `TcpTunnel` as a `ByteStream` too.

Theorems next: that the way down implements `ByteStream`, once it is stated, by the
offsets that `UpstreamArrives` uses; what is left of the NAT's theorems with two
handlers.
