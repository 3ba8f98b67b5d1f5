# A verification of the simple router

The repository is a user-space IPv4 router (`src/router`, C) that talks to an
emulated network through a VNS server (`src/pox_module/cs144`, Python on POX and
Twisted). This project models the parts of the router in which steps of two
threads, time, a full table, lost frames, the cuts of a byte stream or byte order
decide whether packets arrive, checks them with TLC on small instances and proves all
invariants that the runs check with TLAPS for every instance.

## 1. The system

| Component | State | Operations | Hard because |
|---|---|---|---|
| ARP cache entries, `sr_arpcache.c` | `entries[100]`: ip, mac, added, valid | lookup (copies), insert (first invalid slot), expiry | used by two threads; a copy outlives its entry; the table can be full |
| ARP request queue, `sr_arpcache.c` | linked list of `sr_arpreq`, each with a list of packets; `sent`, `times_sent` | queuereq, insert (unlinks), destroy (unlinks, frees), sweep, `handle_arpreq` | `handle_arpreq` runs with the lock in the sweep and without it in main; requests are freed under the other thread |
| Timeout thread, `sr_arpcache_timeout` | its place in the queue | every second: expire entries, sweep requests | holds the mutex while `sr_arpreq_destroy` locks it again |
| Main thread, `sr_router.c` | one frame at a time | IP: answer, expire, forward; ARP: answer, service a reply | keeps a request pointer after the unlock; takes unlinked requests; every ICMP response reads through a pointer that was never set |
| Routing table, `sr_rt.c`, `sr_main.c` | linked list of routes | load (twice), longest prefix match | masks compared in the wrong byte order; mask 0; buffers reused by lines that end early |
| Interface list, `sr_if.c` | linked list | add, set address (of the last), look up | filled entry by entry by HWINFO, after packets may arrive |
| VNS client, `sr_vns_comm.c` | socket, expected command, place in the stream | connect, authenticate, open, read loop | order of messages; pieces of messages; end of stream |
| Frame output, `sr_vns_comm.c` | the socket | `sr_send_packet`: log, check the source address, write | two threads; the list it checks against is being filled |
| VNS server, `srhandler.py`, `VNSProtocol.py` | clients, interface and port maps | accept, authenticate, open, broadcast, packet out | clients get packets before they are ready; disconnected clients stay |
| OpenFlow handler, `ofhandler.py` | router info | packet in and out | RouterInfo may come after a client opens |
| Checksum, `sr_utils.c` | none | `cksum` | one's complement zero; the odd byte; carries |
| Packet log, `sr_dumper.c` | a FILE and its buffer | dump a record, flush, close | two writes per record, two threads; the process may die at any point |

How they interact: main's loop reads one VNS message after the other; a packet
goes to `sr_handlepacket`, which answers it, forwards it (routing table, then ARP
cache, then `sr_send_packet`) or queues it (request queue, then `handle_arpreq`).
An ARP reply goes to `sr_arpcache_insert`, and the packets that wait for it leave.
The timeout thread shares the cache with main through one recursive mutex and
sends frames over the same socket.

What makes the components correct: the queue stays a list of live requests, one
per next hop; nobody loses or doubles a packet; every packet gets an answer in the
end; frames go to the station that owns the next hop; the sweep ends; the routing
table is the file, and the longest prefix wins; the session reaches the state in
which packets are processed, and the program ends when the session does; messages
come out of the stream whole and in order; the client's interfaces are the server's;
frames leave in the name of the right interface, and are in the log by then;
checksums are right, going in and going out.

## 2. Modules

* `ArpCache` - the cache, the queue, both threads, the clock. The core.
* `Delivery` - the abstract specification: each packet is accepted, then settled
  exactly once (forwarded, answered with host unreachable, or refused), and it is
  settled eventually unless the router goes down.
* `ArpCacheDelivery` - the refinement mapping from `ArpCache` to `Delivery`.
* `ArpCacheHistory` - `ArpCache` with a history variable counting the ARP requests
  that really left.
* `ArpCacheProofs` - theorems about the queue and the packets in it, in `ArpCache`.
* `ArpCacheDeliveryProofs` - theorems about what becomes of packets: next hops, fates,
  and that `ArpCache` implements the safety part of `Delivery`.
* `ArpLink` - `ArpCacheHistory` on links that lose frames, with stations that answer
  its ARP requests by the same code.
* `ArpLinkProofs` - theorems about `ArpCacheHistory` and `ArpLink`.
* `RoutingTable` - loading the table and matching a destination, loop by loop.
* `RoutingTableProofs` - theorems about `RoutingTable`.
* `VnsSession` - router processes, the VNS server and the streams between them.
* `VnsSessionProofs` - theorems about `VnsSession`.
* `Forwarding` - `handle_ip_packet` and `send_icmp_response` in a network of routers
  with arbitrary routing tables.
* `ForwardingProofs` - theorems about `Forwarding`.
* `Checksum` - `cksum`, loop by loop, testing what comes in and making what goes out.
* `ChecksumProofs` - theorems about `Checksum`.
* `MessageStream` - the abstract specification of reading: whole messages, each once,
  in order, and while the connection stands all of them.
* `StreamReader` - how `sr_read_from_server_expect` takes messages out of bytes.
* `InterfaceList` - how the entries of HWINFO become the client's list of interfaces.
* `FrameOutput` - the two threads' way to the log and the socket.
* `ClientIO` - the composition of `StreamReader`, `InterfaceList` and `FrameOutput`:
  the client in its main loop.
* `ClientIOProofs` - theorems about `StreamReader`, `InterfaceList`, `FrameOutput` and
  their composition `ClientIO`.
* `MC*` - instances for TLC.

`ArpCache`, `RoutingTable` and `Forwarding` divide the path of a packet between them:
`Forwarding` decides what becomes of a datagram and takes the route as given,
`RoutingTable` is where the route comes from, and `ArpCache` what happens between the
route lookup and the wire; `ArpLink` puts that on a link, `Checksum` is the arithmetic
that `Forwarding` abstracts. `VnsSession` is how frames get to `sr_handlepacket`,
message by message; `ClientIO` looks into the handling of one client's messages, byte
by byte, entry by entry and write by write.

An operator `X_Something` just before a definition `X` is a wrong variant of it, the
kind of slip that a property must notice; no specification uses it.

### ArpCache and the code

* `requests` is the linked list as a sequence of addresses; `heap` says what each
  address holds, `Null` after `free`. `cur[t]` is the request pointer of a thread,
  which may be dangling. `rest` is what the sweep reaches by next pointers.
* What main does under the lock (`Lookup`, `QueueReq`, `Insert`, `Destroy`) is one
  action: the sweep holds the same lock, and nothing else reads that state.
  `handle_arpreq` is split at every access to the request (`CheckSent`,
  `CheckTries`, `Resend`, `CountSend`, `SendUnreachable`, `Destroy`), because main
  runs it without the lock. `times_sent++` is a load (`Resend`) and a store
  (`CountSend`).
* A thread in `handle_arpreq` whose request has been freed takes `UseAfterFree`: the
  process dies, or the handler returns without effect on cache and packets.
  `FollowNext` after a free either still finds the pointer in the freed chunk or
  dies; `alive` records the death. This is a choice among what freed memory may do: a
  second free, or a write into memory that has been given out again, may damage the
  heap without anybody noticing, and what happens after that is not modelled. The
  invariants hold up to such a step; `doc_save_next` shows how the sweep reaches one,
  and section 3 how main does.
* Time is relative: `age` of an entry saturates past `SR_ARPCACHE_TO`, and `due`
  says that a second has passed since `sent`. `Tick` is one second. `stale[t]`
  says that a second has passed since the thread read `now`, so that
  `req->sent = now` can store an old time.
* A frame for the wire is abstracted to `outcome[p]`: forwarded to a station,
  answered with host unreachable, or refused by `sr_send_packet` because the source
  address is not that of the interface. A socket write is assumed to succeed, and
  `calloc` and `malloc` to find memory.
* ARP replies (`Replies`) may arrive at any time, repeatedly, unasked, on any
  interface, or never. Each packet arrives at most once.

### ArpLink and the code

* The router's steps are those of `ArpCache`, except that replies no longer come from
  nowhere: a reply is a frame in `air`. Each broadcast that `ArpCacheHistory` counts
  puts the frame of `create_arp_request` there, in the name of the interface of the
  request's first packet.
* The stations on a link are routers with this code too: `StationsAnswer` is the
  request branch of `handle_arp_packet`, which copies the request, turns the addresses
  round and answers on the interface it came in on.
* `Lose` takes any frame off the link; there is no order among frames. The links are
  prompt: `LinkTick` lets a second pass only when no frame is on its way and both
  threads have done their work. Without this a reply could be late by any time, and
  giving up would say nothing about the link. `lost` counts, per address, the frames
  lost since its request was queued.

### RoutingTable and the code

An address is a function from bits to {0,1}; a bit is a byte and a position in it,
so that both the prefix order (byte 1 first) and the weight in the `uint32_t` of a
little-endian machine (last byte most) can be stated. The file is a sequence of
lines. A line has its four fields, or ends after some of them, or is blank; nobody
looks at what `sscanf` returns, so the fields that it lacks are those that the line
before left in the buffers (`Parsed`). Or it has an address that `inet_aton` rejects.
The first line is assumed to be complete (the buffers would be uninitialised) and masks
to be contiguous. `main` without a topology template loads the file twice.

### VnsSession and the code

* A client is one run of the process. `pc` is the command that
  `sr_read_from_server_expect` was called for (`auth_request`, `auth_status`,
  `rtable`), `loop` in the main loop, or how the process ended. One `Read...` action
  is one call of that function: the message is taken off `down`, handled, and the
  result decides whether the caller goes on. At the end of the stream there is no
  step, because `recv` returns 0 and the loop repeats; `ConnectionReset` is the other
  way a connection can break, in which `recv` returns -1.
* The handlers of `srhandler.py` run in the Twisted reactor (`Accept`, `Greet`,
  `HandleRecvMsg`) or in the POX thread (`HandleRouterInfo`, `HandleSRPacketIn`).
  `_handle_new_client` is two actions, since the POX thread may broadcast between
  `srclients.append` and the authentication request. `srclients` never shrinks, as
  in the code. An exception in a handler makes Twisted close the connection
  (`HandleOpenTemplate`, the last branch of `HandlePacketMsg`).
* A packet is its interface and whether it is long enough for
  `sr_arp_req_not_for_us` to look at it (`frame`). Which frames the router sends
  after a packet is left open: any, on any interface of its list.
* The switch has one fixed set of ports (`ofhandler.py:51`), but may connect late,
  again or never. Those of its ports that `IP_CONFIG` gives an address become
  interfaces (`Info`, from `ROUTER_IP`). `Extra` are commands that the client handles and
  `srhandler.py` never sends; they are external. Failures before `connect` succeeds
  are not distinguished from not starting, and one message is read at once (what that
  takes is in `StreamReader`).

### Forwarding and the code

* `handle_ip_packet` keeps nothing between two calls and sends at most one datagram,
  so the state is the one datagram under way (`pkt`), who receives it (`at`) and from
  whom (`via`, the source address of the frame). Its branches are actions:
  `WrongSum`, `Deliver`, `TimeExceeded`, `NetUnreachable`, `Forward`.
* A router's interface is named by the pair of the router and the neighbour on that
  link, and so is its address. `route` stands for `sr_longest_prefix_match`.
* `sum` is the header fields the checksum was taken over; the arithmetic is left out.
  A sum is then right for one header only, which is true of headers that differ in
  the TTL alone. What a host sends may also carry `OtherSum`, a checksum that is right
  and that `cksum` does not yield: 0 (see section 3), or that of a header with
  options, of which `handle_ip_packet` sums up the first 20 bytes only
  (`sr_router.c:124`). Routers discard it like a wrong one.
* `send_icmp_response` answers on the receiving interface, to the sender of the
  frame, with a full TTL (`INIT_TTL`, 255, the greatest value of the field). Before it
  sends anything it prints `icmp_sum` through `response_icmp_hdr` (`sr_router.c:422`),
  which was never assigned: the branches above declare pointers of the same name. So
  `SendIcmpResponse` is a choice: the read goes through and the response leaves
  (`SendBack`), or the process ends (the outcome "died"). A router whose process has
  ended takes no frames until somebody starts it again; they are lost frames then.
* The traceroutes recorded in `src/README.md:118-159` have no answer from the router in
  any of six runs, while it goes on forwarding. Nothing in the source accounts for a
  response that is neither sent nor fatal, and they may have been made with another
  version; to the model such a response is a lost frame, about which `Answered` says
  nothing.
* `Lose` is a frame lost on a link, or a next hop that does not answer ARP; the host
  unreachable of that case goes to the wrong link (see `doc_unreachable_to_sender`).
* `first`, `ttl0`, `hops` and `outcome` are history. `Forget` clears it between two
  exchanges, to keep the state space small.

### Checksum and the code

* The state is one packet and the locals of `cksum`. `Add` is an iteration of the
  first loop, or the odd byte; `Fold` one of the second. `Test` compares the result
  with the field that was saved before it was set to 0, `Forward` decrements the TTL in
  eight bits, `Respond` stands for the headers of `send_icmp_response`, `Store` writes
  the result into the packet.
* A byte has `Base` values, a word `Word`, which is its square, and the sum lives modulo
  `Reg`, the square of that: 256, 2^16 and 2^32 in the code.
  `htons` and the byte order of the field undo each other on a little-endian machine;
  what is modelled is the two bytes of the field. `total` is history: the sum without
  carries.
* A packet is shorter than `Word` bytes: the client takes no message above 10000
  (`sr_vns_comm.c:347`).
* Headers have no options. The code sums up `sizeof(sr_ip_hdr_t)` bytes whatever `ip_hl`
  says, so it discards one that has them although its checksum is right; that is not
  modelled here, and is `OtherSum` in `Forwarding`.

### StreamReader, InterfaceList, FrameOutput, ClientIO and the code

* `StreamReader`: `recv` and `read` return any number of bytes from one up to what was
  asked for. Nothing happens between two bytes of one call, so each byte has a step.
  A call that is interrupted or returns 0 is repeated by the loop and is no step.
  `CheckLen` is `ntohl` and the comparison with the limit, `Dispatch` the switch. A
  message carries its own length (`ReaderAssumption`), which the server guarantees.
* `InterfaceList`: entry `i` of the message is one of the six of interface `i \div 6`.
  The setters write to the last interface of the list, as in `sr_if.c`, and a new one
  has `Garbage` in the fields that `malloc` does not set. The names in a server's list
  are distinct, being the keys of a dictionary.
* `FrameOutput`: the C library locks the FILE for one call, so `fwrite` of the header,
  `fwrite` of the contents and `fflush` are one step each and the other thread may come
  between. `buffer` is what the FILE holds back; `Die` loses it, at any point.
  `CloseLog` is `fclose` in `sr_destroy_instance`; after it a write of the timeout
  thread has no effect or kills the process. Time stamps are left out.
* `ClientIO`: main reads (`MainReads`), handles what it read (`ReceiveHwInfo`,
  `ReceiveClose`, `ReceivePacket`, ...) and reads on. `sr_handlepacket` is left open: it
  sends any frames and may queue the packet, after which the timeout thread sends any
  frames too, or dies of what `ArpCache` shows. A packet on an interface that is not
  on the list ends the process (`UnknownInterface`): by the assertion of
  `sr_arp_req_not_for_us`, or for one too short to get there by the null pointer.

## 3. Runs

Bounds: three packets, two of which share a next hop, so that a request has one or
two packets and the queue one or two requests; two interfaces; one or two cache
slots, so that the cache fills up; `ArpcacheTO` 1 and `MaxSends` 2 (15 and 5 in the
code), the smallest values for which an entry ages before it expires and a request
is sent more than once before the router gives up. Two request addresses suffice
because there are two next hops and `QueueSound` allows one request for each; a
request that main takes off the queue keeps its address until it is freed.
`MaxCount` 4 is where the history counter saturates, above `MaxSends`. `MCArpLink` has
`MaxSends` 3, so that a retry is neither the first nor the last.
Addresses in `MCRoutingTable` have two bytes of two bits, so that prefixes end
inside the first byte, at its end and inside the second; files have up to three
lines, of which the second and the third may end after any field, with gateways and
interfaces of their own, so that it shows where a field comes from.

`MCVnsSession` has two clients, one with a routing table that may not fit the switch,
one with a template, and a switch with a port that has no name; a client is hit by the
one packet in every phase of its session, in one behaviour or another. `MCForwarding` has three
routers in a line with a host at each end, the smallest network in which a datagram
can be in a loop that neither end is part of and an error has to make a detour; all
729 choices of routes to the hosts are initial states, among them loops, holes and
misdeliveries. `MaxTTL` 4 is the least with which a full TTL gets an error from the
end of a detour to its destination. Hosts send with TTL 4, which crosses the line of
routers and, in a loop, takes every smaller value on the way, or with TTL 0, which the
router wraps around; with the checksum `cksum` yields, with a wrong one, or with
`OtherSum`. A router may die of any response.

`MCChecksum` has bytes of two bits, headers of three words and messages with an odd byte
after three words: sums that need no folding, one and two, and do not fit a word. All values of the checksum
field occur, and all other bytes but one value. `MCClientIO` has messages of three to
six bytes, the length in the first two, below, at and above the limit; servers with none
to two interfaces, of which the routing table needs one; frames that are too short, that
have the wrong source address and that the log cuts off; `MaxSent` 3 is enough for
HWINFO, a packet and what follows it.

| Run | Checks |
|---|---|
| `safety` | `TypeOK`; `QueueSound`: the queue is live, non-empty lists, one request per next hop; `NoRequestLeaked`: allocated = queued or owned by the reply path; `SweepFollowsQueue`: the sweep's remainder is the queue's tail; `NoPacketLost`; `OneFate`: at most one outcome, only host unreachable may be doubled; `CorrectNextHop`; `UnreachableEarned`: giving up only after `MaxSends` real broadcasts |
| `delivery` | `SettlesEventually` (ArpCache implements `Delivery`, with its liveness), `SweepEnds`, `EntriesExpire` |
| `link` | `LinkTypeOK`; `ReachesOwner`: on lossy links packets reach the station that owns the next hop, and none is refused; `UnreachableMeansLost`: the router gives up only after the exchanges with the station have failed |
| `routing` | `TypeOK`; `TableIsFile`: after two loads the table is the file, field by field; `LongestMatch`: what the walk returns is the first of the longest matching prefixes, and it misses none that is not empty |
| `session` | `TypeOK`; `HandledWhenInitialised`: no packet reaches `sr_handlepacket` before `sr_init`; `ReadyKnowsPorts`: a ready client knows the interface of every packet in its stream; `PacketOutHasPort`: the server knows the port of every frame; `ConnectSettles`: no client hangs in the handshake of a standing connection; `ReadyIfInfoFirst`; `CloseEnds` |
| `forwarding` | `TypeOK`; `HopBound`: the TTL bounds the forwards; `SumsRight`; `Answered`: the sender of a request hears of its end, unless a frame is lost, a router dies or the request carries `OtherSum`; `Quiesces`: every exchange ends, errors about errors included |
| `io` | `TypeOK`; `DeliversAll` (the client implements `MessageStream`, with its liveness); `ListIsHardware`: a ready client's list is the server's; `SourceTrue`: what leaves has the address of its interface; `WireLogged`: the log is ahead of the wire; `PacketLoggedFirst`: a packet is on the disk before it is handled |
| `checksum` | `TypeOK`; `SumsEveryByte`: the register of `cksum` holds all of the sum that RFC 1071 defines when the loop ends; `AcceptsRight`: the comparison accepts the right checksums but 0; `SentRight`; `Ends` |

`UnreachableMeansLost` says `MaxSends - 1` and not `MaxSends`. With `MaxSends` TLC finds it
violated: main finds a request due, the sweep sends it for the last time, and main, which
has read `times_sent` after that, gives up without waiting for the answer.

In `routing` the router may stop (a bad line ends the program), in `io` the process ends,
and `checksum` is a function that returns, so deadlock is not checked there; everywhere
else it is: the clock never stops, the switch may connect again, hosts may send again.

Runs that are expected to find a violation state what a comment of the repository
says and show a behaviour of the code that contradicts it:

| Run | Comment | What happens |
|---|---|---|
| `doc_save_next` | `sr_arpcache.h:61-63` | the sweep reads `next` of a freed request |
| `doc_unreachable_to_sender` | `sr_arpcache.h:29-30` | host unreachable leaves by the wrong interface |
| `doc_assert_iface` | `sr_vns_comm.c:617` | a packet broadcast before HWINFO fails the assertion |
| `doc_default_route` | `sr_rt.c:161-162`, `INSTRUCTIONS:58` | a default route matches and is not found: its mask of 0 is not greater than the 0 the walk starts with |

`LongestMatch` leaves room for the last one: it holds of the code as it is, and would hold
of a router that finds default routes. `AcceptsRight` does the same for a checksum of 0.

Other places where the model, like the code, does not do what a text of the
repository says. They have no run of their own; the passing runs hold in spite of
them:

* `sr_arpcache_queuereq` gives up the lock before it returns the request, which "should
  not be freed" (`sr_arpcache.c:192`); the sweep may free it before main, or while main,
  runs `handle_arpreq` on it: `UseAfterFree`.
* An echo request gets no reply (`sr_router.c:138-139`) if the read at `sr_router.c:422`
  ends the process: hence the exception for "died" in `Answered`.
* A header with a correct checksum of 0 is discarded (`sr_router.c:116`), because `cksum`
  returns 0xffff in its place (`sr_utils.c:25`): hence the exception in `AcceptsRight`.
* Both threads may find a request due and broadcast in the same second
  (`sr_router.c:226-227`), and an increment of `times_sent` lost to the race lets more
  than five requests out (`sr_arpcache.h:51-52`). `UnreachableEarned` shows that the
  race never goes the other way.
* The records of the two threads may be torn apart in the log, which is then no longer
  in "tcpdump format" (`sr_dumper.h:2`): hence `InFile` asks for header and contents in
  order, not next to each other. The length in a record is that of what was kept, also for
  a packet that was cut off (`sr_vns_comm.c:595`).
* A full cache does not take a new mapping (`sr_arpcache.c:234`, `:332`): `StoreEntry`.
* A reply that comes in on another interface than the route's makes `sr_send_packet`
  refuse the queued packets, which are then freed (`sr_arpcache.h:46`): `Dropped`.
* OPEN before RouterInfo gets no HWINFO, then or later, and the client never gets
  ready (`INSTRUCTIONS:44`, `:69`): hence the premise of `ReadyIfInfoFirst`.
* When the server closes the connection in the handshake `recv` returns 0 and the loop
  at `sr_vns_comm.c:330` repeats for ever (`sr_vns_comm.c:64-67`): hence the premise
  of `ConnectSettles`.
* A datagram that arrives with TTL 0 is forwarded with TTL 255 (`sr_router.c:174`):
  hence the bound of `MaxTTL` hops for TTL 0 in `HopBound`.

Fairness (`ArpCache!Fairness`): time passes (weak fairness of `Tick`); the timeout
thread is scheduled (weak); main, once it has a frame, is scheduled and gets the
mutex (strong, because the mutex is free again and again but not all the time: the
other thread sleeps for a second after each sweep). No fairness is assumed of the
network: no frame and no reply has to arrive.

`VnsSession!Fairness`: the reactor accepts, greets and handles what has arrived, and a
client reads what has arrived (weak: nothing but the actor itself disables these
steps). The switch need not connect, nobody has to start a client, connections may
break. `Forwarding!Fairness`: whoever has received a datagram handles it.
`Checksum` runs to its end (weak fairness of its steps). In `ClientIO` main keeps running
(weak fairness of `MainStep`); the server need not send anything, and nothing is assumed of
the timeout thread.
`Quiesces` rests on the routes to the routers' own addresses being right, as they are
in `MCForwarding`; with those looping too, errors about errors would not end.

## 4. Theorems

`ArpCacheProofs` proves for arbitrary packets, next hops, replies, cache sizes and
limits that `TypeOK`, `QueueSound`, `NoRequestLeaked`, `SweepFollowsQueue` and
`NoPacketLost` are invariants. None of them is inductive alone. `Inv` joins the
first four with `LockHeld` (the mutex is held exactly while the timeout thread is
awake) and `ArgsGiven` (a thread at a given place has the packet, address or
request it works on): that a step of main leaves the sweep's remainder alone needs
the lock, that unlinking keeps the remainder the tail of the queue needs the
position of the sweep's request, and that the queue stays live needs the reply path
to own what it took. `LostInv` adds to it that main holds a packet only between
lookup and what follows (`ArgClear`), and that a thread walking over a request's
packets has settled each of them or has it still before it (`WalkCovers`); so all
are settled when the request is freed, also when both threads walk over it. `Inv` is
proved for steps with any replies (`StepWith`), so that it carries over to
`ArpCacheHistory` and to `ArpLink`, whose replies are frames on the link.

`ArpCacheDeliveryProofs` proves `CorrectNextHop`, `OneFate` and `SettlesOnce`, the safety
part of the refinement of `Delivery`.

* `CorrectNextHop`: `HopInv(A)` says, for a set `A` of replies that may come, that entries,
  copies of entries and the reply at hand are among `A`, that the packets of a request
  are those for its address, and that what was sent to a station follows from them. The
  copy that main has got from `sr_arpcache_lookup` may outlive its entry; it needs a
  clause of its own.
* `OneFate`: `FateInv` says that a packet is in one place at most, not yet here, in main's
  hands, or once in one request (`PlacedOnce`), where a walk over a request's list is
  (`WalkPlace`), and that what was sent because of a packet still on a list was sent by the
  threads that have passed it, once by each (`SettledInPassing`). Both threads may walk
  over one list to send host unreachable; the reply path owns the request it walks over,
  so nobody has given up on its packets. That is why only host unreachable may be doubled.
* `SettlesOnce`: each step is an `Accept`, a `Settle`, a `GoDown` or a stuttering step of
  `Delivery`. A second host unreachable is a stutter: the mapping takes the last word on a
  packet, which is the same as the first.

`ArpLinkProofs` proves `UnreachableEarned` for `ArpCacheHistory`, and `LinkTypeOK`,
`ReachesOwner` and `UnreachableMeansLost` for `ArpLink`, for any number of stations,
frames and retries.

* `UnreachableEarned`: `CountEarned` and `RegEarned` say that neither `times_sent` nor what a
  thread is about to store in it exceeds the broadcasts that really left, until
  `MaxSends` have left. A lost update only makes `times_sent` smaller, so it survives the
  race.
* `ReachesOwner`: `AirSound` says that the frames on the links are the router's questions,
  each on the link of the address it asks for, and their true answers. So `HopInv` holds
  with the true replies alone (`TrueReplies`), and the interface a queued packet is checked
  against is that of its route.
* `UnreachableMeansLost`: `Account` says, for each queued request, that what left for it is
  lost or still on the air; that all of it is lost when the request is due, or when both
  threads have found it due; and that all but one is lost when one thread has, since the
  other may have sent since: this is the one by which the property falls short of
  `MaxSends`. `Fresh` says that no second begins between a thread's look at the clock and
  its use of it, so a request that was just sent is not due.

`RoutingTableProofs` proves the type invariant, `TableIsFile` for every file, and
`LongestMatch` for every table, destination and address width. For the loads, `Left`
says what the first lines have left in the buffers: of each field what the last line
that has it says. The core of the match is
`GreaterIsLonger`: among netmasks the order of little-endian integers is the order
of prefix lengths, so the byte order in `sr_longest_prefix_match` does no harm.

`VnsSessionProofs` proves `TypeOK`, `HandledWhenInitialised`, `ReadyKnowsPorts` and
`PacketOutHasPort` for any number of clients, interfaces and packets. The two sides
never see each other's tables; the stream ties them together, so the inductive
invariant says what every message in it says (`DownSound`: packets have ports the
server knows, HWINFO has all of them), that the server knows all ports or none
(`ServerSound`), and that a client's list is empty or complete (`ListsSound`).
`OffSound` keeps a process that has not started away from all that.

`ForwardingProofs` proves `TypeOK`, `HopBound`, `SumsRight` and `Answered` for every
network, all routing tables and every `MaxTTL`. `Life` says that the TTL and the forwards
add up to the TTL the datagram set out with, or to `MaxTTL + 1` if that was 0.
For `Answered`, `Course` says where an exchange can be: the request is on its way, with
no host behind it but its sender and none ahead but its destination (`Underway`), or an
answer is on its way back, with at least two more in its TTL than the rank of the router
that has it (`Back`). An answer then is never for a router, never expires and always
finds a route, so no answer to an answer comes into it. The proof attempt showed that the
ranks have to be bounded: with routes longer than `INIT_TTL - 1` hops the answer itself
expires and the host may hear nothing, which three routers are too few to show. So
`Reaches` asks for ranks up to `INIT_TTL - 2`, 253 in the code. The theorem is about
requests with the checksum that `cksum` yields and about exchanges in which no frame is
lost and no router dies over its response: how often the read at `sr_router.c:422` is
survived is a matter of the build, and no proof about the source can say.

`ChecksumProofs` proves `TypeOK`, `SumsEveryByte`, `AcceptsRight` and `SentRight` for every
`Base` and packets of every length below `Word`. Its invariant says that `total` exceeds
`sum` by a multiple of `Ones` (each fold takes one or more away) and that `sum` is 0 exactly
if `total` is: the two zeros of one's complement are told apart by that. That the
sum stays in the register is a bound on it that grows with `i` and that a packet shorter
than `Word` never takes to `Reg` (`RegSize`); so `sum` and `total` are the same until
folding starts, and `SumsEveryByte` speaks of both.
The reference of `SumsEveryByte` is a sum over the set of positions, defined by a recursive
function that takes out an element of the set's choosing. `SumExists`, `SumType` and
`SumAnyOrder` show that there is such a function, that it is a natural number, and that
any element can be taken out first; then `PrefixSummed` says that the total is the sum over
the positions before `i`. These are inductions on the size of a set. The library's theorems
on induction have a predicate as a parameter and cannot be applied here; the lemmas take a
least counterexample instead, which exists because `<` on the naturals is well-founded
(`LeastNatural`, `SmallestSubset`).

`ClientIOProofs` takes the parts of the client one by one, then the client.

* `InterfaceList`: `HwTypeOK` and `ListIsHardware`, for any number of interfaces. `Built`
  says what the first `i` entries have made of the list: its length is `(i + 5) \div 6`,
  and of each interface which of its fields are set by then.
* `StreamReader` implements the safety part of `MessageStream`, for every size of the
  length field and every limit. `Place` ties the place in the stream to the bytes in the
  buffer (which are the beginning of the message that comes next), `Prefix` says that the
  messages handled are the first ones sent.
* `FrameOutput`: `WireLogged`. `OutLogged` says how far each thread's record has got: the
  header in what was written to the FILE, then all of it, then all of it in the file; a
  step of the other thread only adds to that.
* `ClientIO`: everything that the run `io` checks, but for liveness. The composition rests
  on `Parts`: a step of the client is a step of each part or leaves it alone, so the
  parts' invariants carry over. `Flow` and `ReadyFirst` are what the composition adds:
  main is at one message at a time, so nobody sends before the list is complete, and
  `sr_ether_addrs_match_interface` never reads a half-built one; the log is open as long
  as main handles a packet.

Assumptions: `FunAssumption`, `NumAssumption`, `NullAssumption` (types of the
constants, `Null` is a value apart), `SizeAssumption`, `FileAssumption`,
`SessionAssumption` and `ForwardingAssumption` (types of the constants; links go both
ways, a route leads to a neighbour), `NothingAssumption` (no datagram is `Nothing`, and
`cksum` does not yield `OtherSum`), `ChecksumAssumption` (the field is word-aligned, as
in both headers, and a packet is shorter than `Word`), `ReaderAssumption` (a
message carries its length), `HardwareAssumption` (names are distinct),
`OutputAssumption` and `ItemAssumption` (frames and received packets are told apart, and
what is received can be logged), `LinkAssumption` (a packet leaves by the interface of
its next hop's link). TLC evaluates all of them.

Only model-checked: the liveness properties (`SettlesEventually`, `SweepEnds`,
`EntriesExpire`, `ConnectSettles`, `ReadyIfInfoFirst`, `CloseEnds`, `Quiesces`, `DeliversAll`,
`Ends`), because fairness and ENABLED are out of the prover's reach. Of the two that are
refinements, `SettlesEventually` and `DeliversAll`, the safety part is proved
(`CacheDelivers`, `ReaderRefines` and `ClientReadsInOrder`). Every invariant that a
passing run checks is stated by a theorem.

## 5. What is not modelled, and the plan

Not modelled: SHA-1 (third-party code kept with the router, a function of the key and
the salt whose result the server ignores), printing, `sr_handle_rtable` (this server never sends a routing table), the
Mininet script and the web servers, POX, Twisted and the switch. Of the OpenFlow handler
the events are modelled, not the OpenFlow messages, which POX passes on.

A connection that has gone stays in `srclients` (`srhandler.py:125`); what is written to
it is lost, in the model as in Twisted, and no property depends on it.

Next: the safety half of the termination arguments, a measure for each that every step
decreases: what is left of the packet and of the sum for `Ends`, of the TTL and of the way
back for `Quiesces`, of the queue for `SweepEnds`. The step from there to the liveness
property is fairness and stays with TLC.
